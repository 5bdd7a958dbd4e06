------------------------------ MODULE Networks ------------------------------
(***************************************************************************)
(* The network of an isolated plan (namespaces/mod.rs, namespaces/net.rs): *)
(* a holder process that owns the namespace and a slirp process that gives *)
(* it a way out, made by whoever needs them first, a turn or the King's    *)
(* terminal; the doors a watcher opens on the host for what listens        *)
(* inside; the relays they need, and those of the wells.  The processes    *)
(* outlive the server; the registry does not.                              *)
(*                                                                         *)
(* The namespaces made for the plan are numbered in the order they are     *)
(* made.  The plan's control socket and pidfile have one path for all.     *)
(***************************************************************************)
EXTENDS Naturals, FiniteSets

CONSTANTS
    Port,       \* ports used inside
    MaxSpaces,  \* namespaces made
    MaxBlows    \* steps that fail, and restarts of the server

ASSUME NetworksAssumption == MaxSpaces \in Nat

VARIABLES
    registry,  \* the namespace in NAMESPACES, or 0
    made,      \* namespaces made so far
    holders,   \* holder processes alive
    slirps,    \* slirp processes alive
    sock,      \* whose control socket is at the path, or 0
    pidfile,   \* whose processes the pidfile names, or 0
    caller,    \* each caller's step in ensure, and the namespace it is making
    doors,     \* forwards of the registered namespace: port to its relay or not
    wells,     \* ports of the wells on its loopback
    serving,   \* what the agent serves in it
    watcher,   \* the watcher's step, and what it read
    ended,     \* the plan is settled
    collided,  \* history: two callers made a namespace at once
    mislaid,   \* history: processes left by a create that failed half way
    blows

svars == <<registry, made, holders, slirps, sock, pidfile, caller, doors, wells,
           serving, watcher, ended, collided, mislaid, blows>>

Caller == {"turn", "panel"}  \* who may ask: a turn, the King's terminal
Space == 1 .. MaxSpaces
NoDoor == "none"
Unread == [at |-> "none", space |-> 0, add |-> {}, drop |-> {}]

SInit ==
    /\ registry = 0 /\ made = 0 /\ holders = {} /\ slirps = {}
    /\ sock = 0 /\ pidfile = 0
    /\ caller = [c \in Caller |-> [at |-> "idle", space |-> 0]]
    /\ doors = [p \in Port |-> NoDoor] /\ wells = {}
    /\ serving = [p \in Port |-> "none"]
    /\ watcher = Unread
    /\ ended = FALSE /\ collided = FALSE /\ mislaid = {}
    /\ blows = 0

Files == <<sock, pidfile>>
Inside == <<doors, wells, serving>>
History == <<collided, mislaid>>

Blow == blows < MaxBlows /\ blows' = blows + 1

\* Nothing lives in a namespace whose holder is gone.
Emptied == /\ doors' = [p \in Port |-> NoDoor] /\ wells' = {}
           /\ serving' = [p \in Port |-> "none"]

Making == {"forking", "socket", "finishing", "registering"}

At(c, step) == caller' = [caller EXCEPT ![c].at = step]

-----------------------------------------------------------------------------
(* ensure: one check, several awaits, another check.                       *)

\* A settled plan takes no turn, but its terminal is not refused.
MayAsk(c) == caller[c].at = "idle" /\ (ended => c = "panel")

AlreadyThere(c) ==
    /\ MayAsk(c)
    /\ registry # 0
    /\ At(c, "in")
    /\ UNCHANGED <<registry, made, holders, slirps, Files, Inside, watcher, ended,
                   History, blows>>

ReclaimedNot(processes) == processes

\* What is left of the processes once those the pidfile names are killed.
Reclaimed(processes) == processes \ {pidfile}

\* create: whatever the pidfile names is killed and both files go, and a holder
\* is started.
StartOver(c) ==
    /\ MayAsk(c)
    /\ registry = 0 /\ made < MaxSpaces
    /\ made' = made + 1
    /\ caller' = [caller EXCEPT ![c] = [at |-> "forking", space |-> made + 1]]
    /\ holders' = Reclaimed(holders) \cup {made + 1}
    /\ slirps' = Reclaimed(slirps)
    /\ IF pidfile = 0 THEN UNCHANGED Files ELSE sock' = 0 /\ pidfile' = 0
    /\ collided' = (collided \/ \E d \in Caller : caller[d].at \in Making)
    /\ UNCHANGED <<registry, Inside, watcher, ended, mislaid, blows>>

\* The namespace is there: an old socket is removed and slirp is started.
StartSlirp(c) ==
    /\ caller[c].at = "forking"
    /\ sock' = 0
    /\ slirps' = slirps \cup {caller[c].space}
    /\ At(c, "socket")
    /\ UNCHANGED <<registry, made, holders, pidfile, Inside, watcher, ended, History, blows>>

\* unshare makes no namespace, and is killed; or slirp cannot be started, and
\* the holder is left as it is.
ForkFails(c) ==
    /\ caller[c].at = "forking"
    /\ Blow
    /\ At(c, "idle")
    /\ \/ holders' = holders \ {caller[c].space} /\ mislaid' = mislaid
       \/ holders' = holders /\ mislaid' = mislaid \cup {caller[c].space}
    /\ UNCHANGED <<registry, made, slirps, Files, Inside, watcher, ended, collided>>

\* slirp puts its socket at the path, in place of any other.
SlirpListens(s) ==
    /\ s \in slirps /\ \E c \in Caller : caller[c] = [at |-> "socket", space |-> s]
    /\ sock' = s
    /\ UNCHANGED <<registry, made, holders, slirps, pidfile, caller, Inside, watcher,
                   ended, History, blows>>

SocketThere == sock # 0

\* A socket is there, and the two processes are written down.
RememberPids(c) ==
    /\ caller[c].at = "socket" /\ SocketThere
    /\ pidfile' = caller[c].space
    /\ At(c, "finishing")
    /\ UNCHANGED <<registry, made, holders, slirps, sock, Inside, watcher, ended,
                   History, blows>>

\* No socket in two seconds: slirp is killed, and unshare, but not its child.
NoSocket(c) ==
    /\ caller[c].at = "socket"
    /\ Blow
    /\ slirps' = slirps \ {caller[c].space}
    /\ mislaid' = mislaid \cup {caller[c].space}
    /\ At(c, "idle")
    /\ UNCHANGED <<registry, made, holders, Files, Inside, watcher, ended, collided>>

\* A sealed plan's filesystem is built, or is not.
RootBuilt(c) ==
    /\ caller[c].at = "finishing"
    /\ At(c, "registering")
    /\ UNCHANGED <<registry, made, holders, slirps, Files, Inside, watcher, ended,
                   History, blows>>

RootNotBuilt(c) ==
    /\ caller[c].at = "finishing"
    /\ Blow
    /\ slirps' = slirps \ {caller[c].space}
    /\ At(c, "idle")
    /\ \E survives \in BOOLEAN :
        holders' = IF survives THEN holders ELSE holders \ {caller[c].space}
    /\ UNCHANGED <<registry, made, Files, Inside, watcher, ended, History>>

\* The first to get here is registered.  The other takes down what it made,
\* and with it the files at the path they share.
Register(c) ==
    /\ caller[c].at = "registering"
    /\ At(c, "in")
    /\ IF registry = 0
       THEN /\ registry' = caller[c].space
            /\ Emptied
            /\ UNCHANGED <<holders, slirps, Files>>
       ELSE /\ holders' = holders \ {caller[c].space}
            /\ slirps' = slirps \ {caller[c].space}
            /\ sock' = 0 /\ pidfile' = 0
            /\ UNCHANGED <<registry, Inside>>
    /\ UNCHANGED <<made, watcher, ended, History, blows>>

-----------------------------------------------------------------------------
(* What callers do once in: watch, and open the wells.                     *)

\* One watcher at a time, told by a mark that outlives its loop a little.
WatchDoors(c) ==
    /\ caller[c].at = "in"
    /\ At(c, "wells")
    /\ watcher' = IF watcher.at = "none" THEN [Unread EXCEPT !.at = "asleep"] ELSE watcher
    /\ UNCHANGED <<registry, made, holders, slirps, Files, Inside, ended, History, blows>>

\* A well's relay takes the port on the loopback, if nobody has it.
OpenWells(c) ==
    /\ caller[c].at = "wells"
    /\ At(c, "idle")
    /\ \E ports \in SUBSET Port :
        wells' = IF registry \in holders
                 THEN wells \cup {p \in ports : serving[p] = "none"} ELSE wells
    /\ UNCHANGED <<registry, made, holders, slirps, Files, doors, serving, watcher,
                   ended, History, blows>>

\* The agent starts a server on the loopback or on every address; a door's
\* relay has the port on the outer address.
Serve(p, kind) ==
    /\ registry \in holders
    /\ serving[p] = "none" /\ p \notin wells
    /\ kind = "every" => doors[p] # "relay"
    /\ serving' = [serving EXCEPT ![p] = kind]
    /\ UNCHANGED <<registry, made, holders, slirps, Files, caller, doors, wells, watcher,
                   ended, History, blows>>

StopServing(p) ==
    /\ serving[p] # "none"
    /\ serving' = [serving EXCEPT ![p] = "none"]
    /\ UNCHANGED <<registry, made, holders, slirps, Files, caller, doors, wells, watcher,
                   ended, History, blows>>

-----------------------------------------------------------------------------
(* The watcher.                                                            *)

\* A door's own relay is in the table too, and is taken for a server.
ListeningInside(s) ==
    IF s \notin holders THEN {}
    ELSE {p \in Port : serving[p] # "none" \/ doors[p] = "relay"} \ wells

ToDropIfRelayed(known) == {p \in known \ ListeningInside(registry) : doors[p] = "relay"}

\* The doors of servers that are gone.
ToDrop(known) == known \ ListeningInside(registry)

\* Reads what is listening and which doors there are; or finds the network gone.
Poll ==
    /\ watcher.at = "asleep"
    /\ watcher' =
        IF registry = 0 THEN [Unread EXCEPT !.at = "leaving"]
        ELSE LET known == {p \in Port : doors[p] # NoDoor} IN
             [at |-> "busy", space |-> registry,
              add |-> ListeningInside(registry) \ known, drop |-> ToDrop(known)]
    /\ UNCHANGED <<registry, made, holders, slirps, Files, caller, Inside, ended,
                   History, blows>>

\* The control socket answers for the registered namespace.
Answers == registry # 0 /\ registry \in slirps /\ sock = registry

\* A door is shut and its relay killed, if slirp agrees.
DropDoor(p) ==
    /\ watcher.at = "busy" /\ p \in watcher.drop
    /\ watcher' = [watcher EXCEPT !.drop = @ \ {p}]
    /\ doors' = IF Answers THEN [doors EXCEPT ![p] = NoDoor] ELSE doors
    /\ UNCHANGED <<registry, made, holders, slirps, Files, caller, wells, serving,
                   ended, History, blows>>

\* A door is opened, with a relay in the namespace that was read, unless the
\* server has the outer address too.
AddDoor(p) ==
    /\ watcher.at = "busy" /\ watcher.drop = {} /\ p \in watcher.add
    /\ watcher' = [watcher EXCEPT !.add = @ \ {p}]
    /\ doors' = IF Answers
                THEN [doors EXCEPT ![p] =
                          IF serving[p] = "every" \/ watcher.space # registry
                          THEN "direct" ELSE "relay"]
                ELSE doors
    /\ UNCHANGED <<registry, made, holders, slirps, Files, caller, wells, serving,
                   ended, History, blows>>

\* slirp refuses every port it is offered.
DoorRefused(p) ==
    /\ watcher.at = "busy" /\ watcher.drop = {} /\ p \in watcher.add
    /\ Blow
    /\ watcher' = [watcher EXCEPT !.add = @ \ {p}]
    /\ UNCHANGED <<registry, made, holders, slirps, Files, caller, Inside, ended, History>>

Sleep ==
    /\ watcher.at = "busy" /\ watcher.add = {} /\ watcher.drop = {}
    /\ watcher' = [Unread EXCEPT !.at = "asleep"]
    /\ UNCHANGED <<registry, made, holders, slirps, Files, caller, Inside, ended,
                   History, blows>>

\* The mark goes a moment after the loop has ended.
StopWatching ==
    /\ watcher.at = "leaving"
    /\ watcher' = Unread
    /\ UNCHANGED <<registry, made, holders, slirps, Files, caller, Inside, ended,
                   History, blows>>

-----------------------------------------------------------------------------
(* The end.                                                                *)

\* finish_plan takes the network down first, and may still be refused by git.
Shutdown(settles) ==
    /\ ~ended /\ registry # 0
    /\ registry' = 0
    /\ holders' = holders \ {registry} /\ slirps' = slirps \ {registry}
    /\ sock' = 0 /\ pidfile' = 0
    /\ Emptied
    /\ ended' = settles
    /\ UNCHANGED <<made, caller, watcher, History, blows>>

\* The server dies: what was being made is in no file, unless it got that far.
ServerRestarts ==
    /\ Blow
    /\ registry' = 0
    /\ mislaid' = mislaid \cup
           {caller[c].space : c \in {d \in Caller : caller[d].at \in {"forking", "socket"}}}
    /\ caller' = [c \in Caller |-> [at |-> "idle", space |-> 0]]
    /\ doors' = [p \in Port |-> NoDoor] /\ wells' = {}
    /\ watcher' = Unread
    /\ UNCHANGED <<made, holders, slirps, Files, serving, ended, collided>>

SNext ==
    \/ \E c \in Caller :
        \/ AlreadyThere(c) \/ StartOver(c) \/ StartSlirp(c) \/ ForkFails(c)
        \/ RememberPids(c) \/ NoSocket(c) \/ RootBuilt(c) \/ RootNotBuilt(c)
        \/ Register(c) \/ WatchDoors(c) \/ OpenWells(c)
    \/ \E s \in Space : SlirpListens(s)
    \/ \E p \in Port :
        \/ \E kind \in {"loop", "every"} : Serve(p, kind)
        \/ StopServing(p) \/ DropDoor(p) \/ AddDoor(p) \/ DoorRefused(p)
    \/ Poll \/ Sleep \/ StopWatching
    \/ \E settles \in BOOLEAN : Shutdown(settles)
    \/ ServerRestarts

\* The watcher is a task of its own: it wakes every second and goes on.
SFair ==
    WF_svars(Poll \/ Sleep \/ StopWatching \/ \E p \in Port : DropDoor(p) \/ AddDoor(p))

SSpec == SInit /\ [][SNext]_svars /\ SFair

-----------------------------------------------------------------------------
(* Properties.                                                             *)

\* Every variable keeps to the values the code gives it.
STypeOK ==
    /\ registry \in Space \cup {0} /\ made \in Space \cup {0}
    /\ holders \subseteq Space /\ slirps \subseteq Space
    /\ sock \in Space \cup {0} /\ pidfile \in Space \cup {0}
    /\ caller \in [Caller -> [at : Making \cup {"idle", "in", "wells"},
                              space : Space \cup {0}]]
    /\ doors \in [Port -> {NoDoor, "direct", "relay"}] /\ wells \subseteq Port
    /\ serving \in [Port -> {"none", "loop", "every"}]
    /\ watcher \in [at : {"none", "asleep", "busy", "leaving"}, space : Space \cup {0},
                    add : SUBSET Port, drop : SUBSET Port]
    /\ ended \in BOOLEAN /\ collided \in BOOLEAN /\ mislaid \subseteq Space

\* Unless two callers made it at once, the registered network works, both its
\* processes alive and the socket and the pidfile its own; and, unless a create
\* failed half way either, every process of every network ever made is in the
\* registry, in the making, or in the pidfile where the next server finds it
\* (net.rs, reclaim_previous).
NoSpaceForgotten ==
    ~collided =>
        /\ registry # 0 =>
            /\ registry \in holders /\ registry \in slirps
            /\ sock = registry /\ pidfile = registry
        /\ (holders \cup slirps) \ mislaid
            \subseteq {registry, pidfile} \cup
                        {caller[c].space : c \in {d \in Caller : caller[d].at \in Making}}

\* What keeps being served gets a door on the host, and the door of a server
\* gone for good is shut unless a relay holds its port (net.rs, reconcile).
DoorsFollowServers ==
    \A p \in Port :
        /\ (Answers /\ watcher.at \in {"asleep", "busy"} /\ serving[p] # "none" /\ p \notin wells)
           ~> (doors[p] # NoDoor \/ serving[p] = "none" \/ ~Answers)
        /\ (Answers /\ watcher.at \in {"asleep", "busy"} /\ serving[p] = "none" /\ doors[p] = "direct")
           ~> (doors[p] = NoDoor \/ serving[p] # "none" \/ ~Answers)
=============================================================================
