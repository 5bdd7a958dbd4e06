--------------------------------- MODULE Wells --------------------------------
(***************************************************************************)
(* The containers that the plans of a city share (services/mod.rs,         *)
(* services/docker.rs): passes that raise what the live plans draw from    *)
(* and stop what nobody does, one pass at a time, each over the population *)
(* it was given when it was spawned; plans that require their wells before *)
(* a turn; a daemon that comes and goes and containers that die.           *)
(*                                                                         *)
(* Two scopes: the King's machine, with one service, and a city with two.  *)
(* One agent works in that city, the other in a city that declares none.   *)
(***************************************************************************)
EXTENDS Naturals, Sequences

CONSTANTS
    MaxPasses,      \* passes spawned in all
    MaxMishaps      \* daemon outages, deaths, late starts, restarts

ASSUME WellsAssumption == MaxPasses \in Nat /\ MaxMishaps \in Nat

VARIABLES
    alive,      \* the agents that agents_drawing would list
    spawned,    \* passes not begun, each with its population and number
    pass,       \* the pass that holds RAISING, if one does
    container,  \* container[s]: what the daemon has under the service's name
    running,    \* Registry.running[s]: as "ours", as "his", or not there
    users,      \* Registry.users[s]
    daemon,     \* whether docker answers this process
    granted,    \* agents whose turn has required its wells and been let go on
    raised,     \* containers this process started or adopted
    excused,    \* containers it lost sight of by an outcome the code accepts
    ran,        \* the number of the newest pass that has begun
    overtaken,  \* an older pass has begun after a newer one
    count, mishaps

lvars == <<alive, spawned, pass, container, running, users, daemon, granted,
           raised, excused, ran, overtaken, count, mishaps>>

Drawer == {"neighbour", "citizen"}
ScopesFor(a) == IF a = "citizen" THEN {"host", "city"} ELSE {"host"}
ServicesOf(scope) == IF scope = "host" THEN <<"redis">> ELSE <<"mongo", "queue">>
Services == {"redis", "mongo", "queue"}
ScopeOf(s) == IF s = "redis" THEN "host" ELSE "city"
\* wanted: the keys of a population, in the order of their names.
Wanted(people) == UNION {ScopesFor(a) : a \in people}
DrawersOf(people, scope) == {a \in people : scope \in ScopesFor(a)}
InKeyOrder(scopes) ==
    (IF "city" \in scopes THEN <<"city">> ELSE <<>>)
    \o (IF "host" \in scopes THEN <<"host">> ELSE <<>>)

LInit ==
    /\ alive = {} /\ spawned = {} /\ pass = <<>>
    /\ container = [s \in Services |-> "absent"]
    /\ running = [s \in Services |-> "no"]
    /\ users = [s \in Services |-> {}]
    /\ daemon = TRUE /\ granted = {} /\ raised = {} /\ excused = {}
    /\ ran = 0 /\ overtaken = FALSE /\ count = 0 /\ mishaps = 0

SpawnOverOthers(people) ==
    /\ count < MaxPasses
    /\ count' = count + 1
    /\ spawned' = spawned \cup {[people |-> alive, no |-> count + 1]}

\* reconcile_wells: the population is read now, the pass runs when it can.
Spawn(people) ==
    /\ count < MaxPasses
    /\ count' = count + 1
    /\ spawned' = spawned \cup {[people |-> people, no |-> count + 1]}

OpenPlan(a) ==
    /\ a \notin alive
    /\ alive' = alive \cup {a}
    /\ Spawn(alive')
    /\ UNCHANGED <<pass, container, running, users, daemon, granted, raised,
                   excused, ran, overtaken, mishaps>>

FinishPlan(a) ==
    /\ a \in alive
    /\ alive' = alive \ {a} /\ granted' = granted \ {a}
    /\ Spawn(alive')
    /\ UNCHANGED <<pass, container, running, users, daemon, raised, excused,
                   ran, overtaken, mishaps>>

LeaveKingdom ==
    /\ alive # {}
    /\ alive' = {} /\ granted' = {}
    /\ Spawn({})
    /\ UNCHANGED <<pass, container, running, users, daemon, raised, excused,
                   ran, overtaken, mishaps>>

\* RAISING taken by any pass that was spawned: the tasks of a runtime with
\* several threads need not begin in the order they were made.
Begin(p) ==
    /\ pass = <<>> /\ p \in spawned
    /\ spawned' = spawned \ {p}
    /\ pass' = [people |-> p.people, scopes |-> InKeyOrder(Wanted(p.people)),
                todo |-> <<>>, up |-> {}, stage |-> "scope", stop |-> {}]
    /\ overtaken' = (overtaken \/ p.no < ran)
    /\ ran' = IF p.no > ran THEN p.no ELSE ran
    /\ UNCHANGED <<alive, container, running, users, daemon, granted, raised,
                   excused, count, mishaps>>

Scope == Head(pass.scopes)
In(stage) == pass # <<>> /\ pass.stage = stage

\* docker::raise: the network is settled, or the daemon does not answer.
RaiseScope ==
    /\ In("scope") /\ pass.scopes # <<>>
    /\ pass' = [pass EXCEPT !.todo = ServicesOf(Scope), !.up = {},
                            !.stage = IF daemon THEN "ensure" ELSE "by hand"]
    /\ UNCHANGED <<alive, spawned, container, running, users, daemon, granted,
                   raised, excused, ran, overtaken, count, mishaps>>

\* stand_by_hand: what answers is taken to be the King's.
StandByHand ==
    /\ In("by hand")
    /\ LET answering == {s \in Services : ScopeOf(s) = Scope /\ container[s] = "ready"}
       IN  /\ pass' = [pass EXCEPT !.up = {<<s, "his">> : s \in answering},
                                   !.todo = <<>>, !.stage = "record"]
           /\ excused' = excused \cup answering
    /\ UNCHANGED <<alive, spawned, container, running, users, daemon, granted,
                   raised, ran, overtaken, count, mishaps>>

\* ensure_one: adopted when it stands, started again or run when it does not.
EnsureOne ==
    /\ In("ensure") /\ pass.todo # <<>>
    /\ LET s == Head(pass.todo)
       IN  IF daemon
           THEN /\ container' = [container EXCEPT ![s] =
                                   IF @ \in {"ready", "starting"} THEN @ ELSE "starting"]
                /\ raised' = raised \cup {s}
                /\ pass' = [pass EXCEPT !.stage = "wait"]
           ELSE /\ pass' = [pass EXCEPT !.todo = <<>>, !.stage = "record"]
                /\ UNCHANGED <<container, raised>>
    /\ UNCHANGED <<alive, spawned, running, users, daemon, granted, excused,
                   ran, overtaken, count, mishaps>>

\* wait_until_ready: it answers ...
Answered ==
    /\ In("wait")
    /\ LET s == Head(pass.todo)
       IN  /\ container[s] = "ready" /\ daemon
           /\ pass' = [pass EXCEPT !.up = @ \cup {<<s, "ours">>}, !.todo = Tail(@),
                                   !.stage = "ensure"]
           /\ excused' = excused \ {s}
    /\ UNCHANGED <<alive, spawned, container, running, users, daemon, granted,
                   raised, ran, overtaken, count, mishaps>>

\* ... or it died, or the time is up, and the rest of the scope is left.  A
\* container that only starts late is not told to the registry.
NotAnswered ==
    /\ In("wait")
    /\ LET s == Head(pass.todo)
       IN  /\ container[s] # "ready" \/ ~daemon
           /\ pass' = [pass EXCEPT !.todo = <<>>, !.stage = "record"]
           /\ excused' = excused \cup {s}
    /\ UNCHANGED <<alive, spawned, container, running, users, daemon, granted,
                   raised, ran, overtaken, count, mishaps>>

\* The image comes up.
ComeUp(s) ==
    /\ container[s] = "starting"
    /\ container' = [container EXCEPT ![s] = "ready"]
    /\ UNCHANGED <<alive, spawned, pass, running, users, daemon, granted,
                   raised, excused, ran, overtaken, count, mishaps>>

UpIn(how) == {s \in Services : <<s, how>> \in pass.up}
ScopeDone == In("record") \/ (In("ensure") /\ pass.todo = <<>>)

\* raise: everything that is up is recorded, and its users replaced.
RecordRaised ==
    /\ ScopeDone
    /\ running' = [s \in Services |-> IF s \in UpIn("ours") THEN "ours"
                                      ELSE IF s \in UpIn("his") THEN "his" ELSE running[s]]
    /\ users' = [s \in Services |-> IF s \in UpIn("ours") \cup UpIn("his")
                                    THEN DrawersOf(pass.people, Scope) ELSE users[s]]
    /\ pass' = [pass EXCEPT !.scopes = Tail(@), !.todo = <<>>, !.up = {}, !.stage = "scope"]
    /\ UNCHANGED <<alive, spawned, container, daemon, granted, raised, excused,
                   ran, overtaken, count, mishaps>>

OrphanUnrequired ==
    /\ In("scope") /\ pass.scopes = <<>>
    /\ LET orphaned == {s \in Services : running[s] # "no" /\ users[s] \cap pass.people = {}}
       IN  /\ running' = [s \in Services |-> IF s \in orphaned THEN "no" ELSE running[s]]
           /\ users' = [s \in Services |-> IF s \in orphaned THEN {} ELSE users[s]]
           /\ pass' = [pass EXCEPT !.stop = {s \in orphaned : running[s] = "ours"}, !.stage = "stop"]
    /\ UNCHANGED <<alive, spawned, container, daemon, granted, raised, excused,
                   ran, overtaken, count, mishaps>>

\* The sweep: what no scope of the population claims leaves the registry ...
Orphan ==
    /\ In("scope") /\ pass.scopes = <<>>
    /\ LET orphaned == {s \in Services : running[s] # "no" /\ ScopeOf(s) \notin Wanted(pass.people)}
       IN  /\ running' = [s \in Services |-> IF s \in orphaned THEN "no" ELSE running[s]]
           /\ users' = [s \in Services |-> IF s \in orphaned THEN {} ELSE users[s]]
           /\ pass' = [pass EXCEPT !.stop = {s \in orphaned : running[s] = "ours"}, !.stage = "stop"]
    /\ UNCHANGED <<alive, spawned, container, daemon, granted, raised, excused,
                   ran, overtaken, count, mishaps>>

\* ... and is stopped, as far as the daemon will: stop's failure is not heard.
StopOne(s) ==
    /\ In("stop") /\ s \in pass.stop
    /\ container' = IF daemon /\ container[s] # "absent"
                    THEN [container EXCEPT ![s] = "stopped"] ELSE container
    /\ excused' = IF daemon THEN excused ELSE excused \cup {s}
    /\ pass' = [pass EXCEPT !.stop = @ \ {s}]
    /\ UNCHANGED <<alive, spawned, running, users, daemon, granted, raised,
                   ran, overtaken, count, mishaps>>

EndPass ==
    /\ In("stop") /\ pass.stop = {}
    /\ pass' = <<>>
    /\ UNCHANGED <<alive, spawned, container, running, users, daemon, granted,
                   raised, excused, ran, overtaken, count, mishaps>>

\* require: after the pass in flight, the registry is looked at and the agent
\* put among the users.
Require(a) ==
    /\ a \in alive /\ pass = <<>>
    /\ \A s \in Services : ScopeOf(s) \in ScopesFor(a) => running[s] # "no"
    /\ users' = [s \in Services |-> IF ScopeOf(s) \in ScopesFor(a) THEN users[s] \cup {a} ELSE users[s]]
    /\ granted' = granted \cup {a}
    /\ UNCHANGED <<alive, spawned, pass, container, running, daemon, raised,
                   excused, ran, overtaken, count, mishaps>>

Mishap == mishaps < MaxMishaps /\ mishaps' = mishaps + 1

DaemonGoes ==
    /\ daemon /\ Mishap
    /\ daemon' = FALSE
    /\ UNCHANGED <<alive, spawned, pass, container, running, users, granted,
                   raised, excused, ran, overtaken, count>>

DaemonReturns ==
    /\ ~daemon
    /\ daemon' = TRUE
    /\ UNCHANGED <<alive, spawned, pass, container, running, users, granted,
                   raised, excused, ran, overtaken, count, mishaps>>

Dies(s) ==
    /\ container[s] \in {"starting", "ready"} /\ Mishap
    /\ container' = [container EXCEPT ![s] = "dead"]
    /\ UNCHANGED <<alive, spawned, pass, running, users, daemon, granted,
                   raised, excused, ran, overtaken, count>>

\* Another server: the registry and the passes are gone, the containers stay,
\* and the kingdom it opens spawns a pass over the plans it finds alive.
RestartCourt ==
    /\ Mishap
    /\ count < MaxPasses /\ count' = count + 1
    /\ spawned' = {[people |-> alive, no |-> count + 1]}
    /\ pass' = <<>> /\ granted' = {} /\ raised' = {} /\ excused' = {}
    /\ running' = [s \in Services |-> "no"] /\ users' = [s \in Services |-> {}]
    /\ UNCHANGED <<alive, container, daemon, ran, overtaken>>

LNext ==
    \/ \E a \in Drawer : OpenPlan(a) \/ FinishPlan(a) \/ Require(a)
    \/ LeaveKingdom \/ (\E p \in spawned : Begin(p))
    \/ RaiseScope \/ StandByHand \/ EnsureOne \/ Answered \/ NotAnswered \/ RecordRaised
    \/ Orphan \/ EndPass \/ DaemonGoes \/ DaemonReturns \/ RestartCourt
    \/ \E s \in Services : ComeUp(s) \/ StopOne(s) \/ Dies(s)

LSpec == LInit /\ [][LNext]_lvars
-----------------------------------------------------------------------------
(***************************************************************************)
(* The values of the variables.                                            *)
(***************************************************************************)
LTypeOK ==
    /\ alive \subseteq Drawer /\ granted \subseteq alive
    /\ spawned \subseteq [people : SUBSET Drawer, no : 1..MaxPasses]
    /\ pass # <<>> =>
         /\ pass.people \subseteq Drawer /\ pass.stop \subseteq Services
         /\ pass.stage \in {"scope", "by hand", "ensure", "wait", "record", "stop"}
         /\ pass.up \subseteq Services \X {"ours", "his"}
    /\ container \in [Services -> {"absent", "starting", "ready", "stopped", "dead"}]
    /\ running \in [Services -> {"no", "ours", "his"}]
    /\ users \in [Services -> SUBSET Drawer]
    /\ daemon \in BOOLEAN /\ overtaken \in BOOLEAN
    /\ raised \subseteq Services /\ excused \subseteq Services
    /\ ran \in 0..MaxPasses /\ count \in 0..MaxPasses /\ mishaps \in 0..MaxMishaps

Rest == pass = <<>> /\ spawned = {}

(***************************************************************************)
(* With every pass run, newest last, the registry holds the wells that     *)
(* live agents can reach and no others -- all of them, if nothing went     *)
(* wrong on the way -- whatever was opened, finished or required while the *)
(* passes ran (reconcile and its one invariant).  And what this process    *)
(* started or adopted and is still up is in its registry between passes,   *)
(* also when a neighbour failed (docker::raise).                           *)
(***************************************************************************)
WellsFollowTheLiving ==
    /\ (Rest /\ ~overtaken) => \A s \in Services :
            /\ running[s] # "no" => ScopeOf(s) \in Wanted(alive)
            /\ (ScopeOf(s) \in Wanted(alive) /\ mishaps = 0 /\ excused = {} /\ ran > 0)
                  => running[s] = "ours"
    /\ pass = <<>> => \A s \in raised \ excused :
        container[s] \in {"starting", "ready"} => running[s] = "ours"

(***************************************************************************)
(* Kingdom does not stop a well under an agent whose turn was let go on by *)
(* require, but for a pass whose population was read before that agent was *)
(* opened (require, reconcile's sweep).                                    *)
(***************************************************************************)
NoWellTakenAway ==
    [][\A s \in Services : (container[s] # "stopped" /\ container'[s] = "stopped") =>
          \A a \in granted \cap pass.people : ScopeOf(s) \notin ScopesFor(a)]_lvars
=============================================================================
