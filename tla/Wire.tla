--------------------------------- MODULE Wire ---------------------------------
(***************************************************************************)
(* How a browser learns of what happens (events.rs, watch.rs, and the two  *)
(* watches the browser keeps): whole plans on a channel per plan for the   *)
(* room that is open, digests on one channel for the rail, a snapshot when *)
(* a socket opens, and replies that carry the kingdom as it was read.      *)
(*                                                                         *)
(* Three plans: one whose room is open, a subagent of it, and another plan *)
(* whose room is closed.                                                   *)
(***************************************************************************)
EXTENDS Naturals, Sequences

CONSTANTS
    MaxChanges,     \* changes of all plans
    Calling,        \* revisions in which a plan wants the King
    Backlog,        \* BACKLOG and PULSE_BACKLOG
    MaxUpsets       \* sockets lost, restarts, kingdoms left

ASSUME WireAssumption == MaxChanges \in Nat /\ MaxUpsets \in Nat /\ Backlog \in Nat \ {0}

VARIABLES
    record,     \* record[f]: the revision of the plan in the kingdom
    announced,  \* LAST_PULSE: the digest last pulsed, or nothing
    socket,     \* socket[w]: a watch, from the browser's side and the server's
    backlog,    \* backlog[w]: what its receiver has not taken yet
    shown,      \* shown[f]: the plan as the room shows it
    badge,      \* badge[f]: the rail's badge for it
    glance,     \* what the port watcher read, to publish it later
    fetched,    \* a get_kingdom reply on its way
    misled,     \* plans an older state came of after a newer one
    missed,     \* <<w, f>>: w lost the newest of f and nothing brings it again
    upsets      \* sockets lost, restarts and kingdoms left so far

wvars == <<record, announced, socket, backlog, shown, badge, glance, fetched,
           misled, missed, upsets>>

Folk == {"open", "subagent", "other"}
\* The room's watch, the one a reconnect leaves without an owner, the rail's.
Watches == {"room", "leaked", "rail"}
Rooms == {"room", "leaked"}

On(w) == IF w = "rail" THEN {"open", "other"} ELSE {"open", "subagent"}
Room == On("room")
Digest(rev) == rev \in Calling
Listens(w) == socket[w] \in {"subscribed", "watching"}
Shot(w) == IF w = "rail" THEN On(w) ELSE {"open"}

WInit ==
    /\ record = [f \in Folk |-> 0]
    /\ announced = [f \in Folk |-> {}]
    /\ socket = [w \in Watches |-> IF w = "leaked" THEN "none" ELSE "subscribed"]
    /\ backlog = [w \in Watches |-> <<>>]
    /\ shown = [f \in Room |-> 0]
    /\ badge = [f \in On("rail") |-> Digest(0)]
    /\ glance = <<>> /\ fetched = <<>> /\ misled = {} /\ missed = {} /\ upsets = 0

\* A full channel lets its oldest message go: the receiver lags.
Pushed(queue, msg) ==
    IF Len(queue) < Backlog THEN Append(queue, msg) ELSE Append(Tail(queue), msg)

Has(queue, f) == \E i \in DOMAIN queue : queue[i].of = f

\* What was on its way to a browser and is not, once the channels hold these.
Loses(w, f, queues) ==
    /\ Listens(w) /\ (queues[w] = <<>> => f \notin Shot(w))
    /\ Has(backlog[w], f) /\ ~Has(queues[w], f)

\* With it goes what another watch of the room brought before, where the one
\* that lost it has shown something older since.
Undoes(v, f, queues) ==
    /\ v \in Rooms /\ f \in Room
    /\ ~Has(queues[v], f) /\ shown[f] # record[f]
    /\ \E w \in Rooms \ {v} : Listens(w) /\ Has(backlog[w], f) /\ ~Has(queues[w], f)

Lost(queues) ==
    {m \in Watches \X Folk : Loses(m[1], m[2], queues) \/ Undoes(m[1], m[2], queues)}


PulsesOnce(f, rev) == f # "subagent" /\ announced[f] = {}

\* pulse: nothing for a subagent, nothing that was said already.
Pulses(f, rev) == f # "subagent" /\ Digest(rev) \notin announced[f]

\* publish_within: the plan's own channel and its sender's -- here one channel
\* -- and the digest for the rail, when it says something new.
Publish(f, rev) ==
    LET msg == [of |-> f, rev |-> rev]
        To == (IF f = "other" THEN {} ELSE Rooms)
                \cup (IF Pulses(f, rev) THEN {"rail"} ELSE {})
        Left == [w \in Watches |-> IF w \in To /\ Listens(w)
                                  THEN Pushed(backlog[w], msg) ELSE backlog[w]]
    IN  /\ backlog' = Left
        /\ missed' = {m \in missed \cup Lost(Left) : ~(m[1] \in To /\ m[2] = f)}
                       \cup {<<w, f>> : w \in {v \in To : ~Listens(v) /\ f \notin Shot(v)}}
        /\ announced' = IF Pulses(f, rev)
                        THEN [announced EXCEPT ![f] = {Digest(rev)}]
                        ELSE announced

Revisions == record["open"] + record["subagent"] + record["other"]

\* update: changed, saved and published under the kingdom's lock.
Update(f) ==
    /\ Revisions < MaxChanges
    /\ LET rev == record[f] + 1
       IN  /\ record' = [record EXCEPT ![f] = rev]
           /\ Publish(f, rev)
           /\ misled' = IF Pulses(f, rev) THEN misled \ {f} ELSE misled
    /\ UNCHANGED <<socket, shown, badge, glance, fetched, upsets>>

\* One old reading is on its way at a time, of the port watcher or of a reply.
\* The port watcher of namespaces/net.rs takes a snapshot ...
Glance ==
    /\ glance = <<>> /\ fetched = <<>>
    /\ glance' = <<record["open"]>>
    /\ UNCHANGED <<record, announced, socket, backlog, shown, badge, fetched, misled, missed, upsets>>

\* ... and publishes it with no lock between the two.
PublishGlance ==
    /\ glance # <<>>
    /\ Publish("open", glance[1])
    /\ misled' = IF glance[1] = record["open"] THEN misled ELSE misled \cup {"open"}
    /\ glance' = <<>>
    /\ UNCHANGED <<record, socket, shown, badge, fetched, upsets>>

\* Every plan of the message, put where the browser keeps it.
Absorb(w, revs) ==
    IF w = "rail"
    THEN /\ badge' = [f \in On("rail") |-> IF f \in DOMAIN revs THEN Digest(revs[f]) ELSE badge[f]]
         /\ UNCHANGED shown
    ELSE /\ shown' = [f \in Room |-> IF f \in DOMAIN revs THEN revs[f] ELSE shown[f]]
         /\ UNCHANGED badge

\* A new socket subscribes, then takes its snapshot: for_browser for the
\* room, the pulses of every plan that is no subagent for the rail.
Opening(w) ==
    /\ socket[w] = "subscribed"
    /\ Absorb(w, [f \in Shot(w) |-> record[f]])
    /\ socket' = [socket EXCEPT ![w] = "watching"]
    /\ missed' = missed \ ({w} \X Shot(w))
    /\ UNCHANGED <<record, announced, backlog, glance, fetched, misled, upsets>>

\* One message taken off the channel, sent and absorbed.
Proclaim(w) ==
    /\ socket[w] = "watching" /\ backlog[w] # <<>>
    /\ LET msg == Head(backlog[w]) IN Absorb(w, [f \in {msg.of} |-> msg.rev])
    /\ backlog' = [backlog EXCEPT ![w] = Tail(@)]
    /\ UNCHANGED <<record, announced, socket, glance, fetched, misled, missed, upsets>>

\* The connection goes; the server's half ends with it.
Lose(w) ==
    /\ upsets < MaxUpsets
    /\ socket[w] \in {"subscribed", "watching"}
    /\ socket' = [socket EXCEPT ![w] = "closed"]
    /\ backlog' = [backlog EXCEPT ![w] = <<>>]
    /\ missed' = missed \cup Lost([backlog EXCEPT ![w] = <<>>])
    /\ upsets' = upsets + 1
    /\ UNCHANGED <<record, announced, shown, badge, glance, fetched, misled>>

\* The server restarts: the plans were saved, the channels and what they said
\* are gone, and so is every socket.
RestartServer ==
    /\ upsets < MaxUpsets
    /\ socket' = [w \in Watches |-> IF socket[w] = "none" THEN "none" ELSE "closed"]
    /\ backlog' = [w \in Watches |-> <<>>]
    /\ missed' = missed \cup Lost([w \in Watches |-> <<>>])
    /\ announced' = [f \in Folk |-> {}]
    /\ glance' = <<>> /\ fetched' = <<>>
    /\ upsets' = upsets + 1
    /\ UNCHANGED <<record, shown, badge, misled>>

\* on_close, after RETRY_MS.  What it opens has no owner: the room's watch is
\* forgotten (mem::forget), and leaving the room will not close it.
Reconnect(w) ==
    /\ socket[w] = "closed"
    /\ w = "room" => socket["leaked"] = "none"     \* one without an owner, here
    /\ socket' = IF w = "room"
                 THEN [socket EXCEPT ![w] = "none", !["leaked"] = "subscribed"]
                 ELSE [socket EXCEPT ![w] = "subscribed"]
    /\ UNCHANGED <<record, announced, backlog, shown, badge, glance, fetched, misled, missed, upsets>>

\* PlanWatch dropped: its handlers are cleared, so it does not reconnect.
LeaveRoom ==
    /\ socket["room"] # "none"
    /\ socket' = [socket EXCEPT !["room"] = "none"]
    /\ backlog' = [backlog EXCEPT !["room"] = <<>>]
    /\ missed' = missed \cup Lost([backlog EXCEPT !["room"] = <<>>])
    /\ UNCHANGED <<record, announced, shown, badge, glance, fetched, misled, upsets>>

\* The King comes back to the room.
EnterRoom ==
    /\ socket["room"] = "none"
    /\ socket' = [socket EXCEPT !["room"] = "subscribed"]
    /\ UNCHANGED <<record, announced, backlog, shown, badge, glance, fetched, misled, missed, upsets>>

\* get_kingdom: read under the lock, answered over another connection.
Fetch ==
    /\ fetched = <<>> /\ glance = <<>>
    /\ fetched' = <<[f \in Room |-> record[f]]>>
    /\ UNCHANGED <<record, announced, socket, backlog, shown, badge, glance, misled, missed, upsets>>

\* kingdom.set: the reply replaces what the sockets brought meanwhile.
Refetched ==
    /\ fetched # <<>>
    /\ shown' = fetched[1]
    /\ misled' = misled \cup {f \in Room : record[f] # fetched[1][f]}
    /\ fetched' = <<>>
    /\ UNCHANGED <<record, announced, socket, backlog, badge, glance, missed, upsets>>

\* leave_kingdom, and opened again: what was said is forgotten.
ForgetPulses ==
    /\ upsets < MaxUpsets /\ upsets' = upsets + 1
    /\ announced' = [f \in Folk |-> {}]
    /\ UNCHANGED <<record, socket, backlog, shown, badge, glance, fetched, misled, missed>>

WNext ==
    \/ \E f \in Folk : Update(f)
    \/ \E w \in Watches : Opening(w) \/ Proclaim(w) \/ Lose(w) \/ Reconnect(w)
    \/ Glance \/ PublishGlance \/ RestartServer \/ LeaveRoom \/ EnterRoom
    \/ Fetch \/ Refetched \/ ForgetPulses

WSpec == WInit /\ [][WNext]_wvars
-----------------------------------------------------------------------------
(***************************************************************************)
(* The values of the variables.                                            *)
(***************************************************************************)
WTypeOK ==
    LET Msgs == [of : Folk, rev : 0..MaxChanges]
    IN  /\ record \in [Folk -> 0..MaxChanges] /\ shown \in [Room -> 0..MaxChanges]
        /\ announced \in [Folk -> SUBSET BOOLEAN] /\ badge \in [On("rail") -> BOOLEAN]
        /\ socket \in [Watches -> {"none", "subscribed", "watching", "closed"}]
        /\ \A w \in Watches : backlog[w] \in UNION {[1..n -> Msgs] : n \in 0..Backlog}
        /\ misled \subseteq Folk /\ missed \subseteq Watches \X Folk
        /\ upsets \in 0..MaxUpsets

\* Everything that was sent has been shown, by every watch that is open.
Settled == \A w \in Watches : Listens(w) => socket[w] = "watching" /\ backlog[w] = <<>>
WasTold(f) == f \notin misled /\ \A w \in Watches : socket[w] = "watching" => <<w, f>> \notin missed

QuietRoomIsTrue ==
    (Settled /\ \E w \in Rooms : socket[w] = "watching") =>
        \A f \in Room : WasTold(f) => shown[f] = record[f]

QuietRailIsTrue ==
    (Settled /\ socket["rail"] = "watching") =>
        \A f \in On("rail") : WasTold(f) => badge[f] = Digest(record[f])

(***************************************************************************)
(* A room whose watches are quiet shows the plan and its subagents as they *)
(* are recorded, however the snapshot of an opening socket, the messages   *)
(* queued behind it and a second watch of the same plan fell (watch.rs     *)
(* watch; events.rs: a whole plan on every message).  A quiet rail wears   *)
(* the badge of every plan, the ones whose rooms are closed included: not  *)
(* sending what was said before never keeps back what is new (events.rs    *)
(* pulse, forget_pulses; app.rs absorb).                                   *)
(***************************************************************************)
QuietTabsAreTrue == QuietRoomIsTrue /\ QuietRailIsTrue
=============================================================================
