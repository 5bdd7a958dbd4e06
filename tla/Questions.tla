------------------------------ MODULE Questions ------------------------------
(***************************************************************************)
(* A question the court puts to the King (tools/ask_user_question.rs): a   *)
(* tool call that parks on a oneshot until an answer comes in through      *)
(* another request, its patience runs out, its turn is halted or the       *)
(* server dies.                                                            *)
(***************************************************************************)
EXTENDS Naturals, FiniteSets

CONSTANTS
    Call,   \* tool calls that ask; the provider names each differently
    Tab     \* browser tabs the King may answer from

VARIABLES
    asking,   \* asking[c]: where the call's future stands
    pending,  \* PENDING: the calls whose sender is in the map
    slot,     \* the calls whose oneshot holds an answer
    reply,    \* reply[t][c]: what answer_question last told the tab
    result    \* result[c]: how the call was settled

qvars == <<asking, pending, slot, reply, result>>

\* The receiving half lives from Ask until the future drops it.
Listening == {"parked", "expiring"}

QInit ==
    /\ asking = [c \in Call |-> "idle"]
    /\ pending = {} /\ slot = {}
    /\ reply = [t \in Tab |-> [c \in Call |-> "none"]]
    /\ result = [c \in Call |-> "none"]

\* The sender is in the map before the wait begins.
Ask(c) ==
    /\ asking[c] = "idle"
    /\ asking' = [asking EXCEPT ![c] = "parked"]
    /\ pending' = pending \cup {c}
    /\ UNCHANGED <<slot, reply, result>>

\* What the tab is told.  It is told the same by an answer that came while
\* the wait was ending, which the model tells apart as late.
Told(c) ==
    IF c \notin pending \/ asking[c] \notin Listening THEN "nothing waiting"
    ELSE IF asking[c] = "parked" THEN "landed" ELSE "landed late"

AnswerLeavingSender(t, c) ==
    /\ reply[t][c] = "none" /\ asking[c] # "idle"
    /\ reply' = [reply EXCEPT ![t][c] = Told(c)]
    /\ slot' = IF Told(c) = "nothing waiting" THEN slot ELSE slot \cup {c}
    /\ UNCHANGED <<asking, pending, result>>

\* answer: the sender is taken out of the map and used; the King is told it
\* landed when the other half is still there to receive it.
Answer(t, c) ==
    /\ reply[t][c] = "none" /\ asking[c] # "idle"
    /\ reply' = [reply EXCEPT ![t][c] = Told(c)]
    /\ slot' = IF Told(c) = "nothing waiting" THEN slot ELSE slot \cup {c}
    /\ pending' = pending \ {c}
    /\ UNCHANGED <<asking, result>>

\* timeout(PATIENCE, rx): the receiver is looked at before the clock.
Hear(c) ==
    /\ asking[c] = "parked" /\ c \in slot
    /\ asking' = [asking EXCEPT ![c] = "over"]
    /\ result' = [result EXCEPT ![c] = "answered"]
    /\ UNCHANGED <<pending, slot, reply>>

WaitWithoutClock(c) ==
    /\ asking[c] = "parked" /\ c \notin slot /\ c \notin pending
    /\ asking' = [asking EXCEPT ![c] = "expiring"]
    /\ UNCHANGED <<pending, slot, reply, result>>

\* Nothing in the channel, and the clock has run out ...
Expire(c) ==
    /\ asking[c] = "parked" /\ c \notin slot
    /\ asking' = [asking EXCEPT ![c] = "expiring"]
    /\ UNCHANGED <<pending, slot, reply, result>>

\* ... so the receiver is dropped, and whatever came meanwhile with it ...
DropReceiver(c) ==
    /\ asking[c] = "expiring"
    /\ asking' = [asking EXCEPT ![c] = "expired"]
    /\ slot' = slot \ {c}
    /\ UNCHANGED <<pending, reply, result>>

\* ... and the entry cleaned up.
Refuse(c) ==
    /\ asking[c] = "expired"
    /\ asking' = [asking EXCEPT ![c] = "over"]
    /\ pending' = pending \ {c}
    /\ result' = [result EXCEPT ![c] = "expired"]
    /\ UNCHANGED <<slot, reply>>

\* The turn is halted: the select looks at the halt first, so an answer in
\* the channel goes with the future.
Halt(c) ==
    /\ asking[c] = "parked"
    /\ asking' = [asking EXCEPT ![c] = "halted"]
    /\ slot' = slot \ {c}
    /\ UNCHANGED <<pending, reply, result>>

\* stopped: abandon the question, then settle the call as refused.
Abandon(c) ==
    /\ asking[c] = "halted"
    /\ asking' = [asking EXCEPT ![c] = "over"]
    /\ pending' = pending \ {c}
    /\ result' = [result EXCEPT ![c] = "stopped"]
    /\ UNCHANGED <<slot, reply>>

\* The server dies and another takes its place: the map is not persisted,
\* and the calls that were open are closed as interrupted on load.
Restart ==
    /\ \E c \in Call : asking[c] \notin {"idle", "over"}
    /\ LET open == {c \in Call : asking[c] \notin {"idle", "over"}} IN
       /\ asking' = [c \in Call |-> IF c \in open THEN "over" ELSE asking[c]]
       /\ result' = [c \in Call |-> IF c \in open THEN "interrupted" ELSE result[c]]
    /\ pending' = {} /\ slot' = {}
    /\ UNCHANGED reply

\* What the runtime does by itself, once the answer or the hour has come.
Attend(c) == Hear(c) \/ Expire(c) \/ DropReceiver(c) \/ Refuse(c) \/ Abandon(c)

QNext ==
    \/ \E c \in Call :
        \/ Ask(c) \/ Halt(c)
        \/ Hear(c) \/ Expire(c) \/ DropReceiver(c) \/ Refuse(c) \/ Abandon(c)
        \/ \E t \in Tab : Answer(t, c)
    \/ Restart

QFair == \A c \in Call : WF_qvars(Attend(c))

QSpec == QInit /\ [][QNext]_qvars /\ QFair

-----------------------------------------------------------------------------
QTypeOK ==
    /\ asking \in [Call -> {"idle", "parked", "expiring", "expired", "halted", "over"}]
    /\ pending \subseteq Call /\ slot \subseteq Call
    /\ reply \in [Tab -> [Call -> {"none", "landed", "landed late", "nothing waiting"}]]
    /\ result \in [Call -> {"none", "answered", "expired", "stopped", "interrupted"}]

Landed(c) == {t \in Tab : reply[t][c] \in {"landed", "landed late"}}

(* Of the tabs that answer one question, one at most is told its answer    *)
(* landed; the others learn that nothing was waiting (answer).  And an     *)
(* answer the King was told landed is not reported to the model as never   *)
(* given, unless it came in the moment the wait was ending; a halt or a    *)
(* restart may still lose it.  A call that is over leaves nothing in       *)
(* PENDING or in a channel, however it ended ("rather than left to         *)
(* accumulate for the life of the process").                               *)
AnswerLandsOnce ==
    \A c \in Call :
        /\ Cardinality(Landed(c)) <= 1
        /\ result[c] = "expired" => \A t \in Tab : reply[t][c] # "landed"
        /\ c \in pending => asking[c] \notin {"idle", "over"}
        /\ c \in slot => result[c] \in {"none", "answered"}

(* A question never keeps its plan for ever: whoever does or does not      *)
(* answer, the call is settled.                                            *)
QuestionsEnd == \A c \in Call : asking[c] = "parked" ~> result[c] # "none"
=============================================================================
