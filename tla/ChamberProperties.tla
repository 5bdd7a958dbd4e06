-------------------------- MODULE ChamberProperties --------------------------
(***************************************************************************)
(* What a chamber promises, and what its code or its documentation says of *)
(* it that does not hold.                                                  *)
(***************************************************************************)
EXTENDS Chamber

(* The King's words as they stand: those in the log, then those waiting.   *)
Words == plan.heard \o plan.queued

(* Nothing the King said is lost or said twice: each thing he said is in   *)
(* the log, or in the queue, or was taken back by him, and in one place    *)
(* only.  (receive, hear_queued and unqueue move words between the two;    *)
(* turns overlap, fail, panic and die with the server around them.)        *)
WordsKept ==
    /\ \A i, j \in DOMAIN Words : Words[i] = Words[j] => i = j
    /\ \A i \in DOMAIN Words : Words[i] \notin withdrawn
    /\ {Words[i] : i \in DOMAIN Words} \cup withdrawn = 1 .. spoken

(* The words he typed enter the log in the order he said them, whichever   *)
(* of receive's two paths each took.                                       *)
WordsInOrder ==
    \A i, j \in DOMAIN Words :
        i < j => Words[i] < Words[j] \/ Words[i] = grant

(* The register names the newest turn for as long as that turn may do      *)
(* anything, and never a turn whose guard is gone (turns.rs): so Stop      *)
(* reaches the turn the King can see, and say queues only when somebody    *)
(* registered is there.                                                    *)
EntryIsNewest ==
    /\ running # NoTurn => running = newest /\ pc[running] \in Guarded
    /\ newest # NoTurn /\ pc[newest] \in Guarded \ {"leaving"}
        => running = newest

(* Unless it panicked, a plan claiming to be busy has a turn that will     *)
(* clear the mark: no interleaving of turns, stops and words wedges it.    *)
BusyMeansSomebodyWorks ==
    mishaps = 0 /\ IsBusy(plan) => \E t \in Turn : pc[t] \in Working

(* Every call in the log without a result is one a tool is still working   *)
(* on, however the turn that made it ends, mishaps apart.                  *)
CallsSettled ==
    mishaps = 0 => plan.in_flight = {t \in Turn : pc[t] = "calling"}

(* Mishaps apart, while the King's words wait the newest turn is one that  *)
(* will still look for them, or was ended by an error, by the King or by   *)
(* the cap on rounds.  receive may queue them at any moment, for whichever *)
(* turn is registered then: "after this block it either queued (and we see *)
(* it) or found no turn" (turn.rs) is true of every order of his words, of *)
(* overlapping turns' endings, and of their guards' later drops.           *)
WordsHaveAnEar ==
    mishaps = 0 /\ plan.queued # <<>> =>
        /\ newest # NoTurn
        /\ \/ pc[newest] \in Guarded \ {"leaving"}
           \/ newest \in cut
           \/ LastRound(newest)

(* A turn the King stopped ends, even if neither the model nor the tool it *)
(* is waiting for ever answers.                                            *)
HaltHeeded ==
    \A t \in Turn : t \in halted ~> pc[t] \in {"crashed", "gone", "wrecked"}

(* Given answers, words left in the queue are heard or taken back, unless  *)
(* a turn failed, was stopped or ran out of rounds: no turn that simply    *)
(* ends leaves them waiting for the King to speak again.  (Of turns that   *)
(* follow one another: two that overlap can leave words behind, the later  *)
(* one failing while the earlier one parks the plan as answered.)          *)
QueueAttended ==
    Answered /\ [](Cardinality(Live) <= 1) =>
        (plan.queued # <<>> ~>
            \/ plan.queued = <<>>
            \/ plan.status = "Failed" \/ halted # {}
            \/ \E t \in Turn : LastRound(t))

(* Once an ending is recorded the checkout is gone, and an ending recorded *)
(* is the one git carried out: of two requests closing the plan together   *)
(* one only can land.                                                      *)
EndedOnce ==
    /\ plan.outcome # "none" => ~worktree
    /\ Cardinality({f \in Finisher : fin[f] \in {"merged", "archived"}}) <= 1
    /\ plan.outcome # "none"
        => \A f \in Finisher : fin[f] \notin {"merged", "archived"}

(* The register, seen alone, is the one Turns specifies: the turns whose   *)
(* guard exists are alive, and all but those yet to run have begun.        *)
Alive == {t \in Turn : pc[t] \in Guarded}
Begun == {t \in Turn : pc[t] \notin {"unborn", "spawned"}}

Registry == INSTANCE Turns WITH alive <- Alive, begun <- Begun

ChamberRefinesTurns == Registry!TurnsSpec

-----------------------------------------------------------------------------
(* What is said of the code, and does not hold.                            *)

(* "A second loop would also run the same commands twice" (api.rs,         *)
(* draft_plan): two turns are never in the midst of their rounds at once.  *)
(* (That an older turn has still to drop its guard is allowed for.)        *)
OneTurnAtATime ==
    \A t, u \in Turn :
        pc[t] \in {"asking", "acting", "calling"}
        /\ pc[u] \in {"asking", "acting", "calling"}
        => t = u

(* "A status and an outcome cannot disagree" (model.rs, Plan::settle): not *)
(* by what a turn or the King's words write on a plan that has ended.      *)
StatusAgreesWithOutcome == plan.outcome # "none" => plan.status = plan.outcome

(* A call the process, or the turn, died during is closed: no call stays   *)
(* open when every turn is over (store.rs, reconcile).                     *)
NoOrphanCalls ==
    present /\ (\A t \in Turn : pc[t] \in {"unborn", "gone", "wrecked"})
        => plan.in_flight = {}
=============================================================================
