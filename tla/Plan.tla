-------------------------------- MODULE Plan --------------------------------
(***************************************************************************)
(* One plan's record, and the methods of `Plan' that change it             *)
(* (kingdom-core/src/model.rs): each operator returns the record a method  *)
(* leaves.                                                                 *)
(*                                                                         *)
(* What the King says is a number: the n-th thing he said.  Of the         *)
(* transcript the record keeps the King's words in the order they entered  *)
(* (heard) and the tool calls begun and not settled (in_flight, named by   *)
(* the turn that made them: a turn makes its calls one at a time).  Notes, *)
(* replies and wording are left out.                                       *)
(***************************************************************************)
EXTENDS Naturals, Sequences

CONSTANT Caller      \* who can have a tool call in flight: the turns

Settled == {"Merged", "Archived"}
PlanStatus == {"Drafting", "AwaitingReview", "Failed"} \cup Settled

PlanRecord ==
    [status      : PlanStatus,
     working_on  : BOOLEAN,                       \* is there a busy mark
     queued      : Seq(Nat),
     heard       : Seq(Nat),
     in_flight   : SUBSET Caller,
     proposal    : {"none", "put", "approved"},
     notes       : BOOLEAN,                       \* any in its margin
     permissions : {"Propose", "Full"},
     outcome     : {"none"} \cup Settled]

(* A plan the opening decree has just begun.                               *)
Opened ==
    [status |-> "Drafting", working_on |-> FALSE, queued |-> <<>>,
     heard |-> <<1>>, in_flight |-> {}, proposal |-> "none",
     notes |-> FALSE, permissions |-> "Propose", outcome |-> "none"]

IsSettled(p) == p.status \in Settled
IsBusy(p) == p.working_on

(* standing_proposal: the question the King is being asked, if any.        *)
IsStanding(p) ==
    /\ p.permissions # "Full"
    /\ p.status = "AwaitingReview"
    /\ p.proposal = "put"

Settle(p, how) ==
    [p EXCEPT !.status = how, !.working_on = FALSE, !.outcome = how]

Say(p, w) == [p EXCEPT !.heard = Append(@, w)]

Queue(p, w) == [p EXCEPT !.queued = Append(@, w)]

HearQueued(p) == [p EXCEPT !.heard = @ \o p.queued, !.queued = <<>>]

(* The sequence without its i-th element.                                  *)
Without(s, i) ==
    [j \in 1 .. (Len(s) - 1) |-> IF j < i THEN s[j] ELSE s[j + 1]]

(* unqueue: the words standing i-th in the queue are taken back.           *)
Unqueue(p, i) == [p EXCEPT !.queued = Without(@, i)]

(* propose: a new question replaces the old one, its margin with it.       *)
Propose(p) == [p EXCEPT !.proposal = "put", !.notes = FALSE]

Approve(p) == [p EXCEPT !.proposal = "approved", !.permissions = "Full"]

SetAsideProposal(p) ==
    IF p.proposal = "put"
    THEN [p EXCEPT !.proposal = "none", !.notes = FALSE]
    ELSE p

BeginToolCall(p, t) == [p EXCEPT !.in_flight = @ \cup {t}]

SettleToolCall(p, t) == [p EXCEPT !.in_flight = @ \ {t}]

(* Mutant: what was queued goes with the turn that would have heard it.    *)
ReconcileAfresh(p) ==
    IF p.status # "Drafting" THEN p
    ELSE [p EXCEPT !.in_flight = {}, !.working_on = FALSE,
                   !.status = "Failed", !.queued = <<>>]

(* store::reconcile, for a plan read back from disk.  begin_plan leaves a  *)
(* note in every plan's log before anything else happens to it, so "has    *)
(* anything but the user been in the log" is true of every plan it opened. *)
Reconcile(p) ==
    IF p.status # "Drafting" THEN p
    ELSE [p EXCEPT !.in_flight = {}, !.working_on = FALSE,
                   !.status = "Failed"]
=============================================================================
