--------------------------- MODULE ChamberProofs ---------------------------
(***************************************************************************)
(* What the runs show of a chamber on a small instance, proved for every   *)
(* number of turns, rounds, words, calls, retries and mishaps.  First, that*)
(* it keeps its variables to their types: TypeCorrect, and the inductive   *)
(* invariant TypeInv which the other proofs start from.                    *)
(***************************************************************************)
EXTENDS ChamberProperties, SequenceTheorems, FiniteSetTheorems, TLAPS

(* A turn that is inside a round has that round to spend, and one about to *)
(* begin a call has a call left to begin: what keeps the counters of       *)
(* converse within their bounds.                                           *)
RoundsAndCalls ==
    \A t \in Turn :
        /\ pc[t] \in {"asking", "spoke", "acting", "calling"}
            => round[t] < MaxRounds
        /\ pc[t] = "acting" => left[t] > 0

TypeInv == TypeOK /\ RoundsAndCalls

-----------------------------------------------------------------------------
(* The methods of a plan return plans.                                     *)

LEMMA WithoutIsSeq ==
    ASSUME NEW s \in Seq(Nat), NEW i \in 1 .. Len(s)
    PROVE  Without(s, i) \in Seq(Nat)
<1>1. Len(s) - 1 \in Nat
    BY SMT
<1>2. \A j \in 1 .. (Len(s) - 1) : s[j] \in Nat /\ s[j + 1] \in Nat
    BY SMT
<1>3. Without(s, i) \in [1 .. (Len(s) - 1) -> Nat]
    BY <1>2 DEF Without
<1> QED
    BY <1>1, <1>3, SeqDef

LEMMA PlanMethods ==
    ASSUME NEW p \in PlanRecord
    PROVE  /\ HearQueued(p) \in PlanRecord
           /\ Failed(p) \in PlanRecord
           /\ Halted(p) \in PlanRecord
           /\ Replied(p) \in PlanRecord
           /\ Propose(p) \in PlanRecord
           /\ Approve(p) \in PlanRecord
           /\ SetAsideProposal(p) \in PlanRecord
           /\ Reconcile(p) \in PlanRecord
           /\ Settle(p, "Merged") \in PlanRecord
           /\ Settle(p, "Archived") \in PlanRecord
           /\ \A t \in Turn : /\ BeginToolCall(p, t) \in PlanRecord
                              /\ SettleToolCall(p, t) \in PlanRecord
           /\ \A w \in Nat : /\ Say(p, w) \in PlanRecord
                             /\ Queue(p, w) \in PlanRecord
                             /\ Receive(p, w) \in PlanRecord
           /\ \A s \in PlanStatus, b \in BOOLEAN, n \in BOOLEAN :
                /\ [p EXCEPT !.status = s] \in PlanRecord
                /\ [p EXCEPT !.working_on = b] \in PlanRecord
                /\ [p EXCEPT !.notes = n] \in PlanRecord
                /\ [p EXCEPT !.status = s, !.working_on = b] \in PlanRecord
                /\ [p EXCEPT !.working_on = b, !.status = s] \in PlanRecord
<1> USE DEF PlanRecord, PlanStatus, Settled
<1>1. /\ p.heard \in Seq(Nat) /\ p.queued \in Seq(Nat)
      /\ <<>> \in Seq(Nat)
      /\ p.heard \o p.queued \in Seq(Nat)
      /\ \A w \in Nat : /\ Append(p.heard, w) \in Seq(Nat)
                        /\ Append(p.queued, w) \in Seq(Nat)
                        /\ Append(p.heard \o p.queued, w) \in Seq(Nat)
    BY ConcatProperties, AppendProperties, EmptySeq
<1>2. HearQueued(p) \in PlanRecord
    BY <1>1 DEF HearQueued
<1>3. /\ Failed(p) \in PlanRecord
      /\ Halted(p) \in PlanRecord
      /\ Settle(p, "Merged") \in PlanRecord
      /\ Settle(p, "Archived") \in PlanRecord
      /\ Propose(p) \in PlanRecord
      /\ Approve(p) \in PlanRecord
    BY ZenonT(60) DEF Failed, Halted, Settle, Propose, Approve
<1>4. /\ Reconcile(p) \in PlanRecord
      /\ SetAsideProposal(p) \in PlanRecord
    BY ZenonT(60) DEF Reconcile, SetAsideProposal
<1>5. Replied(p) \in PlanRecord
    BY DEF Replied, Halted, SetAsideProposal
<1>6. \A t \in Turn : /\ BeginToolCall(p, t) \in PlanRecord
                      /\ SettleToolCall(p, t) \in PlanRecord
    BY DEF BeginToolCall, SettleToolCall
<1>7. \A w \in Nat : Say(p, w) \in PlanRecord /\ Queue(p, w) \in PlanRecord
    BY <1>1 DEF Say, Queue
<1>8. \A w \in Nat : Receive(p, w) \in PlanRecord
    <2> SUFFICES ASSUME NEW w \in Nat
                 PROVE  Receive(p, w) \in PlanRecord
        OBVIOUS
    <2>1. CASE IsRunning
        BY <1>7, <2>1 DEF Receive
    <2>2. CASE ~IsRunning
        <3> DEFINE q == [HearQueued(p) EXCEPT !.status = "Drafting",
                                              !.working_on = FALSE]
        <3>1. q \in PlanRecord
            BY <1>2
        <3>2. Append(q.heard, w) \in Seq(Nat)
            BY <3>1, AppendProperties
        <3>3. Say(q, w) \in PlanRecord
            BY <3>1, <3>2 DEF Say
        <3> QED
            BY <2>2, <3>3 DEF Receive
    <2> QED
        BY <2>1, <2>2
<1>9. \A s \in PlanStatus, b \in BOOLEAN, n \in BOOLEAN :
        /\ [p EXCEPT !.status = s] \in PlanRecord
        /\ [p EXCEPT !.working_on = b] \in PlanRecord
        /\ [p EXCEPT !.notes = n] \in PlanRecord
        /\ [p EXCEPT !.status = s, !.working_on = b] \in PlanRecord
        /\ [p EXCEPT !.working_on = b, !.status = s] \in PlanRecord
    <2> SUFFICES ASSUME NEW s \in PlanStatus, NEW b \in BOOLEAN,
                        NEW n \in BOOLEAN
                 PROVE  /\ [p EXCEPT !.status = s] \in PlanRecord
                        /\ [p EXCEPT !.working_on = b] \in PlanRecord
                        /\ [p EXCEPT !.notes = n] \in PlanRecord
                        /\ [p EXCEPT !.status = s, !.working_on = b]
                            \in PlanRecord
                        /\ [p EXCEPT !.working_on = b, !.status = s]
                            \in PlanRecord
        OBVIOUS
    <2>1. [p EXCEPT !.status = s] \in PlanRecord
        OBVIOUS
    <2>2. [p EXCEPT !.working_on = b] \in PlanRecord
        OBVIOUS
    <2>3. [p EXCEPT !.notes = n] \in PlanRecord
        OBVIOUS
    <2>4. [p EXCEPT !.status = s, !.working_on = b] \in PlanRecord
        OBVIOUS
    <2>5. [p EXCEPT !.working_on = b, !.status = s] \in PlanRecord
        OBVIOUS
    <2> HIDE DEF PlanRecord, PlanStatus
    <2> QED
        BY <2>1, <2>2, <2>3, <2>4, <2>5
<1> HIDE DEF PlanRecord, PlanStatus
<1> QED
    BY ZenonT(60), <1>2, <1>3, <1>4, <1>5, <1>6, <1>7, <1>8, <1>9

LEMMA UnqueueReturnsPlan ==
    ASSUME NEW p \in PlanRecord, NEW i \in 1 .. Len(p.queued)
    PROVE  Unqueue(p, i) \in PlanRecord /\ p.queued[i] \in Nat
<1>1. p.queued \in Seq(Nat)
    BY DEF PlanRecord
<1>2. Without(p.queued, i) \in Seq(Nat)
    BY <1>1, WithoutIsSeq
<1>3. p.queued[i] \in Nat
    BY <1>1, ElementOfSeq
<1> QED
    BY <1>2, <1>3 DEF Unqueue, PlanRecord

-----------------------------------------------------------------------------
(* TypeInv is inductive.  Its parts, which most actions disturb one of:    *)

RegisterTypeOK ==
    /\ running \in Turn \cup {NoTurn}
    /\ newest \in Turn \cup {NoTurn}
    /\ halted \subseteq Turn
    /\ cut \subseteq Turn

TurnsTypeInv ==
    /\ pc \in [Turn -> Stage]
    /\ round \in [Turn -> 0 .. MaxRounds]
    /\ left \in [Turn -> 0 .. MaxBatch]
    /\ attempt \in [Turn -> 0 .. MaxRetries]
    /\ remit \in [Turn -> {"Propose", "Full"}]
    /\ RoundsAndCalls

KingTypeOK == spoken \in Nat /\ withdrawn \subseteq Nat /\ grant \in Nat

RestTypeOK ==
    /\ present \in BOOLEAN
    /\ worktree \in BOOLEAN
    /\ stopping \in BOOLEAN
    /\ fin \in [Finisher -> FinStage]
    /\ mishaps \in Nat

LEMMA TypeInvParts ==
    TypeInv <=> /\ plan \in PlanRecord
                /\ RegisterTypeOK /\ TurnsTypeInv /\ KingTypeOK /\ RestTypeOK
BY Zenon DEF TypeInv, TypeOK, RegisterTypeOK, TurnsTypeInv, KingTypeOK,
             RestTypeOK

LEMMA TypeInvInit == Init => TypeInv
<1> SUFFICES ASSUME Init PROVE TypeInv
    OBVIOUS
<1>1. plan \in PlanRecord
    BY EmptySeq DEF Init, Opened, PlanRecord, PlanStatus, Settled
<1>2. RegisterTypeOK /\ KingTypeOK
    BY DEF Init, RegisterTypeOK, KingTypeOK
<1>3. TurnsTypeInv
    BY ChamberAssumption DEF Init, TurnsTypeInv, RoundsAndCalls, Stage
<1>4. RestTypeOK
    BY DEF Init, RestTypeOK, FinStage
<1> QED
    BY <1>1, <1>2, <1>3, <1>4, TypeInvParts

LEMMA UpdateTyped ==
    ASSUME plan \in PlanRecord, NEW q \in PlanRecord, Update(q)
    PROVE  plan' \in PlanRecord
BY DEF Update

LEMMA TypeInvNext == TypeInv /\ [Next]_vars => TypeInv'
<1> SUFFICES ASSUME TypeInv, [Next]_vars
             PROVE  /\ plan' \in PlanRecord
                    /\ RegisterTypeOK' /\ TurnsTypeInv' /\ KingTypeOK'
                    /\ RestTypeOK'
    BY Zenon DEF TypeInv, TypeOK, RegisterTypeOK, TurnsTypeInv, KingTypeOK,
                 RestTypeOK
<1>0. /\ plan \in PlanRecord
      /\ RegisterTypeOK /\ TurnsTypeInv /\ KingTypeOK /\ RestTypeOK
    BY TypeInvParts
<1> DEFINE Goal == /\ plan' \in PlanRecord
                   /\ RegisterTypeOK' /\ TurnsTypeInv' /\ KingTypeOK'
                   /\ RestTypeOK'
<1> USE ChamberAssumption DEF turnVars, register, king, rest
<1>1. ASSUME NEW t \in Turn, Begin(t) PROVE Goal
    <2>2. plan' \in PlanRecord
        BY <1>0, <1>1, PlanMethods DEF Begin, Update
    <2>3. RegisterTypeOK' /\ KingTypeOK'
        BY <1>0, <1>1 DEF Begin, RegisterTypeOK, KingTypeOK
    <2>4. TurnsTypeInv'
        BY <1>0, <1>1 DEF Begin, TurnsTypeInv, RoundsAndCalls, Goto, Stage
    <2>5. RestTypeOK'
        BY SMTT(60), <1>0, <1>1 DEF Begin, RestTypeOK, FinStage, Mishap
    <2> QED
        BY <2>2, <2>3, <2>4, <2>5
<1>2. ASSUME NEW t \in Turn, OpenModel(t) PROVE Goal
    <2>2. plan' \in PlanRecord
        BY <1>0, <1>2, PlanMethods DEF OpenModel, Update
    <2>3. RegisterTypeOK' /\ KingTypeOK'
        BY <1>0, <1>2 DEF OpenModel, RegisterTypeOK, KingTypeOK
    <2>4. TurnsTypeInv'
        BY <1>0, <1>2 DEF OpenModel, TurnsTypeInv, RoundsAndCalls, Goto, Stage
    <2>5. RestTypeOK'
        BY SMTT(60), <1>0, <1>2 DEF OpenModel, RestTypeOK, FinStage, Mishap
    <2> QED
        BY <2>2, <2>3, <2>4, <2>5
<1>3. ASSUME NEW t \in Turn, Fail(t) PROVE Goal
    <2>1. Failed(plan) \in PlanRecord
        BY <1>0, PlanMethods
    <2>2. plan' \in PlanRecord
        BY <1>0, <2>1, <1>3, UpdateTyped DEF Fail, CutShort
    <2>3. RegisterTypeOK' /\ KingTypeOK'
        BY <1>0, <1>3 DEF Fail, CutShort, RegisterTypeOK, KingTypeOK
    <2>4. TurnsTypeInv'
        BY <1>0, <1>3 DEF Fail, CutShort, TurnsTypeInv, RoundsAndCalls, Goto, Stage
    <2>5. RestTypeOK'
        BY SMTT(60), <1>0, <1>3 DEF Fail, CutShort, RestTypeOK, FinStage, Mishap
    <2> QED
        BY <2>2, <2>3, <2>4, <2>5
<1>4. ASSUME NEW t \in Turn, Stopped(t) PROVE Goal
    <2>1. (IF pc[t] = "calling" THEN SettleToolCall(Halted(plan), t)
               ELSE Halted(plan)) \in PlanRecord
        BY <1>0, PlanMethods
    <2>2. plan' \in PlanRecord
        BY <1>0, <2>1, <1>4, UpdateTyped DEF Stopped, CutShort
    <2>3. RegisterTypeOK' /\ KingTypeOK'
        BY <1>0, <1>4 DEF Stopped, CutShort, RegisterTypeOK, KingTypeOK
    <2>4. TurnsTypeInv'
        BY <1>0, <1>4 DEF Stopped, CutShort, TurnsTypeInv, RoundsAndCalls, Goto, Stage
    <2>5. RestTypeOK'
        BY SMTT(60), <1>0, <1>4 DEF Stopped, CutShort, RestTypeOK, FinStage, Mishap
    <2> QED
        BY <2>2, <2>3, <2>4, <2>5
<1>5. ASSUME NEW t \in Turn, TopOfRound(t) PROVE Goal
    <2>1. HearQueued(plan) \in PlanRecord
        BY <1>0, PlanMethods
    <2>2. plan' \in PlanRecord
        BY <1>0, <2>1, <1>5, UpdateTyped DEF TopOfRound
    <2>3. RegisterTypeOK' /\ KingTypeOK'
        BY <1>0, <1>5 DEF TopOfRound, RegisterTypeOK, KingTypeOK
    <2>4. TurnsTypeInv'
        BY <1>0, <1>5 DEF TopOfRound, TurnsTypeInv, RoundsAndCalls, Goto,
           Stage, PlanRecord
    <2>5. RestTypeOK'
        BY <1>0, <1>5 DEF TopOfRound, RestTypeOK, FinStage, Mishap
    <2> QED
        BY <2>2, <2>3, <2>4, <2>5
<1>6. ASSUME NEW t \in Turn, OutOfRope(t) PROVE Goal
    <2>1. Failed(plan) \in PlanRecord
        BY <1>0, PlanMethods
    <2>2. plan' \in PlanRecord
        BY <1>0, <2>1, <1>6, UpdateTyped DEF OutOfRope, CutShort
    <2>3. RegisterTypeOK' /\ KingTypeOK'
        BY <1>0, <1>6 DEF OutOfRope, CutShort, RegisterTypeOK, KingTypeOK
    <2>4. TurnsTypeInv'
        BY <1>0, <1>6 DEF OutOfRope, CutShort, TurnsTypeInv, RoundsAndCalls, Goto, Stage
    <2>5. RestTypeOK'
        BY <1>0, <1>6 DEF OutOfRope, CutShort, RestTypeOK, FinStage, Mishap
    <2> QED
        BY <2>2, <2>3, <2>4, <2>5
<1>7. ASSUME NEW t \in Turn, AskAgain(t) PROVE Goal
    <2>1. [plan EXCEPT !.working_on = TRUE]
            \in PlanRecord
        BY <1>0 DEF PlanRecord, PlanStatus
    <2>2. plan' \in PlanRecord
        BY <1>0, <2>1, <1>7, UpdateTyped DEF AskAgain
    <2>3. RegisterTypeOK' /\ KingTypeOK'
        BY <1>0, <1>7 DEF AskAgain, RegisterTypeOK, KingTypeOK
    <2>4. TurnsTypeInv'
        BY <1>0, <1>7 DEF AskAgain, TurnsTypeInv, RoundsAndCalls, Goto, Stage
    <2>5. RestTypeOK'
        BY <1>0, <1>7 DEF AskAgain, RestTypeOK, FinStage, Mishap
    <2> QED
        BY <2>2, <2>3, <2>4, <2>5
<1>8. ASSUME NEW t \in Turn, ModelFails(t) PROVE Goal
    <2>2. plan' \in PlanRecord
        BY <1>0, <1>8, PlanMethods DEF ModelFails, Update
    <2>3. RegisterTypeOK' /\ KingTypeOK'
        BY <1>0, <1>8 DEF ModelFails, RegisterTypeOK, KingTypeOK
    <2>4. TurnsTypeInv'
        BY <1>0, <1>8 DEF ModelFails, TurnsTypeInv, RoundsAndCalls, Goto, Stage
    <2>5. RestTypeOK'
        BY SMTT(60), <1>0, <1>8 DEF ModelFails, RestTypeOK, FinStage, Mishap
    <2> QED
        BY <2>2, <2>3, <2>4, <2>5
<1>9. ASSUME NEW t \in Turn, Speak(t) PROVE Goal
    <2>1. Replied(plan) \in PlanRecord
        BY <1>0, PlanMethods
    <2>2. plan' \in PlanRecord
        BY <1>0, <2>1, <1>9, UpdateTyped DEF Speak
    <2>3. RegisterTypeOK' /\ KingTypeOK'
        BY <1>0, <1>9 DEF Speak, RegisterTypeOK, KingTypeOK
    <2>4. TurnsTypeInv'
        BY <1>0, <1>9 DEF Speak, TurnsTypeInv, RoundsAndCalls, Goto, Stage
    <2>5. RestTypeOK'
        BY <1>0, <1>9 DEF Speak, RestTypeOK, FinStage, Mishap
    <2> QED
        BY <2>2, <2>3, <2>4, <2>5
<1>10. ASSUME NEW t \in Turn, AfterSpeaking(t) PROVE Goal
    <2>2. plan' \in PlanRecord
        <3> DEFINE p == plan
        <3>3. p \in PlanRecord
            BY <1>0
        <3>4. [p EXCEPT !.status = "Drafting", !.working_on = TRUE]
                \in PlanRecord
            BY <3>3 DEF PlanRecord, PlanStatus
        <3>5. plan' \in {plan, p,
                [p EXCEPT !.status = "Drafting", !.working_on = TRUE]}
            BY <1>10 DEF AfterSpeaking, ReturnOrGoRound, Update
        <3> QED
            BY <1>0, <3>3, <3>4, <3>5
    <2>3. RegisterTypeOK' /\ KingTypeOK'
        BY <1>0, <1>10 DEF AfterSpeaking, RegisterTypeOK, KingTypeOK,
           StandDown, WithoutOwn, ReturnOrGoRound
    <2>4. TurnsTypeInv'
        <3>1. CASE pc' = [pc EXCEPT ![t] = "leaving"] /\ UNCHANGED round
            BY <1>0, <1>10, <3>1
               DEF AfterSpeaking, TurnsTypeInv, RoundsAndCalls, Stage
        <3>2. CASE /\ pc' = [pc EXCEPT ![t] = "round"]
                   /\ round' = [round EXCEPT ![t] = @ + 1]
            <4>1. round[t] < MaxRounds
                BY <1>0, <1>10 DEF AfterSpeaking, TurnsTypeInv, RoundsAndCalls
            <4>2. round' \in [Turn -> 0 .. MaxRounds]
                BY <1>0, <3>2, <4>1 DEF TurnsTypeInv
            <4> QED
                BY <1>0, <1>10, <3>2, <4>2
                   DEF AfterSpeaking, TurnsTypeInv, RoundsAndCalls, Stage
        <3> QED
            BY <1>10, <3>1, <3>2 DEF AfterSpeaking, ReturnOrGoRound, Goto
    <2>5. RestTypeOK'
        BY <1>0, <1>10 DEF AfterSpeaking, RestTypeOK, FinStage, Mishap
    <2> QED
        BY <2>2, <2>3, <2>4, <2>5
<1>11. ASSUME NEW t \in Turn, Act(t) PROVE Goal
    <2>2. plan' \in PlanRecord
        BY <1>0, <1>11, PlanMethods DEF Act, Update
    <2>3. RegisterTypeOK' /\ KingTypeOK'
        BY <1>0, <1>11 DEF Act, RegisterTypeOK, KingTypeOK
    <2>4. TurnsTypeInv'
        BY <1>0, <1>11 DEF Act, TurnsTypeInv, RoundsAndCalls, Goto, Stage
    <2>5. RestTypeOK'
        BY SMTT(60), <1>0, <1>11 DEF Act, RestTypeOK, FinStage, Mishap
    <2> QED
        BY <2>2, <2>3, <2>4, <2>5
<1>12. ASSUME NEW t \in Turn, BeginCall(t) PROVE Goal
    <2>1. BeginToolCall([plan EXCEPT !.working_on = TRUE], t) \in PlanRecord
        <3>1. [plan EXCEPT !.working_on = TRUE] \in PlanRecord
            BY <1>0 DEF PlanRecord
        <3> QED
            BY <3>1, PlanMethods
    <2>2. plan' \in PlanRecord
        BY <1>0, <2>1, <1>12, UpdateTyped DEF BeginCall
    <2>3. RegisterTypeOK' /\ KingTypeOK'
        BY <1>0, <1>12 DEF BeginCall, RegisterTypeOK, KingTypeOK
    <2>4. TurnsTypeInv'
        BY <1>0, <1>12 DEF BeginCall, TurnsTypeInv, RoundsAndCalls, Goto, Stage
    <2>5. RestTypeOK'
        BY <1>0, <1>12 DEF BeginCall, RestTypeOK, FinStage, Mishap
    <2> QED
        BY <2>2, <2>3, <2>4, <2>5
<1>13. ASSUME NEW t \in Turn, SettleCall(t) PROVE Goal
    <2>1. SettleToolCall(plan, t) \in PlanRecord
        BY <1>0, PlanMethods
    <2>2. plan' \in PlanRecord
        BY <1>0, <2>1, <1>13, UpdateTyped DEF SettleCall
    <2>3. RegisterTypeOK' /\ KingTypeOK'
        BY <1>0, <1>13 DEF SettleCall, RegisterTypeOK, KingTypeOK
    <2>4. TurnsTypeInv'
        BY <1>0, <1>13 DEF SettleCall, TurnsTypeInv, RoundsAndCalls, Goto,
           Stage
    <2>5. RestTypeOK'
        BY <1>0, <1>13 DEF SettleCall, RestTypeOK, FinStage, Mishap
    <2> QED
        BY <2>2, <2>3, <2>4, <2>5
<1>14. ASSUME NEW t \in Turn, ProposeCall(t) PROVE Goal
    <2>2. plan' \in PlanRecord
        <3> DEFINE p == Propose([SettleToolCall(plan, t) EXCEPT
                              !.working_on = FALSE,
                              !.status = "AwaitingReview"])
        <3>1. SettleToolCall(plan, t) \in PlanRecord
            BY <1>0, PlanMethods
        <3>2. [SettleToolCall(plan, t) EXCEPT !.working_on = FALSE,
                    !.status = "AwaitingReview"] \in PlanRecord
            BY <3>1 DEF PlanRecord, PlanStatus
        <3>3. p \in PlanRecord
            BY <3>2, PlanMethods
        <3>4. [p EXCEPT !.status = "Drafting", !.working_on = TRUE]
                \in PlanRecord
            BY <3>3 DEF PlanRecord, PlanStatus
        <3>5. plan' \in {plan, p,
                [p EXCEPT !.status = "Drafting", !.working_on = TRUE]}
            BY <1>14 DEF ProposeCall, ReturnOrGoRound, Update
        <3> QED
            BY <1>0, <3>3, <3>4, <3>5
    <2>3. RegisterTypeOK' /\ KingTypeOK'
        BY <1>0, <1>14 DEF ProposeCall, RegisterTypeOK, KingTypeOK, StandDown,
           WithoutOwn, ReturnOrGoRound
    <2>4. TurnsTypeInv'
        <3>1. CASE pc' = [pc EXCEPT ![t] = "leaving"] /\ UNCHANGED round
            BY <1>0, <1>14, <3>1
               DEF ProposeCall, TurnsTypeInv, RoundsAndCalls, Stage
        <3>2. CASE /\ pc' = [pc EXCEPT ![t] = "round"]
                   /\ round' = [round EXCEPT ![t] = @ + 1]
            <4>1. round[t] < MaxRounds
                BY <1>0, <1>14 DEF ProposeCall, TurnsTypeInv, RoundsAndCalls
            <4>2. round' \in [Turn -> 0 .. MaxRounds]
                BY <1>0, <3>2, <4>1 DEF TurnsTypeInv
            <4> QED
                BY <1>0, <1>14, <3>2, <4>2
                   DEF ProposeCall, TurnsTypeInv, RoundsAndCalls, Stage
        <3> QED
            BY <1>14, <3>1, <3>2 DEF ProposeCall, ReturnOrGoRound, Goto
    <2>5. RestTypeOK'
        BY SMTT(60), <1>0, <1>14 DEF ProposeCall, RestTypeOK, FinStage, Mishap
    <2> QED
        BY <2>2, <2>3, <2>4, <2>5
<1>15. ASSUME NEW t \in Turn, Drop(t) PROVE Goal
    <2>2. plan' \in PlanRecord
        BY <1>0, <1>15, PlanMethods DEF Drop, Update
    <2>3. RegisterTypeOK' /\ KingTypeOK'
        BY <1>0, <1>15 DEF Drop, RegisterTypeOK, KingTypeOK, StandDown,
           WithoutOwn
    <2>4. TurnsTypeInv'
        BY <1>0, <1>15 DEF Drop, TurnsTypeInv, RoundsAndCalls, Goto, Stage
    <2>5. RestTypeOK'
        BY SMTT(60), <1>0, <1>15 DEF Drop, RestTypeOK, FinStage, Mishap
    <2> QED
        BY <2>2, <2>3, <2>4, <2>5
<1>16. ASSUME NEW t \in Turn, Panic(t) PROVE Goal
    <2>2. plan' \in PlanRecord
        BY <1>0, <1>16, PlanMethods DEF Panic, Update
    <2>3. RegisterTypeOK' /\ KingTypeOK'
        BY <1>0, <1>16 DEF Panic, RegisterTypeOK, KingTypeOK, StandDown,
           WithoutOwn
    <2>4. TurnsTypeInv'
        BY <1>0, <1>16 DEF Panic, TurnsTypeInv, RoundsAndCalls, Goto, Stage
    <2>5. RestTypeOK'
        BY <1>0, <1>16 DEF Panic, RestTypeOK, FinStage, Mishap
    <2> QED
        BY <2>2, <2>3, <2>4, <2>5
<1>17. ASSUME NEW t \in Turn, RepairCrash(t) PROVE Goal
    <2>1. Failed(plan) \in PlanRecord
        BY <1>0, PlanMethods
    <2>2. plan' \in PlanRecord
        BY <1>0, <2>1, <1>17, UpdateTyped DEF RepairCrash
    <2>3. RegisterTypeOK' /\ KingTypeOK'
        BY <1>0, <1>17 DEF RepairCrash, RegisterTypeOK, KingTypeOK
    <2>4. TurnsTypeInv'
        BY <1>0, <1>17 DEF RepairCrash, TurnsTypeInv, RoundsAndCalls, Goto,
           Stage
    <2>5. RestTypeOK'
        BY SMTT(60), <1>0, <1>17 DEF RepairCrash, RestTypeOK, FinStage, Mishap
    <2> QED
        BY <2>2, <2>3, <2>4, <2>5
<1>18. ASSUME NEW t \in Turn, CrashUnseen(t) PROVE Goal
    <2>2. plan' \in PlanRecord
        BY <1>0, <1>18, PlanMethods DEF CrashUnseen, Update
    <2>3. RegisterTypeOK' /\ KingTypeOK'
        BY <1>0, <1>18 DEF CrashUnseen, RegisterTypeOK, KingTypeOK
    <2>4. TurnsTypeInv'
        BY <1>0, <1>18 DEF CrashUnseen, TurnsTypeInv, RoundsAndCalls, Goto,
           Stage
    <2>5. RestTypeOK'
        BY <1>0, <1>18 DEF CrashUnseen, RestTypeOK, FinStage, Mishap
    <2> QED
        BY <2>2, <2>3, <2>4, <2>5
<1>19. ASSUME NEW f \in Finisher, FinishBegins(f) PROVE Goal
    <2>2. plan' \in PlanRecord
        BY <1>0, <1>19, PlanMethods DEF FinishBegins, FinishVars, Update
    <2>3. RegisterTypeOK' /\ KingTypeOK'
        BY <1>0, <1>19 DEF FinishBegins, FinishVars, RegisterTypeOK, KingTypeOK
    <2>4. TurnsTypeInv'
        BY <1>0, <1>19 DEF FinishBegins, FinishVars, TurnsTypeInv,
           RoundsAndCalls, Goto, Stage
    <2>5. RestTypeOK'
        BY SMTT(60), <1>0, <1>19 DEF FinishBegins, FinishVars, RestTypeOK, FinStage,
           Mishap
    <2> QED
        BY SMTT(60), <2>2, <2>3, <2>4, <2>5
<1>20. ASSUME NEW f \in Finisher, GitSettles(f) PROVE Goal
    <2>2. plan' \in PlanRecord
        BY <1>0, <1>20, PlanMethods DEF GitSettles, FinishVars, Update
    <2>3. RegisterTypeOK' /\ KingTypeOK'
        BY <1>0, <1>20 DEF GitSettles, FinishVars, RegisterTypeOK, KingTypeOK
    <2>4. TurnsTypeInv'
        BY <1>0, <1>20 DEF GitSettles, FinishVars, TurnsTypeInv,
           RoundsAndCalls, Goto, Stage
    <2>5. RestTypeOK'
        BY <1>0, <1>20 DEF GitSettles, FinishVars, RestTypeOK, FinStage, Mishap
    <2> QED
        BY <2>2, <2>3, <2>4, <2>5
<1>21. ASSUME NEW f \in Finisher, GitRefuses(f) PROVE Goal
    <2>2. plan' \in PlanRecord
        BY <1>0, <1>21, PlanMethods DEF GitRefuses, FinishVars, Update
    <2>3. RegisterTypeOK' /\ KingTypeOK'
        BY <1>0, <1>21 DEF GitRefuses, FinishVars, RegisterTypeOK, KingTypeOK
    <2>4. TurnsTypeInv'
        BY <1>0, <1>21 DEF GitRefuses, FinishVars, TurnsTypeInv,
           RoundsAndCalls, Goto, Stage
    <2>5. RestTypeOK'
        BY SMTT(60), <1>0, <1>21 DEF GitRefuses, FinishVars, RestTypeOK, FinStage, Mishap
    <2> QED
        BY <2>2, <2>3, <2>4, <2>5
<1>22. ASSUME NEW f \in Finisher, FinishRecords(f) PROVE Goal
    <2>2. plan' \in PlanRecord
        BY <1>0, <1>22, PlanMethods DEF FinishRecords, FinishVars, Update
    <2>3. RegisterTypeOK' /\ KingTypeOK'
        BY <1>0, <1>22 DEF FinishRecords, FinishVars, RegisterTypeOK,
           KingTypeOK
    <2>4. TurnsTypeInv'
        BY <1>0, <1>22 DEF FinishRecords, FinishVars, TurnsTypeInv,
           RoundsAndCalls, Goto, Stage
    <2>5. RestTypeOK'
        BY <1>0, <1>22 DEF FinishRecords, FinishVars, RestTypeOK, FinStage,
           Mishap
    <2> QED
        BY <2>2, <2>3, <2>4, <2>5
<1>23. CASE SaySomething
    <2>1. Receive(plan, spoken + 1) \in PlanRecord
        <3>1. spoken + 1 \in Nat
            BY <1>0 DEF KingTypeOK
        <3> QED
            BY <1>0, <3>1, PlanMethods
    <2>2. plan' \in PlanRecord
        BY <1>0, <2>1, <1>23, UpdateTyped DEF SaySomething
    <2>3. RegisterTypeOK' /\ KingTypeOK'
        BY <1>0, <1>23 DEF SaySomething, RegisterTypeOK, KingTypeOK
    <2>4. TurnsTypeInv'
        BY <1>0, <1>23 DEF SaySomething, TurnsTypeInv, RoundsAndCalls, Goto,
           Stage
    <2>5. RestTypeOK'
        BY <1>0, <1>23 DEF SaySomething, RestTypeOK, FinStage, Mishap
    <2> QED
        BY SMTT(60), <2>2, <2>3, <2>4, <2>5
<1>24. CASE TakeBack
    <2>1. PICK i \in 1 .. Len(plan.queued) :
            /\ Update(Unqueue(plan, i))
            /\ withdrawn' = withdrawn \cup {plan.queued[i]}
        BY <1>24 DEF TakeBack
    <2>2. plan' \in PlanRecord /\ plan.queued[i] \in Nat
        BY <1>0, <2>1, UnqueueReturnsPlan, UpdateTyped
    <2>3. RegisterTypeOK' /\ KingTypeOK'
        BY <1>0, <1>24, <2>1, <2>2 DEF TakeBack, RegisterTypeOK, KingTypeOK
    <2>4. TurnsTypeInv'
        BY <1>0, <1>24 DEF TakeBack, TurnsTypeInv, RoundsAndCalls, Goto, Stage
    <2>5. RestTypeOK'
        BY <1>0, <1>24 DEF TakeBack, RestTypeOK, FinStage, Mishap
    <2> QED
        BY <2>2, <2>3, <2>4, <2>5
<1>25. CASE Draft
    <2>1. [plan EXCEPT !.status = "Drafting", !.working_on = TRUE]
            \in PlanRecord
        BY <1>0 DEF PlanRecord, PlanStatus
    <2>2. plan' \in PlanRecord
        BY <1>0, <2>1, <1>25, UpdateTyped DEF Draft
    <2>3. RegisterTypeOK' /\ KingTypeOK'
        BY <1>0, <1>25 DEF Draft, RegisterTypeOK, KingTypeOK
    <2>4. TurnsTypeInv'
        BY <1>0, <1>25 DEF Draft, TurnsTypeInv, RoundsAndCalls, Goto, Stage
    <2>5. RestTypeOK'
        BY SMTT(60), <1>0, <1>25 DEF Draft, RestTypeOK, FinStage, Mishap
    <2> QED
        BY <2>2, <2>3, <2>4, <2>5
<1>26. CASE StopTurn
    <2>2. plan' \in PlanRecord
        BY <1>0, <1>26, PlanMethods DEF StopTurn, Update
    <2>3. RegisterTypeOK' /\ KingTypeOK'
        BY <1>0, <1>26 DEF StopTurn, IsRunning, RegisterTypeOK, KingTypeOK
    <2>4. TurnsTypeInv'
        BY <1>0, <1>26 DEF StopTurn, TurnsTypeInv, RoundsAndCalls, Goto, Stage
    <2>5. RestTypeOK'
        BY SMTT(60), <1>0, <1>26 DEF StopTurn, RestTypeOK, FinStage, Mishap
    <2> QED
        BY <2>2, <2>3, <2>4, <2>5
<1>27. CASE StopFindsNone
    <2>2. plan' \in PlanRecord
        BY <1>0, <1>27, PlanMethods DEF StopFindsNone, Update
    <2>3. RegisterTypeOK' /\ KingTypeOK'
        BY <1>0, <1>27 DEF StopFindsNone, RegisterTypeOK, KingTypeOK
    <2>4. TurnsTypeInv'
        BY <1>0, <1>27 DEF StopFindsNone, TurnsTypeInv, RoundsAndCalls, Goto,
           Stage
    <2>5. RestTypeOK'
        BY SMTT(60), <1>0, <1>27 DEF StopFindsNone, RestTypeOK, FinStage, Mishap
    <2> QED
        BY <2>2, <2>3, <2>4, <2>5
<1>28. CASE StopRepairs
    <2>1. (IF IsBusy(plan) THEN Halted(plan) ELSE plan) \in PlanRecord
        BY <1>0, PlanMethods
    <2>2. plan' \in PlanRecord
        BY <1>0, <2>1, <1>28, UpdateTyped DEF StopRepairs
    <2>3. RegisterTypeOK' /\ KingTypeOK'
        BY <1>0, <1>28 DEF StopRepairs, RegisterTypeOK, KingTypeOK
    <2>4. TurnsTypeInv'
        BY <1>0, <1>28 DEF StopRepairs, TurnsTypeInv, RoundsAndCalls, Goto,
           Stage
    <2>5. RestTypeOK'
        BY <1>0, <1>28 DEF StopRepairs, RestTypeOK, FinStage, Mishap
    <2> QED
        BY <2>2, <2>3, <2>4, <2>5
<1>29. CASE ApprovePlan
    <2>1. [Say(Approve(plan), spoken + 1) EXCEPT !.status = "Drafting"]
            \in PlanRecord
        <3>1. spoken + 1 \in Nat
            BY <1>0 DEF KingTypeOK
        <3>2. Say(Approve(plan), spoken + 1) \in PlanRecord
            BY <1>0, <3>1, PlanMethods
        <3> QED
            BY <3>2 DEF PlanRecord, PlanStatus
    <2>2. plan' \in PlanRecord
        BY <1>0, <2>1, <1>29, UpdateTyped DEF ApprovePlan
    <2>3. RegisterTypeOK' /\ KingTypeOK'
        BY <1>0, <1>29 DEF ApprovePlan, RegisterTypeOK, KingTypeOK
    <2>4. TurnsTypeInv'
        BY <1>0, <1>29 DEF ApprovePlan, TurnsTypeInv, RoundsAndCalls, Goto,
           Stage
    <2>5. RestTypeOK'
        BY SMTT(60), <1>0, <1>29 DEF ApprovePlan, RestTypeOK, FinStage, Mishap
    <2> QED
        BY <2>2, <2>3, <2>4, <2>5
<1>30. CASE SetAside
    <2>1. SetAsideProposal(plan) \in PlanRecord
        BY <1>0, PlanMethods
    <2>2. plan' \in PlanRecord
        BY <1>0, <2>1, <1>30, UpdateTyped DEF SetAside
    <2>3. RegisterTypeOK' /\ KingTypeOK'
        BY <1>0, <1>30 DEF SetAside, RegisterTypeOK, KingTypeOK
    <2>4. TurnsTypeInv'
        BY <1>0, <1>30 DEF SetAside, TurnsTypeInv, RoundsAndCalls, Goto, Stage
    <2>5. RestTypeOK'
        BY <1>0, <1>30 DEF SetAside, RestTypeOK, FinStage, Mishap
    <2> QED
        BY <2>2, <2>3, <2>4, <2>5
<1>31. CASE Annotate
    <2>1. [plan EXCEPT !.notes = TRUE]
            \in PlanRecord
        BY <1>0 DEF PlanRecord, PlanStatus
    <2>2. plan' \in PlanRecord
        BY <1>0, <2>1, <1>31, UpdateTyped DEF Annotate
    <2>3. RegisterTypeOK' /\ KingTypeOK'
        BY <1>0, <1>31 DEF Annotate, RegisterTypeOK, KingTypeOK
    <2>4. TurnsTypeInv'
        BY <1>0, <1>31 DEF Annotate, TurnsTypeInv, RoundsAndCalls, Goto, Stage
    <2>5. RestTypeOK'
        BY <1>0, <1>31 DEF Annotate, RestTypeOK, FinStage, Mishap
    <2> QED
        BY <2>2, <2>3, <2>4, <2>5
<1>32. CASE WithdrawNote
    <2>1. [plan EXCEPT !.notes = FALSE]
            \in PlanRecord
        BY <1>0 DEF PlanRecord, PlanStatus
    <2>2. plan' \in PlanRecord
        BY <1>0, <2>1, <1>32, UpdateTyped DEF WithdrawNote
    <2>3. RegisterTypeOK' /\ KingTypeOK'
        BY <1>0, <1>32 DEF WithdrawNote, RegisterTypeOK, KingTypeOK
    <2>4. TurnsTypeInv'
        BY <1>0, <1>32 DEF WithdrawNote, TurnsTypeInv, RoundsAndCalls, Goto,
           Stage
    <2>5. RestTypeOK'
        BY SMTT(60), <1>0, <1>32 DEF WithdrawNote, RestTypeOK, FinStage, Mishap
    <2> QED
        BY <2>2, <2>3, <2>4, <2>5
<1>33. CASE SendNotes
    <2>1. Receive([plan EXCEPT !.notes = FALSE], spoken + 1) \in PlanRecord
        <3>1. spoken + 1 \in Nat
            BY <1>0 DEF KingTypeOK
        <3>2. [plan EXCEPT !.notes = FALSE] \in PlanRecord
            BY <1>0 DEF PlanRecord
        <3> QED
            BY <3>1, <3>2, PlanMethods
    <2>2. plan' \in PlanRecord
        BY <1>0, <2>1, <1>33, UpdateTyped DEF SendNotes
    <2>3. RegisterTypeOK' /\ KingTypeOK'
        BY <1>0, <1>33 DEF SendNotes, RegisterTypeOK, KingTypeOK
    <2>4. TurnsTypeInv'
        BY <1>0, <1>33 DEF SendNotes, TurnsTypeInv, RoundsAndCalls, Goto, Stage
    <2>5. RestTypeOK'
        BY SMTT(60), <1>0, <1>33 DEF SendNotes, RestTypeOK, FinStage, Mishap
    <2> QED
        BY <2>2, <2>3, <2>4, <2>5
<1>34. CASE LeaveKingdom
    <2>2. plan' \in PlanRecord
        BY <1>0, <1>34, PlanMethods DEF LeaveKingdom, Update
    <2>3. RegisterTypeOK' /\ KingTypeOK'
        BY <1>0, <1>34 DEF LeaveKingdom, RegisterTypeOK, KingTypeOK
    <2>4. TurnsTypeInv'
        BY <1>0, <1>34 DEF LeaveKingdom, TurnsTypeInv, RoundsAndCalls, Goto,
           Stage
    <2>5. RestTypeOK'
        <3>1. (present \in BOOLEAN)'
            BY <1>34 DEF LeaveKingdom
        <3>2. (worktree \in BOOLEAN)' /\ (stopping \in BOOLEAN)'
            BY <1>0, <1>34, Zenon DEF LeaveKingdom, RestTypeOK
        <3>3. (fin \in [Finisher -> FinStage])' /\ (mishaps \in Nat)'
            BY <1>0, <1>34 DEF LeaveKingdom, RestTypeOK, FinStage, Mishap
        <3> QED
            BY <3>1, <3>2, <3>3 DEF RestTypeOK
    <2> QED
        BY <2>2, <2>3, <2>4, <2>5
<1>35. CASE OpenKingdom
    <2>2. plan' \in PlanRecord
        BY <1>0, <1>35, PlanMethods DEF OpenKingdom, Update
    <2>3. RegisterTypeOK' /\ KingTypeOK'
        BY <1>0, <1>35 DEF OpenKingdom, RegisterTypeOK, KingTypeOK
    <2>4. TurnsTypeInv'
        BY <1>0, <1>35 DEF OpenKingdom, TurnsTypeInv, RoundsAndCalls, Goto,
           Stage
    <2>5. RestTypeOK'
        BY SMTT(60), <1>0, <1>35 DEF OpenKingdom, RestTypeOK, FinStage, Mishap
    <2> QED
        BY <2>2, <2>3, <2>4, <2>5
<1>36. CASE Dies
    <2>2. plan' \in PlanRecord
        BY <1>0, <1>36, PlanMethods DEF Dies, Update
    <2>3. RegisterTypeOK' /\ KingTypeOK'
        BY <1>0, <1>36 DEF Dies, RegisterTypeOK, KingTypeOK
    <2>4. TurnsTypeInv'
        BY <1>0, <1>36 DEF Dies, TurnsTypeInv, RoundsAndCalls, Goto, Stage
    <2>5. RestTypeOK'
        <3>1. (present \in BOOLEAN)'
            BY <1>36 DEF Dies
        <3>2. (worktree \in BOOLEAN)' /\ (stopping \in BOOLEAN)'
            BY <1>0, <1>36, Zenon DEF Dies, RestTypeOK
        <3>3. (fin \in [Finisher -> FinStage])' /\ (mishaps \in Nat)'
            BY <1>0, <1>36 DEF Dies, RestTypeOK, FinStage, Mishap
        <3> QED
            BY <3>1, <3>2, <3>3 DEF RestTypeOK
    <2> QED
        BY <2>2, <2>3, <2>4, <2>5
<1>37. CASE UNCHANGED vars
    BY <1>0, <1>37 DEF vars, RegisterTypeOK, TurnsTypeInv, KingTypeOK,
       RestTypeOK,
       RoundsAndCalls
<1> QED
    BY <1>1, <1>2, <1>3, <1>4, <1>5, <1>6, <1>7, <1>8, <1>9, <1>10, <1>11,
       <1>12, <1>13, <1>14, <1>15, <1>16, <1>17, <1>18, <1>19, <1>20, <1>21,
       <1>22, <1>23, <1>24, <1>25, <1>26, <1>27, <1>28, <1>29, <1>30, <1>31,
       <1>32, <1>33, <1>34, <1>35, <1>36, <1>37
       DEF Next, TurnStep, OwnStep, Answer, Accident, King, Finish, Server

(* Every variable keeps to its kind, and the counters of converse to their *)
(* bounds, in every state a chamber reaches.                               *)
THEOREM TypeCorrect == Spec => []TypeOK
<1>1. TypeInv => TypeOK
    BY DEF TypeInv
<1> QED
    BY TypeInvInit, TypeInvNext, <1>1, PTL DEF Spec

-----------------------------------------------------------------------------
(* What the proofs need of the types.                                      *)
LEMMA TypeFacts ==
    TypeInv => /\ plan \in PlanRecord
               /\ running \in Turn \cup {NoTurn}
               /\ newest \in Turn \cup {NoTurn}
               /\ halted \subseteq Turn
               /\ pc \in [Turn -> Stage]
               /\ present \in BOOLEAN
               /\ mishaps \in Nat
               /\ NoTurn \notin Turn
BY ChamberAssumption DEF TypeInv, TypeOK, Turn

-----------------------------------------------------------------------------
(* The register.                                                           *)

LEMMA EntryIsNewestNext ==
    TypeInv /\ EntryIsNewest /\ [Next]_vars => EntryIsNewest'
<1> SUFFICES ASSUME TypeInv, EntryIsNewest, [Next]_vars
             PROVE  EntryIsNewest'
    OBVIOUS
<1>0. /\ running \in Turn \cup {NoTurn}
      /\ newest \in Turn \cup {NoTurn}
      /\ pc \in [Turn -> Stage]
      /\ NoTurn \notin Turn
      /\ EntryIsNewest
    BY TypeFacts
<1> USE DEF EntryIsNewest, Guarded
<1>1. ASSUME NEW t \in Turn, Begin(t) PROVE EntryIsNewest'
    BY <1>0, <1>1 DEF Begin, Goto, turnVars, register, king, rest
<1>2. ASSUME NEW t \in Turn, OpenModel(t) PROVE EntryIsNewest'
    BY <1>0, <1>2 DEF OpenModel, Goto, turnVars, register, king, rest
<1>3. ASSUME NEW t \in Turn, Fail(t) PROVE EntryIsNewest'
    BY <1>0, <1>3 DEF Fail, CutShort, Goto, turnVars, register, king, rest
<1>4. ASSUME NEW t \in Turn, Stopped(t) PROVE EntryIsNewest'
    BY <1>0, <1>4 DEF Stopped, CutShort, Goto, turnVars, register, king, rest
<1>5. ASSUME NEW t \in Turn, TopOfRound(t) PROVE EntryIsNewest'
    BY <1>0, <1>5 DEF TopOfRound, Goto, turnVars, register, king, rest
<1>6. ASSUME NEW t \in Turn, OutOfRope(t) PROVE EntryIsNewest'
    BY <1>0, <1>6 DEF OutOfRope, CutShort, Goto, turnVars, register, king, rest
<1>7. ASSUME NEW t \in Turn, AskAgain(t) PROVE EntryIsNewest'
    BY <1>0, <1>7 DEF AskAgain, Goto, turnVars, register, king, rest
<1>8. ASSUME NEW t \in Turn, ModelFails(t) PROVE EntryIsNewest'
    BY <1>0, <1>8 DEF ModelFails, Goto, turnVars, register, king, rest
<1>9. ASSUME NEW t \in Turn, Speak(t) PROVE EntryIsNewest'
    BY <1>0, <1>9 DEF Speak, Goto, turnVars, register, king, rest
<1>10. ASSUME NEW t \in Turn, AfterSpeaking(t) PROVE EntryIsNewest'
    BY <1>0, <1>10 DEF AfterSpeaking, ReturnOrGoRound, StandDown, WithoutOwn,
       Goto, turnVars, register, king, rest
<1>11. ASSUME NEW t \in Turn, Act(t) PROVE EntryIsNewest'
    BY <1>0, <1>11 DEF Act, Goto, turnVars, register, king, rest
<1>12. ASSUME NEW t \in Turn, BeginCall(t) PROVE EntryIsNewest'
    BY <1>0, <1>12 DEF BeginCall, Goto, turnVars, register, king, rest
<1>13. ASSUME NEW t \in Turn, SettleCall(t) PROVE EntryIsNewest'
    BY <1>0, <1>13 DEF SettleCall, Goto, turnVars, register, king, rest
<1>14. ASSUME NEW t \in Turn, ProposeCall(t) PROVE EntryIsNewest'
    BY <1>0, <1>14 DEF ProposeCall, ReturnOrGoRound, StandDown, WithoutOwn,
       Goto, turnVars, register, king, rest
<1>15. ASSUME NEW t \in Turn, Drop(t) PROVE EntryIsNewest'
    BY <1>0, <1>15 DEF Drop, StandDown, WithoutOwn, Goto, turnVars, register,
       king, rest
<1>16. ASSUME NEW t \in Turn, Panic(t) PROVE EntryIsNewest'
    BY <1>0, <1>16 DEF Panic, StandDown, WithoutOwn, Mishap, Goto, turnVars,
       register, king, rest
<1>17. ASSUME NEW t \in Turn, RepairCrash(t) PROVE EntryIsNewest'
    BY <1>0, <1>17 DEF RepairCrash, Goto, turnVars, register, king, rest
<1>18. ASSUME NEW t \in Turn, CrashUnseen(t) PROVE EntryIsNewest'
    BY <1>0, <1>18 DEF CrashUnseen, Goto, turnVars, register, king, rest
<1>19. ASSUME NEW f \in Finisher, FinishBegins(f) PROVE EntryIsNewest'
    BY <1>0, <1>19 DEF FinishBegins, FinishVars, Goto, turnVars, register,
       king, rest
<1>20. ASSUME NEW f \in Finisher, GitSettles(f) PROVE EntryIsNewest'
    BY <1>0, <1>20 DEF GitSettles, FinishVars, Goto, turnVars, register, king,
       rest
<1>21. ASSUME NEW f \in Finisher, GitRefuses(f) PROVE EntryIsNewest'
    BY <1>0, <1>21 DEF GitRefuses, FinishVars, Goto, turnVars, register, king,
       rest
<1>22. ASSUME NEW f \in Finisher, FinishRecords(f) PROVE EntryIsNewest'
    BY <1>0, <1>22 DEF FinishRecords, FinishVars, Goto, turnVars, register,
       king, rest
<1>23. CASE SaySomething
    BY <1>0, <1>23 DEF SaySomething, Goto, turnVars, register, king, rest
<1>24. CASE TakeBack
    BY <1>0, <1>24 DEF TakeBack, Goto, turnVars, register, king, rest
<1>25. CASE Draft
    BY <1>0, <1>25 DEF Draft, Goto, turnVars, register, king, rest
<1>26. CASE StopTurn
    BY <1>0, <1>26 DEF StopTurn, IsRunning, Goto, turnVars, register, king,
       rest
<1>27. CASE StopFindsNone
    BY <1>0, <1>27 DEF StopFindsNone, Goto, turnVars, register, king, rest
<1>28. CASE StopRepairs
    BY <1>0, <1>28 DEF StopRepairs, Goto, turnVars, register, king, rest
<1>29. CASE ApprovePlan
    BY <1>0, <1>29 DEF ApprovePlan, Goto, turnVars, register, king, rest
<1>30. CASE SetAside
    BY <1>0, <1>30 DEF SetAside, Goto, turnVars, register, king, rest
<1>31. CASE Annotate
    BY <1>0, <1>31 DEF Annotate, Goto, turnVars, register, king, rest
<1>32. CASE WithdrawNote
    BY <1>0, <1>32 DEF WithdrawNote, Goto, turnVars, register, king, rest
<1>33. CASE SendNotes
    BY <1>0, <1>33 DEF SendNotes, Goto, turnVars, register, king, rest
<1>34. CASE LeaveKingdom
    BY <1>0, <1>34 DEF LeaveKingdom, Mishap, Goto, turnVars, register, king,
       rest
<1>35. CASE OpenKingdom
    BY <1>0, <1>35 DEF OpenKingdom, Mishap, Goto, turnVars, register, king,
       rest
<1>36. CASE Dies
    BY <1>0, <1>36 DEF Dies, Mishap, Goto, turnVars, register, king, rest
<1>37. CASE UNCHANGED vars
    BY <1>0, <1>37 DEF vars, turnVars, register
<1> QED
    BY <1>1, <1>2, <1>3, <1>4, <1>5, <1>6, <1>7, <1>8, <1>9, <1>10, <1>11,
       <1>12, <1>13, <1>14, <1>15, <1>16, <1>17, <1>18, <1>19, <1>20,
       <1>21, <1>22, <1>23, <1>24, <1>25, <1>26, <1>27, <1>28, <1>29,
       <1>30, <1>31, <1>32, <1>33, <1>34, <1>35, <1>36, <1>37
       DEF Next, TurnStep, OwnStep, Answer, Accident, King, Finish, Server

(* For as long as a turn may do anything the register names it, if it is   *)
(* the newest, and it names no other turn (turns.rs: "the newer turn is    *)
(* the one the King's Stop reaches"), through panics, deaths of the server *)
(* and kingdoms left and opened.                                           *)
THEOREM RegisterNamesTheNewest == Spec => []EntryIsNewest
<1>1. Init => EntryIsNewest
    BY DEF Init, EntryIsNewest
<1> QED
    BY TypeInvInit, TypeInvNext, <1>1, EntryIsNewestNext, PTL DEF Spec

-----------------------------------------------------------------------------
(* The refinement.                                                         *)

LEMMA StepsOfTheRegister ==
    TypeInv /\ [Next]_vars => [Registry!TurnsNext]_Registry!tvars
<1> SUFFICES ASSUME TypeInv, [Next]_vars
             PROVE  [Registry!TurnsNext]_Registry!tvars
    OBVIOUS
<1>0. /\ running \in Turn \cup {NoTurn}
      /\ pc \in [Turn -> Stage]
      /\ NoTurn \notin Turn
    BY TypeFacts
<1> DEFINE Step == [Registry!TurnsNext]_Registry!tvars
<1> USE DEF Guarded, Alive, Begun, Registry!tvars
<1>1. ASSUME NEW t \in Turn, Begin(t) PROVE Step
    <2>1. Alive' = Alive \cup {t}
        BY <1>0, <1>1 DEF Begin, Goto
    <2>2. t \notin Begun /\ Begun' = Begun \cup {t}
        BY <1>0, <1>1 DEF Begin, Goto
    <2>3. Registry!Begins(t)
        BY <2>1, <2>2, <1>1 DEF Begin, Registry!Begins
    <2> QED
        BY <2>3 DEF Registry!TurnsNext
<1>2. ASSUME NEW t \in Turn, OpenModel(t) PROVE Step
    BY <1>0, <1>2 DEF OpenModel, Goto, turnVars, register, king, rest
<1>3. ASSUME NEW t \in Turn, Fail(t) PROVE Step
    BY <1>0, <1>3 DEF Fail, CutShort, Goto, turnVars, register, king, rest
<1>4. ASSUME NEW t \in Turn, Stopped(t) PROVE Step
    BY <1>0, <1>4 DEF Stopped, CutShort, Goto, turnVars, register, king, rest
<1>5. ASSUME NEW t \in Turn, TopOfRound(t) PROVE Step
    BY <1>0, <1>5 DEF TopOfRound, Goto, turnVars, register, king, rest
<1>6. ASSUME NEW t \in Turn, OutOfRope(t) PROVE Step
    BY <1>0, <1>6 DEF OutOfRope, CutShort, Goto, turnVars, register, king, rest
<1>7. ASSUME NEW t \in Turn, AskAgain(t) PROVE Step
    BY <1>0, <1>7 DEF AskAgain, Goto, turnVars, register, king, rest
<1>8. ASSUME NEW t \in Turn, ModelFails(t) PROVE Step
    BY <1>0, <1>8 DEF ModelFails, Goto, turnVars, register, king, rest
<1>9. ASSUME NEW t \in Turn, Speak(t) PROVE Step
    BY <1>0, <1>9 DEF Speak, Goto, turnVars, register, king, rest
<1>10. ASSUME NEW t \in Turn, AfterSpeaking(t) PROVE Step
    <2>1. Alive' = Alive /\ Begun' = Begun /\ t \in Alive
        BY <1>0, <1>10 DEF AfterSpeaking, ReturnOrGoRound, Goto
    <2>2. CASE UNCHANGED register
        BY <2>1, <2>2 DEF register
    <2>3. CASE StandDown(t)
        <3>1. Registry!StandsDown(t)
            BY <2>1, <2>3 DEF StandDown, WithoutOwn, Registry!StandsDown,
                              Registry!WithoutOwn
        <3> QED
            BY <3>1 DEF Registry!TurnsNext
    <2> QED
        BY <2>2, <2>3, <1>10 DEF AfterSpeaking, ReturnOrGoRound
<1>11. ASSUME NEW t \in Turn, Act(t) PROVE Step
    BY <1>0, <1>11 DEF Act, Goto, turnVars, register, king, rest
<1>12. ASSUME NEW t \in Turn, BeginCall(t) PROVE Step
    BY <1>0, <1>12 DEF BeginCall, Goto, turnVars, register, king, rest
<1>13. ASSUME NEW t \in Turn, SettleCall(t) PROVE Step
    BY <1>0, <1>13 DEF SettleCall, Goto, turnVars, register, king, rest
<1>14. ASSUME NEW t \in Turn, ProposeCall(t) PROVE Step
    <2>1. Alive' = Alive /\ Begun' = Begun /\ t \in Alive
        BY <1>0, <1>14 DEF ProposeCall, ReturnOrGoRound, Goto
    <2>2. CASE UNCHANGED register
        BY <2>1, <2>2 DEF register
    <2>3. CASE StandDown(t)
        <3>1. Registry!StandsDown(t)
            BY <2>1, <2>3 DEF StandDown, WithoutOwn, Registry!StandsDown,
                              Registry!WithoutOwn
        <3> QED
            BY <3>1 DEF Registry!TurnsNext
    <2> QED
        BY <2>2, <2>3, <1>14 DEF ProposeCall, ReturnOrGoRound
<1>15. ASSUME NEW t \in Turn, Drop(t) PROVE Step
    <2>1. /\ t \in Alive /\ Alive' = Alive \ {t}
          /\ Begun' = Begun
        BY <1>0, <1>15 DEF Drop, Goto
    <2>2. Registry!Drops(t)
        BY <2>1, <1>15 DEF Drop, StandDown, WithoutOwn, Registry!Drops,
                          Registry!WithoutOwn
    <2> QED
        BY <2>2 DEF Registry!TurnsNext
<1>16. ASSUME NEW t \in Turn, Panic(t) PROVE Step
    <2>1. /\ t \in Alive /\ Alive' = Alive \ {t}
          /\ Begun' = Begun
        BY <1>0, <1>16 DEF Panic, Goto
    <2>2. Registry!Drops(t)
        BY <2>1, <1>16 DEF Panic, StandDown, WithoutOwn, Registry!Drops,
                          Registry!WithoutOwn
    <2> QED
        BY <2>2 DEF Registry!TurnsNext
<1>17. ASSUME NEW t \in Turn, RepairCrash(t) PROVE Step
    BY <1>0, <1>17 DEF RepairCrash, Goto, turnVars, register, king, rest
<1>18. ASSUME NEW t \in Turn, CrashUnseen(t) PROVE Step
    BY <1>0, <1>18 DEF CrashUnseen, Goto, turnVars, register, king, rest
<1>19. ASSUME NEW f \in Finisher, FinishBegins(f) PROVE Step
    BY <1>0, <1>19 DEF FinishBegins, FinishVars, Goto, turnVars, register,
       king, rest
<1>20. ASSUME NEW f \in Finisher, GitSettles(f) PROVE Step
    BY <1>0, <1>20 DEF GitSettles, FinishVars, Goto, turnVars, register, king,
       rest
<1>21. ASSUME NEW f \in Finisher, GitRefuses(f) PROVE Step
    BY <1>0, <1>21 DEF GitRefuses, FinishVars, Goto, turnVars, register, king,
       rest
<1>22. ASSUME NEW f \in Finisher, FinishRecords(f) PROVE Step
    BY <1>0, <1>22 DEF FinishRecords, FinishVars, Goto, turnVars, register,
       king, rest
<1>23. CASE SaySomething
    BY <1>0, <1>23 DEF SaySomething, Goto, turnVars, register, king, rest
<1>24. CASE TakeBack
    BY <1>0, <1>24 DEF TakeBack, Goto, turnVars, register, king, rest
<1>25. CASE Draft
    BY <1>0, <1>25 DEF Draft, Goto, turnVars, register, king, rest
<1>26. CASE StopTurn
    <2>1. Registry!Halts
        BY <1>0, <1>26 DEF StopTurn, IsRunning, turnVars, Registry!Halts
    <2> QED
        BY <2>1 DEF Registry!TurnsNext
<1>27. CASE StopFindsNone
    BY <1>0, <1>27 DEF StopFindsNone, Goto, turnVars, register, king, rest
<1>28. CASE StopRepairs
    BY <1>0, <1>28 DEF StopRepairs, Goto, turnVars, register, king, rest
<1>29. CASE ApprovePlan
    BY <1>0, <1>29 DEF ApprovePlan, Goto, turnVars, register, king, rest
<1>30. CASE SetAside
    BY <1>0, <1>30 DEF SetAside, Goto, turnVars, register, king, rest
<1>31. CASE Annotate
    BY <1>0, <1>31 DEF Annotate, Goto, turnVars, register, king, rest
<1>32. CASE WithdrawNote
    BY <1>0, <1>32 DEF WithdrawNote, Goto, turnVars, register, king, rest
<1>33. CASE SendNotes
    BY <1>0, <1>33 DEF SendNotes, Goto, turnVars, register, king, rest
<1>34. CASE LeaveKingdom
    BY <1>0, <1>34 DEF LeaveKingdom, Mishap, Goto, turnVars, register, king,
       rest
<1>35. CASE OpenKingdom
    BY <1>0, <1>35 DEF OpenKingdom, Mishap, Goto, turnVars, register, king,
       rest
<1>36. CASE Dies
    <2>1. Alive' = {} /\ Begun' = Begun
        BY <1>0, <1>36 DEF Dies, Stage
    <2>2. Registry!Dies
        BY <2>1, <1>36 DEF Dies, Registry!Dies
    <2> QED
        BY <2>2 DEF Registry!TurnsNext
<1>37. CASE UNCHANGED vars
    BY <1>0, <1>37 DEF vars, turnVars, register
<1> QED
    BY <1>1, <1>2, <1>3, <1>4, <1>5, <1>6, <1>7, <1>8, <1>9, <1>10, <1>11,
       <1>12, <1>13, <1>14, <1>15, <1>16, <1>17, <1>18, <1>19, <1>20,
       <1>21, <1>22, <1>23, <1>24, <1>25, <1>26, <1>27, <1>28, <1>29,
       <1>30, <1>31, <1>32, <1>33, <1>34, <1>35, <1>36, <1>37
       DEF Next, TurnStep, OwnStep, Answer, Accident, King, Finish, Server

(* The register a chamber keeps is the one Turns specifies.                *)
THEOREM ChamberImplementsTurns == Spec => ChamberRefinesTurns
<1>1. Init => Registry!TurnsInit
    <2> SUFFICES ASSUME Init PROVE Registry!TurnsInit
        OBVIOUS
    <2>1. Alive = {} /\ Begun = {}
        BY DEF Init, Alive, Begun, Guarded
    <2> QED
        BY <2>1 DEF Init, Registry!TurnsInit
<1> QED
    BY TypeInvInit, TypeInvNext, <1>1, StepsOfTheRegister, PTL
       DEF Spec, ChamberRefinesTurns, Registry!TurnsSpec

-----------------------------------------------------------------------------
(* The busy mark.                                                          *)

(* A turn between the lock it records its reply under and the lock it      *)
(* looks at the queue under has cleared the mark: if the plan is busy      *)
(* then, somebody else made it so.  Without this the invariant is not      *)
(* inductive, the turn leaving without another look at the mark.           *)
AtWork == Working \ {"spoke"}

BusyInv ==
    mishaps = 0 =>
        /\ present
        /\ \A t \in Turn : pc[t] # "crashed"
        /\ IsBusy(plan) => \E t \in Turn : pc[t] \in AtWork

(* What each method leaves of the mark.                                    *)
LEMMA MarkOf ==
    ASSUME NEW p \in PlanRecord
    PROVE  /\ ~IsBusy(Failed(p)) /\ ~IsBusy(Halted(p)) /\ ~IsBusy(Replied(p))
           /\ ~IsBusy(Settle(p, "Merged")) /\ ~IsBusy(Settle(p, "Archived"))
           /\ IsBusy(HearQueued(p)) = IsBusy(p)
           /\ IsBusy(SetAsideProposal(p)) = IsBusy(p)
           /\ IsBusy(Propose(p)) = IsBusy(p)
           /\ IsBusy(Approve(p)) = IsBusy(p)
           /\ \A t \in Turn : IsBusy(SettleToolCall(p, t)) = IsBusy(p)
           /\ \A i \in Nat : IsBusy(Unqueue(p, i)) = IsBusy(p)
           /\ \A w \in Nat : /\ IsBusy(Say(p, w)) = IsBusy(p)
                             /\ IsBusy(Queue(p, w)) = IsBusy(p)
                             /\ IsBusy(Receive(p, w)) => IsBusy(p)
BY DEF PlanRecord, IsBusy, Failed, Halted, Replied, Settle, HearQueued,
       SetAsideProposal, Propose, Approve, SettleToolCall, Unqueue, Say,
       Queue, Receive

LEMMA BusyInvNext == TypeInv /\ BusyInv /\ [Next]_vars => BusyInv'
<1> SUFFICES ASSUME TypeInv, BusyInv, [Next]_vars, mishaps' = 0
             PROVE  /\ present'
                    /\ \A t \in Turn : pc'[t] # "crashed"
                    /\ IsBusy(plan') => \E t \in Turn : pc'[t] \in AtWork
    BY DEF BusyInv
<1> DEFINE Goal == /\ present'
                   /\ \A t \in Turn : pc'[t] # "crashed"
                   /\ IsBusy(plan') => \E t \in Turn : pc'[t] \in AtWork
<1>0. /\ plan \in PlanRecord
      /\ pc \in [Turn -> Stage]
      /\ mishaps \in Nat
      /\ mishaps = 0 => /\ present
                        /\ \A t \in Turn : pc[t] # "crashed"
                        /\ IsBusy(plan) => \E t \in Turn : pc[t] \in AtWork
      /\ mishaps' = 0
    BY TypeFacts DEF BusyInv
<1> USE DEF AtWork, Working, Guarded, IsBusy, Update, PlanRecord
<1>1. ASSUME NEW t \in Turn, Begin(t) PROVE Goal
    BY <1>0, <1>1, MarkOf DEF Begin, Goto, turnVars, register, king, rest
<1>2. ASSUME NEW t \in Turn, OpenModel(t) PROVE Goal
    BY <1>0, <1>2, MarkOf DEF OpenModel, Goto, turnVars, register, king, rest
<1>3. ASSUME NEW t \in Turn, Fail(t) PROVE Goal
    BY <1>0, <1>3, MarkOf DEF Fail, CutShort, Goto, turnVars, register, king, rest
<1>4. ASSUME NEW t \in Turn, Stopped(t) PROVE Goal
    <2> HIDE DEF PlanRecord
    <2>1. ~IsBusy(Halted(plan)) /\ ~IsBusy(SettleToolCall(Halted(plan), t))
        <3> HIDE DEF IsBusy
        <3>1. Halted(plan) \in PlanRecord /\ ~IsBusy(Halted(plan))
            BY <1>0, PlanMethods, MarkOf
        <3> QED
            BY SMTT(60), <3>1, MarkOf
    <2>2. ~IsBusy(plan') \/ ~present
        BY <2>1, <1>4 DEF Stopped, CutShort
    <2> QED
        BY <1>0, <2>2, <1>4 DEF Stopped, CutShort, Goto, rest
<1>5. ASSUME NEW t \in Turn, TopOfRound(t) PROVE Goal
    BY <1>0, <1>5, MarkOf DEF TopOfRound, Goto, turnVars, register, king, rest
<1>6. ASSUME NEW t \in Turn, OutOfRope(t) PROVE Goal
    BY <1>0, <1>6, MarkOf DEF OutOfRope, CutShort, Goto, turnVars, register, king, rest
<1>7. ASSUME NEW t \in Turn, AskAgain(t) PROVE Goal
    BY <1>0, <1>7, MarkOf DEF AskAgain, Goto, turnVars, register, king, rest
<1>8. ASSUME NEW t \in Turn, ModelFails(t) PROVE Goal
    BY <1>0, <1>8, MarkOf DEF ModelFails, Goto, turnVars, register, king, rest
<1>9. ASSUME NEW t \in Turn, Speak(t) PROVE Goal
    BY <1>0, <1>9, MarkOf DEF Speak, Goto, turnVars, register, king, rest
<1>10. ASSUME NEW t \in Turn, AfterSpeaking(t) PROVE Goal
    <2>1. CASE pc' = [pc EXCEPT ![t] = "leaving"] /\ Update(plan)
        BY <1>0, <2>1, <1>10 DEF AfterSpeaking, rest
    <2>2. CASE pc' = [pc EXCEPT ![t] = "round"]
        BY <1>0, <2>2, <1>10 DEF AfterSpeaking, rest
    <2> QED
        BY <2>1, <2>2, <1>10 DEF AfterSpeaking, ReturnOrGoRound, Goto
<1>11. ASSUME NEW t \in Turn, Act(t) PROVE Goal
    BY <1>0, <1>11, MarkOf DEF Act, Goto, turnVars, register, king, rest
<1>12. ASSUME NEW t \in Turn, BeginCall(t) PROVE Goal
    BY <1>0, <1>12, MarkOf DEF BeginCall, Goto, turnVars, register, king, rest
<1>13. ASSUME NEW t \in Turn, SettleCall(t) PROVE Goal
    BY <1>0, <1>13, MarkOf DEF SettleCall, Goto, turnVars, register, king, rest
<1>14. ASSUME NEW t \in Turn, ProposeCall(t) PROVE Goal
    <2> HIDE DEF PlanRecord
    <2> DEFINE p == [SettleToolCall(plan, t) EXCEPT
                        !.working_on = FALSE, !.status = "AwaitingReview"]
    <2>1. p \in PlanRecord /\ ~IsBusy(p)
        <3>1. SettleToolCall(plan, t) \in PlanRecord
            BY <1>0, PlanMethods
        <3> QED
            BY <3>1 DEF PlanRecord, PlanStatus
    <2> HIDE DEF p
    <2>2. ~IsBusy(Propose(p))
        BY <2>1, MarkOf
    <2> USE DEF p
    <2>3. CASE pc' = [pc EXCEPT ![t] = "leaving"] /\ Update(Propose(p))
        BY <1>0, <2>2, <2>3, <1>14 DEF ProposeCall, rest
    <2>4. CASE pc' = [pc EXCEPT ![t] = "round"]
        BY <1>0, <2>4, <1>14 DEF ProposeCall, rest
    <2> QED
        BY <2>3, <2>4, <1>14 DEF ProposeCall, ReturnOrGoRound, Goto
<1>15. ASSUME NEW t \in Turn, Drop(t) PROVE Goal
    BY <1>0, <1>15, MarkOf DEF Drop, StandDown, WithoutOwn, Goto, turnVars,
       register, king, rest
<1>16. ASSUME NEW t \in Turn, Panic(t) PROVE Goal
    BY <1>0, <1>16, MarkOf DEF Panic, StandDown, WithoutOwn, Mishap, Goto,
       turnVars, register, king, rest
<1>17. ASSUME NEW t \in Turn, RepairCrash(t) PROVE Goal
    BY <1>0, <1>17, MarkOf DEF RepairCrash, Goto, turnVars, register, king,
       rest
<1>18. ASSUME NEW t \in Turn, CrashUnseen(t) PROVE Goal
    BY <1>0, <1>18, MarkOf DEF CrashUnseen, Goto, turnVars, register, king,
       rest
<1>19. ASSUME NEW f \in Finisher, FinishBegins(f) PROVE Goal
    BY <1>0, <1>19, MarkOf DEF FinishBegins, FinishVars, Goto, turnVars,
       register, king, rest
<1>20. ASSUME NEW f \in Finisher, GitSettles(f) PROVE Goal
    BY <1>0, <1>20, MarkOf DEF GitSettles, FinishVars, Goto, turnVars,
       register, king, rest
<1>21. ASSUME NEW f \in Finisher, GitRefuses(f) PROVE Goal
    BY <1>0, <1>21, MarkOf DEF GitRefuses, FinishVars, Goto, turnVars,
       register, king, rest
<1>22. ASSUME NEW f \in Finisher, FinishRecords(f) PROVE Goal
    BY <1>0, <1>22, MarkOf DEF FinishRecords, FinishVars, Goto, turnVars,
       register, king, rest
<1>23. CASE SaySomething
    <2>1. spoken + 1 \in Nat
        BY TypeInvParts DEF KingTypeOK
    <2>2. IsBusy(plan') => IsBusy(plan)
        BY <1>0, <2>1, <1>23, MarkOf DEF SaySomething
    <2> QED
        BY <1>0, <2>2, <1>23 DEF SaySomething, turnVars, rest
<1>24. CASE TakeBack
    BY <1>0, <1>24, MarkOf DEF TakeBack, Goto, turnVars, register, king, rest
<1>25. CASE Draft
    BY <1>0, <1>25, MarkOf DEF Draft, Goto, turnVars, register, king, rest
<1>26. CASE StopTurn
    BY <1>0, <1>26, MarkOf DEF StopTurn, IsRunning, Goto, turnVars, register,
       king, rest
<1>27. CASE StopFindsNone
    BY <1>0, <1>27, MarkOf DEF StopFindsNone, Goto, turnVars, register, king,
       rest
<1>28. CASE StopRepairs
    BY <1>0, <1>28, MarkOf DEF StopRepairs, Goto, turnVars, register, king,
       rest
<1>29. CASE ApprovePlan
    <2>1. spoken + 1 \in Nat
        BY TypeInvParts DEF KingTypeOK
    <2> HIDE DEF PlanRecord
    <2> DEFINE p == Say(Approve(plan), spoken + 1)
    <2>2. p \in PlanRecord /\ IsBusy(p) = IsBusy(plan)
        <3> HIDE DEF IsBusy
        <3>1. /\ Approve(plan) \in PlanRecord
              /\ IsBusy(Approve(plan)) = IsBusy(plan)
            BY ZenonT(60), <1>0, PlanMethods, MarkOf
        <3>2. p \in PlanRecord
            BY <2>1, <3>1, PlanMethods
        <3>3. IsBusy(p) = IsBusy(Approve(plan))
            BY <2>1, <3>1, MarkOf
        <3> QED
            BY SMTT(60), <3>1, <3>2, <3>3
    <2>3. IsBusy([p EXCEPT !.status = "Drafting"]) = IsBusy(plan)
        BY <2>2 DEF PlanRecord
    <2>4. IsBusy(plan') => IsBusy(plan)
        BY <2>3, <1>29 DEF ApprovePlan
    <2> QED
        BY <1>0, <2>4, <1>29 DEF ApprovePlan, turnVars, rest
<1>30. CASE SetAside
    BY <1>0, <1>30, MarkOf DEF SetAside, Goto, turnVars, register, king, rest
<1>31. CASE Annotate
    BY <1>0, <1>31, MarkOf DEF Annotate, Goto, turnVars, register, king, rest
<1>32. CASE WithdrawNote
    BY <1>0, <1>32, MarkOf DEF WithdrawNote, Goto, turnVars, register, king,
       rest
<1>33. CASE SendNotes
    <2>1. spoken + 1 \in Nat
        BY TypeInvParts DEF KingTypeOK
    <2> HIDE DEF PlanRecord
    <2> DEFINE p == [plan EXCEPT !.notes = FALSE]
    <2>2. p \in PlanRecord /\ IsBusy(p) = IsBusy(plan)
        BY <1>0 DEF PlanRecord
    <2> HIDE DEF p
    <2>3. IsBusy(Receive(p, spoken + 1)) => IsBusy(plan)
        BY <2>1, <2>2, MarkOf
    <2> USE DEF p
    <2>4. IsBusy(plan') => IsBusy(plan)
        BY <2>3, <1>33 DEF SendNotes
    <2> QED
        BY <1>0, <2>4, <1>33 DEF SendNotes, turnVars, rest
<1>34. CASE LeaveKingdom
    BY <1>0, <1>34, MarkOf DEF LeaveKingdom, Mishap, Goto, turnVars, register,
       king, rest
<1>35. CASE OpenKingdom
    BY <1>0, <1>35, MarkOf DEF OpenKingdom, Mishap, Goto, turnVars, register,
       king, rest
<1>36. CASE Dies
    BY <1>0, <1>36, MarkOf DEF Dies, Mishap, Goto, turnVars, register, king,
       rest
<1>37. CASE UNCHANGED vars
    BY <1>0, <1>37 DEF vars, turnVars, rest
<1> QED
    BY <1>1, <1>2, <1>3, <1>4, <1>5, <1>6, <1>7, <1>8, <1>9, <1>10, <1>11,
       <1>12, <1>13, <1>14, <1>15, <1>16, <1>17, <1>18, <1>19, <1>20,
       <1>21, <1>22, <1>23, <1>24, <1>25, <1>26, <1>27, <1>28, <1>29,
       <1>30, <1>31, <1>32, <1>33, <1>34, <1>35, <1>36, <1>37
       DEF Next, TurnStep, OwnStep, Answer, Accident, King, Finish, Server

(* Unless something panicked, died or was reopened, a plan that claims to  *)
(* be busy has a turn which will clear the mark.                           *)
THEOREM BusyPlansAreWorkedOn == Spec => []BusyMeansSomebodyWorks
<1>1. Init => BusyInv
    BY DEF Init, Opened, BusyInv, IsBusy
<1>2. BusyInv => BusyMeansSomebodyWorks
    BY DEF BusyInv, BusyMeansSomebodyWorks, AtWork
<1> QED
    BY TypeInvInit, TypeInvNext, <1>1, <1>2, BusyInvNext, PTL DEF Spec

-----------------------------------------------------------------------------
(* The calls in flight.                                                    *)

Calling == {t \in Turn : pc[t] = "calling"}

CallsInv == mishaps = 0 => plan.in_flight = Calling

(* What each method leaves in flight.                                      *)
LEMMA CallsOf ==
    ASSUME NEW p \in PlanRecord
    PROVE  /\ Failed(p).in_flight = p.in_flight
           /\ Halted(p).in_flight = p.in_flight
           /\ Replied(p).in_flight = p.in_flight
           /\ Settle(p, "Merged").in_flight = p.in_flight
           /\ Settle(p, "Archived").in_flight = p.in_flight
           /\ HearQueued(p).in_flight = p.in_flight
           /\ SetAsideProposal(p).in_flight = p.in_flight
           /\ Propose(p).in_flight = p.in_flight
           /\ Approve(p).in_flight = p.in_flight
           /\ \A t \in Turn :
                /\ BeginToolCall(p, t).in_flight = p.in_flight \cup {t}
                /\ SettleToolCall(p, t).in_flight = p.in_flight \ {t}
           /\ \A i \in Nat : Unqueue(p, i).in_flight = p.in_flight
           /\ \A w \in Nat : /\ Say(p, w).in_flight = p.in_flight
                             /\ Queue(p, w).in_flight = p.in_flight
                             /\ Receive(p, w).in_flight = p.in_flight
BY DEF PlanRecord, Failed, Halted, Replied, Settle, HearQueued,
       SetAsideProposal, Propose, Approve, BeginToolCall, SettleToolCall,
       Unqueue, Say, Queue, Receive

LEMMA CallsInvNext ==
    TypeInv /\ BusyInv /\ CallsInv /\ [Next]_vars => CallsInv'
<1> SUFFICES ASSUME TypeInv, BusyInv, CallsInv, [Next]_vars, mishaps' = 0
             PROVE  plan'.in_flight = Calling'
    BY DEF CallsInv
<1> DEFINE Goal == plan'.in_flight = Calling'
<1>0. /\ plan \in PlanRecord
      /\ pc \in [Turn -> Stage]
      /\ mishaps \in Nat
      /\ mishaps = 0 => present /\ \A t \in Turn : pc[t] # "crashed"
      /\ mishaps = 0 => plan.in_flight = Calling
      /\ mishaps' = 0
      /\ spoken + 1 \in Nat
    BY TypeFacts, TypeInvParts DEF BusyInv, CallsInv, KingTypeOK
<1> USE DEF Calling, Update
<1>1. ASSUME NEW t \in Turn, Begin(t) PROVE Goal
    BY <1>0, <1>1, CallsOf DEF Begin, Goto, turnVars, register, king, rest
<1>2. ASSUME NEW t \in Turn, OpenModel(t) PROVE Goal
    BY <1>0, <1>2, CallsOf DEF OpenModel, Goto, turnVars, register, king, rest
<1>3. ASSUME NEW t \in Turn, Fail(t) PROVE Goal
    BY <1>0, <1>3, CallsOf DEF Fail, CutShort, Goto, turnVars, register, king, rest
<1>4. ASSUME NEW t \in Turn, Stopped(t) PROVE Goal
    <2>1. /\ Halted(plan).in_flight = plan.in_flight
          /\ SettleToolCall(Halted(plan), t).in_flight = plan.in_flight \ {t}
        <3>1. Halted(plan) \in PlanRecord
            BY <1>0, PlanMethods
        <3>2. Halted(plan).in_flight = plan.in_flight
            BY <1>0, CallsOf
        <3> QED
            BY SMTT(60), <3>1, <3>2, CallsOf
    <2>2. plan'.in_flight = plan.in_flight \ {t}
        <3>1. CASE pc[t] = "calling"
            BY <1>0, <2>1, <3>1, <1>4 DEF Stopped, CutShort, rest
        <3>2. CASE pc[t] # "calling"
            <4>1. t \notin plan.in_flight
                BY <1>0, <3>2, <1>4 DEF Stopped, CutShort, rest
            <4> QED
                BY <1>0, <2>1, <3>2, <4>1, <1>4 DEF Stopped, CutShort, rest
        <3> QED
            BY <3>1, <3>2
    <2> QED
        BY <1>0, <2>2, <1>4 DEF Stopped, CutShort, Goto, rest
<1>5. ASSUME NEW t \in Turn, TopOfRound(t) PROVE Goal
    BY <1>0, <1>5, CallsOf DEF TopOfRound, Goto, turnVars, register, king, rest
<1>6. ASSUME NEW t \in Turn, OutOfRope(t) PROVE Goal
    BY <1>0, <1>6, CallsOf DEF OutOfRope, CutShort, Goto, turnVars, register, king, rest
<1>7. ASSUME NEW t \in Turn, AskAgain(t) PROVE Goal
    BY <1>0, <1>7, CallsOf DEF AskAgain, Goto, turnVars, register, king, rest
<1>8. ASSUME NEW t \in Turn, ModelFails(t) PROVE Goal
    BY <1>0, <1>8, CallsOf DEF ModelFails, Goto, turnVars, register, king, rest
<1>9. ASSUME NEW t \in Turn, Speak(t) PROVE Goal
    BY <1>0, <1>9, CallsOf DEF Speak, Goto, turnVars, register, king, rest
<1>10. ASSUME NEW t \in Turn, AfterSpeaking(t) PROVE Goal
    <2>1. plan'.in_flight = plan.in_flight
        <3>1. [plan EXCEPT !.status = "Drafting",
                           !.working_on = TRUE].in_flight
                = plan.in_flight
            BY <1>0 DEF PlanRecord
        <3> QED
            BY <3>1, <1>10 DEF AfterSpeaking, ReturnOrGoRound
    <2>2. mishaps = 0 /\ pc[t] = "spoke"
          /\ \E s \in {"leaving", "round"} : pc' = [pc EXCEPT ![t] = s]
        BY <1>0, <1>10 DEF AfterSpeaking, ReturnOrGoRound, Goto, rest
    <2> QED
        BY <1>0, <2>1, <2>2
<1>11. ASSUME NEW t \in Turn, Act(t) PROVE Goal
    BY <1>0, <1>11, CallsOf DEF Act, Goto, turnVars, register, king, rest
<1>12. ASSUME NEW t \in Turn, BeginCall(t) PROVE Goal
    <2> DEFINE p == [plan EXCEPT !.working_on = TRUE]
    <2>1. p \in PlanRecord /\ p.in_flight = plan.in_flight
        BY <1>0 DEF PlanRecord
    <2> HIDE DEF p
    <2>2. BeginToolCall(p, t).in_flight = plan.in_flight \cup {t}
        BY <2>1, CallsOf
    <2> USE DEF p
    <2>3. plan'.in_flight = plan.in_flight \cup {t}
        BY <1>0, <2>2, <1>12 DEF BeginCall, rest
    <2> QED
        BY <1>0, <2>3, <1>12 DEF BeginCall, Goto, rest
<1>13. ASSUME NEW t \in Turn, SettleCall(t) PROVE Goal
    BY <1>0, <1>13, CallsOf DEF SettleCall, Goto, turnVars, register, king,
       rest
<1>14. ASSUME NEW t \in Turn, ProposeCall(t) PROVE Goal
    <2> DEFINE p == [SettleToolCall(plan, t) EXCEPT
                        !.working_on = FALSE, !.status = "AwaitingReview"]
    <2>1. p \in PlanRecord /\ p.in_flight = plan.in_flight \ {t}
        <3>1. /\ SettleToolCall(plan, t) \in PlanRecord
              /\ SettleToolCall(plan, t).in_flight = plan.in_flight \ {t}
            BY ZenonT(60), <1>0, PlanMethods, CallsOf
        <3> QED
            BY <3>1 DEF PlanRecord, PlanStatus
    <2> HIDE DEF p
    <2>2. /\ Propose(p) \in PlanRecord
          /\ Propose(p).in_flight = plan.in_flight \ {t}
        BY <2>1, PlanMethods, CallsOf
    <2>3. [Propose(p) EXCEPT !.status = "Drafting",
                             !.working_on = TRUE].in_flight
            = plan.in_flight \ {t}
        BY <2>2 DEF PlanRecord
    <2> USE DEF p
    <2>4. plan'.in_flight = plan.in_flight \ {t}
        BY <2>2, <2>3, <1>14 DEF ProposeCall, ReturnOrGoRound
    <2>5. mishaps = 0
          /\ \E s \in {"leaving", "round"} : pc' = [pc EXCEPT ![t] = s]
        BY <1>0, <1>14 DEF ProposeCall, ReturnOrGoRound, Goto, rest
    <2> QED
        BY <1>0, <2>4, <2>5
<1>15. ASSUME NEW t \in Turn, Drop(t) PROVE Goal
    BY <1>0, <1>15, CallsOf DEF Drop, StandDown, WithoutOwn, Goto, turnVars,
       register, king, rest
<1>16. ASSUME NEW t \in Turn, Panic(t) PROVE Goal
    BY <1>0, <1>16, CallsOf DEF Panic, StandDown, WithoutOwn, Mishap, Goto,
       turnVars, register, king, rest
<1>17. ASSUME NEW t \in Turn, RepairCrash(t) PROVE Goal
    BY <1>0, <1>17, CallsOf DEF RepairCrash, Goto, turnVars, register, king,
       rest
<1>18. ASSUME NEW t \in Turn, CrashUnseen(t) PROVE Goal
    BY <1>0, <1>18, CallsOf DEF CrashUnseen, Goto, turnVars, register, king,
       rest
<1>19. ASSUME NEW f \in Finisher, FinishBegins(f) PROVE Goal
    BY <1>0, <1>19, CallsOf DEF FinishBegins, FinishVars, Goto, turnVars,
       register, king, rest
<1>20. ASSUME NEW f \in Finisher, GitSettles(f) PROVE Goal
    BY <1>0, <1>20, CallsOf DEF GitSettles, FinishVars, Goto, turnVars,
       register, king, rest
<1>21. ASSUME NEW f \in Finisher, GitRefuses(f) PROVE Goal
    BY <1>0, <1>21, CallsOf DEF GitRefuses, FinishVars, Goto, turnVars,
       register, king, rest
<1>22. ASSUME NEW f \in Finisher, FinishRecords(f) PROVE Goal
    BY <1>0, <1>22, CallsOf DEF FinishRecords, FinishVars, Goto, turnVars,
       register, king, rest
<1>23. CASE SaySomething
    BY <1>0, <1>23, CallsOf DEF SaySomething, Goto, turnVars, register, king,
       rest
<1>24. CASE TakeBack
    BY <1>0, <1>24, CallsOf DEF TakeBack, Goto, turnVars, register, king, rest
<1>25. CASE Draft
    BY <1>0, <1>25, CallsOf DEF Draft, Goto, turnVars, register, king, rest
<1>26. CASE StopTurn
    BY <1>0, <1>26, CallsOf DEF StopTurn, IsRunning, Goto, turnVars, register,
       king, rest
<1>27. CASE StopFindsNone
    BY <1>0, <1>27, CallsOf DEF StopFindsNone, Goto, turnVars, register, king,
       rest
<1>28. CASE StopRepairs
    BY <1>0, <1>28, CallsOf DEF StopRepairs, Goto, turnVars, register, king,
       rest
<1>29. CASE ApprovePlan
    <2> DEFINE p == Say(Approve(plan), spoken + 1)
    <2>1. /\ Approve(plan) \in PlanRecord
          /\ Approve(plan).in_flight = plan.in_flight
        BY ZenonT(60), <1>0, PlanMethods, CallsOf
    <2>2. p \in PlanRecord
        BY <1>0, <2>1, PlanMethods
    <2>3. p.in_flight = plan.in_flight
        BY <1>0, <2>1, CallsOf
    <2>4. [p EXCEPT !.status = "Drafting"].in_flight = plan.in_flight
        BY <2>2, <2>3 DEF PlanRecord
    <2> QED
        BY SMTT(60), <1>0, <2>4, <1>29 DEF ApprovePlan, turnVars, rest
<1>30. CASE SetAside
    BY <1>0, <1>30, CallsOf DEF SetAside, Goto, turnVars, register, king, rest
<1>31. CASE Annotate
    BY <1>0, <1>31, CallsOf DEF Annotate, Goto, turnVars, register, king, rest
<1>32. CASE WithdrawNote
    BY <1>0, <1>32, CallsOf DEF WithdrawNote, Goto, turnVars, register, king,
       rest
<1>33. CASE SendNotes
    <2> DEFINE p == [plan EXCEPT !.notes = FALSE]
    <2>1. p \in PlanRecord /\ p.in_flight = plan.in_flight
        BY <1>0 DEF PlanRecord
    <2> HIDE DEF p
    <2>2. Receive(p, spoken + 1).in_flight = plan.in_flight
        BY <1>0, <2>1, CallsOf
    <2> USE DEF p
    <2> QED
        BY <1>0, <2>2, <1>33 DEF SendNotes, turnVars, rest
<1>34. CASE LeaveKingdom
    BY <1>0, <1>34, CallsOf DEF LeaveKingdom, Mishap, Goto, turnVars,
       register, king, rest
<1>35. CASE OpenKingdom
    BY <1>0, <1>35, CallsOf DEF OpenKingdom, Mishap, Goto, turnVars, register,
       king, rest
<1>36. CASE Dies
    BY <1>0, <1>36, CallsOf DEF Dies, Mishap, Goto, turnVars, register, king,
       rest
<1>37. CASE UNCHANGED vars
    BY <1>0, <1>37 DEF vars, turnVars, rest
<1> QED
    BY <1>1, <1>2, <1>3, <1>4, <1>5, <1>6, <1>7, <1>8, <1>9, <1>10, <1>11,
       <1>12, <1>13, <1>14, <1>15, <1>16, <1>17, <1>18, <1>19, <1>20,
       <1>21, <1>22, <1>23, <1>24, <1>25, <1>26, <1>27, <1>28, <1>29,
       <1>30, <1>31, <1>32, <1>33, <1>34, <1>35, <1>36, <1>37
       DEF Next, TurnStep, OwnStep, Answer, Accident, King, Finish, Server

(* Mishaps apart, the calls without a result are exactly those a tool is   *)
(* still working on, however the turns that made them end.                 *)
THEOREM CallsAreSettled == Spec => []CallsSettled
<1>1. Init => BusyInv /\ CallsInv
    BY DEF Init, Opened, BusyInv, IsBusy, CallsInv, Calling
<1>2. CallsInv => CallsSettled
    BY DEF CallsInv, CallsSettled, Calling
<1> QED
    BY TypeInvInit, TypeInvNext, <1>1, <1>2, BusyInvNext, CallsInvNext, PTL
       DEF Spec

-----------------------------------------------------------------------------
(* The ending.                                                             *)

Landed == {"merged", "archived"}

(* git carries out an ending only where the checkout stands, and takes it   *)
(* away: while it stands nothing has ended, and once it is gone one request *)
(* at most has yet to record what git did.  The uniqueness is what makes    *)
(* the recording of one leave no other behind it.                           *)
EndedInv ==
    /\ worktree => plan.outcome = "none" /\ \A f \in Finisher : fin[f] \notin Landed
    /\ \A f, g \in Finisher : fin[f] \in Landed /\ fin[g] \in Landed => f = g
    /\ plan.outcome # "none" => \A f \in Finisher : fin[f] \notin Landed

(* No method but settle touches the outcome.                               *)
LEMMA OutcomeOf ==
    ASSUME NEW p \in PlanRecord
    PROVE  /\ Failed(p).outcome = p.outcome
           /\ Halted(p).outcome = p.outcome
           /\ Replied(p).outcome = p.outcome
           /\ HearQueued(p).outcome = p.outcome
           /\ SetAsideProposal(p).outcome = p.outcome
           /\ Propose(p).outcome = p.outcome
           /\ Approve(p).outcome = p.outcome
           /\ Reconcile(p).outcome = p.outcome
           /\ Settle(p, "Merged").outcome # "none"
           /\ Settle(p, "Archived").outcome # "none"
           /\ \A t \in Turn : /\ BeginToolCall(p, t).outcome = p.outcome
                              /\ SettleToolCall(p, t).outcome = p.outcome
           /\ \A i \in Nat : Unqueue(p, i).outcome = p.outcome
           /\ \A w \in Nat : /\ Say(p, w).outcome = p.outcome
                             /\ Queue(p, w).outcome = p.outcome
                             /\ Receive(p, w).outcome = p.outcome
           /\ \A s \in PlanStatus, b \in BOOLEAN, n \in BOOLEAN :
                /\ [p EXCEPT !.status = s].outcome = p.outcome
                /\ [p EXCEPT !.working_on = b].outcome = p.outcome
                /\ [p EXCEPT !.notes = n].outcome = p.outcome
                /\ [p EXCEPT !.status = s, !.working_on = b].outcome = p.outcome
                /\ [p EXCEPT !.working_on = b, !.status = s].outcome = p.outcome
BY DEF PlanRecord, Failed, Halted, Replied, Settle, HearQueued, Reconcile,
       SetAsideProposal, Propose, Approve, BeginToolCall, SettleToolCall,
       Unqueue, Say, Queue, Receive

LEMMA EndedInvNext == TypeInv /\ EndedInv /\ [Next]_vars => EndedInv'
<1> SUFFICES ASSUME TypeInv, EndedInv, [Next]_vars
             PROVE  EndedInv'
    OBVIOUS
<1> DEFINE Kept == /\ fin' = fin /\ worktree' = worktree
                   /\ plan'.outcome = plan.outcome
<1>0. /\ plan \in PlanRecord
      /\ fin \in [Finisher -> FinStage]
      /\ worktree \in BOOLEAN
      /\ spoken + 1 \in Nat
      /\ "Drafting" \in PlanStatus /\ "AwaitingReview" \in PlanStatus
    BY TypeInvParts DEF KingTypeOK, RestTypeOK, PlanStatus
<1> USE DEF Update
<1>1. ASSUME NEW t \in Turn, Begin(t) PROVE Kept
    BY <1>0, <1>1, OutcomeOf DEF Begin, rest
<1>2. ASSUME NEW t \in Turn, OpenModel(t) PROVE Kept
    BY <1>0, <1>2, OutcomeOf DEF OpenModel, rest
<1>3. ASSUME NEW t \in Turn, Fail(t) PROVE Kept
    BY <1>0, <1>3, OutcomeOf DEF Fail, CutShort, rest
<1>4. ASSUME NEW t \in Turn, Stopped(t) PROVE Kept
    <2>0. Halted(plan) \in PlanRecord
        BY <1>0, PlanMethods
    <2>1. Halted(plan).outcome = plan.outcome
        BY <1>0, OutcomeOf
    <2>2. SettleToolCall(Halted(plan), t).outcome = plan.outcome
        BY <2>0, <2>1, OutcomeOf
    <2> QED
        BY SMTT(60), <2>1, <2>2, <1>4 DEF Stopped, CutShort, rest
<1>5. ASSUME NEW t \in Turn, TopOfRound(t) PROVE Kept
    BY <1>0, <1>5, OutcomeOf DEF TopOfRound, rest
<1>6. ASSUME NEW t \in Turn, OutOfRope(t) PROVE Kept
    BY <1>0, <1>6, OutcomeOf DEF OutOfRope, CutShort, rest
<1>7. ASSUME NEW t \in Turn, AskAgain(t) PROVE Kept
    BY <1>0, <1>7, OutcomeOf DEF AskAgain, rest
<1>8. ASSUME NEW t \in Turn, ModelFails(t) PROVE Kept
    BY <1>0, <1>8, OutcomeOf DEF ModelFails, rest
<1>9. ASSUME NEW t \in Turn, Speak(t) PROVE Kept
    BY <1>0, <1>9, OutcomeOf DEF Speak, rest
<1>10. ASSUME NEW t \in Turn, AfterSpeaking(t) PROVE Kept
    <2>1. [plan EXCEPT !.status = "Drafting",
                       !.working_on = TRUE].outcome = plan.outcome
        BY <1>0 DEF PlanRecord
    <2> QED
        BY <2>1, <1>10 DEF AfterSpeaking, ReturnOrGoRound, rest
<1>11. ASSUME NEW t \in Turn, Act(t) PROVE Kept
    BY <1>0, <1>11, OutcomeOf DEF Act, rest
<1>12. ASSUME NEW t \in Turn, BeginCall(t) PROVE Kept
    <2> DEFINE p == [plan EXCEPT !.working_on = TRUE]
    <2>1. p \in PlanRecord /\ p.outcome = plan.outcome
        BY <1>0 DEF PlanRecord
    <2> HIDE DEF p
    <2>2. BeginToolCall(p, t).outcome = plan.outcome
        BY <2>1, OutcomeOf
    <2> USE DEF p
    <2> QED
        BY <2>2, <1>12 DEF BeginCall, rest
<1>13. ASSUME NEW t \in Turn, SettleCall(t) PROVE Kept
    BY <1>0, <1>13, OutcomeOf DEF SettleCall, rest
<1>14. ASSUME NEW t \in Turn, ProposeCall(t) PROVE Kept
    <2> DEFINE p == [SettleToolCall(plan, t) EXCEPT
                        !.working_on = FALSE, !.status = "AwaitingReview"]
    <2>1. p \in PlanRecord /\ p.outcome = plan.outcome
        <3>1. SettleToolCall(plan, t) \in PlanRecord
            BY <1>0, PlanMethods
        <3>2. SettleToolCall(plan, t).outcome = plan.outcome
            BY <1>0, OutcomeOf
        <3> QED
            BY <3>1, <3>2 DEF PlanRecord, PlanStatus
    <2> HIDE DEF p
    <2>2. Propose(p) \in PlanRecord /\ Propose(p).outcome = plan.outcome
        <3>1. Propose(p) \in PlanRecord
            BY <2>1, PlanMethods
        <3>2. Propose(p).outcome = plan.outcome
            BY <2>1, OutcomeOf
        <3> QED
            BY SMTT(60), <3>1, <3>2
    <2>3. [Propose(p) EXCEPT !.status = "Drafting",
                             !.working_on = TRUE].outcome = plan.outcome
        BY <2>2 DEF PlanRecord
    <2> USE DEF p
    <2> QED
        BY <2>2, <2>3, <1>14 DEF ProposeCall, ReturnOrGoRound, rest
<1>15. ASSUME NEW t \in Turn, Drop(t) PROVE Kept
    BY <1>0, <1>15, OutcomeOf DEF Drop, StandDown, WithoutOwn, rest
<1>16. ASSUME NEW t \in Turn, Panic(t) PROVE Kept
    BY <1>0, <1>16, OutcomeOf DEF Panic, Mishap, rest
<1>17. ASSUME NEW t \in Turn, RepairCrash(t) PROVE Kept
    BY <1>0, <1>17, OutcomeOf DEF RepairCrash, rest
<1>18. ASSUME NEW t \in Turn, CrashUnseen(t) PROVE Kept
    BY <1>0, <1>18, OutcomeOf DEF CrashUnseen, rest
<1>19. ASSUME NEW f \in Finisher, FinishBegins(f) PROVE EndedInv'
    BY <1>0, <1>19 DEF FinishBegins, EndedInv, Landed, FinStage
<1>20. ASSUME NEW f \in Finisher, GitSettles(f) PROVE EndedInv'
    <2>1. /\ worktree /\ ~worktree' /\ plan' = plan
          /\ \E how \in Landed : fin' = [fin EXCEPT ![f] = how]
        BY <1>20 DEF GitSettles, Landed
    <2> QED
        BY <1>0, <2>1 DEF EndedInv, Landed, FinStage
<1>21. ASSUME NEW f \in Finisher, GitRefuses(f) PROVE EndedInv'
    BY <1>0, <1>21 DEF GitRefuses, EndedInv, Landed, FinStage
<1>22. ASSUME NEW f \in Finisher, FinishRecords(f) PROVE EndedInv'
    <2>1. /\ fin[f] \in Landed /\ fin' = [fin EXCEPT ![f] = "idle"]
          /\ worktree' = worktree
        BY <1>22 DEF FinishRecords, Landed
    <2>2. \A g \in Finisher : fin'[g] \notin Landed
        BY <1>0, <2>1 DEF EndedInv, Landed
    <2>3. ~worktree'
        BY <1>0, <2>1 DEF EndedInv
    <2> QED
        BY <2>2, <2>3 DEF EndedInv
<1>23. ASSUME SaySomething PROVE Kept
    BY <1>0, <1>23, OutcomeOf DEF SaySomething, rest
<1>24. ASSUME TakeBack PROVE Kept
    <2>1. PICK i \in 1 .. Len(plan.queued) : Update(Unqueue(plan, i))
        BY <1>24 DEF TakeBack
    <2>2. i \in Nat
        BY <2>1
    <2> QED
        BY <1>0, <2>1, <2>2, OutcomeOf, <1>24 DEF TakeBack, rest
<1>25. ASSUME Draft PROVE Kept
    BY <1>0, <1>25, OutcomeOf DEF Draft, rest
<1>26. ASSUME StopTurn PROVE Kept
    BY <1>0, <1>26, OutcomeOf DEF StopTurn, rest
<1>27. ASSUME StopFindsNone PROVE Kept
    BY <1>0, <1>27, OutcomeOf DEF StopFindsNone, rest
<1>28. ASSUME StopRepairs PROVE Kept
    BY <1>0, <1>28, OutcomeOf DEF StopRepairs, rest
<1>29. ASSUME ApprovePlan PROVE Kept
    <2> DEFINE p == Say(Approve(plan), spoken + 1)
    <2>1. Approve(plan) \in PlanRecord
        BY <1>0, PlanMethods
    <2>2. Approve(plan).outcome = plan.outcome
        BY SMTT(60), <1>0, OutcomeOf
    <2>3. p \in PlanRecord
        BY <1>0, <2>1, PlanMethods
    <2>4. p.outcome = plan.outcome
        BY <1>0, <2>1, <2>2, OutcomeOf
    <2> HIDE DEF p
    <2>5. [p EXCEPT !.status = "Drafting"].outcome = plan.outcome
        BY <2>3, <2>4 DEF PlanRecord
    <2> USE DEF p
    <2> QED
        BY SMTT(60), <1>0, <2>5, <1>29 DEF ApprovePlan, rest
<1>30. ASSUME SetAside PROVE Kept
    BY <1>0, <1>30, OutcomeOf DEF SetAside, rest
<1>31. ASSUME Annotate PROVE Kept
    BY <1>0, <1>31, OutcomeOf DEF Annotate, rest
<1>32. ASSUME WithdrawNote PROVE Kept
    BY <1>0, <1>32, OutcomeOf DEF WithdrawNote, rest
<1>33. ASSUME SendNotes PROVE Kept
    <2> DEFINE p == [plan EXCEPT !.notes = FALSE]
    <2>1. p \in PlanRecord /\ p.outcome = plan.outcome
        BY <1>0 DEF PlanRecord
    <2> HIDE DEF p
    <2>2. Receive(p, spoken + 1).outcome = plan.outcome
        BY <1>0, <2>1, OutcomeOf
    <2> USE DEF p
    <2> QED
        BY <2>2, <1>33 DEF SendNotes, rest
<1>34. ASSUME LeaveKingdom PROVE Kept
    BY <1>0, <1>34, OutcomeOf DEF LeaveKingdom, Mishap, rest
<1>35. ASSUME OpenKingdom PROVE Kept
    BY <1>0, <1>35, OutcomeOf DEF OpenKingdom, rest
<1>36. CASE Dies
    BY <1>0, <1>36 DEF Dies, EndedInv, Landed
<1>37. CASE UNCHANGED vars
    BY <1>37 DEF vars, rest, EndedInv
<1>38. Kept => EndedInv'
    BY DEF EndedInv
<1> QED
    BY <1>1, <1>2, <1>3, <1>4, <1>5, <1>6, <1>7, <1>8, <1>9, <1>10, <1>11,
       <1>12, <1>13, <1>14, <1>15, <1>16, <1>17, <1>18, <1>19, <1>20, <1>21,
       <1>22, <1>23, <1>24, <1>25, <1>26, <1>27, <1>28, <1>29, <1>30, <1>31,
       <1>32, <1>33, <1>34, <1>35, <1>36, <1>37, <1>38
       DEF Next, TurnStep, OwnStep, Answer, Accident, King, Finish, Server

(* Of two requests closing the plan together one only lands; an ending that *)
(* is recorded is one git carried out, with its checkout gone, and no other *)
(* is still to be recorded (api.rs finish_plan, which lets the lock go for  *)
(* git), through deaths of the server and turns drafted meanwhile.          *)
THEOREM PlansEndOnce == Spec => []EndedOnce
<1>1. Init => EndedInv
    BY DEF Init, Opened, EndedInv, Landed
<1>2. EndedInv => EndedOnce
    <2> SUFFICES ASSUME EndedInv PROVE EndedOnce
        OBVIOUS
    <2> DEFINE L == {f \in Finisher : fin[f] \in {"merged", "archived"}}
    <2>1. Cardinality(L) <= 1
        <3>1. CASE L = {}
            BY <3>1, FS_EmptySet
        <3>2. CASE L # {}
            <4>1. PICK f \in L : TRUE
                BY <3>2
            <4>2. L = {f}
                BY <4>1 DEF EndedInv, Landed
            <4> QED
                BY <4>2, FS_Singleton
        <3> QED
            BY <3>1, <3>2
    <2>2. plan.outcome # "none" => ~worktree
        BY DEF EndedInv
    <2>3. plan.outcome # "none"
            => \A f \in Finisher : fin[f] \notin {"merged", "archived"}
        BY DEF EndedInv, Landed
    <2> QED
        BY <2>1, <2>2, <2>3 DEF EndedOnce
<1> QED
    BY TypeInvInit, TypeInvNext, <1>1, <1>2, EndedInvNext, PTL DEF Spec

-----------------------------------------------------------------------------
(* An ear for the King's words.                                            *)

(* A turn that will still look for words, or was ended otherwise than by   *)
(* giving its answer.                                                      *)
Answers(t) == pc[t] \in Guarded \ {"leaving"} \/ t \in cut \/ LastRound(t)

(* Words can be queued for as long as the register holds an entry: so it   *)
(* is not only while words wait that there must be somebody to look for    *)
(* them, but while anybody is registered.                                  *)
EarInv ==
    mishaps = 0 =>
        /\ present
        /\ running # NoTurn => Answers(running)
        /\ plan.queued # <<>> => newest # NoTurn /\ Answers(newest)

(* What each method leaves queued.                                         *)
LEMMA QueueOf ==
    ASSUME NEW p \in PlanRecord
    PROVE  /\ Failed(p).queued = p.queued
           /\ Halted(p).queued = p.queued
           /\ Replied(p).queued = p.queued
           /\ HearQueued(p).queued = <<>>
           /\ SetAsideProposal(p).queued = p.queued
           /\ Propose(p).queued = p.queued
           /\ Approve(p).queued = p.queued
           /\ Settle(p, "Merged").queued = p.queued
           /\ Settle(p, "Archived").queued = p.queued
           /\ \A t \in Turn : /\ BeginToolCall(p, t).queued = p.queued
                              /\ SettleToolCall(p, t).queued = p.queued
           /\ \A w \in Nat : /\ Say(p, w).queued = p.queued
                             /\ ~IsRunning => Receive(p, w).queued = <<>>
           /\ \A s \in PlanStatus, b \in BOOLEAN, n \in BOOLEAN :
                /\ [p EXCEPT !.status = s].queued = p.queued
                /\ [p EXCEPT !.working_on = b].queued = p.queued
                /\ [p EXCEPT !.notes = n].queued = p.queued
                /\ [p EXCEPT !.status = s, !.working_on = b].queued = p.queued
                /\ [p EXCEPT !.working_on = b, !.status = s].queued = p.queued
BY DEF PlanRecord, Failed, Halted, Replied, Settle, HearQueued,
       SetAsideProposal, Propose, Approve, BeginToolCall, SettleToolCall,
       Say, Queue, Receive

(* What is left to show of a step that makes no turn the newest, takes no  *)
(* turn's attention away and queues words for a registered turn only.      *)
LEMMA EarKept ==
    ASSUME TypeInv, EntryIsNewest, EarInv,
           mishaps' = mishaps,
           mishaps = 0 =>
                /\ present'
                /\ running' = running \/ running' = NoTurn
                /\ newest' = newest
                /\ \A u \in Turn : Answers(u) => Answers(u)'
                /\ \/ running # NoTurn
                   \/ plan'.queued = plan.queued
                   \/ plan'.queued = <<>>
    PROVE  EarInv'
<1>1. /\ running \in Turn \cup {NoTurn} /\ newest \in Turn \cup {NoTurn}
      /\ running # NoTurn => running = newest
    BY TypeFacts DEF EntryIsNewest
<1> SUFFICES ASSUME mishaps = 0
             PROVE  /\ present'
                    /\ running' # NoTurn => Answers(running)'
                    /\ plan'.queued # <<>>
                        => newest' # NoTurn /\ Answers(newest)'
    BY DEF EarInv
<1>2. ASSUME NEW u \in Turn, Answers(u) PROVE Answers(u)'
    BY <1>2
<1>3. running # NoTurn => running \in Turn /\ Answers(running)
    BY <1>1 DEF EarInv
<1>4. running' # NoTurn => Answers(running)'
    <2> SUFFICES ASSUME running' # NoTurn PROVE Answers(running)'
        OBVIOUS
    <2>1. running' = running /\ running \in Turn /\ Answers(running)
        BY <1>3
    <2>2. PICK u \in Turn : u = running /\ u = running'
        BY <2>1
    <2> QED
        BY <2>1, <2>2, <1>2 DEF Answers, LastRound
<1>5. plan'.queued # <<>> => newest' # NoTurn /\ Answers(newest)'
    <2> SUFFICES ASSUME plan'.queued # <<>>
                 PROVE  newest' # NoTurn /\ Answers(newest)'
        OBVIOUS
    <2>1. newest # NoTurn /\ Answers(newest)
        BY <1>1, <1>3 DEF EarInv
    <2>2. PICK u \in Turn : u = newest /\ u = newest'
        BY <1>1, <2>1
    <2> QED
        BY <2>1, <2>2, <1>2 DEF Answers, LastRound
<1> QED
    BY <1>4, <1>5

LEMMA EarInvNext ==
    TypeInv /\ EntryIsNewest /\ EarInv /\ [Next]_vars => EarInv'
<1> SUFFICES ASSUME TypeInv, EntryIsNewest, EarInv, [Next]_vars
             PROVE  EarInv'
    OBVIOUS
<1> DEFINE Attentive ==
        /\ mishaps' = mishaps
        /\ mishaps = 0 =>
            /\ present'
            /\ running' = running \/ running' = NoTurn
            /\ newest' = newest
            /\ \A u \in Turn : Answers(u) => Answers(u)'
            /\ \/ running # NoTurn
               \/ plan'.queued = plan.queued
               \/ plan'.queued = <<>>
<1>0. /\ plan \in PlanRecord
      /\ pc \in [Turn -> Stage]
      /\ round \in [Turn -> 0 .. MaxRounds]
      /\ MaxRounds \in Nat
      /\ cut \subseteq Turn
      /\ mishaps \in Nat
      /\ mishaps = 0 => present
      /\ spoken + 1 \in Nat
      /\ "Drafting" \in PlanStatus /\ "AwaitingReview" \in PlanStatus
    BY ChamberAssumption, TypeInvParts
       DEF RegisterTypeOK, TurnsTypeInv, KingTypeOK, RestTypeOK, PlanStatus,
           EarInv
<1>100. Attentive => EarInv'
    BY EarKept
<1> USE DEF Update, Goto, Answers, LastRound, Guarded, turnVars, register, rest
<1>1. ASSUME NEW t \in Turn, Begin(t) PROVE EarInv'
    <2>1. /\ running' = t /\ newest' = t /\ plan' = plan /\ mishaps' = mishaps
          /\ present' = present
        BY <1>1 DEF Begin
    <2>2. Answers(t)' /\ t # NoTurn
        BY <1>0, <1>1, ChamberAssumption DEF Begin, Turn
    <2>3. Answers(running)' /\ Answers(newest)'
        BY <2>1, <2>2
    <2> HIDE DEF Answers
    <2> QED
        BY <1>0, <2>1, <2>2, <2>3 DEF EarInv
<1>2. ASSUME NEW t \in Turn, OpenModel(t) PROVE Attentive
    BY <1>0, <1>2, QueueOf DEF OpenModel
<1>3. ASSUME NEW t \in Turn, Fail(t) PROVE Attentive
    BY <1>0, <1>3, QueueOf DEF Fail, CutShort
<1>4. ASSUME NEW t \in Turn, Stopped(t) PROVE Attentive
    <2>0. Halted(plan) \in PlanRecord
        BY <1>0, PlanMethods
    <2>1. Halted(plan).queued = plan.queued
        BY <1>0, QueueOf
    <2>2. SettleToolCall(Halted(plan), t).queued = plan.queued
        BY <2>0, <2>1, QueueOf
    <2>3. plan'.queued = plan.queued
        BY SMTT(60), <2>1, <2>2, <1>4 DEF Stopped
    <2> QED
        BY <1>0, <2>3, <1>4 DEF Stopped, CutShort
<1>5. ASSUME NEW t \in Turn, TopOfRound(t) PROVE Attentive
    BY <1>0, <1>5, QueueOf DEF TopOfRound
<1>6. ASSUME NEW t \in Turn, OutOfRope(t) PROVE Attentive
    BY <1>0, <1>6, QueueOf DEF OutOfRope, CutShort
<1>7. ASSUME NEW t \in Turn, AskAgain(t) PROVE Attentive
    BY <1>0, <1>7, QueueOf DEF AskAgain
<1>8. ASSUME NEW t \in Turn, ModelFails(t) PROVE Attentive
    BY <1>0, <1>8, QueueOf DEF ModelFails
<1>9. ASSUME NEW t \in Turn, Speak(t) PROVE Attentive
    BY <1>0, <1>9, QueueOf DEF Speak
<1>10. ASSUME NEW t \in Turn, AfterSpeaking(t) PROVE EarInv'
    <2>1. CASE ~present
        BY <1>0, <2>1, <1>10 DEF AfterSpeaking, EarInv
    <2>2. CASE LastRound(t) /\ present
        <3>1. Attentive
            BY <1>0, <2>2, <1>10
               DEF AfterSpeaking, ReturnOrGoRound, StandDown, WithoutOwn
        <3> QED
            BY <3>1, <1>100
    <2>3. CASE plan.queued = <<>> /\ present
        <3>1. /\ plan'.queued = <<>> /\ present'
              /\ running' = WithoutOwn(t) /\ cut' = cut /\ round' = round
              /\ pc' = [pc EXCEPT ![t] = "leaving"] /\ mishaps' = mishaps
            BY <2>3, <1>10 DEF AfterSpeaking, ReturnOrGoRound, StandDown
        <3> QED
            BY <1>0, <3>1 DEF EarInv, WithoutOwn
    <2>4. CASE ~LastRound(t) /\ plan.queued # <<>> /\ present
        <3>1. [plan EXCEPT !.status = "Drafting",
                           !.working_on = TRUE].queued = plan.queued
            BY <1>0, QueueOf
        <3>2. Attentive
            BY <1>0, <2>4, <3>1, <1>10 DEF AfterSpeaking, ReturnOrGoRound
        <3> QED
            BY <3>2, <1>100
    <2> QED
        BY <2>1, <2>2, <2>3, <2>4
<1>11. ASSUME NEW t \in Turn, Act(t) PROVE Attentive
    BY <1>0, <1>11, QueueOf DEF Act
<1>12. ASSUME NEW t \in Turn, BeginCall(t) PROVE Attentive
    <2> DEFINE p == [plan EXCEPT !.working_on = TRUE]
    <2>1. p \in PlanRecord /\ p.queued = plan.queued
        BY <1>0 DEF PlanRecord
    <2> HIDE DEF p
    <2>2. BeginToolCall(p, t).queued = plan.queued
        BY <2>1, QueueOf
    <2> USE DEF p
    <2> QED
        BY <1>0, <2>2, <1>12 DEF BeginCall
<1>13. ASSUME NEW t \in Turn, SettleCall(t) PROVE Attentive
    BY <1>0, <1>13, QueueOf DEF SettleCall
<1>14. ASSUME NEW t \in Turn, ProposeCall(t) PROVE EarInv'
    <2> DEFINE p == Propose([SettleToolCall(plan, t) EXCEPT
                        !.working_on = FALSE, !.status = "AwaitingReview"])
               q == [p EXCEPT !.status = "Drafting", !.working_on = TRUE]
    <2>1. p.queued = plan.queued /\ q.queued = plan.queued
        BY <1>0 DEF Propose, SettleToolCall, PlanRecord
    <2>2. /\ present /\ present' /\ mishaps' = mishaps
          /\ newest' = newest /\ cut' = cut
          /\ IF plan.queued = <<>> \/ LastRound(t)
             THEN /\ plan' = p /\ running' = WithoutOwn(t) /\ round' = round
                  /\ pc' = [pc EXCEPT ![t] = "leaving"]
             ELSE /\ plan' = q /\ running' = running
                  /\ round' = [round EXCEPT ![t] = @ + 1]
                  /\ pc' = [pc EXCEPT ![t] = "round"]
        BY <1>14 DEF ProposeCall, ReturnOrGoRound, StandDown
    <2> HIDE DEF p, q
    <2>3. CASE LastRound(t)
        <3>1. Attentive
            BY <1>0, <2>1, <2>2, <2>3 DEF WithoutOwn
        <3> QED
            BY <3>1, <1>100
    <2>4. CASE plan.queued = <<>>
        <3>1. plan'.queued = <<>> /\ running' = WithoutOwn(t) /\ round' = round
            BY <2>1, <2>2, <2>4
        <3>2. pc' = [pc EXCEPT ![t] = "leaving"]
            BY <2>2, <2>4
        <3> QED
            BY <1>0, <2>2, <3>1, <3>2 DEF EarInv, WithoutOwn
    <2>5. CASE ~LastRound(t) /\ plan.queued # <<>>
        <3>1. Attentive
            BY <1>0, <2>1, <2>2, <2>5
        <3> QED
            BY <3>1, <1>100
    <2> QED
        BY <2>3, <2>4, <2>5
<1>15. ASSUME NEW t \in Turn, Drop(t) PROVE Attentive
    BY <1>0, <1>15, QueueOf DEF Drop, StandDown, WithoutOwn
<1>16. ASSUME NEW t \in Turn, Panic(t) PROVE EarInv'
    BY <1>0, <1>16 DEF Panic, Mishap, EarInv
<1>17. ASSUME NEW t \in Turn, RepairCrash(t) PROVE Attentive
    BY <1>0, <1>17, QueueOf DEF RepairCrash
<1>18. ASSUME NEW t \in Turn, CrashUnseen(t) PROVE Attentive
    BY <1>0, <1>18, QueueOf DEF CrashUnseen
<1>19. ASSUME NEW f \in Finisher, FinishBegins(f) PROVE Attentive
    BY <1>0, <1>19, QueueOf DEF FinishBegins, FinishVars
<1>20. ASSUME NEW f \in Finisher, GitSettles(f) PROVE Attentive
    BY <1>0, <1>20, QueueOf DEF GitSettles, FinishVars
<1>21. ASSUME NEW f \in Finisher, GitRefuses(f) PROVE Attentive
    BY <1>0, <1>21, QueueOf DEF GitRefuses, FinishVars
<1>22. ASSUME NEW f \in Finisher, FinishRecords(f) PROVE Attentive
    BY <1>0, <1>22, QueueOf DEF FinishRecords, FinishVars
<1>23. ASSUME SaySomething PROVE Attentive
    <2>1. running = NoTurn => Receive(plan, spoken + 1).queued = <<>>
        BY <1>0, QueueOf DEF IsRunning
    <2> QED
        BY <1>0, <2>1, <1>23 DEF SaySomething
<1>24. ASSUME TakeBack PROVE EarInv'
    <2>1. plan.queued # <<>>
        BY <1>0, <1>24 DEF TakeBack, PlanRecord
    <2>2. /\ running' = running /\ newest' = newest /\ pc' = pc /\ cut' = cut
          /\ round' = round /\ mishaps' = mishaps /\ present' = present
        BY <1>24 DEF TakeBack
    <2> QED
        BY <2>1, <2>2 DEF EarInv
<1>25. ASSUME Draft PROVE Attentive
    BY <1>0, <1>25, QueueOf DEF Draft
<1>26. ASSUME StopTurn PROVE Attentive
    BY <1>0, <1>26, QueueOf DEF StopTurn
<1>27. ASSUME StopFindsNone PROVE Attentive
    BY <1>0, <1>27, QueueOf DEF StopFindsNone
<1>28. ASSUME StopRepairs PROVE Attentive
    BY <1>0, <1>28, QueueOf DEF StopRepairs
<1>29. ASSUME ApprovePlan PROVE Attentive
    <2> DEFINE p == Say(Approve(plan), spoken + 1)
    <2>1. Approve(plan) \in PlanRecord
        BY <1>0, PlanMethods
    <2>2. Approve(plan).queued = plan.queued
        BY SMTT(60), <1>0, QueueOf
    <2>3. p \in PlanRecord
        BY <1>0, <2>1, PlanMethods
    <2>4. p.queued = plan.queued
        BY <1>0, <2>1, <2>2, QueueOf
    <2> HIDE DEF p
    <2>5. [p EXCEPT !.status = "Drafting"].queued = plan.queued
        BY <2>3, <2>4 DEF PlanRecord
    <2> USE DEF p
    <2> QED
        BY SMTT(60), <1>0, <2>5, <1>29 DEF ApprovePlan
<1>30. ASSUME SetAside PROVE Attentive
    BY <1>0, <1>30, QueueOf DEF SetAside
<1>31. ASSUME Annotate PROVE Attentive
    BY <1>0, <1>31, QueueOf DEF Annotate
<1>32. ASSUME WithdrawNote PROVE Attentive
    BY <1>0, <1>32, QueueOf DEF WithdrawNote
<1>33. ASSUME SendNotes PROVE Attentive
    <2> DEFINE p == [plan EXCEPT !.notes = FALSE]
    <2>1. p \in PlanRecord
        BY <1>0 DEF PlanRecord
    <2> HIDE DEF p
    <2>2. running = NoTurn => Receive(p, spoken + 1).queued = <<>>
        BY <1>0, <2>1, QueueOf DEF IsRunning
    <2> USE DEF p
    <2> QED
        BY <1>0, <2>2, <1>33 DEF SendNotes
<1>34. CASE LeaveKingdom
    BY <1>0, <1>34 DEF LeaveKingdom, Mishap, EarInv
<1>35. CASE OpenKingdom
    BY <1>0, <1>35 DEF OpenKingdom, Mishap, EarInv
<1>36. CASE Dies
    BY <1>0, <1>36 DEF Dies, Mishap, EarInv
<1>37. CASE UNCHANGED vars
    BY <1>37 DEF vars, EarInv
<1> QED
    BY <1>1, <1>2, <1>3, <1>4, <1>5, <1>6, <1>7, <1>8, <1>9, <1>10, <1>11,
       <1>12, <1>13, <1>14, <1>15, <1>16, <1>17, <1>18, <1>19, <1>20, <1>21,
       <1>22, <1>23, <1>24, <1>25, <1>26, <1>27, <1>28, <1>29, <1>30, <1>31,
       <1>32, <1>33, <1>34, <1>35, <1>36, <1>37, <1>100
       DEF Next, TurnStep, OwnStep, Answer, Accident, King, Finish, Server

(* Mishaps apart, words wait only for a newest turn that will still look   *)
(* for them, or that was cut short (turn.rs, converse; api.rs, receive).   *)
(* It takes three facts that hold together: the register names nobody but  *)
(* the newest turn, whoever it names is listening or was cut short, and a  *)
(* turn that answered left the register while nothing was queued.          *)
THEOREM WordsAreAttended == Spec => []WordsHaveAnEar
<1>1. Init => EntryIsNewest /\ EarInv
    BY DEF Init, Opened, EntryIsNewest, EarInv
<1>2. EarInv => WordsHaveAnEar
    BY DEF EarInv, WordsHaveAnEar, Answers
<1> QED
    BY TypeInvInit, TypeInvNext, <1>1, <1>2, EntryIsNewestNext, EarInvNext, PTL
       DEF Spec

-----------------------------------------------------------------------------
(* The King's words are kept, and kept in order, for every value of the    *)
(* constants.  What moves words does one of four things to the sequence of *)
(* words heard and waiting: leaves it, puts a new word in, or takes one    *)
(* out.                                                                    *)

(* A plan is approved once: its remit never narrows again.                 *)
GrantedOnce == grant # 0 => plan.permissions = "Full"

WordsInv == WordsKept /\ WordsInOrder /\ GrantedOnce

-----------------------------------------------------------------------------
(* Sequences of words, without the plan they belong to.                    *)

(* What WordsKept says of the words s when n have been said and those in w *)
(* taken back, and WordsInOrder with the grant g.                          *)
Kept(s, n, w) ==
    /\ \A i, j \in DOMAIN s : s[i] = s[j] => i = j
    /\ \A i \in DOMAIN s : s[i] \notin w
    /\ {s[i] : i \in DOMAIN s} \cup w = 1 .. n

Ordered(s, g) ==
    \A i, j \in DOMAIN s : i < j => s[i] < s[j] \/ s[i] = g

(* A word no one has said yet goes in at place k of m + 1.                 *)
LEMMA Insertion ==
    ASSUME NEW m \in Nat, NEW s \in [1 .. m -> Nat],
           NEW r \in [1 .. (m + 1) -> Nat],
           NEW n \in Nat, NEW w \in SUBSET Nat, NEW k \in 1 .. (m + 1),
           \A i \in 1 .. m : i < k => r[i] = s[i],
           r[k] = n + 1,
           \A i \in 1 .. m : i >= k => r[i + 1] = s[i],
           Kept(s, n, w)
    PROVE  Kept(r, n + 1, w)
<1>1. /\ \A i, j \in 1 .. m : s[i] = s[j] => i = j
      /\ \A i \in 1 .. m : s[i] \notin w
      /\ {s[i] : i \in 1 .. m} \cup w = 1 .. n
    BY DEF Kept
<1>2. /\ \A i \in 1 .. m : s[i] \in 1 .. n
      /\ w \subseteq 1 .. n
    BY <1>1
<1>3. \A i \in 1 .. (m + 1) :
        \/ i < k /\ i \in 1 .. m /\ r[i] = s[i]
        \/ i = k /\ r[i] = n + 1
        \/ i > k /\ i - 1 \in 1 .. m /\ r[i] = s[i - 1]
    <2> SUFFICES ASSUME NEW i \in 1 .. (m + 1)
                 PROVE  \/ i < k /\ i \in 1 .. m /\ r[i] = s[i]
                        \/ i = k /\ r[i] = n + 1
                        \/ i > k /\ i - 1 \in 1 .. m /\ r[i] = s[i - 1]
        OBVIOUS
    <2>1. CASE i <= k
        BY <2>1
    <2>2. CASE i > k
        <3>1. i - 1 \in 1 .. m /\ i - 1 >= k /\ (i - 1) + 1 = i
            BY <2>2
        <3>2. r[(i - 1) + 1] = s[i - 1]
            BY <3>1
        <3> QED
            BY <2>2, <3>1, <3>2
    <2> QED
        BY <2>1, <2>2
<1>4. ASSUME NEW i \in 1 .. (m + 1), NEW j \in 1 .. (m + 1), r[i] = r[j]
      PROVE  i = j
    <2>0. \A l \in 1 .. (m + 1) : l # k => r[l] \in 1 .. n
        BY <1>2, <1>3
    <2>1. CASE i = k
        BY <1>4, <2>0, <2>1
    <2>2. CASE j = k
        BY <1>4, <2>0, <2>2
    <2>3. CASE i # k /\ j # k
        <3>1. PICK a \in 1 .. m : r[i] = s[a] /\ a = IF i < k THEN i ELSE i - 1
            BY SMTT(60), <1>3, <2>3
        <3>2. PICK b \in 1 .. m : r[j] = s[b] /\ b = IF j < k THEN j ELSE j - 1
            BY <1>3, <2>3
        <3>3. a = b
            BY ZenonT(60), <1>1, <1>4, <3>1, <3>2
        <3> QED
            BY <2>3, <3>1, <3>2, <3>3
    <2> QED
        BY <2>1, <2>2, <2>3
<1>5. ASSUME NEW i \in 1 .. (m + 1)
      PROVE  r[i] \in 1 .. (n + 1) /\ r[i] \notin w
    <2>1. CASE i = k
        <3>1. n + 1 \notin 1 .. n
            OBVIOUS
        <3> QED
            BY <1>2, <2>1, <3>1
    <2>2. CASE i # k
        <3>1. PICK a \in 1 .. m : r[i] = s[a]
            BY <1>3, <2>2
        <3>2. s[a] \in 1 .. n /\ s[a] \notin w
            BY <1>1, <1>2
        <3> QED
            BY <3>1, <3>2
    <2> QED
        BY <2>1, <2>2
<1>6. ASSUME NEW x \in 1 .. (n + 1), x \notin w
      PROVE  \E i \in 1 .. (m + 1) : r[i] = x
    <2>1. CASE x = n + 1
        BY <2>1
    <2>2. CASE x # n + 1
        <3>1. x \in 1 .. n
            BY <2>2
        <3>2. PICK i \in 1 .. m : s[i] = x
            BY ZenonT(60), <1>1, <1>6, <3>1
        <3>3. CASE i < k
            BY <3>2, <3>3
        <3>4. CASE i >= k
            <4>1. i + 1 \in 1 .. (m + 1) /\ r[i + 1] = s[i]
                BY <3>4
            <4> QED
                BY <3>2, <4>1
        <3> QED
            BY <3>3, <3>4
    <2> QED
        BY <2>1, <2>2
<1>7. {r[i] : i \in 1 .. (m + 1)} \cup w = 1 .. (n + 1)
    <2>1. w \subseteq 1 .. (n + 1)
        BY <1>2
    <2>2. {r[i] : i \in 1 .. (m + 1)} \subseteq 1 .. (n + 1)
        BY <1>5
    <2>3. ASSUME NEW x \in 1 .. (n + 1)
          PROVE  x \in {r[i] : i \in 1 .. (m + 1)} \cup w
        BY <1>6
    <2> QED
        BY <2>1, <2>2, <2>3
<1>8. DOMAIN r = 1 .. (m + 1)
    OBVIOUS
<1> QED
    BY <1>4, <1>5, <1>7, <1>8 DEF Kept

(* The word at place k of m is taken back: the others keep their order.    *)
LEMMA Removal ==
    ASSUME NEW m \in Nat \ {0}, NEW s \in [1 .. m -> Nat],
           NEW r \in [1 .. (m - 1) -> Nat],
           NEW n \in Nat, NEW w \in SUBSET Nat, NEW k \in 1 .. m,
           \A i \in 1 .. m : i < k => r[i] = s[i],
           \A i \in 1 .. m : i > k => r[i - 1] = s[i],
           Kept(s, n, w)
    PROVE  /\ Kept(r, n, w \cup {s[k]})
           /\ \A g \in Nat : Ordered(s, g) => Ordered(r, g)
<1>1. /\ \A i, j \in 1 .. m : s[i] = s[j] => i = j
      /\ \A i \in 1 .. m : s[i] \notin w
      /\ {s[i] : i \in 1 .. m} \cup w = 1 .. n
    BY DEF Kept
<1>2. \A i \in 1 .. (m - 1) : \E a \in 1 .. m :
        r[i] = s[a] /\ a # k /\ a = IF i < k THEN i ELSE i + 1
    <2> SUFFICES ASSUME NEW i \in 1 .. (m - 1)
                 PROVE  \E a \in 1 .. m : /\ r[i] = s[a]
                                         /\ a # k
                                         /\ a = IF i < k THEN i ELSE i + 1
        OBVIOUS
    <2>1. CASE i < k
        <3>1. i \in 1 .. m /\ r[i] = s[i] /\ i # k
            BY <2>1
        <3> QED
            BY <2>1, <3>1
    <2>2. CASE i >= k
        <3>1. i + 1 \in 1 .. m /\ i + 1 > k /\ (i + 1) - 1 = i
            BY <2>2
        <3>2. r[(i + 1) - 1] = s[i + 1]
            BY <3>1
        <3> QED
            BY <2>2, <3>1, <3>2
    <2> QED
        BY <2>1, <2>2
<1>3. ASSUME NEW i \in 1 .. (m - 1), NEW j \in 1 .. (m - 1), r[i] = r[j]
      PROVE  i = j
    <2>1. PICK a \in 1 .. m : r[i] = s[a] /\ a = IF i < k THEN i ELSE i + 1
        BY <1>2
    <2>2. PICK b \in 1 .. m : r[j] = s[b] /\ b = IF j < k THEN j ELSE j + 1
        BY <1>2
    <2>3. a = b
        BY <1>1, <1>3, <2>1, <2>2
    <2> QED
        BY <2>1, <2>2, <2>3
<1>4. ASSUME NEW i \in 1 .. (m - 1)
      PROVE  r[i] \in 1 .. n /\ r[i] \notin w \cup {s[k]}
    <2>1. PICK a \in 1 .. m : r[i] = s[a] /\ a # k
        BY <1>2
    <2> QED
        BY <1>1, <2>1
<1>5. ASSUME NEW x \in 1 .. n, x \notin w, x # s[k]
      PROVE  \E i \in 1 .. (m - 1) : r[i] = x
    <2>1. PICK i \in 1 .. m : s[i] = x
        BY <1>1, <1>5
    <2>2. CASE i < k
        <3>1. i \in 1 .. (m - 1) /\ r[i] = s[i]
            BY <2>2
        <3> QED
            BY <2>1, <3>1
    <2>3. CASE i > k
        <3>1. i - 1 \in 1 .. (m - 1) /\ r[i - 1] = s[i]
            BY <2>3
        <3> QED
            BY <2>1, <3>1
    <2> QED
        BY <1>5, <2>1, <2>2, <2>3
<1>6. {r[i] : i \in 1 .. (m - 1)} \cup (w \cup {s[k]}) = 1 .. n
    <2>1. w \cup {s[k]} \subseteq 1 .. n
        BY <1>1
    <2> QED
        BY <1>4, <1>5, <2>1
<1>7. DOMAIN r = 1 .. (m - 1)
    OBVIOUS
<1>8. ASSUME NEW g \in Nat, Ordered(s, g)
      PROVE  Ordered(r, g)
    <2>1. SUFFICES ASSUME NEW i \in 1 .. (m - 1), NEW j \in 1 .. (m - 1),
                          i < j
                   PROVE  r[i] < r[j] \/ r[i] = g
        BY DEF Ordered
    <2>2. PICK a \in 1 .. m : r[i] = s[a] /\ a = IF i < k THEN i ELSE i + 1
        BY <1>2
    <2>3. PICK b \in 1 .. m : r[j] = s[b] /\ b = IF j < k THEN j ELSE j + 1
        BY <1>2
    <2>4. a < b
        BY <2>1, <2>2, <2>3
    <2>5. s[a] < s[b] \/ s[a] = g
        BY <1>8, <2>4 DEF Ordered
    <2> QED
        BY <2>2, <2>3, <2>5
<1> QED
    BY <1>3, <1>4, <1>6, <1>7, <1>8 DEF Kept

(* The order of the words when the newest goes in last, and when it is the *)
(* grant and goes in anywhere.                                             *)
LEMMA LastInOrder ==
    ASSUME NEW m \in Nat, NEW s \in [1 .. m -> Nat],
           NEW r \in [1 .. (m + 1) -> Nat],
           NEW n \in Nat, NEW w \in SUBSET Nat, NEW g \in Nat,
           \A i \in 1 .. m : r[i] = s[i],
           r[m + 1] = n + 1,
           Kept(s, n, w), Ordered(s, g)
    PROVE  Ordered(r, g)
<1>1. \A i \in 1 .. m : s[i] \in 1 .. n
    BY DEF Kept
<1>2. SUFFICES ASSUME NEW i \in 1 .. (m + 1), NEW j \in 1 .. (m + 1), i < j
               PROVE  r[i] < r[j] \/ r[i] = g
    BY DEF Ordered
<1>3. i \in 1 .. m
    BY <1>2
<1>4. CASE j = m + 1
    BY <1>1, <1>3, <1>4
<1>5. CASE j # m + 1
    <2>1. j \in 1 .. m
        BY <1>5
    <2>2. s[i] < s[j] \/ s[i] = g
        BY <1>2, <1>3, <2>1 DEF Ordered
    <2> QED
        BY <1>3, <2>1, <2>2
<1> QED
    BY <1>4, <1>5

LEMMA GrantInOrder ==
    ASSUME NEW m \in Nat, NEW s \in [1 .. m -> Nat],
           NEW r \in [1 .. (m + 1) -> Nat],
           NEW n \in Nat, NEW w \in SUBSET Nat, NEW k \in 1 .. (m + 1),
           \A i \in 1 .. m : i < k => r[i] = s[i],
           r[k] = n + 1,
           \A i \in 1 .. m : i >= k => r[i + 1] = s[i],
           Kept(s, n, w), Ordered(s, 0)
    PROVE  Ordered(r, n + 1)
<1>1. \A i \in 1 .. m : s[i] \in 1 .. n
    BY DEF Kept
<1>2. \A i, j \in 1 .. m : i < j => s[i] < s[j]
    BY <1>1 DEF Ordered
<1>3. SUFFICES ASSUME NEW i \in 1 .. (m + 1), NEW j \in 1 .. (m + 1), i < j
               PROVE  r[i] < r[j] \/ r[i] = n + 1
    BY DEF Ordered
<1>4. CASE i = k
    BY <1>4
<1>5. CASE j = k
    <2>1. i \in 1 .. m /\ r[i] = s[i] /\ r[j] = n + 1
        BY <1>3, <1>5
    <2> QED
        BY <1>1, <2>1
<1>6. CASE i < k /\ j < k
    <2>1. i \in 1 .. m /\ j \in 1 .. m
        BY <1>6
    <2> QED
        BY <1>2, <1>3, <1>6, <2>1
<1>7. CASE i < k /\ j > k
    <2>1. i \in 1 .. m /\ j - 1 \in 1 .. m /\ i < j - 1 /\ j - 1 >= k
        BY <1>7
    <2>2. r[(j - 1) + 1] = s[j - 1] /\ (j - 1) + 1 = j
        BY <2>1
    <2> QED
        BY <1>2, <1>7, <2>1, <2>2
<1>8. CASE i > k
    <2>1. /\ i - 1 \in 1 .. m /\ i - 1 >= k
          /\ j - 1 \in 1 .. m /\ j - 1 >= k
          /\ i - 1 < j - 1
        BY <1>3, <1>8
    <2>2. /\ r[(i - 1) + 1] = s[i - 1] /\ (i - 1) + 1 = i
          /\ r[(j - 1) + 1] = s[j - 1] /\ (j - 1) + 1 = j
        BY <2>1
    <2> QED
        BY <1>2, <2>1, <2>2
<1> QED
    BY <1>3, <1>4, <1>5, <1>6, <1>7, <1>8

-----------------------------------------------------------------------------
(* The words of a plan, and what its methods do to them.                   *)

WordsOf(p) == p.heard \o p.queued

LEMMA WordsAreNumbers ==
    ASSUME NEW p \in PlanRecord
    PROVE  /\ p.heard \in Seq(Nat) /\ p.queued \in Seq(Nat)
           /\ WordsOf(p) \in [1 .. (Len(p.heard) + Len(p.queued)) -> Nat]
           /\ \A i \in 1 .. (Len(p.heard) + Len(p.queued)) :
                WordsOf(p)[i] = IF i <= Len(p.heard) THEN p.heard[i]
                                ELSE p.queued[i - Len(p.heard)]
<1>1. p.heard \in Seq(Nat) /\ p.queued \in Seq(Nat)
    BY DEF PlanRecord
<1>2. /\ WordsOf(p) \in Seq(Nat)
      /\ Len(WordsOf(p)) = Len(p.heard) + Len(p.queued)
      /\ \A i \in 1 .. (Len(p.heard) + Len(p.queued)) :
            WordsOf(p)[i] = IF i <= Len(p.heard) THEN p.heard[i]
                            ELSE p.queued[i - Len(p.heard)]
    BY <1>1, ConcatProperties DEF WordsOf
<1>3. WordsOf(p) \in [1 .. (Len(p.heard) + Len(p.queued)) -> Nat]
    BY <1>2, LenProperties
<1> QED
    BY <1>1, <1>2, <1>3

(* The words stand as they stood, and the remit has not narrowed.          *)
SameWords(q, p) ==
    /\ WordsOf(q) = WordsOf(p)
    /\ p.permissions = "Full" => q.permissions = "Full"

LEMMA HeardStandAsQueued ==
    ASSUME NEW p \in PlanRecord
    PROVE  SameWords(HearQueued(p), p)
<1>1. p.heard \o p.queued \in Seq(Nat)
    BY ConcatProperties DEF PlanRecord
<1>2. (p.heard \o p.queued) \o <<>> = p.heard \o p.queued
    BY <1>1, ConcatEmptySeq
<1>3. /\ HearQueued(p).heard = p.heard \o p.queued
      /\ HearQueued(p).queued = <<>>
      /\ HearQueued(p).permissions = p.permissions
    BY DEF HearQueued, PlanRecord
<1> QED
    BY <1>2, <1>3 DEF SameWords, WordsOf

LEMMA MostMethodsMoveNoWords ==
    ASSUME NEW p \in PlanRecord
    PROVE  /\ SameWords(p, p)
           /\ SameWords(Failed(p), p)
           /\ SameWords(Halted(p), p)
           /\ SameWords(Replied(p), p)
           /\ SameWords(SetAsideProposal(p), p)
           /\ SameWords(Reconcile(p), p)
           /\ SameWords(Settle(p, "Merged"), p)
           /\ SameWords(Settle(p, "Archived"), p)
           /\ SameWords([p EXCEPT !.working_on = TRUE], p)
           /\ SameWords([p EXCEPT !.notes = TRUE], p)
           /\ SameWords([p EXCEPT !.notes = FALSE], p)
           /\ SameWords([p EXCEPT !.status = "Drafting",
                                  !.working_on = TRUE], p)
           /\ \A t \in Turn :
                /\ SameWords(SettleToolCall(p, t), p)
                /\ SameWords(SettleToolCall(Halted(p), t), p)
                /\ SameWords(BeginToolCall(
                        [p EXCEPT !.working_on = TRUE], t), p)
<1> DEFINE Same(q) == /\ q.heard = p.heard /\ q.queued = p.queued
                      /\ q.permissions = p.permissions
<1>1. ASSUME NEW q, Same(q) PROVE SameWords(q, p)
    BY <1>1 DEF SameWords, WordsOf
<1>2. /\ Same(p) /\ Same(Failed(p)) /\ Same(Halted(p)) /\ Same(Replied(p))
      /\ Same(SetAsideProposal(p)) /\ Same(Reconcile(p))
      /\ Same(Settle(p, "Merged")) /\ Same(Settle(p, "Archived"))
    BY DEF Failed, Halted, Replied, SetAsideProposal, Reconcile, Settle,
           PlanRecord
<1>3. /\ Same([p EXCEPT !.working_on = TRUE])
      /\ Same([p EXCEPT !.notes = TRUE])
      /\ Same([p EXCEPT !.notes = FALSE])
      /\ Same([p EXCEPT !.status = "Drafting", !.working_on = TRUE])
    BY DEF PlanRecord
<1>4. \A t \in Turn :
        /\ Same(SettleToolCall(p, t))
        /\ Same(SettleToolCall(Halted(p), t))
        /\ Same(BeginToolCall([p EXCEPT !.working_on = TRUE], t))
    BY DEF SettleToolCall, BeginToolCall, Halted, PlanRecord
<1> HIDE DEF Same
<1> QED
    BY <1>1, <1>2, <1>3, <1>4

(* Words that go into the log go in before those that wait.                *)
LEMMA SayInserts ==
    ASSUME NEW p \in PlanRecord, NEW n \in Nat, NEW w \in SUBSET Nat,
           Kept(WordsOf(p), n, w)
    PROVE  /\ Kept(WordsOf(Say(p, n + 1)), n + 1, w)
           /\ Ordered(WordsOf(p), 0) => Ordered(WordsOf(Say(p, n + 1)), n + 1)
           /\ \A g \in Nat : p.queued = <<>> /\ Ordered(WordsOf(p), g)
                => Ordered(WordsOf(Say(p, n + 1)), g)
<1> DEFINE q == Say(p, n + 1)
           h == Len(p.heard)
           l == Len(p.queued)
           m == h + l
           s == WordsOf(p)
           r == WordsOf(q)
<1>1. q \in PlanRecord
    <2>1. n + 1 \in Nat
        OBVIOUS
    <2> QED
        BY <2>1, PlanMethods
<1>2. q.heard = Append(p.heard, n + 1) /\ q.queued = p.queued
    BY DEF Say, PlanRecord
<1>3. p.heard \in Seq(Nat) /\ p.queued \in Seq(Nat)
    BY WordsAreNumbers
<1> HIDE DEF q
<1>0. n + 1 \in Nat
    OBVIOUS
<1>4. /\ Len(q.heard) = h + 1
      /\ \A i \in 1 .. h : q.heard[i] = p.heard[i]
      /\ q.heard[h + 1] = n + 1
    BY <1>0, <1>2, <1>3, AppendProperties
<1>5. h \in Nat /\ l \in Nat
    BY <1>3, LenProperties
<1>6. s \in [1 .. m -> Nat]
      /\ \A i \in 1 .. m : s[i] = IF i <= h THEN p.heard[i]
                                  ELSE p.queued[i - h]
    BY WordsAreNumbers
<1>7. r \in [1 .. (m + 1) -> Nat]
      /\ \A i \in 1 .. (m + 1) : r[i] = IF i <= h + 1 THEN q.heard[i]
                                        ELSE p.queued[i - (h + 1)]
    <2>0. Len(q.heard) = h + 1 /\ Len(q.queued) = l
        BY <1>2, <1>4
    <2>1. Len(q.heard) + Len(q.queued) = m + 1
        <3> HIDE DEF h, l
        <3> QED
            BY <1>5, <2>0
    <2>2. r \in [1 .. (Len(q.heard) + Len(q.queued)) -> Nat]
          /\ \A i \in 1 .. (Len(q.heard) + Len(q.queued)) :
                r[i] = IF i <= Len(q.heard) THEN q.heard[i]
                       ELSE q.queued[i - Len(q.heard)]
        BY <1>1, WordsAreNumbers
    <2> HIDE DEF q, r, m, h, l
    <2> QED
        BY <1>2, <1>4, <2>1, <2>2
<1> HIDE DEF q, h, l, s, r
<1>8. \A i \in 1 .. m : i < h + 1 => r[i] = s[i]
    <2> SUFFICES ASSUME NEW i \in 1 .. m, i < h + 1 PROVE r[i] = s[i]
        OBVIOUS
    <2>1. i \in 1 .. (m + 1) /\ i <= h /\ i <= h + 1 /\ i \in 1 .. h
        BY <1>5
    <2>2. r[i] = q.heard[i] /\ s[i] = p.heard[i]
        BY <1>6, <1>7, <2>1
    <2> QED
        BY <1>4, <2>1, <2>2
<1>9. h + 1 \in 1 .. (m + 1) /\ r[h + 1] = n + 1
    BY <1>4, <1>5, <1>7
<1>10. \A i \in 1 .. m : i >= h + 1 => r[i + 1] = s[i]
    <2> SUFFICES ASSUME NEW i \in 1 .. m, i >= h + 1
                 PROVE  r[i + 1] = s[i]
        OBVIOUS
    <2>1. /\ i + 1 \in 1 .. (m + 1) /\ (i + 1) - (h + 1) = i - h
          /\ ~(i + 1 <= h + 1) /\ ~(i <= h)
        BY <1>5
    <2>2. r[i + 1] = p.queued[(i + 1) - (h + 1)] /\ s[i] = p.queued[i - h]
        BY <1>6, <1>7, <2>1
    <2> QED
        BY <2>1, <2>2
<1>15. m \in Nat
    BY <1>5
<1> HIDE DEF m
<1>11. Kept(s, n, w)
    BY DEF s
<1>12. Kept(r, n + 1, w)
    BY <1>15, <1>6, <1>7, <1>8, <1>9, <1>10, <1>11, Insertion
<1>13. Ordered(s, 0) => Ordered(r, n + 1)
    BY <1>15, <1>6, <1>7, <1>8, <1>9, <1>10, <1>11, GrantInOrder
<1>14. ASSUME NEW g \in Nat, p.queued = <<>>, Ordered(s, g)
       PROVE  Ordered(r, g)
    <2>1. m = h
        BY <1>3, <1>5, <1>14 DEF l, m
    <2>2. \A i \in 1 .. m : r[i] = s[i]
        BY <1>5, <1>8, <2>1
    <2>3. r[m + 1] = n + 1
        BY <1>9, <2>1
    <2> QED
        BY <1>15, <1>6, <1>7, <1>11, <1>14, <2>2, <2>3, LastInOrder
<1> QED
    BY SMTT(60), <1>12, <1>13, <1>14 DEF q, s, r

LEMMA QueueInserts ==
    ASSUME NEW p \in PlanRecord, NEW n \in Nat, NEW w \in SUBSET Nat,
           NEW g \in Nat, Kept(WordsOf(p), n, w), Ordered(WordsOf(p), g)
    PROVE  /\ Kept(WordsOf(Queue(p, n + 1)), n + 1, w)
           /\ Ordered(WordsOf(Queue(p, n + 1)), g)
<1> DEFINE q == Queue(p, n + 1)
           h == Len(p.heard)
           l == Len(p.queued)
           m == h + l
           s == WordsOf(p)
           r == WordsOf(q)
<1>1. q \in PlanRecord
    <2>1. n + 1 \in Nat
        OBVIOUS
    <2> QED
        BY <2>1, PlanMethods
<1>2. q.heard = p.heard /\ q.queued = Append(p.queued, n + 1)
    BY DEF Queue, PlanRecord
<1>3. p.heard \in Seq(Nat) /\ p.queued \in Seq(Nat)
    BY WordsAreNumbers
<1> HIDE DEF q
<1>0. n + 1 \in Nat
    OBVIOUS
<1>4. /\ Len(q.queued) = l + 1
      /\ \A i \in 1 .. l : q.queued[i] = p.queued[i]
      /\ q.queued[l + 1] = n + 1
    BY <1>0, <1>2, <1>3, AppendProperties
<1>5. h \in Nat /\ l \in Nat
    BY <1>3, LenProperties
<1>6. s \in [1 .. m -> Nat]
      /\ \A i \in 1 .. m : s[i] = IF i <= h THEN p.heard[i]
                                  ELSE p.queued[i - h]
    BY WordsAreNumbers
<1>7. r \in [1 .. (m + 1) -> Nat]
      /\ \A i \in 1 .. (m + 1) : r[i] = IF i <= h THEN p.heard[i]
                                        ELSE q.queued[i - h]
    <2>0. Len(q.heard) = h /\ Len(q.queued) = l + 1
        BY <1>2, <1>4
    <2>1. Len(q.heard) + Len(q.queued) = m + 1
        <3> HIDE DEF h, l
        <3> QED
            BY <1>5, <2>0
    <2>2. r \in [1 .. (Len(q.heard) + Len(q.queued)) -> Nat]
          /\ \A i \in 1 .. (Len(q.heard) + Len(q.queued)) :
                r[i] = IF i <= Len(q.heard) THEN q.heard[i]
                       ELSE q.queued[i - Len(q.heard)]
        BY <1>1, WordsAreNumbers
    <2>3. Len(q.heard) = h
        BY <1>2
    <2> HIDE DEF q, r, m, h, l
    <2> QED
        BY <1>2, <2>1, <2>2, <2>3
<1> HIDE DEF q, h, l, s, r
<1>8. \A i \in 1 .. m : r[i] = s[i]
    <2> SUFFICES ASSUME NEW i \in 1 .. m PROVE r[i] = s[i]
        OBVIOUS
    <2>0. i \in 1 .. (m + 1)
        BY <1>5
    <2>1. CASE i <= h
        BY <1>6, <1>7, <2>0, <2>1
    <2>2. CASE i > h
        <3>1. i - h \in 1 .. l /\ ~(i <= h)
            BY <1>5, <2>2
        <3>2. r[i] = q.queued[i - h] /\ s[i] = p.queued[i - h]
            BY <1>6, <1>7, <2>0, <3>1
        <3> QED
            BY <1>4, <3>1, <3>2
    <2> QED
        BY <1>5, <2>1, <2>2
<1>9. r[m + 1] = n + 1
    <2>1. (m + 1) - h = l + 1 /\ ~(m + 1 <= h)
        BY <1>5
    <2> QED
        BY <1>4, <1>5, <1>7, <2>1
<1>15. m \in Nat
    BY <1>5
<1> HIDE DEF m
<1>10. Kept(s, n, w) /\ Ordered(s, g)
    BY DEF s
<1>11. Ordered(r, g)
    BY <1>15, <1>6, <1>7, <1>8, <1>9, <1>10, LastInOrder
<1>12. Kept(r, n + 1, w)
    <2>1. /\ m + 1 \in 1 .. (m + 1)
          /\ \A i \in 1 .. m : i < m + 1 => r[i] = s[i]
          /\ \A i \in 1 .. m : i >= m + 1 => r[i + 1] = s[i]
        BY <1>15, <1>8
    <2> QED
        BY <1>15, <1>6, <1>7, <1>9, <1>10, <2>1, Insertion
<1> QED
    BY SMTT(60), <1>11, <1>12 DEF q, r

(* On either path of receive the new words stand last.                     *)
LEMMA ReceiveInserts ==
    ASSUME NEW p \in PlanRecord, NEW n \in Nat, NEW w \in SUBSET Nat,
           NEW g \in Nat, Kept(WordsOf(p), n, w), Ordered(WordsOf(p), g)
    PROVE  /\ Kept(WordsOf(Receive(p, n + 1)), n + 1, w)
           /\ Ordered(WordsOf(Receive(p, n + 1)), g)
<1>1. CASE IsRunning
    BY <1>1, QueueInserts DEF Receive
<1>2. CASE ~IsRunning
    <2> DEFINE q == [HearQueued(p) EXCEPT !.status = "Drafting",
                                          !.working_on = FALSE]
    <2>1. HearQueued(p) \in PlanRecord
        BY PlanMethods
    <2>2. q \in PlanRecord
        BY <2>1 DEF PlanRecord, PlanStatus
    <2>3. q.heard = HearQueued(p).heard /\ q.queued = HearQueued(p).queued
        BY <2>1 DEF PlanRecord
    <2>4. WordsOf(q) = WordsOf(p)
        BY <2>3, HeardStandAsQueued DEF SameWords, WordsOf
    <2>5. q.queued = <<>>
        BY <2>3 DEF HearQueued, PlanRecord
    <2>6. Receive(p, n + 1) = Say(q, n + 1)
        BY <1>2 DEF Receive
    <2> HIDE DEF q
    <2> QED
        BY <2>2, <2>4, <2>5, <2>6, SayInserts
<1> QED
    BY <1>1, <1>2

(* What is taken back stood where it is taken from.                        *)
LEMMA UnqueueRemoves ==
    ASSUME NEW p \in PlanRecord, NEW i \in 1 .. Len(p.queued),
           NEW n \in Nat, NEW w \in SUBSET Nat, NEW g \in Nat,
           Kept(WordsOf(p), n, w), Ordered(WordsOf(p), g)
    PROVE  /\ Kept(WordsOf(Unqueue(p, i)), n, w \cup {p.queued[i]})
           /\ Ordered(WordsOf(Unqueue(p, i)), g)
<1> DEFINE q == Unqueue(p, i)
           h == Len(p.heard)
           l == Len(p.queued)
           m == h + l
           s == WordsOf(p)
           r == WordsOf(q)
<1>1. q \in PlanRecord
    BY UnqueueReturnsPlan
<1>2. q.heard = p.heard /\ q.queued = Without(p.queued, i)
    BY DEF Unqueue, PlanRecord
<1>3. p.heard \in Seq(Nat) /\ p.queued \in Seq(Nat)
    BY WordsAreNumbers
<1>4. h \in Nat /\ l \in Nat /\ i \in 1 .. l
    BY <1>3, LenProperties
<1>5. /\ Len(q.queued) = l - 1
      /\ \A j \in 1 .. (l - 1) :
            q.queued[j] = IF j < i THEN p.queued[j] ELSE p.queued[j + 1]
    <2>1. q.queued \in Seq(Nat) /\ DOMAIN q.queued = 1 .. (l - 1)
        BY <1>2, <1>3, WithoutIsSeq DEF Without
    <2>2. l - 1 \in Nat
        BY <1>4
    <2>3. Len(q.queued) = l - 1
        BY <2>1, <2>2, LenProperties
    <2> QED
        BY <1>2, <2>3 DEF Without
<1>6. s \in [1 .. m -> Nat]
      /\ \A j \in 1 .. m : s[j] = IF j <= h THEN p.heard[j]
                                  ELSE p.queued[j - h]
    BY WordsAreNumbers
<1>7. r \in [1 .. (m - 1) -> Nat]
      /\ \A j \in 1 .. (m - 1) : r[j] = IF j <= h THEN p.heard[j]
                                        ELSE q.queued[j - h]
    <2>1. Len(q.heard) + Len(q.queued) = m - 1 /\ Len(q.heard) = h
        BY <1>2, <1>4, <1>5
    <2>2. r \in [1 .. (Len(q.heard) + Len(q.queued)) -> Nat]
          /\ \A j \in 1 .. (Len(q.heard) + Len(q.queued)) :
                r[j] = IF j <= Len(q.heard) THEN q.heard[j]
                       ELSE q.queued[j - Len(q.heard)]
        BY <1>1, WordsAreNumbers
    <2> HIDE DEF q, r, m, h, l
    <2> QED
        BY <1>2, <2>1, <2>2
<1> HIDE DEF q, h, l, s, r
<1>8. m \in Nat \ {0} /\ h + i \in 1 .. m /\ s[h + i] = p.queued[i]
    <2>1. m \in Nat \ {0} /\ h + i \in 1 .. m /\ (h + i) - h = i
        BY <1>4
    <2> QED
        BY <1>4, <1>6, <2>1
<1>9. \A j \in 1 .. m : j < h + i => r[j] = s[j]
    <2> SUFFICES ASSUME NEW j \in 1 .. m, j < h + i PROVE r[j] = s[j]
        OBVIOUS
    <2>1. j \in 1 .. (m - 1)
        BY <1>4
    <2>2. CASE j <= h
        BY <1>6, <1>7, <2>1, <2>2
    <2>3. CASE j > h
        <3>1. j - h \in 1 .. (l - 1) /\ j - h < i
            BY <1>4, <2>3
        <3> QED
            BY <1>5, <1>6, <1>7, <1>4, <2>1, <2>3, <3>1
    <2> QED
        BY <1>4, <2>2, <2>3
<1>10. \A j \in 1 .. m : j > h + i => r[j - 1] = s[j]
    <2> SUFFICES ASSUME NEW j \in 1 .. m, j > h + i PROVE r[j - 1] = s[j]
        OBVIOUS
    <2>1. /\ j - 1 \in 1 .. (m - 1) /\ ~(j - 1 <= h) /\ ~(j <= h)
          /\ (j - 1) - h \in 1 .. (l - 1) /\ ~((j - 1) - h < i)
          /\ ((j - 1) - h) + 1 = j - h
        BY <1>4
    <2>2. r[j - 1] = q.queued[(j - 1) - h]
        BY <1>7, <2>1
    <2>3. q.queued[(j - 1) - h] = p.queued[j - h]
        BY <1>5, <2>1
    <2> QED
        BY <1>6, <2>1, <2>2, <2>3
<1> HIDE DEF m
<1>11. Kept(s, n, w) /\ Ordered(s, g)
    BY DEF s
<1> DEFINE k == h + i
<1>12. /\ m \in Nat \ {0} /\ k \in 1 .. m
       /\ s \in [1 .. m -> Nat] /\ r \in [1 .. (m - 1) -> Nat]
       /\ \A j \in 1 .. m : j < k => r[j] = s[j]
       /\ \A j \in 1 .. m : j > k => r[j - 1] = s[j]
    BY <1>6, <1>7, <1>8, <1>9, <1>10
<1> HIDE DEF k
<1>13. /\ Kept(r, n, w \cup {s[k]})
       /\ \A x \in Nat : Ordered(s, x) => Ordered(r, x)
    BY ZenonT(60), <1>11, <1>12, Removal
<1> QED
    BY <1>8, <1>11, <1>13 DEF q, r, k

-----------------------------------------------------------------------------
(* WordsInv is inductive.                                                  *)

LEMMA WordsInvRead ==
    WordsInv <=> /\ Kept(WordsOf(plan), spoken, withdrawn)
                 /\ Ordered(WordsOf(plan), grant)
                 /\ GrantedOnce
BY DEF WordsInv, WordsKept, WordsInOrder, Words, WordsOf, Kept, Ordered

LEMMA WordsInvReadNext ==
    WordsInv' <=> /\ Kept(WordsOf(plan'), spoken', withdrawn')
                  /\ Ordered(WordsOf(plan'), grant')
                  /\ GrantedOnce'
BY DEF WordsInv, WordsKept, WordsInOrder, Words, WordsOf, Kept, Ordered

LEMMA WordsInvInit == Init => WordsInv
<1> SUFFICES ASSUME Init PROVE WordsInv
    OBVIOUS
<1>1. plan.heard = <<1>> /\ plan.queued = <<>> /\ WordsOf(plan) = <<1>>
    BY DEF Init, Opened, WordsOf
<1>2. /\ Kept(<<1>>, 1, {}) /\ Ordered(<<1>>, 0)
    BY DEF Kept, Ordered
<1>3. GrantedOnce
    BY DEF Init, GrantedOnce
<1> QED
    BY <1>1, <1>2, <1>3, WordsInvRead DEF Init

LEMMA WordsInvNext == TypeInv /\ WordsInv /\ [Next]_vars => WordsInv'
<1> SUFFICES ASSUME TypeInv, WordsInv, [Next]_vars PROVE WordsInv'
    OBVIOUS
<1> DEFINE Unmoved == SameWords(plan', plan) /\ UNCHANGED king
<1>0. /\ plan \in PlanRecord
      /\ spoken \in Nat /\ withdrawn \in SUBSET Nat /\ grant \in Nat
      /\ Kept(WordsOf(plan), spoken, withdrawn)
      /\ Ordered(WordsOf(plan), grant)
      /\ GrantedOnce
    BY TypeInvParts, WordsInvRead DEF KingTypeOK
<1>u. ASSUME Unmoved PROVE WordsInv'
    <2>1. GrantedOnce'
        BY <1>0, <1>u DEF SameWords, GrantedOnce, king
    <2> QED
        BY <1>0, <1>u, <2>1, WordsInvReadNext DEF SameWords, king
<1>m. /\ SameWords(plan, plan)
      /\ SameWords(Failed(plan), plan)
      /\ SameWords(Halted(plan), plan)
      /\ SameWords(Replied(plan), plan)
      /\ SameWords(SetAsideProposal(plan), plan)
      /\ SameWords(Reconcile(plan), plan)
      /\ SameWords(Settle(plan, "Merged"), plan)
      /\ SameWords(Settle(plan, "Archived"), plan)
      /\ SameWords([plan EXCEPT !.working_on = TRUE], plan)
      /\ SameWords([plan EXCEPT !.notes = TRUE], plan)
      /\ SameWords([plan EXCEPT !.notes = FALSE], plan)
      /\ SameWords([plan EXCEPT !.status = "Drafting",
                                !.working_on = TRUE], plan)
      /\ \A t \in Turn :
            /\ SameWords(SettleToolCall(plan, t), plan)
            /\ SameWords(SettleToolCall(Halted(plan), t), plan)
            /\ SameWords(BeginToolCall(
                    [plan EXCEPT !.working_on = TRUE], t), plan)
    BY <1>0, MostMethodsMoveNoWords
<1>1. ASSUME NEW t \in Turn, Begin(t) PROVE Unmoved
    BY <1>m, <1>1 DEF Begin, king
<1>2. ASSUME NEW t \in Turn, OpenModel(t) PROVE Unmoved
    BY <1>m, <1>2 DEF OpenModel, king
<1>3. ASSUME NEW t \in Turn, Fail(t) PROVE Unmoved
    BY <1>m, <1>3 DEF Fail, CutShort, Update, king
<1>4. ASSUME NEW t \in Turn, Stopped(t) PROVE Unmoved
    BY <1>m, <1>4 DEF Stopped, CutShort, Update, king
<1>5. ASSUME NEW t \in Turn, TopOfRound(t) PROVE Unmoved
    <2>1. SameWords(HearQueued(plan), plan)
        BY <1>0, HeardStandAsQueued
    <2> QED
        BY <1>m, <1>5, <2>1 DEF TopOfRound, Update, king
<1>6. ASSUME NEW t \in Turn, OutOfRope(t) PROVE Unmoved
    BY <1>m, <1>6 DEF OutOfRope, CutShort, Update, king
<1>7. ASSUME NEW t \in Turn, AskAgain(t) PROVE Unmoved
    BY <1>m, <1>7 DEF AskAgain, Update, king
<1>8. ASSUME NEW t \in Turn, ModelFails(t) PROVE Unmoved
    BY <1>m, <1>8 DEF ModelFails, king
<1>9. ASSUME NEW t \in Turn, Speak(t) PROVE Unmoved
    BY <1>m, <1>9 DEF Speak, Update, king
<1>10. ASSUME NEW t \in Turn, AfterSpeaking(t) PROVE Unmoved
    BY <1>m, <1>10 DEF AfterSpeaking, Update, ReturnOrGoRound, king
<1>11. ASSUME NEW t \in Turn, Act(t) PROVE Unmoved
    BY <1>m, <1>11 DEF Act, king
<1>12. ASSUME NEW t \in Turn, BeginCall(t) PROVE Unmoved
    BY <1>m, <1>12 DEF BeginCall, Update, king
<1>13. ASSUME NEW t \in Turn, SettleCall(t) PROVE Unmoved
    BY <1>m, <1>13 DEF SettleCall, Update, king
<1>14. ASSUME NEW t \in Turn, ProposeCall(t) PROVE Unmoved
    <2> DEFINE p == Propose([SettleToolCall(plan, t) EXCEPT
                    !.working_on = FALSE, !.status = "AwaitingReview"])
               q == [p EXCEPT !.status = "Drafting", !.working_on = TRUE]
    <2>1. SameWords(p, plan) /\ SameWords(q, plan)
        <3>1. plan \in PlanRecord
            BY TypeInvParts
        <3>2. /\ p.heard = plan.heard /\ p.queued = plan.queued
              /\ p.permissions = plan.permissions
            BY <3>1 DEF Propose, SettleToolCall, PlanRecord
        <3>3. /\ q.heard = plan.heard /\ q.queued = plan.queued
              /\ q.permissions = plan.permissions
            BY <3>1 DEF Propose, SettleToolCall, PlanRecord
        <3> HIDE DEF p, q
        <3> QED
            BY <3>2, <3>3 DEF SameWords, WordsOf
    <2>2. plan' = p \/ plan' = q
        BY <1>14 DEF ProposeCall, ReturnOrGoRound, Update
    <2>3. UNCHANGED king
        BY <1>14 DEF ProposeCall
    <2> HIDE DEF p, q
    <2> QED
        BY <2>1, <2>2, <2>3
<1>15. ASSUME NEW t \in Turn, Drop(t) PROVE Unmoved
    BY <1>m, <1>15 DEF Drop, king
<1>16. ASSUME NEW t \in Turn, Panic(t) PROVE Unmoved
    BY <1>m, <1>16 DEF Panic, king
<1>17. ASSUME NEW t \in Turn, RepairCrash(t) PROVE Unmoved
    BY <1>m, <1>17 DEF RepairCrash, Update, king
<1>18. ASSUME NEW t \in Turn, CrashUnseen(t) PROVE Unmoved
    BY <1>m, <1>18 DEF CrashUnseen, king
<1>19. ASSUME NEW f \in Finisher, FinishBegins(f) PROVE Unmoved
    BY <1>m, <1>19 DEF FinishBegins, FinishVars, king
<1>20. ASSUME NEW f \in Finisher, GitSettles(f) PROVE Unmoved
    BY <1>m, <1>20 DEF GitSettles, FinishVars, king
<1>21. ASSUME NEW f \in Finisher, GitRefuses(f) PROVE Unmoved
    BY <1>m, <1>21 DEF GitRefuses, FinishVars, king
<1>22. ASSUME NEW f \in Finisher, FinishRecords(f) PROVE Unmoved
    BY <1>m, <1>22 DEF FinishRecords, Update, FinishVars, king
<1>23. CASE SaySomething
    <2>1. /\ plan' = Receive(plan, spoken + 1)
          /\ spoken' = spoken + 1 /\ UNCHANGED <<withdrawn, grant>>
        BY <1>23 DEF SaySomething, Update
    <2>2. /\ Kept(WordsOf(plan'), spoken', withdrawn')
          /\ Ordered(WordsOf(plan'), grant')
        BY <1>0, <2>1, ReceiveInserts
    <2>3. plan'.permissions = plan.permissions
        BY <1>0, <2>1 DEF Receive, Say, Queue, HearQueued, PlanRecord
    <2> QED
        BY <1>0, <2>1, <2>2, <2>3, WordsInvReadNext DEF GrantedOnce
<1>24. CASE TakeBack
    <2>1. PICK i \in 1 .. Len(plan.queued) :
            /\ plan' = Unqueue(plan, i)
            /\ withdrawn' = withdrawn \cup {plan.queued[i]}
        BY <1>24 DEF TakeBack, Update
    <2>2. UNCHANGED <<spoken, grant>>
        BY <1>24 DEF TakeBack
    <2>3. /\ Kept(WordsOf(plan'), spoken', withdrawn')
          /\ Ordered(WordsOf(plan'), grant')
        BY <1>0, <2>1, <2>2, UnqueueRemoves
    <2>4. plan'.permissions = plan.permissions
        BY <1>0, <2>1 DEF Unqueue, PlanRecord
    <2> QED
        BY <1>0, <2>2, <2>3, <2>4, WordsInvReadNext DEF GrantedOnce
<1>25. CASE Draft
    BY <1>m, <1>u, <1>25 DEF Draft, Update, king
<1>26. CASE StopTurn
    BY <1>m, <1>u, <1>26 DEF StopTurn, king
<1>27. CASE StopFindsNone
    BY <1>m, <1>u, <1>27 DEF StopFindsNone, king
<1>28. CASE StopRepairs
    BY <1>m, <1>u, <1>28 DEF StopRepairs, Update, king
<1>29. CASE ApprovePlan
    <2> DEFINE p == Approve(plan)
               q == Say(p, spoken + 1)
    <2>1. /\ plan' = [q EXCEPT !.status = "Drafting"]
          /\ spoken' = spoken + 1 /\ grant' = spoken + 1
          /\ UNCHANGED withdrawn
          /\ plan.permissions # "Full"
        BY <1>29 DEF ApprovePlan, Update, IsStanding
    <2>2. grant = 0
        BY <1>0, <2>1 DEF GrantedOnce
    <2>3. /\ p \in PlanRecord /\ WordsOf(p) = WordsOf(plan)
          /\ p.permissions = "Full"
        <3>1. p \in PlanRecord
            BY <1>0, PlanMethods
        <3>2. /\ p.heard = plan.heard /\ p.queued = plan.queued
              /\ p.permissions = "Full"
            BY <1>0 DEF Approve, PlanRecord
        <3> HIDE DEF p
        <3> QED
            BY SMTT(60), <3>1, <3>2 DEF WordsOf
    <2> HIDE DEF p
    <2>4. /\ Kept(WordsOf(q), spoken + 1, withdrawn)
          /\ Ordered(WordsOf(q), spoken + 1)
        BY <1>0, <2>2, <2>3, SayInserts
    <2>5. q \in PlanRecord /\ q.permissions = "Full"
        <3>1. spoken + 1 \in Nat
            BY SMTT(60), <1>0
        <3>2. q \in PlanRecord
            BY <2>3, <3>1, PlanMethods
        <3>3. q.permissions = "Full"
            BY <2>3 DEF Say, PlanRecord
        <3> QED
            BY <3>2, <3>3
    <2> HIDE DEF q
    <2>6. WordsOf(plan') = WordsOf(q) /\ plan'.permissions = "Full"
        BY <2>1, <2>5 DEF WordsOf, PlanRecord
    <2> QED
        BY <2>1, <2>4, <2>6, WordsInvReadNext DEF GrantedOnce
<1>30. CASE SetAside
    BY <1>m, <1>u, <1>30 DEF SetAside, Update, king
<1>31. CASE Annotate
    BY <1>m, <1>u, <1>31 DEF Annotate, Update, king
<1>32. CASE WithdrawNote
    BY <1>m, <1>u, <1>32 DEF WithdrawNote, Update, king
<1>33. CASE SendNotes
    <2> DEFINE p == [plan EXCEPT !.notes = FALSE]
    <2>1. /\ plan' = Receive(p, spoken + 1)
          /\ spoken' = spoken + 1 /\ UNCHANGED <<withdrawn, grant>>
        BY <1>33 DEF SendNotes, Update
    <2>2. /\ p \in PlanRecord
          /\ WordsOf(p) = WordsOf(plan)
          /\ p.permissions = plan.permissions
        BY <1>0 DEF PlanRecord, WordsOf
    <2> HIDE DEF p
    <2>3. /\ Kept(WordsOf(plan'), spoken', withdrawn')
          /\ Ordered(WordsOf(plan'), grant')
        BY <1>0, <2>1, <2>2, ReceiveInserts
    <2>4. plan'.permissions = plan.permissions
        BY <2>1, <2>2 DEF Receive, Say, Queue, HearQueued, PlanRecord
    <2> QED
        BY <1>0, <2>1, <2>3, <2>4, WordsInvReadNext DEF GrantedOnce
<1>34. CASE LeaveKingdom
    BY <1>m, <1>u, <1>34 DEF LeaveKingdom, king
<1>35. CASE OpenKingdom
    BY <1>m, <1>u, <1>35 DEF OpenKingdom, king
<1>36. CASE Dies
    BY <1>m, <1>u, <1>36 DEF Dies, king
<1>37. CASE UNCHANGED vars
    BY <1>m, <1>u, <1>37 DEF vars
<1> HIDE DEF Unmoved
<1> QED
    BY <1>u, <1>1, <1>2, <1>3, <1>4, <1>5, <1>6, <1>7, <1>8, <1>9, <1>10,
       <1>11, <1>12, <1>13, <1>14, <1>15, <1>16, <1>17, <1>18, <1>19, <1>20,
       <1>21, <1>22, <1>23, <1>24, <1>25, <1>26, <1>27, <1>28, <1>29, <1>30,
       <1>31, <1>32, <1>33, <1>34, <1>35, <1>36, <1>37
       DEF Next, TurnStep, OwnStep, Answer, Accident, King, Finish, Server

(* Nothing the King says is lost, said twice or left in two places, by any *)
(* number of turns, failures, deaths and reopenings.                       *)
THEOREM WordsAreKept == Spec => []WordsKept
<1>1. WordsInv => WordsKept
    BY DEF WordsInv
<1> QED
    BY TypeInvInit, TypeInvNext, WordsInvInit, WordsInvNext, <1>1, PTL
       DEF Spec

(* What the King types enters the log in the order he said it, though some *)
(* of it went through the queue and some did not.                          *)
THEOREM WordsStayInOrder == Spec => []WordsInOrder
<1>1. WordsInv => WordsInOrder
    BY DEF WordsInv
<1> QED
    BY TypeInvInit, TypeInvNext, WordsInvInit, WordsInvNext, <1>1, PTL
       DEF Spec
=============================================================================
