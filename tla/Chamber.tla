------------------------------ MODULE Chamber ------------------------------
(***************************************************************************)
(* One plan and everybody who acts on it: the turns taken over it          *)
(* (kingdom-app/src/turn.rs, turns.rs), the King's requests                *)
(* (kingdom-app/src/api.rs), his closing of the plan or of the kingdom,    *)
(* and the server's death.                                                 *)
(*                                                                         *)
(* A step is what one task does between two points where another may act:  *)
(* one critical section of the kingdom's lock, or one await resolving.     *)
(* Every change to the plan goes through api::update, which saves the plan *)
(* before it lets go of the lock; saving is taken to succeed, so the plan  *)
(* on disk is the plan in memory, and `plan' stands for both.              *)
(*                                                                         *)
(* The plan is one the King opened himself (not an errand), working in a   *)
(* worktree of its own.                                                    *)
(***************************************************************************)
EXTENDS Naturals, Sequences, FiniteSets

CONSTANTS MaxTurns,     \* bound: turns ever taken
          MaxLive,      \* bound: turns that may overlap
          MaxWords,     \* bound: things the King ever says
          MaxRounds,    \* cap of converse: MOST_ROUNDS in the code
          MaxBatch,     \* bound: tool calls in one reply
          MaxRetries,   \* times one round asks again: MOST_ATTEMPTS - 1
          MaxMishaps,   \* bound: panics, deaths, kingdoms left or opened
          Finisher,     \* the requests closing the plan
          NoTurn

ASSUME ChamberAssumption ==
    /\ MaxTurns \in Nat
    /\ MaxLive \in Nat
    /\ MaxWords \in Nat \ {0}
    /\ MaxRounds \in Nat \ {0}
    /\ MaxBatch \in Nat \ {0}
    /\ MaxRetries \in Nat
    /\ MaxMishaps \in Nat
    /\ NoTurn = 0

Turn == 1 .. MaxTurns

INSTANCE Plan WITH Caller <- Turn

VARIABLES
    plan,      \* the plan's record
    present,   \* is the plan in the kingdom now open
    worktree,  \* does the plan's checkout stand on disk
    running,   \* turns.rs: the register's entry
    newest,    \* turns.rs: who holds the last token
    halted,    \* turns.rs: whose halt signal reads true
    cut,       \* history: the turns an error, the King or the cap ended
    pc,        \* where each turn stands in converse
    round,     \* the round each turn is in, from 0
    left,      \* calls of the current reply each turn has not made
    attempt,   \* times each turn has asked again this round
    remit,     \* the permissions each turn read at the top of its round
    stopping,  \* a Stop found no turn and has not yet looked at the plan
    fin,       \* how far each request closing the plan has come
    spoken,    \* how many things the King has said
    withdrawn, \* those he took back from the queue
    grant,     \* the one that is APPROVAL, or 0
    mishaps    \* panics, deaths, kingdoms left or opened so far

turnVars == <<pc, round, left, attempt, remit>>
register == <<running, newest, halted, cut>>
king == <<spoken, withdrawn, grant>>
rest == <<stopping, fin, worktree, mishaps>>
vars == <<plan, present, register, turnVars, king, rest>>

Stage == {"unborn",    \* no draft_plan has spawned it
          "spawned",   \* spawned over a plan marked busy, yet to run
          "opening",   \* registered; opening the model, raising what it needs
          "round",     \* at the top of a round
          "asking",    \* the model is being asked
          "spoke",     \* the reply is recorded, the lock let go
          "acting",    \* about to begin its next tool call
          "calling",   \* a tool is running
          "failing",   \* an error is about to be recorded
          "leaving",   \* finished; its guard is yet to drop
          "crashed",   \* it panicked; the request that spawned it is told
          "gone",      \* over
          "wrecked"}   \* over, after a panic

(* The stages at which a turn's guard exists.                              *)
Guarded == {"opening", "round", "asking", "spoke", "acting", "calling",
            "failing", "leaving"}

(* The stages at which the turn may still do something to the plan.        *)
Working == (Guarded \ {"leaving"}) \cup {"spawned"}

FinStage == {"idle", "merging", "archiving", "merged", "archived"}

TypeOK ==
    /\ plan \in PlanRecord
    /\ present \in BOOLEAN
    /\ worktree \in BOOLEAN
    /\ running \in Turn \cup {NoTurn}
    /\ newest \in Turn \cup {NoTurn}
    /\ halted \subseteq Turn
    /\ cut \subseteq Turn
    /\ pc \in [Turn -> Stage]
    /\ round \in [Turn -> 0 .. MaxRounds]
    /\ left \in [Turn -> 0 .. MaxBatch]
    /\ attempt \in [Turn -> 0 .. MaxRetries]
    /\ remit \in [Turn -> {"Propose", "Full"}]
    /\ stopping \in BOOLEAN
    /\ fin \in [Finisher -> FinStage]
    /\ spoken \in Nat
    /\ withdrawn \subseteq Nat
    /\ grant \in Nat
    /\ mishaps \in Nat

Init ==
    /\ plan = Opened
    /\ present = TRUE
    /\ worktree = TRUE
    /\ running = NoTurn
    /\ newest = NoTurn
    /\ halted = {}
    /\ cut = {}
    /\ pc = [t \in Turn |-> "unborn"]
    /\ round = [t \in Turn |-> 0]
    /\ left = [t \in Turn |-> 0]
    /\ attempt = [t \in Turn |-> 0]
    /\ remit = [t \in Turn |-> "Propose"]
    /\ stopping = FALSE
    /\ fin = [f \in Finisher |-> "idle"]
    /\ spoken = 1
    /\ withdrawn = {}
    /\ grant = 0
    /\ mishaps = 0

-----------------------------------------------------------------------------
(* Helpers.                                                                *)

(* api::update: a plan that is not in the open kingdom is left alone.      *)
Update(changed) == plan' = IF present THEN changed ELSE plan

Goto(t, stage) == pc' = [pc EXCEPT ![t] = stage]

(* Mutant: whatever entry the register holds goes, another turn's too.     *)
WithoutAny(t) == NoTurn

WithoutOwn(t) == IF running = t THEN NoTurn ELSE running

StandDown(t) == running' = WithoutOwn(t) /\ UNCHANGED <<newest, halted, cut>>

(* The turn is over without having looked for words: its guard's drop is   *)
(* what will take it out of the register.                                  *)
CutShort(t) ==
    /\ Goto(t, "leaving")
    /\ cut' = cut \cup {t}
    /\ UNCHANGED <<running, newest, halted>>

IsRunning == running # NoTurn

LastRound(t) == round[t] + 1 >= MaxRounds

(* One more of the rare events the bound counts.                           *)
Mishap == mishaps < MaxMishaps /\ mishaps' = mishaps + 1

(* Both endings of a turn that may hear more: it returns, taking itself    *)
(* out of the register in the same critical section, or goes round again.  *)
ReturnOrGoRound(t, p, mayReturn) ==
    IF mayReturn
    THEN /\ Update(p)
         /\ StandDown(t)
         /\ Goto(t, "leaving")
         /\ UNCHANGED round
    ELSE /\ Update([p EXCEPT !.status = "Drafting", !.working_on = TRUE])
         /\ Goto(t, "round")
         /\ round' = [round EXCEPT ![t] = @ + 1]
         /\ UNCHANGED register

(* Mutant: the error is recorded and the busy mark forgotten.              *)
FailedStillBusy(p) == [p EXCEPT !.status = "Failed"]

(* settle, on an error.                                                    *)
Failed(p) == [p EXCEPT !.working_on = FALSE, !.status = "Failed"]

(* halted: what a halt leaves on the plan.                                 *)
Halted(p) == [p EXCEPT !.working_on = FALSE, !.status = "AwaitingReview"]

(* settle, on a reply.                                                     *)
Replied(p) == SetAsideProposal(Halted(p))

(* Mutant: what was left queued is not heard first.                        *)
ReceiveAfresh(p, w) ==
    IF IsRunning
    THEN Queue(p, w)
    ELSE Say([p EXCEPT !.status = "Drafting", !.working_on = FALSE], w)

(* receive: into the queue while a turn is registered, else into the log,  *)
(* after whatever a turn left queued when it ended.                        *)
Receive(p, w) ==
    IF IsRunning
    THEN Queue(p, w)
    ELSE Say([HearQueued(p) EXCEPT !.status = "Drafting",
                                   !.working_on = FALSE], w)

-----------------------------------------------------------------------------
(* A turn.                                                                 *)

(* The spawned task runs, and registers.                                   *)
Begin(t) ==
    /\ pc[t] = "spawned"
    /\ running' = t
    /\ newest' = t
    /\ Goto(t, "opening")
    /\ UNCHANGED <<plan, present, halted, cut, round, left, attempt, remit,
                   king, rest>>

(* The model is opened, the namespaces raised, the services there: or one  *)
(* of them is not, and the turn fails.                                     *)
OpenModel(t) ==
    /\ pc[t] = "opening"
    /\ \E stage \in {"round", "failing"} : Goto(t, stage)
    /\ UNCHANGED <<plan, present, register, round, left, attempt, remit,
                   king, rest>>

(* settle(Err), on whichever path led here.                                *)
Fail(t) ==
    /\ pc[t] = "failing"
    /\ Update(Failed(plan))
    /\ CutShort(t)
    /\ UNCHANGED <<present, round, left, attempt, remit, king, rest>>

(* Mutants: the halted call is left open; the halt is looked for between   *)
(* rounds only.                                                            *)
StoppedMidCall(t) ==
    /\ pc[t] \in {"round", "asking", "calling"}
    /\ pc[t] = "round" => round[t] < MaxRounds
    /\ t \in halted
    /\ Update(Halted(plan))
    /\ CutShort(t)
    /\ UNCHANGED <<present, round, left, attempt, remit, king, rest>>

StoppedBetweenRounds(t) == pc[t] = "round" /\ StoppedMidCall(t)

(* A halt reaches the turn where it looks for one: at the top of a round,  *)
(* or racing the model or a tool.  A call it interrupts is settled.        *)
Stopped(t) ==
    /\ pc[t] \in {"round", "asking", "calling"}
    /\ pc[t] = "round" => round[t] < MaxRounds
    /\ t \in halted
    /\ Update(IF pc[t] = "calling" THEN SettleToolCall(Halted(plan), t)
              ELSE Halted(plan))
    /\ CutShort(t)
    /\ UNCHANGED <<present, round, left, attempt, remit, king, rest>>

(* Mutant: rounds are not capped.                                          *)
TopOfAnyRound(t) ==
    /\ pc[t] = "round"
    /\ t \notin halted
    /\ Update(HearQueued(plan))
    /\ Goto(t, IF present THEN "asking" ELSE "leaving")
    /\ remit' = [remit EXCEPT ![t] = IF present THEN plan.permissions ELSE @]
    /\ attempt' = [attempt EXCEPT ![t] = 0]
    /\ UNCHANGED <<present, register, round, left, king, rest>>

(* The top of a round: queued words are heard, and the brief is read.      *)
(* A plan no longer in the kingdom ends the turn with nothing recorded.    *)
TopOfRound(t) ==
    /\ pc[t] = "round"
    /\ round[t] < MaxRounds
    /\ t \notin halted
    /\ Update(HearQueued(plan))
    /\ Goto(t, IF present THEN "asking" ELSE "leaving")
    /\ remit' = [remit EXCEPT ![t] = IF present THEN plan.permissions ELSE @]
    /\ attempt' = [attempt EXCEPT ![t] = 0]
    /\ UNCHANGED <<present, register, round, left, king, rest>>

(* The rounds are spent.                                                   *)
OutOfRope(t) ==
    /\ pc[t] = "round"
    /\ round[t] >= MaxRounds
    /\ Update(Failed(plan))
    /\ CutShort(t)
    /\ UNCHANGED <<present, round, left, attempt, remit, king, rest>>

(* The model fails in a way worth asking again: a smaller request, or the  *)
(* same one after a pause.  Both kinds are counted together here.          *)
AskAgain(t) ==
    /\ pc[t] = "asking"
    /\ t \notin halted
    /\ attempt[t] < MaxRetries
    /\ attempt' = [attempt EXCEPT ![t] = @ + 1]
    /\ Update([plan EXCEPT !.working_on = TRUE])
    /\ UNCHANGED <<present, register, pc, round, left, remit, king, rest>>

(* The model fails for good.                                               *)
ModelFails(t) ==
    /\ pc[t] = "asking"
    /\ t \notin halted
    /\ Goto(t, "failing")
    /\ UNCHANGED <<plan, present, register, round, left, attempt, remit,
                   king, rest>>

(* The model answers in prose.  The reply is recorded and the plan parked  *)
(* under a lock which is let go before the queue is looked at.             *)
Speak(t) ==
    /\ pc[t] = "asking"
    /\ t \notin halted
    /\ Update(Replied(plan))
    /\ Goto(t, IF present THEN "spoke" ELSE "leaving")
    /\ UNCHANGED <<present, register, round, left, attempt, remit, king,
                   rest>>

(* Mutant: the queue is looked at, and the guard is left to take the turn  *)
(* out of the register.                                                    *)
LeaveRegistered(t) ==
    /\ pc[t] = "spoke"
    /\ IF ~present \/ plan.queued = <<>> \/ LastRound(t)
       THEN Goto(t, "leaving") /\ UNCHANGED <<plan, round, register>>
       ELSE ReturnOrGoRound(t, plan, FALSE)
    /\ UNCHANGED <<present, left, attempt, remit, king, rest>>

(* Under the lock again: was a word said meanwhile?                        *)
AfterSpeaking(t) ==
    /\ pc[t] = "spoke"
    /\ ReturnOrGoRound(t, plan,
            ~present \/ plan.queued = <<>> \/ LastRound(t))
    /\ UNCHANGED <<present, left, attempt, remit, king, rest>>

(* The model answers with a batch of tool calls.                           *)
Act(t) ==
    /\ pc[t] = "asking"
    /\ t \notin halted
    /\ \E n \in 1 .. MaxBatch : left' = [left EXCEPT ![t] = n]
    /\ Goto(t, "acting")
    /\ UNCHANGED <<plan, present, register, round, attempt, remit, king,
                   rest>>

(* A call is written down before it runs.                                  *)
BeginCall(t) ==
    /\ pc[t] = "acting"
    /\ Update(BeginToolCall([plan EXCEPT !.working_on = TRUE], t))
    /\ left' = [left EXCEPT ![t] = @ - 1]
    /\ Goto(t, "calling")
    /\ UNCHANGED <<present, register, round, attempt, remit, king, rest>>

(* A tool answers, and the turn goes on to the rest of the batch or to its *)
(* next round.                                                             *)
SettleCall(t) ==
    /\ pc[t] = "calling"
    /\ t \notin halted
    /\ Update(SettleToolCall(plan, t))
    /\ IF left[t] > 0
       THEN Goto(t, "acting") /\ UNCHANGED round
       ELSE Goto(t, "round") /\ round' = [round EXCEPT ![t] = @ + 1]
    /\ UNCHANGED <<present, register, left, attempt, remit, king, rest>>

(* Mutant: a proposal ends the turn whatever is queued.                    *)
ProposeAndLeave(t) ==
    /\ pc[t] = "calling"
    /\ t \notin halted
    /\ remit[t] = "Propose"
    /\ present
    /\ ReturnOrGoRound(t,
            Propose([SettleToolCall(plan, t) EXCEPT
                        !.working_on = FALSE, !.status = "AwaitingReview"]),
            TRUE)
    /\ left' = [left EXCEPT ![t] = 0]
    /\ UNCHANGED <<present, attempt, remit, king, rest>>

(* propose_plan is accepted: it answers for the remit the round began      *)
(* with.  The proposal is put, and the turn ends in the same critical      *)
(* section unless words are waiting; the rest of the batch is not run.     *)
(* A plan not in the kingdom proposes nothing, and its turn goes on.       *)
ProposeCall(t) ==
    /\ pc[t] = "calling"
    /\ t \notin halted
    /\ remit[t] = "Propose"
    /\ present
    /\ ReturnOrGoRound(t,
            Propose([SettleToolCall(plan, t) EXCEPT
                        !.working_on = FALSE, !.status = "AwaitingReview"]),
            plan.queued = <<>> \/ LastRound(t))
    /\ left' = [left EXCEPT ![t] = 0]
    /\ UNCHANGED <<present, attempt, remit, king, rest>>

(* Mutant: the guard drops and its entry stays.                            *)
DropInSilence(t) ==
    /\ pc[t] = "leaving"
    /\ Goto(t, "gone")
    /\ UNCHANGED <<plan, present, register, round, left, attempt, remit, king,
                   rest>>

(* The guard drops with the turn's last line.                              *)
Drop(t) ==
    /\ pc[t] = "leaving"
    /\ StandDown(t)
    /\ Goto(t, "gone")
    /\ UNCHANGED <<plan, present, round, left, attempt, remit, king, rest>>

(* The turn panics outside the lock; unwinding drops its guard.            *)
Panic(t) ==
    /\ pc[t] \in {"opening", "asking", "calling"}
    /\ Mishap
    /\ StandDown(t)
    /\ Goto(t, "crashed")
    /\ UNCHANGED <<plan, present, round, left, attempt, remit, king,
                   stopping, fin, worktree>>

(* draft_plan, still waiting for the task it spawned, repairs the plan...  *)
RepairCrash(t) ==
    /\ pc[t] = "crashed"
    /\ Update(Failed(plan))
    /\ Goto(t, "wrecked")
    /\ UNCHANGED <<present, register, round, left, attempt, remit, king,
                   rest>>

(* ...or was itself dropped when the browser went away, and nobody does.   *)
CrashUnseen(t) ==
    /\ pc[t] = "crashed"
    /\ Goto(t, "wrecked")
    /\ UNCHANGED <<plan, present, register, round, left, attempt, remit,
                   king, rest>>

-----------------------------------------------------------------------------
(* The King's requests.                                                    *)

(* say: a settled plan is refused.                                         *)
SaySomething ==
    /\ present
    /\ ~IsSettled(plan)
    /\ spoken < MaxWords
    /\ spoken' = spoken + 1
    /\ Update(Receive(plan, spoken + 1))
    /\ UNCHANGED <<present, register, turnVars, withdrawn, grant, rest>>

(* unqueue: words not heard yet are taken back.                            *)
TakeBack ==
    /\ present
    /\ \E i \in 1 .. Len(plan.queued) :
        /\ Update(Unqueue(plan, i))
        /\ withdrawn' = withdrawn \cup {plan.queued[i]}
    /\ UNCHANGED <<present, register, turnVars, spoken, grant, rest>>

Live == {t \in Turn : pc[t] \in Guarded \cup {"spawned"}}

(* draft_plan: refuses a busy plan and a settled one, marks this one busy  *)
(* and spawns a turn.                                                      *)
Draft ==
    /\ present
    /\ ~IsBusy(plan)
    /\ ~IsSettled(plan)
    /\ Cardinality(Live) < MaxLive
    /\ \E t \in Turn :
        /\ pc[t] = "unborn"
        /\ \A u \in Turn : u < t => pc[u] # "unborn"
        /\ Goto(t, "spawned")
    /\ Update([plan EXCEPT !.status = "Drafting", !.working_on = TRUE])
    /\ UNCHANGED <<present, register, round, left, attempt, remit, king,
                   rest>>

(* stop_plan, on a registered turn: it is signalled, and nothing else.     *)
StopTurn ==
    /\ IsRunning
    /\ halted' = halted \cup {running}
    /\ UNCHANGED <<plan, present, running, newest, cut, turnVars, king, rest>>

(* stop_plan, finding no turn registered...                                *)
StopFindsNone ==
    /\ ~IsRunning
    /\ ~stopping
    /\ stopping' = TRUE
    /\ UNCHANGED <<plan, present, register, turnVars, king, fin, worktree,
                   mishaps>>

(* ...then takes the lock, and repairs a plan that claims to be busy.      *)
StopRepairs ==
    /\ stopping
    /\ stopping' = FALSE
    /\ Update(IF IsBusy(plan) THEN Halted(plan) ELSE plan)
    /\ UNCHANGED <<present, register, turnVars, king, fin, worktree,
                   mishaps>>

(* approve_plan: the standing proposal is accepted, the remit widens, and  *)
(* the grant enters the log as words of the King's.                        *)
ApprovePlan ==
    /\ present
    /\ IsStanding(plan)
    /\ spoken < MaxWords
    /\ spoken' = spoken + 1
    /\ grant' = spoken + 1
    /\ Update([Say(Approve(plan), spoken + 1) EXCEPT !.status = "Drafting"])
    /\ UNCHANGED <<present, register, turnVars, withdrawn, rest>>

(* set_aside_plan.                                                         *)
SetAside ==
    /\ Update(SetAsideProposal(plan))
    /\ UNCHANGED <<present, register, turnVars, king, rest>>

(* annotate_proposal: a note in the margin of the standing proposal.       *)
Annotate ==
    /\ IsStanding(plan)
    /\ Update([plan EXCEPT !.notes = TRUE])
    /\ UNCHANGED <<present, register, turnVars, king, rest>>

(* withdraw_note.                                                          *)
WithdrawNote ==
    /\ plan.proposal # "none"
    /\ Update([plan EXCEPT !.notes = FALSE])
    /\ UNCHANGED <<present, register, turnVars, king, rest>>

(* send_notes: the margin is drained and becomes one thing the King said.  *)
SendNotes ==
    /\ present
    /\ plan.notes
    /\ spoken < MaxWords
    /\ spoken' = spoken + 1
    /\ Update(Receive([plan EXCEPT !.notes = FALSE], spoken + 1))
    /\ UNCHANGED <<present, register, turnVars, withdrawn, grant, rest>>

-----------------------------------------------------------------------------
(* Closing the plan.                                                       *)

FinishVars == <<register, turnVars, king, stopping, present, mishaps>>

(* finish_plan looks at the plan, and lets the lock go for git.            *)
FinishBegins(f) ==
    /\ present
    /\ fin[f] = "idle"
    /\ ~IsBusy(plan)
    /\ ~IsSettled(plan)
    /\ \E how \in {"merging", "archiving"} : fin' = [fin EXCEPT ![f] = how]
    /\ UNCHANGED <<plan, worktree, FinishVars>>

(* Mutant: git is believed where no checkout is left to land.              *)
GitSettlesAgain(f) ==
    /\ \/ fin[f] = "merging" /\ fin' = [fin EXCEPT ![f] = "merged"]
       \/ fin[f] = "archiving" /\ fin' = [fin EXCEPT ![f] = "archived"]
    /\ worktree' = FALSE
    /\ UNCHANGED <<plan, FinishVars>>

(* git lands the work or stores it away, and removes the checkout.         *)
GitSettles(f) ==
    /\ worktree
    /\ \/ fin[f] = "merging" /\ fin' = [fin EXCEPT ![f] = "merged"]
       \/ fin[f] = "archiving" /\ fin' = [fin EXCEPT ![f] = "archived"]
    /\ worktree' = FALSE
    /\ UNCHANGED <<plan, FinishVars>>

(* git refuses the merge, or fails: with no checkout left it always does.  *)
(* A refusal is noted on the plan, which otherwise stays as it is.         *)
GitRefuses(f) ==
    /\ fin[f] \in {"merging", "archiving"}
    /\ fin' = [fin EXCEPT ![f] = "idle"]
    /\ UNCHANGED <<plan, worktree, FinishVars>>

(* Under the lock again, the ending is recorded.                           *)
FinishRecords(f) ==
    /\ \/ fin[f] = "merged" /\ Update(Settle(plan, "Merged"))
       \/ fin[f] = "archived" /\ Update(Settle(plan, "Archived"))
    /\ fin' = [fin EXCEPT ![f] = "idle"]
    /\ UNCHANGED <<worktree, FinishVars>>

-----------------------------------------------------------------------------
(* The kingdom, and the server under it.                                   *)

(* leave_kingdom: the plan stays on disk; its turns are not told.          *)
LeaveKingdom ==
    /\ Mishap
    /\ present' = FALSE
    /\ UNCHANGED <<plan, register, turnVars, king, stopping, fin, worktree>>

(* assemble: the plans are read back from disk, and repaired.              *)
OpenKingdom ==
    /\ present => Mishap
    /\ ~present => UNCHANGED mishaps
    /\ present' = TRUE
    /\ plan' = Reconcile(plan)
    /\ UNCHANGED <<register, turnVars, king, stopping, fin, worktree>>

(* The server dies: what is on disk is all that is left.  A task that had  *)
(* not run yet leaves nothing behind but the mark made for it.             *)
Dies ==
    /\ Mishap
    /\ present' = FALSE
    /\ running' = NoTurn
    /\ halted' = {}
    /\ pc' = [t \in Turn |-> CASE pc[t] \in Guarded   -> "gone"
                              [] pc[t] = "spawned" -> "unborn"
                              [] pc[t] = "crashed" -> "wrecked"
                              [] OTHER             -> pc[t]]
    /\ stopping' = FALSE
    /\ fin' = [f \in Finisher |-> "idle"]
    /\ UNCHANGED <<plan, worktree, newest, cut, round, left, attempt, remit,
                   king>>

-----------------------------------------------------------------------------
(* What a turn does of its own accord: what needs no answer of the         *)
(* model's or of a tool's, and what is such an answer.                     *)
OwnStep(t) ==
    \/ Begin(t) \/ OpenModel(t) \/ Fail(t) \/ Stopped(t) \/ TopOfRound(t)
    \/ OutOfRope(t) \/ AfterSpeaking(t) \/ BeginCall(t) \/ Drop(t)

Answer(t) ==
    \/ AskAgain(t) \/ ModelFails(t) \/ Speak(t) \/ Act(t)
    \/ SettleCall(t) \/ ProposeCall(t)

TurnStep(t) == OwnStep(t) \/ Answer(t)

Accident(t) == Panic(t) \/ RepairCrash(t) \/ CrashUnseen(t)

King ==
    \/ SaySomething \/ TakeBack \/ Draft \/ StopTurn \/ StopFindsNone
    \/ StopRepairs \/ ApprovePlan \/ SetAside \/ Annotate \/ WithdrawNote
    \/ SendNotes

Finish(f) ==
    FinishBegins(f) \/ GitSettles(f) \/ GitRefuses(f) \/ FinishRecords(f)

Server == LeaveKingdom \/ OpenKingdom \/ Dies

Next ==
    \/ \E t \in Turn : TurnStep(t) \/ Accident(t)
    \/ King
    \/ \E f \in Finisher : Finish(f)
    \/ Server

Spec == Init /\ [][Next]_vars

(* A task the runtime has woken is run: tokio schedules every ready task.  *)
(* Nothing is assumed of the model, of the tools or of the King.           *)
SpecOwn == Spec /\ \A t \in Turn : WF_vars(OwnStep(t))

(* Every request to the model and every tool gives up in the end.          *)
Answered == \A t \in Turn : WF_vars(TurnStep(t))
=============================================================================
