------------------------------- MODULE Errands -------------------------------
(***************************************************************************)
(* The errands a turn sends out (turn.rs, spawn_subagents; the tool is     *)
(* tools/spawn_agents.rs): subagents recorded together, run as tasks of    *)
(* their own, collected one at a time against one deadline, their browsers *)
(* closed, their reports joined - and the King's Stop, which lists them    *)
(* and halts them one by one (api.rs, stop_plan).                          *)
(***************************************************************************)
EXTENDS Naturals, FiniteSets

CONSTANTS
    MaxErrands   \* errands in the call

ASSUME ErrandsAssumption == MaxErrands \in Nat

Errand == 1 .. MaxErrands

VARIABLES
    parent,    \* where the parent's call stands
    next,      \* the errand whose handle, or whose browser, is next
    errand,    \* errand[c]: where the subagent's turn stands
    busy,      \* the subagents whose record says they are working
    called,    \* the turns, 0 the parent's, whose halt was called
    joined,    \* the handles collected before being given up on
    browser,   \* the subagents with a browser open
    due,       \* the deadline has passed
    stop,      \* where the King's Stop stands
    sought,    \* history: the subagents it listed
    listed,    \* those of them it has yet to halt
    stale      \* those it found no turn for

evars == <<parent, next, errand, busy, called, joined, browser, due,
           stop, sought, listed, stale>>

EInit ==
    /\ parent = "working" /\ next = 1
    /\ errand = [c \in Errand |-> "unborn"]
    /\ busy = {} /\ called = {} /\ joined = {} /\ browser = {}
    /\ due = FALSE
    /\ stop = "none" /\ sought = {} /\ listed = {} /\ stale = {}

StopVars == <<stop, sought, listed, stale>>

-----------------------------------------------------------------------------
(* The parent's call.                                                      *)

\* Every subagent is recorded, under one lock (Plan::spawned: not busy yet).
Record ==
    /\ parent = "working"
    /\ parent' = "sending"
    /\ errand' = [c \in Errand |-> "recorded"]
    /\ UNCHANGED <<next, busy, called, joined, browser, due, StopVars>>

\* All at once, each as a task; then the clock starts.
Send ==
    /\ parent = "sending"
    /\ parent' = "collecting"
    /\ errand' = [c \in Errand |-> "sent"]
    /\ UNCHANGED <<next, busy, called, joined, browser, due, StopVars>>

CollectAll ==
    /\ parent = "collecting" /\ next <= MaxErrands
    /\ errand[next] = "over" /\ joined' = joined \cup {next}
    /\ next' = next + 1
    /\ UNCHANGED <<parent, errand, busy, called, browser, due, StopVars>>

\* The handle is looked at before the deadline: a subagent that is done is
\* collected however late, one that is not is given up on and runs on alone.
Collect ==
    /\ parent = "collecting" /\ next <= MaxErrands
    /\ \/ errand[next] = "over" /\ joined' = joined \cup {next}
       \/ errand[next] # "over" /\ due /\ joined' = joined
    /\ next' = next + 1
    /\ UNCHANGED <<parent, errand, busy, called, browser, due, StopVars>>

StrikeDeadline ==
    /\ parent = "collecting" /\ ~due
    /\ due' = TRUE
    /\ UNCHANGED <<parent, next, errand, busy, called, joined, browser, StopVars>>

AllCollected ==
    /\ parent = "collecting" /\ next > MaxErrands
    /\ parent' = "dismissing" /\ next' = 1
    /\ UNCHANGED <<errand, busy, called, joined, browser, due, StopVars>>

DismissOnlyLate ==
    /\ parent = "dismissing" /\ next <= MaxErrands
    /\ browser' = IF next \in joined THEN browser ELSE browser \ {next}
    /\ next' = next + 1
    /\ UNCHANGED <<parent, errand, busy, called, joined, due, StopVars>>

Dismiss ==
    /\ parent = "dismissing" /\ next <= MaxErrands
    /\ browser' = browser \ {next}
    /\ next' = next + 1
    /\ UNCHANGED <<parent, errand, busy, called, joined, due, StopVars>>

Report ==
    /\ parent = "dismissing" /\ next > MaxErrands
    /\ parent' = "reported"
    /\ UNCHANGED <<next, errand, busy, called, joined, browser, due, StopVars>>

\* The parent's select sees the halt at its next wait: the call's future is
\* dropped, handles and all, and with it the dismissals still to come.
ParentHalts ==
    /\ parent \in {"working", "collecting", "dismissing"} /\ 0 \in called
    /\ parent' = "halted"
    /\ UNCHANGED <<next, errand, busy, called, joined, browser, due, StopVars>>

-----------------------------------------------------------------------------
(* A subagent's turn (converse, one level down).                           *)

\* It enters the register, then marks its plan.
Enter(c) ==
    /\ errand[c] = "sent"
    /\ errand' = [errand EXCEPT ![c] = "entered"]
    /\ UNCHANGED <<parent, next, busy, called, joined, browser, due, StopVars>>

Mark(c) ==
    /\ errand[c] = "entered"
    /\ errand' = [errand EXCEPT ![c] = "running"]
    /\ busy' = busy \cup {c}
    /\ UNCHANGED <<parent, next, called, joined, browser, due, StopVars>>

\* Browse permissions: it may open a browser ...
Browse(c) ==
    /\ errand[c] = "running"
    /\ browser' = browser \cup {c}
    /\ UNCHANGED <<parent, next, errand, busy, called, joined, due, StopVars>>

\* ... and it ends: with an answer, without one (its rounds, or its
\* provider, gave out), or stopped.
Finish(c) ==
    /\ errand[c] = "running"
    /\ errand' = [errand EXCEPT ![c] = "over"]
    /\ busy' = busy \ {c}
    /\ UNCHANGED <<parent, next, called, joined, browser, due, StopVars>>

-----------------------------------------------------------------------------
(* stop_plan.                                                              *)

\* The subagents on record, read under the lock before anyone is halted: those
\* the parent is about to record are not among them.
StopLists ==
    /\ stop = "none"
    /\ stop' = "halting"
    /\ sought' = {c \in Errand : errand[c] # "unborn"}
    /\ listed' = sought'
    /\ stale' = {}
    /\ UNCHANGED <<parent, next, errand, busy, called, joined, browser, due>>

Registered(c) == errand[c] \in {"entered", "running"}

StopHaltsUnlisting(c) ==
    /\ stop = "halting" /\ c \in listed
    /\ listed' = {}
    /\ IF Registered(c) THEN called' = called \cup {c} /\ stale' = stale
                        ELSE called' = called /\ stale' = stale \cup {c}
    /\ UNCHANGED <<parent, next, errand, busy, joined, browser, due, stop, sought>>

StopHalts(c) ==
    /\ stop = "halting" /\ c \in listed
    /\ listed' = listed \ {c}
    /\ IF Registered(c) THEN called' = called \cup {c} /\ stale' = stale
                        ELSE called' = called /\ stale' = stale \cup {c}
    /\ UNCHANGED <<parent, next, errand, busy, joined, browser, due, stop, sought>>

\* Those with no turn behind them are set right ...
StopRepairs ==
    /\ stop = "halting" /\ listed = {}
    /\ stop' = "repaired"
    /\ busy' = busy \ stale
    /\ UNCHANGED <<parent, next, errand, called, joined, browser, due,
                   sought, listed, stale>>

\* ... and then the parent's own turn is halted.
StopParent ==
    /\ stop = "repaired"
    /\ stop' = "done"
    /\ called' = called \cup {0}
    /\ UNCHANGED <<parent, next, errand, busy, joined, browser, due,
                   sought, listed, stale>>

-----------------------------------------------------------------------------
ParentSteps == Record \/ Send \/ Collect \/ AllCollected \/ Dismiss \/ Report
StopSteps == (\E c \in Errand : StopHalts(c)) \/ StopRepairs \/ StopParent

ENext ==
    \/ Record \/ Send \/ Collect \/ AllCollected \/ Dismiss \/ Report
    \/ StrikeDeadline \/ ParentHalts
    \/ \E c \in Errand : Enter(c) \/ Mark(c) \/ Browse(c) \/ Finish(c) \/ StopHalts(c)
    \/ StopLists \/ StopRepairs \/ StopParent

\* Time passes and tasks are run; a model may think for ever, so a turn is
\* owed an end only once it is halted.
EFair ==
    /\ WF_evars(ParentSteps) /\ WF_evars(StrikeDeadline) /\ WF_evars(ParentHalts)
    /\ WF_evars(StopSteps)
    /\ \A c \in Errand :
        WF_evars(Enter(c) \/ Mark(c)) /\ WF_evars(c \in called /\ Finish(c))

ESpec == EInit /\ [][ENext]_evars /\ EFair

-----------------------------------------------------------------------------
ETypeOK ==
    /\ parent \in {"working", "sending", "collecting", "dismissing", "reported", "halted"}
    /\ next \in 1 .. MaxErrands + 1
    /\ errand \in [Errand -> {"unborn", "recorded", "sent", "entered", "running", "over"}]
    /\ called \subseteq 0 .. MaxErrands
    /\ busy \subseteq Errand /\ joined \subseteq Errand
    /\ browser \subseteq Errand /\ sought \subseteq Errand /\ listed \subseteq Errand
    /\ stale \subseteq Errand
    /\ due \in BOOLEAN /\ stop \in {"none", "halting", "repaired", "done"}

(* Once the report is written no errand that was collected has a browser:  *)
(* "this is the only place that can do it".  One that outlived the         *)
(* deadline may still open one.                                            *)
CollectedErrandsShut ==
    parent = "reported" => \A c \in browser : c \notin joined

(* A Stop that is done leaves no errand it found on record running         *)
(* unhalted, save one whose turn had yet to enter the register when its    *)
(* halt was called (api.rs, stop_plan).                                    *)
StopReachesErrands ==
    stop = "done" =>
        \A c \in sought : Registered(c) /\ c \notin called => c \in stale

(* The call that sent them returns, although no subagent ever answers and  *)
(* nobody calls a halt.                                                    *)
ErrandsAwaitedNotForEver == parent = "collecting" ~> parent \in {"reported", "halted"}
=============================================================================
