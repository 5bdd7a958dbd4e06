-------------------------------- MODULE Jobs --------------------------------
(***************************************************************************)
(* The commands an agent runs (tools/bash.rs): a command that outlives the *)
(* call that started it, its registry of handles, the threads that drain   *)
(* its output and reap it, and the calls that wait for it, look at it and  *)
(* signal it.  The calls of one conversation come one after another; its   *)
(* turn may be halted while a call waits.  An ending is kept only if a     *)
(* call is subscribed to it when it is sent.                               *)
(***************************************************************************)
EXTENDS Naturals

CONSTANTS
    MaxJobs,    \* commands run
    MaxLines    \* lines written by one command

ASSUME JobsAssumption == MaxJobs \in Nat /\ MaxLines \in Nat

VARIABLES
    jobs,       \* the handles in JOBS
    begun,      \* commands started so far
    job,        \* each command: its processes, its threads, its output
    op          \* the call being made

jvars == <<jobs, begun, job, op>>

Job == 1 .. MaxJobs
Signal == {"TERM", "KILL"}

\* reaper: the last of it, the ending published, or sent to nobody and lost;
\* group: processes it started hold its pipes; stray: and some of those have
\* left its process group.
NoJob == [shell |-> "none", group |-> FALSE, stray |-> FALSE, wrote |-> 0, read |-> 0,
          drained |-> FALSE, reaper |-> "joining", old |-> FALSE, killed |-> FALSE]
\* late: history, the command was dead and reaped when the call came.
NoOp == [at |-> "idle", job |-> 0, ended |-> FALSE, late |-> FALSE, signal |-> "none"]

JInit ==
    /\ jobs = {} /\ begun = 0
    /\ job = [i \in Job |-> NoJob]
    /\ op = NoOp

Finished(i) == job[i].reaper = "published"
Reaped(i) == job[i].reaper \in {"published", "lost"}
Held(i) == job[i].shell = "running" \/ job[i].group \/ job[i].stray

-----------------------------------------------------------------------------
(* The processes.                                                          *)

WriteLine(i) ==
    /\ Held(i) /\ job[i].wrote < MaxLines
    /\ job' = [job EXCEPT ![i].wrote = @ + 1]
    /\ UNCHANGED <<jobs, begun, op>>

StartChild(i) ==
    /\ job[i].shell = "running" /\ ~job[i].group
    /\ job' = [job EXCEPT ![i].group = TRUE]
    /\ UNCHANGED <<jobs, begun, op>>

\* setsid, or a daemon's second fork: signals to the group no longer reach it.
ChildLeaves(i) ==
    /\ job[i].group
    /\ job' = [job EXCEPT ![i] = [@ EXCEPT !.group = FALSE, !.stray = TRUE]]
    /\ UNCHANGED <<jobs, begun, op>>

ShellExits(i) ==
    /\ job[i].shell = "running"
    /\ job' = [job EXCEPT ![i].shell = "over"]
    /\ UNCHANGED <<jobs, begun, op>>

OthersExit(i) ==
    /\ job[i].group \/ job[i].stray
    /\ job' = [job EXCEPT ![i] = [@ EXCEPT !.group = FALSE, !.stray = FALSE]]
    /\ UNCHANGED <<jobs, begun, op>>

-----------------------------------------------------------------------------
(* The threads of a job: its readers, taken together, and its reaper.      *)

\* As if the rest of a line were handed over again at the end of the pipe.
DrainOnceMore(i) ==
    /\ job[i].read <= job[i].wrote /\ ~job[i].drained
    /\ job' = [job EXCEPT ![i].read = @ + 1]
    /\ UNCHANGED <<jobs, begun, op>>

Drain(i) ==
    /\ job[i].read < job[i].wrote
    /\ job' = [job EXCEPT ![i].read = @ + 1]
    /\ UNCHANGED <<jobs, begun, op>>

\* The end of the pipe: nobody holds it and it is empty.
DrainEnds(i) ==
    /\ job[i].shell # "none" /\ ~job[i].drained
    /\ ~Held(i) /\ job[i].read = job[i].wrote
    /\ job' = [job EXCEPT ![i].drained = TRUE]
    /\ UNCHANGED <<jobs, begun, op>>

\* The readers are joined before the child is waited for.
ReadyToReapUnread(i) == job[i].shell = "over"
ReadyToReap(i) == job[i].drained /\ job[i].shell = "over"

ReapJob(i) ==
    /\ job[i].reaper = "joining" /\ ReadyToReap(i)
    /\ job' = [job EXCEPT ![i].reaper = "waited"]
    /\ UNCHANGED <<jobs, begun, op>>

\* A run or a wait is subscribed while it settles, and nobody else ever is.
Subscribed(i) == op.at = "waiting" /\ op.job = i

\* The channel drops an ending that nobody is subscribed to.
PublishEnd(i) ==
    /\ job[i].reaper = "waited"
    /\ job' = [job EXCEPT ![i].reaper = IF Subscribed(i) THEN "published" ELSE "lost"]
    /\ UNCHANGED <<jobs, begun, op>>

\* TOMBSTONE_LIFETIME passes after the end.
GrowOld(i) ==
    /\ Finished(i) /\ ~job[i].old
    /\ job' = [job EXCEPT ![i].old = TRUE]
    /\ UNCHANGED <<jobs, begun, op>>

-----------------------------------------------------------------------------
(* The calls.                                                              *)

SpawnJob ==
    /\ op.at = "idle" /\ begun < MaxJobs
    /\ begun' = begun + 1
    /\ job' = [job EXCEPT ![begun + 1].shell = "running"]
    /\ op' = [NoOp EXCEPT !.at = "spawned", !.job = begun + 1]
    /\ UNCHANGED <<jobs>>

\* forget_the_long_dead: only what has ended can be long dead.
Remembered == {i \in jobs : Finished(i) => ~job[i].old}

\* A handle is listed; that is when the long dead are forgotten.
RegisterJob ==
    /\ op.at = "spawned"
    /\ jobs' = Remembered \cup {op.job}
    /\ op' = [op EXCEPT !.at = "waiting"]
    /\ UNCHANGED <<begun, job>>

CallWait(i) ==
    /\ op.at = "idle" /\ i \in jobs
    /\ op' = [NoOp EXCEPT !.at = "waiting", !.job = i, !.late = Reaped(i)]
    /\ UNCHANGED <<jobs, begun, job>>

CallPeek(i) ==
    /\ op.at = "idle" /\ i \in jobs
    /\ op' = [NoOp EXCEPT !.at = "reporting", !.job = i, !.ended = Finished(i),
                         !.late = Reaped(i)]
    /\ UNCHANGED <<jobs, begun, job>>

\* settle: the command ended, or the call's deadline passed.  An ending that was
\* lost before the call came wakes nobody.
Settle ==
    /\ op.at = "waiting"
    /\ op' = [op EXCEPT !.at = "reporting", !.ended = Finished(op.job)]
    /\ UNCHANGED <<jobs, begun, job>>

ReportJob ==
    /\ op.at = "reporting"
    /\ op' = NoOp
    /\ UNCHANGED <<jobs, begun, job>>

\* The turn is halted; the command is not.
HaltOp ==
    /\ op.at = "waiting"
    /\ op' = NoOp
    /\ UNCHANGED <<jobs, begun, job>>

CallKill(i, s) ==
    /\ op.at = "idle" /\ i \in jobs
    /\ op' = IF Finished(i) THEN NoOp
             ELSE [NoOp EXCEPT !.at = "signalling", !.job = i, !.signal = s]
    /\ UNCHANGED <<jobs, begun, job>>

\* Who a signal reaches: the shell alone, or all of its process group.
ReachedByPid(i) == [job[i] EXCEPT !.shell = "over"]
Reached(i) == [job[i] EXCEPT !.shell = "over", !.group = FALSE]

\* KILL ends whoever it reaches; TERM may be ignored by any of them.  A group
\* that is gone is "could not be delivered".
SendSignal ==
    /\ op.at = "signalling"
    /\ LET i == op.job
           h == job[i]
       IN  \E shellEnds, groupEnds \in BOOLEAN :
            /\ op.signal = "KILL" => shellEnds /\ groupEnds
            /\ IF h.reaper # "joining" /\ ~h.group
               THEN job' = job
               ELSE job' = [job EXCEPT ![i] =
                                [h EXCEPT !.killed = h.killed \/ op.signal = "KILL",
                                    !.shell = IF shellEnds THEN Reached(i).shell ELSE @,
                                    !.group = IF groupEnds THEN Reached(i).group ELSE @]]
    /\ op' = NoOp
    /\ UNCHANGED <<jobs, begun>>

JNext ==
    \/ \E i \in Job :
        \/ WriteLine(i) \/ StartChild(i) \/ ChildLeaves(i) \/ ShellExits(i) \/ OthersExit(i)
        \/ Drain(i) \/ DrainEnds(i) \/ ReapJob(i) \/ PublishEnd(i) \/ GrowOld(i)
        \/ CallWait(i) \/ CallPeek(i) \/ \E s \in Signal : CallKill(i, s)
    \/ SpawnJob \/ RegisterJob \/ Settle \/ ReportJob \/ HaltOp \/ SendSignal

\* The threads of a job run.  Nobody promises that a command ends.
Threads(i) == Drain(i) \/ DrainEnds(i) \/ ReapJob(i) \/ PublishEnd(i)
JFair == \A i \in Job : WF_jvars(Threads(i))

JSpec == JInit /\ [][JNext]_jvars /\ JFair

-----------------------------------------------------------------------------
(* Properties.                                                             *)

\* Every variable keeps to the values the code gives it.
JTypeOK ==
    /\ jobs \subseteq 1 .. begun /\ begun \in 0 .. MaxJobs
    /\ job \in [Job -> [shell : {"none", "running", "over"}, group : BOOLEAN, stray : BOOLEAN,
                        wrote : 0 .. MaxLines, read : 0 .. MaxLines, drained : BOOLEAN,
                        reaper : {"joining", "waited", "published", "lost"},
                        old : BOOLEAN, killed : BOOLEAN]]
    /\ op \in [at : {"idle", "spawned", "waiting", "reporting", "signalling"},
               job : Job \cup {0}, ended : BOOLEAN, late : BOOLEAN,
               signal : Signal \cup {"none"}]
    /\ \A i \in Job : job[i].read <= job[i].wrote

\* A report that says a command ended shows all it ever writes, and a command that
\* goes on keeps its handle, whatever else is started meanwhile.
ReportsAreWhole ==
    /\ op.at = "reporting" /\ op.ended => job[op.job].read = job[op.job].wrote
    /\ \A i \in 1 .. begun :
        ~Finished(i) => i \in jobs \/ (op.at = "spawned" /\ op.job = i)

\* A command that is killed is at last over and reaped, its output read to the
\* end, unless a process that left its group still holds its output
\* (bash.rs, Job::signal and Job::spawn).  Whether anybody hears of it is another
\* matter: see EndingsAreRemembered.
KilledJobEnds ==
    \A i \in Job : job[i].killed ~> (Reaped(i) \/ job[i].stray)

\* What the comment on a job's ending says of it: that wait works for a caller
\* that arrives after the process is already dead, and does not block until its
\* deadline over a process that ended a minute ago (bash.rs:421-425).  The only
\* receiver is dropped as the channel is made (bash.rs:496), so that an ending
\* sent while no run and no wait settles is discarded (bash.rs:530).
EndingsAreRemembered == op.at = "reporting" /\ op.late => op.ended
=============================================================================
