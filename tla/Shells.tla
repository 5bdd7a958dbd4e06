------------------------------- MODULE Shells -------------------------------
(***************************************************************************)
(* The King's terminal in a plan (terminal.rs): a shell that outlives the  *)
(* sockets looking at it, found in a registry or started; the thread that  *)
(* pumps its output into a scrollback and to whoever is attached; and the  *)
(* ways it ends.  Sockets open, attach and go at any time, more than one   *)
(* of them at once.                                                        *)
(***************************************************************************)
EXTENDS Naturals, Sequences, SequencesExt

CONSTANTS
    Panel,       \* sockets
    MaxShells,   \* shells started
    MaxChunks,   \* chunks of output of one shell
    Kept,        \* chunks the scrollback keeps
    MaxUnheard   \* chunks the broadcast holds for a socket that is slow

ASSUME ShellsAssumption == {MaxShells, MaxChunks, Kept} \subseteq Nat /\ MaxUnheard \in Nat \ {0}

VARIABLES
    sessions,   \* the shell in SESSIONS, or 0
    started,  \* shells started so far
    shell,    \* each shell: its process, its pump, what it wrote
    panel,    \* each socket: its step, its shell, what is due to it and what it got
    doubled,  \* history: two sockets started a shell at once
    early     \* history: shells that were gone before they were listed

tvars == <<sessions, started, shell, panel, doubled, early>>

Exited == 0  \* the frame that says the shell is gone, among numbered chunks
Shell == 1 .. MaxShells
NoShell == [lives |-> FALSE, pump |-> "none", wrote |-> 0]
Away == [at |-> "away", shell |-> 0, due |-> <<>>, got |-> <<>>, told |-> FALSE]

TInit ==
    /\ sessions = 0 /\ started = 0
    /\ shell = [i \in Shell |-> NoShell]
    /\ panel = [s \in Panel |-> Away]
    /\ doubled = FALSE /\ early = {}

\* The chunks a shell wrote are numbered; the newest of them are kept.
Scrollback(i) ==
    LET n == shell[i].wrote
        first == IF n > Kept THEN n - Kept + 1 ELSE 1
    IN  [j \in 1 .. n - first + 1 |-> first + j - 1]

-----------------------------------------------------------------------------
(* A socket finds the plan's shell, or starts one, and attaches.           *)

LookUp(s) ==
    /\ panel[s].at = "away"
    /\ panel' = [panel EXCEPT ![s] =
           [Away EXCEPT !.at = IF sessions = 0 THEN "starting" ELSE "attaching",
                        !.shell = sessions]]
    /\ doubled' = \/ doubled
                  \/ /\ sessions = 0
                     /\ \E t \in Panel \ {s} : panel[t].at \in {"starting", "listing"}
    /\ UNCHANGED <<sessions, started, shell, early>>

\* No network, no well, no pty: said in words, and the socket closes.
StartRefused(s) ==
    /\ panel[s].at = "starting"
    /\ panel' = [panel EXCEPT ![s] = Away]
    /\ UNCHANGED <<sessions, started, shell, doubled, early>>

\* The shell runs, and its pump, before anybody can find it.
StartShell(s) ==
    /\ panel[s].at = "starting" /\ started < MaxShells
    /\ started' = started + 1
    /\ shell' = [shell EXCEPT ![started + 1] = [lives |-> TRUE, pump |-> "reading", wrote |-> 0]]
    /\ panel' = [panel EXCEPT ![s].at = "listing", ![s].shell = started + 1]
    /\ UNCHANGED <<sessions, doubled, early>>

ListShell(s) ==
    /\ panel[s].at = "listing"
    /\ sessions' = panel[s].shell
    /\ early' = IF shell[panel[s].shell].pump = "reading" THEN early
                ELSE early \cup {panel[s].shell}
    /\ panel' = [panel EXCEPT ![s].at = "attaching"]
    /\ UNCHANGED <<started, shell, doubled>>

\* What was kept, and from then on all that comes: the scrollback is held while
\* the socket subscribes.
Attach(s) ==
    /\ panel[s].at = "attaching"
    /\ panel' = [panel EXCEPT ![s].at = "attached", ![s].got = Scrollback(panel[s].shell)]
    /\ UNCHANGED <<sessions, started, shell, doubled, early>>

\* Whoever is subscribed is sent a frame; one too slow loses its oldest.
SentToAll(i, frame) ==
    [s \in Panel |->
        IF panel[s].shell # i \/ panel[s].at \notin {"attaching", "attached"} THEN panel[s]
        ELSE [panel[s] EXCEPT !.due = Append(@, frame)]]

Sent(i, frame) ==
    [s \in Panel |->
        IF panel[s].shell # i \/ panel[s].at # "attached" THEN panel[s]
        ELSE IF Len(panel[s].due) < MaxUnheard
             THEN [panel[s] EXCEPT !.due = Append(@, frame)]
             ELSE [panel[s] EXCEPT !.due = Append(Tail(@), frame), !.told = TRUE]]

\* The panel draws what it hears; having fallen behind, it is told so first.
HearFrame(s) ==
    /\ panel[s].at = "attached" /\ panel[s].due # <<>>
    /\ panel' = [panel EXCEPT ![s] =
           IF Head(panel[s].due) = Exited THEN Away
           ELSE [panel[s] EXCEPT !.got = Append(@, Head(panel[s].due)), !.due = Tail(@)]]
    /\ UNCHANGED <<sessions, started, shell, doubled, early>>

\* Looking away ends nothing.
LookAway(s) ==
    /\ panel[s].at = "attached"
    /\ panel' = [panel EXCEPT ![s] = Away]
    /\ UNCHANGED <<sessions, started, shell, doubled, early>>

-----------------------------------------------------------------------------
(* The shell and its pump.                                                 *)

\* A chunk is kept and sent under one lock.
Write(i) ==
    /\ shell[i].lives /\ shell[i].pump = "reading" /\ shell[i].wrote < MaxChunks
    /\ shell' = [shell EXCEPT ![i].wrote = @ + 1]
    /\ panel' = Sent(i, shell[i].wrote + 1)
    /\ UNCHANGED <<sessions, started, doubled, early>>

\* exit is typed, or the shell dies.
ShellEnds(i) ==
    /\ shell[i].lives
    /\ shell' = [shell EXCEPT ![i].lives = FALSE]
    /\ UNCHANGED <<sessions, started, panel, doubled, early>>

ForgetWhoever(i) == sessions' = 0

\* It is forgotten, if it is still the one listed.
Forget(i) == sessions' = IF sessions = i THEN 0 ELSE sessions

PumpForgets(i) ==
    /\ ~shell[i].lives /\ shell[i].pump = "reading"
    /\ Forget(i)
    /\ shell' = [shell EXCEPT ![i].pump = "telling"]
    /\ UNCHANGED <<started, panel, doubled, early>>

PumpTells(i) ==
    /\ shell[i].pump = "telling"
    /\ shell' = [shell EXCEPT ![i].pump = "over"]
    /\ panel' = Sent(i, Exited)
    /\ UNCHANGED <<sessions, started, doubled, early>>

\* The panel is closed on purpose, or the plan finished.
ShutdownShell ==
    /\ sessions # 0
    /\ sessions' = 0
    /\ shell' = [shell EXCEPT ![sessions].lives = FALSE]
    /\ UNCHANGED <<started, panel, doubled, early>>

TNext ==
    \/ \E s \in Panel :
        \/ LookUp(s) \/ StartRefused(s) \/ StartShell(s) \/ ListShell(s) \/ Attach(s)
        \/ HearFrame(s) \/ LookAway(s)
    \/ \E i \in Shell : Write(i) \/ ShellEnds(i) \/ PumpForgets(i) \/ PumpTells(i)
    \/ ShutdownShell

TSpec == TInit /\ [][TNext]_tvars

-----------------------------------------------------------------------------
(* Properties.                                                             *)

\* Every variable keeps to the values the code gives it.
TTypeOK ==
    /\ sessions \in Shell \cup {0} /\ started \in Shell \cup {0}
    /\ shell \in [Shell -> [lives : BOOLEAN, wrote : 0 .. MaxChunks,
                            pump : {"none", "reading", "telling", "over"}]]
    /\ \A s \in Panel :
        /\ panel[s].at \in {"away", "starting", "listing", "attaching", "attached"}
        /\ panel[s].shell \in Shell \cup {0}
        /\ Len(panel[s].due) <= MaxUnheard
    /\ doubled \in BOOLEAN /\ early \subseteq Shell

\* What a socket shows, and what is on its way to it.
Stream(s) == panel[s].got \o panel[s].due

\* Chunk upon chunk to the newest there is, with nothing after the end.
Whole(frames, newest) ==
    /\ \A j \in 1 .. Len(frames) - 1 :
          frames[j] # Exited /\ frames[j + 1] \in {frames[j] + 1, Exited}
    /\ \A j \in 1 .. Len(frames) :
          frames[j] # Exited /\ (j = Len(frames) \/ frames[j + 1] = Exited)
          => frames[j] = newest

\* What an attached panel shows is a stretch of the shell's output with nothing
\* missing and nothing twice, from the replay into what came live, unless it
\* fell behind and was told; and all the output is shown or on its way.
PanelMissesNothing ==
    \A s \in Panel :
        panel[s].at = "attached" /\ ~panel[s].told =>
            Whole(Stream(s), shell[panel[s].shell].wrote)

\* A shell that lives is listed, or about to be, so that it can be ended with
\* its plan, and one that is listed lives or is about to be forgotten: unless
\* two sockets started one at once, or it was gone before it was listed.
ShellsAreListed ==
    /\ ~doubled => \A i \in Shell :
        shell[i].lives => sessions = i \/ \E s \in Panel :
                              panel[s].at = "listing" /\ panel[s].shell = i
    /\ sessions \notin early /\ sessions # 0 => shell[sessions].pump = "reading"
=============================================================================
