---------------------------- MODULE KingProofs ------------------------------
(***************************************************************************)
(* What is proved of what the King does with his own hands: the terminals  *)
(* he opens in a plan, the files he edits beside his court, and the notes  *)
(* he writes in the margins; and of what his tabs show him, that a room    *)
(* and a rail gone quiet show what is recorded.                            *)
(***************************************************************************)
EXTENDS Shells, Editors, Wire, Margins, SequenceTheorems, TLAPS

-----------------------------------------------------------------------------
(* Terminals.                                                              *)

PanelAt == {"away", "starting", "listing", "attaching", "attached"}

Socket == [at : PanelAt, shell : Shell \cup {0}, due : Seq(Nat), got : Seq(Nat), told : BOOLEAN]

ShellTypeInv ==
    /\ sessions \in Shell \cup {0} /\ started \in Shell \cup {0} /\ doubled \in BOOLEAN
    /\ shell \in [Shell -> [lives : BOOLEAN, wrote : Nat,
                            pump : {"none", "reading", "telling", "over"}]]
    /\ panel \in [Panel -> Socket]
    /\ \A s \in Panel :
          panel[s].at \in {"listing", "attaching", "attached"} => panel[s].shell # 0

Starts(s) == panel[s].at \in {"starting", "listing"}

(* Unless it was doubled, a start is the only one, and nothing is listed.  *)
OneStartInv ==
    ~doubled => \A s \in Panel : Starts(s) =>
        sessions = 0 /\ \A t \in Panel : Starts(t) => t = s

(* What a pump reads is a shell; a shell that lives is read.               *)
ReadInv == \A i \in Shell : shell[i].lives => shell[i].pump = "reading"

ShellInv == ShellTypeInv /\ OneStartInv /\ ReadInv /\ ShellsAreListed

LEMMA ScrollbackType ==
    ASSUME ShellTypeInv, NEW i \in Shell
    PROVE  Scrollback(i) \in Seq(Nat)
<1> DEFINE n == shell[i].wrote
           first == IF n > Kept THEN n - Kept + 1 ELSE 1
<1>1. n \in Nat /\ first \in Nat \ {0} /\ n - first + 1 \in Nat
    BY ShellsAssumption DEF ShellTypeInv
<1>2. Scrollback(i) = [j \in 1 .. n - first + 1 |-> first + j - 1]
    BY DEF Scrollback
<1> HIDE DEF n, first
<1>3. \A j \in 1 .. n - first + 1 : first + j - 1 \in Nat
    BY <1>1
<1> QED
    BY <1>1, <1>2, <1>3, SeqDef

LEMMA SentType ==
    ASSUME ShellTypeInv, NEW i, NEW frame \in Nat
    PROVE  /\ Sent(i, frame) \in [Panel -> Socket]
           /\ \A s \in Panel : /\ Sent(i, frame)[s].at = panel[s].at
                              /\ Sent(i, frame)[s].shell = panel[s].shell
<1>1. ASSUME NEW s \in Panel
      PROVE  /\ Sent(i, frame)[s] \in Socket
             /\ Sent(i, frame)[s].at = panel[s].at /\ Sent(i, frame)[s].shell = panel[s].shell
  <2> DEFINE due == panel[s].due
  <2>1. panel[s] \in Socket /\ due \in Seq(Nat)
      BY DEF ShellTypeInv, Socket
  <2>2. Append(due, frame) \in Seq(Nat)
      BY <2>1
  <2>3. ASSUME ~(Len(due) < MaxUnheard) PROVE Append(Tail(due), frame) \in Seq(Nat)
      <3>1. due # <<>>
          BY <2>1, <2>3, ShellsAssumption
      <3> QED
          BY <2>1, <3>1
  <2> QED
      BY <2>1, <2>2, <2>3 DEF Sent, Socket
<1>2. Sent(i, frame) = [s \in Panel |-> Sent(i, frame)[s]]
    BY DEF Sent
<1> QED
    BY <1>1, <1>2

LEMMA ShellTypeInit == TInit => ShellTypeInv
<1>0. <<>> \in Seq(Nat) /\ 0 \in Nat
    OBVIOUS
<1>1. Away \in Socket /\ Away.at = "away"
    BY <1>0 DEF Away, PanelAt, Socket
<1>2. NoShell \in [lives : BOOLEAN, wrote : Nat,
                   pump : {"none", "reading", "telling", "over"}]
    BY <1>0 DEF NoShell
<1> QED
    BY <1>1, <1>2 DEF TInit, ShellTypeInv

LEMMA ShellTypeNext == ShellTypeInv /\ [TNext]_tvars => ShellTypeInv'
<1> SUFFICES ASSUME ShellTypeInv, [TNext]_tvars
             PROVE  ShellTypeInv'
    OBVIOUS
<1>0. /\ <<>> \in Seq(Nat) /\ 0 \notin Shell
      /\ \A n \in Nat : n + 1 \in Nat
      /\ started < MaxShells => started + 1 \in Shell /\ started + 1 # 0
    BY ShellsAssumption DEF ShellTypeInv, Shell
<1> USE <1>0 DEF ShellTypeInv, PanelAt, Socket
<1>1. ASSUME NEW s \in Panel, LookUp(s) PROVE ShellTypeInv'
    BY <1>1 DEF LookUp, Away
<1>2. ASSUME NEW s \in Panel, StartRefused(s) PROVE ShellTypeInv'
    BY <1>2 DEF StartRefused, Away
<1>3. ASSUME NEW s \in Panel, StartShell(s) PROVE ShellTypeInv'
    BY ZenonT(60), <1>3 DEF StartShell
<1>4. ASSUME NEW s \in Panel, ListShell(s) PROVE ShellTypeInv'
    BY ZenonT(60), <1>4 DEF ListShell
<1>5. ASSUME NEW s \in Panel, Attach(s) PROVE ShellTypeInv'
  <2>1. panel[s].shell \in Shell
      BY <1>5 DEF Attach
  <2>2. Scrollback(panel[s].shell) \in Seq(Nat)
      BY <2>1, ScrollbackType
  <2> QED
      BY ZenonT(60), <1>5, <2>2 DEF Attach
<1>6. ASSUME NEW s \in Panel, HearFrame(s) PROVE ShellTypeInv'
  <2>1. panel[s].due \in Seq(Nat) /\ panel[s].due # <<>> /\ panel[s].got \in Seq(Nat)
      BY <1>6 DEF HearFrame
  <2>2. Append(panel[s].got, Head(panel[s].due)) \in Seq(Nat) /\ Tail(panel[s].due) \in Seq(Nat)
      BY <2>1
  <2>3. CASE Head(panel[s].due) = Exited
      BY <1>6, <2>3 DEF HearFrame, Away
  <2>4. CASE Head(panel[s].due) # Exited
    <3> DEFINE next == [panel[s] EXCEPT !.got = Append(@, Head(panel[s].due)), !.due = Tail(@)]
    <3>1. next \in Socket /\ next.at = "attached" /\ next.shell = panel[s].shell
        BY <1>6, <2>2 DEF HearFrame
    <3>2. panel' = [panel EXCEPT ![s] = next] /\ UNCHANGED <<sessions, started, shell, doubled>>
        BY <1>6, <2>4 DEF HearFrame
    <3> HIDE <1>0 DEF next, Socket
    <3> QED
        BY <1>6, <3>1, <3>2 DEF HearFrame
  <2> QED
      BY <2>3, <2>4
<1>7. ASSUME NEW s \in Panel, LookAway(s) PROVE ShellTypeInv'
    BY <1>7 DEF LookAway, Away
<1>8. ASSUME NEW i \in Shell, Write(i) PROVE ShellTypeInv'
  <2>1. shell[i].wrote + 1 \in Nat
      BY ShellsAssumption DEF Exited
  <2>2. /\ panel' \in [Panel -> Socket]
        /\ \A s \in Panel : panel'[s].at = panel[s].at /\ panel'[s].shell = panel[s].shell
      BY <1>8, <2>1, SentType DEF Write
  <2>3. /\ shell' \in [Shell -> [lives : BOOLEAN, wrote : Nat,
                                  pump : {"none", "reading", "telling", "over"}]]
        /\ UNCHANGED <<sessions, started, doubled>>
      BY ZenonT(60), <1>8 DEF Write
  <2> HIDE <1>0 DEF Socket
  <2> QED
      BY <2>2, <2>3
<1>9. ASSUME NEW i \in Shell, ShellEnds(i) PROVE ShellTypeInv'
    BY ZenonT(60), <1>9 DEF ShellEnds
<1>10. ASSUME NEW i \in Shell, PumpForgets(i) PROVE ShellTypeInv'
    BY ZenonT(60), <1>10 DEF PumpForgets, Forget
<1>11. ASSUME NEW i \in Shell, PumpTells(i) PROVE ShellTypeInv'
  <2>1. Exited \in Nat
      BY ShellsAssumption DEF Exited
  <2>2. /\ panel' \in [Panel -> Socket]
        /\ \A s \in Panel : panel'[s].at = panel[s].at /\ panel'[s].shell = panel[s].shell
      BY SMTT(60), <1>11, <2>1, SentType DEF PumpTells
  <2>3. /\ shell' \in [Shell -> [lives : BOOLEAN, wrote : Nat,
                                  pump : {"none", "reading", "telling", "over"}]]
        /\ UNCHANGED <<sessions, started, doubled>>
      BY <1>11 DEF PumpTells
  <2> HIDE <1>0 DEF Socket
  <2> QED
      BY <2>2, <2>3
<1>12. CASE ShutdownShell
    BY ZenonT(60), <1>12 DEF ShutdownShell
<1>13. CASE UNCHANGED tvars
    BY <1>13 DEF tvars
<1> QED
    BY <1>1, <1>2, <1>3, <1>4, <1>5, <1>6, <1>7, <1>8, <1>9, <1>10, <1>11,
       <1>12, <1>13 DEF TNext

LEMMA ShellNext == ShellInv /\ [TNext]_tvars => ShellInv'
<1> SUFFICES ASSUME ShellInv, [TNext]_tvars
             PROVE  ShellInv'
    OBVIOUS
<1> USE DEF ShellInv
<1>t. ShellTypeInv'
    BY ShellTypeNext
<1>0. started < MaxShells => started + 1 \in Shell
    BY ShellsAssumption DEF ShellTypeInv, Shell
<1>z. 0 \notin Shell
    BY DEF Shell
<1> USE <1>t, <1>z DEF ShellTypeInv, OneStartInv, ReadInv, ShellsAreListed, Starts
<1>1. ASSUME NEW s \in Panel, LookUp(s) PROVE ShellInv'
    BY <1>1 DEF LookUp, Away
<1>2. ASSUME NEW s \in Panel, StartRefused(s) PROVE ShellInv'
    BY <1>2 DEF StartRefused, Away
<1>3. ASSUME NEW s \in Panel, StartShell(s) PROVE ShellInv'
  <2> DEFINE new == started + 1
  <2>1. new \in Shell /\ panel[s].at = "starting"
      BY <1>3, <1>0 DEF StartShell
  <2>2. /\ UNCHANGED <<sessions, doubled, early>>
        /\ shell'[new].lives /\ shell'[new].pump = "reading"
        /\ \A k \in Shell \ {new} : shell'[k] = shell[k]
      BY <1>3, <2>1 DEF StartShell
  <2>3. /\ panel'[s].at = "listing" /\ panel'[s].shell = new
        /\ \A t \in Panel \ {s} : panel'[t] = panel[t]
      BY <1>3 DEF StartShell
  <2> HIDE DEF new
  <2>4. OneStartInv'
      BY <2>1, <2>2, <2>3
  <2>5. ReadInv'
      BY <2>1, <2>2, <2>3
  <2>6. ShellsAreListed'
      BY <2>1, <2>2, <2>3
  <2> QED
      BY <1>t, <2>4, <2>5, <2>6
<1>4. ASSUME NEW s \in Panel, ListShell(s) PROVE ShellInv'
    BY <1>4 DEF ListShell
<1>5. ASSUME NEW s \in Panel, Attach(s) PROVE ShellInv'
    BY <1>5 DEF Attach
<1>6. ASSUME NEW s \in Panel, HearFrame(s) PROVE ShellInv'
    BY <1>6 DEF HearFrame, Away
<1>7. ASSUME NEW s \in Panel, LookAway(s) PROVE ShellInv'
    BY <1>7 DEF LookAway, Away
<1>8. ASSUME NEW i \in Shell, Write(i) PROVE ShellInv'
  <2>1. shell[i].wrote + 1 \in Nat
      BY ShellsAssumption DEF Exited
  <2>2. \A s \in Panel : panel'[s].at = panel[s].at /\ panel'[s].shell = panel[s].shell
      BY <1>8, <2>1, SentType DEF Write
  <2>3. /\ UNCHANGED <<sessions, doubled, early>>
        /\ \A k \in Shell : /\ shell'[k].lives = shell[k].lives
                            /\ shell[k].pump = "reading" => shell'[k].pump = "reading"
      BY <1>8 DEF Write
  <2>4. OneStartInv'
      BY <2>2, <2>3
  <2>5. ReadInv'
      BY <2>2, <2>3
  <2>6. ShellsAreListed'
      BY <2>2, <2>3
  <2> QED
      BY <1>t, <2>4, <2>5, <2>6
<1>9. ASSUME NEW i \in Shell, ShellEnds(i) PROVE ShellInv'
    BY <1>9 DEF ShellEnds
<1>10. ASSUME NEW i \in Shell, PumpForgets(i) PROVE ShellInv'
    BY <1>10 DEF PumpForgets, Forget
<1>11. ASSUME NEW i \in Shell, PumpTells(i) PROVE ShellInv'
  <2>1. Exited \in Nat
      BY ShellsAssumption DEF Exited
  <2>2. \A s \in Panel : panel'[s].at = panel[s].at /\ panel'[s].shell = panel[s].shell
      BY <1>11, <2>1, SentType DEF PumpTells
  <2>3. /\ UNCHANGED <<sessions, doubled, early>>
        /\ \A k \in Shell : /\ shell'[k].lives = shell[k].lives
                            /\ shell[k].pump # "telling" => shell'[k].pump = shell[k].pump
      BY <1>11 DEF PumpTells
  <2>4. OneStartInv'
      BY <2>2, <2>3
  <2>5. ReadInv'
      BY <2>2, <2>3
  <2>6. ShellsAreListed'
      BY <2>2, <2>3
  <2> QED
      BY <1>t, <2>4, <2>5, <2>6
<1>12. CASE ShutdownShell
    BY <1>12 DEF ShutdownShell
<1>13. CASE UNCHANGED tvars
    BY <1>13 DEF tvars
<1> QED
    BY <1>1, <1>2, <1>3, <1>4, <1>5, <1>6, <1>7, <1>8, <1>9, <1>10, <1>11,
       <1>12, <1>13 DEF TNext

(* However many sockets come and go, a shell that lives is listed or about *)
(* to be, so that the end of its plan ends it: unless two sockets were let *)
(* start one at once, or it was gone before it was listed (terminal.rs).   *)
THEOREM NoShellIsLost == TSpec => []ShellsAreListed
<1>1. TInit => ShellTypeInv
    BY ShellTypeInit
<1>2. TInit => OneStartInv /\ ReadInv /\ ShellsAreListed
    BY DEF TInit, OneStartInv, ReadInv, ShellsAreListed, Starts, NoShell, Away
<1>3. TInit => ShellInv
    BY <1>1, <1>2 DEF ShellInv
<1>4. ShellInv /\ [TNext]_tvars => ShellInv'
    BY ShellNext
<1>5. ShellInv => ShellsAreListed
    BY DEF ShellInv
<1> QED
    BY <1>3, <1>4, <1>5, PTL DEF TSpec

-----------------------------------------------------------------------------
(* What a panel shows.                                                     *)

(* Nothing is on its way to a socket before it is attached, and no socket  *)
(* is at a shell that was not started yet.                                 *)
QuietInv ==
    /\ sessions <= started
    /\ \A s \in Panel :
          /\ panel[s].shell <= started
          /\ panel[s].at \in {"starting", "listing", "attaching"} =>
                panel[s].due = <<>> /\ ~panel[s].told

Endless(frames) == \A j \in 1 .. Len(frames) : frames[j] # Exited

(* While a shell's pump goes on, no end has been told; and what an attached *)
(* socket is shown, or is to be, is whole.                                 *)
Shown(s) ==
    panel[s].at = "attached" /\ ~panel[s].told =>
        /\ Whole(Stream(s), shell[panel[s].shell].wrote)
        /\ shell[panel[s].shell].pump # "over" => Endless(Stream(s))

PanelInv == ShellTypeInv /\ QuietInv /\ \A s \in Panel : Shown(s)

LEMMA WholeGrows ==
    ASSUME NEW frames \in Seq(Nat), NEW n \in Nat, Whole(frames, n), Endless(frames)
    PROVE  /\ Whole(Append(frames, n + 1), n + 1) /\ Endless(Append(frames, n + 1))
           /\ Whole(Append(frames, Exited), n)
<1>1. ASSUME NEW x \in Nat
      PROVE  /\ Len(frames) \in Nat /\ Len(Append(frames, x)) = Len(frames) + 1
             /\ Append(frames, x)[Len(frames) + 1] = x
             /\ \A j \in 1 .. Len(frames) : Append(frames, x)[j] = frames[j]
    BY AppendProperties
<1>2. Exited = 0
    BY DEF Exited
<1>3. Whole(Append(frames, n + 1), n + 1) /\ Endless(Append(frames, n + 1))
  <2> DEFINE more == Append(frames, n + 1)
  <2>1. /\ Len(frames) \in Nat /\ Len(more) = Len(frames) + 1
        /\ more[Len(frames) + 1] = n + 1 /\ \A j \in 1 .. Len(frames) : more[j] = frames[j]
      BY <1>1
  <2> HIDE DEF more
  <2> QED
      BY <1>2, <2>1 DEF Whole, Endless
<1>4. Whole(Append(frames, Exited), n)
  <2> DEFINE more == Append(frames, Exited)
  <2>1. /\ Len(frames) \in Nat /\ Len(more) = Len(frames) + 1
        /\ more[Len(frames) + 1] = Exited /\ \A j \in 1 .. Len(frames) : more[j] = frames[j]
      BY <1>1, <1>2
  <2> HIDE DEF more
  <2> QED
      BY <1>2, <2>1 DEF Whole, Endless
<1> QED
    BY <1>3, <1>4

LEMMA ScrollbackWhole ==
    ASSUME ShellTypeInv, NEW i \in Shell
    PROVE  Whole(Scrollback(i), shell[i].wrote) /\ Endless(Scrollback(i))
<1> DEFINE n == shell[i].wrote
           first == IF n > Kept THEN n - Kept + 1 ELSE 1
           len == n - first + 1
           kept == [j \in 1 .. len |-> first + j - 1]
<1>1. n \in Nat /\ first \in Nat \ {0} /\ len \in Nat
    BY ShellsAssumption DEF ShellTypeInv
<1>2. Scrollback(i) = kept
    BY DEF Scrollback
<1>3. Len(kept) = len /\ \A j \in 1 .. len : kept[j] = first + j - 1
    BY <1>1
<1>4. first + len - 1 = n
    BY <1>1
<1>5. Exited = 0
    BY DEF Exited
<1> HIDE DEF n, first, len, kept
<1>6. Whole(kept, n) /\ Endless(kept)
    BY <1>1, <1>3, <1>4, <1>5 DEF Whole, Endless
<1> QED
    BY <1>2, <1>6 DEF n

LEMMA ConcatAppend ==
    ASSUME NEW got \in Seq(Nat), NEW due \in Seq(Nat), NEW frame \in Nat
    PROVE  got \o Append(due, frame) = Append(got \o due, frame)
<1>1. <<frame>> \in Seq(Nat) /\ got \o due \in Seq(Nat)
    BY ConcatProperties
<1>2. Append(due, frame) = due \o <<frame>>
    BY AppendIsConcat
<1>3. Append(got \o due, frame) = (got \o due) \o <<frame>>
    BY <1>1, AppendIsConcat
<1>4. got \o (due \o <<frame>>) = (got \o due) \o <<frame>>
    BY SMTT(60), <1>1, ConcatAssociative
<1> QED
    BY <1>2, <1>3, <1>4

(* A frame sent to a shell's sockets is the next of what each is shown, or *)
(* the socket is told it missed some; the others are not touched.          *)
LEMMA SentStream ==
    ASSUME ShellTypeInv, NEW i, NEW frame \in Nat, NEW s \in Panel,
           panel' = Sent(i, frame), panel[s].at = "attached", ~panel'[s].told
    PROVE  /\ ~panel[s].told
           /\ panel[s].shell # i => panel'[s] = panel[s]
           /\ panel[s].shell = i => Stream(s)' = Append(Stream(s), frame)
<1> DEFINE old == panel[s]
<1>1. old \in Socket /\ old.due \in Seq(Nat) /\ old.got \in Seq(Nat)
    BY SMTT(60) DEF ShellTypeInv, Socket
<1>2. panel'[s] = IF old.shell # i THEN old
                  ELSE IF Len(old.due) < MaxUnheard
                       THEN [old EXCEPT !.due = Append(old.due, frame)]
                       ELSE [old EXCEPT !.due = Append(Tail(old.due), frame), !.told = TRUE]
    BY DEF Sent
<1>3. CASE old.shell # i
    BY <1>2, <1>3
<1>4. CASE old.shell = i
  <2>1. panel'[s] = [old EXCEPT !.due = Append(old.due, frame)]
      BY <1>1, <1>2, <1>4 DEF Socket
  <2>2. panel'[s].told = old.told /\ panel'[s].got = old.got
        /\ panel'[s].due = Append(old.due, frame)
      BY <1>1, <2>1 DEF Socket
  <2>3. old.got \o Append(old.due, frame) = Append(old.got \o old.due, frame)
      BY <1>1, ConcatAppend
  <2> QED
      BY <1>4, <2>2, <2>3 DEF Stream
<1> QED
    BY <1>3, <1>4

(* Drawing a frame changes nothing of what is shown and on its way.        *)
LEMMA HeardStream ==
    ASSUME NEW got \in Seq(Nat), NEW due \in Seq(Nat), due # <<>>
    PROVE  Append(got, Head(due)) \o Tail(due) = got \o due
<1>1. Head(due) \in Nat /\ Tail(due) \in Seq(Nat) /\ due = <<Head(due)>> \o Tail(due)
  <2>1. Head(due) \in Nat /\ Tail(due) \in Seq(Nat)
      BY HeadTailProperties
  <2>2. Len(due) \in Nat \ {0} /\ Head(due) = due[1]
      BY EmptySeq
  <2>3. Tail(due) = SubSeq(due, 2, Len(due))
      BY TailIsSubSeq
  <2>4. SubSeq(due, 1, Len(due)) = <<due[1]>> \o SubSeq(due, 2, Len(due))
      BY <2>2, SubSeqRecursiveFirst
  <2>5. SubSeq(due, 1, Len(due)) = due
      BY SubSeqFull
  <2> QED
      BY <2>1, <2>2, <2>3, <2>4, <2>5
<1>2. <<Head(due)>> \in Seq(Nat)
    BY <1>1
<1>3. Append(got, Head(due)) = got \o <<Head(due)>>
    BY <1>1, AppendIsConcat
<1> QED
    BY SMTT(60), <1>1, <1>2, <1>3, ConcatAssociative

LEMMA ShownStays ==
    ASSUME NEW s \in Panel, Shown(s), panel'[s] = panel[s],
           panel[s].at = "attached" =>
               /\ shell'[panel[s].shell].wrote = shell[panel[s].shell].wrote
               /\ shell'[panel[s].shell].pump # "over" => shell[panel[s].shell].pump # "over"
    PROVE  Shown(s)'
<1>1. Stream(s)' = Stream(s)
    BY DEF Stream
<1> QED
    BY <1>1 DEF Shown

LEMMA PanelNext == PanelInv /\ [TNext]_tvars => PanelInv'
<1> SUFFICES ASSUME PanelInv, [TNext]_tvars
             PROVE  PanelInv'
    OBVIOUS
<1>t. ShellTypeInv /\ ShellTypeInv'
    BY ShellTypeNext DEF PanelInv
<1>q. QuietInv /\ \A s \in Panel : Shown(s)
    BY DEF PanelInv
<1>0. /\ started < MaxShells => started + 1 \in Shell
      /\ started \in Nat /\ sessions \in Nat /\ \A i \in Shell : i \in Nat
      /\ \A s \in Panel : panel[s].shell \in Nat
      /\ \A s \in Panel : panel[s].at \in {"listing", "attaching", "attached"} =>
            panel[s].shell \in Shell
    BY <1>t, ShellsAssumption DEF ShellTypeInv, Shell, Socket
<1>1. ASSUME NEW s \in Panel, LookUp(s) PROVE PanelInv'
  <2>1. /\ \A t \in Panel \ {s} : panel'[t] = panel[t]
        /\ panel'[s].at \in {"starting", "attaching"} /\ UNCHANGED shell
      BY <1>t, <1>1 DEF LookUp, Away, ShellTypeInv
  <2>2. \A t \in Panel : Shown(t)'
    <3>1. ASSUME NEW t \in Panel \ {s} PROVE Shown(t)'
        BY <1>q, <2>1, ShownStays
    <3>2. Shown(s)'
        BY <2>1 DEF Shown
    <3> QED
        BY <3>1, <3>2
  <2>3. QuietInv'
      BY <1>t, <1>q, <1>0, <1>1 DEF LookUp, QuietInv, Away, ShellTypeInv
  <2> QED
      BY <1>t, <2>2, <2>3 DEF PanelInv
<1>2. ASSUME NEW s \in Panel, StartRefused(s) PROVE PanelInv'
  <2>1. /\ \A t \in Panel \ {s} : panel'[t] = panel[t]
        /\ panel'[s].at = "away" /\ UNCHANGED shell
      BY <1>t, <1>2 DEF StartRefused, Away, ShellTypeInv
  <2>2. \A t \in Panel : Shown(t)'
    <3>1. ASSUME NEW t \in Panel \ {s} PROVE Shown(t)'
        BY <1>q, <2>1, ShownStays
    <3>2. Shown(s)'
        BY <2>1 DEF Shown
    <3> QED
        BY <3>1, <3>2
  <2>3. QuietInv'
      BY <1>t, <1>q, <1>0, <1>2 DEF StartRefused, QuietInv, Away, ShellTypeInv
  <2> QED
      BY <1>t, <2>2, <2>3 DEF PanelInv
<1>3. ASSUME NEW s \in Panel, StartShell(s) PROVE PanelInv'
  <2>1. /\ \A t \in Panel \ {s} : panel'[t] = panel[t]
        /\ panel'[s].at = "listing"
      BY <1>t, <1>3 DEF StartShell, Away, ShellTypeInv
  <2>4. \A t \in Panel : panel[t].at = "attached" =>
            shell'[panel[t].shell] = shell[panel[t].shell]
      BY <1>t, <1>q, <1>0, <1>3 DEF StartShell, QuietInv, ShellTypeInv
  <2>2. \A t \in Panel : Shown(t)'
    <3>1. ASSUME NEW t \in Panel \ {s} PROVE Shown(t)'
        BY <1>q, <2>1, <2>4, ShownStays
    <3>2. Shown(s)'
        BY <2>1 DEF Shown
    <3> QED
        BY <3>1, <3>2
  <2>3. QuietInv'
      BY <1>t, <1>q, <1>0, <1>3 DEF StartShell, QuietInv, Away, ShellTypeInv
  <2> QED
      BY <1>t, <2>2, <2>3 DEF PanelInv
<1>4. ASSUME NEW s \in Panel, ListShell(s) PROVE PanelInv'
  <2>1. /\ \A t \in Panel \ {s} : panel'[t] = panel[t]
        /\ panel'[s].at = "attaching" /\ UNCHANGED shell
      BY <1>t, <1>4 DEF ListShell, Away, ShellTypeInv
  <2>2. \A t \in Panel : Shown(t)'
    <3>1. ASSUME NEW t \in Panel \ {s} PROVE Shown(t)'
        BY <1>q, <2>1, ShownStays
    <3>2. Shown(s)'
        BY <2>1 DEF Shown
    <3> QED
        BY <3>1, <3>2
  <2>3. QuietInv'
      BY <1>t, <1>q, <1>0, <1>4 DEF ListShell, QuietInv, Away, ShellTypeInv
  <2> QED
      BY <1>t, <2>2, <2>3 DEF PanelInv
<1>5. ASSUME NEW s \in Panel, Attach(s) PROVE PanelInv'
  <2> DEFINE i == panel[s].shell
  <2>1. /\ \A t \in Panel \ {s} : panel'[t] = panel[t]
        /\ UNCHANGED <<sessions, started, shell>>
        /\ panel'[s].got = Scrollback(i) /\ panel'[s].shell = i
        /\ panel'[s].due = panel[s].due /\ panel'[s].at = "attached"
      BY <1>t, <1>5 DEF Attach, ShellTypeInv, Socket
  <2>2. i \in Shell /\ panel[s].due = <<>>
      BY <1>0, <1>q, <1>5 DEF Attach, QuietInv
  <2>3. Stream(s)' = Scrollback(i)
    <3>1. Scrollback(i) \in Seq(Nat)
        BY <1>t, <2>2, ScrollbackType
    <3>2. Scrollback(i) \o <<>> = Scrollback(i)
        BY <3>1, ConcatEmptySeq
    <3> QED
        BY <2>1, <2>2, <3>2 DEF Stream
  <2>4. Shown(s)'
    <3>1. Whole(Scrollback(i), shell[i].wrote) /\ Endless(Scrollback(i))
        BY <1>t, <2>2, ScrollbackWhole
    <3> QED
        BY <2>1, <2>3, <3>1 DEF Shown
  <2>5. ASSUME NEW t \in Panel \ {s} PROVE Shown(t)'
      BY <1>q, <2>1, <2>5, ShownStays
  <2>6. QuietInv'
      BY <1>q, <2>1 DEF QuietInv
  <2> QED
      BY <1>t, <2>4, <2>5, <2>6 DEF PanelInv
<1>6. ASSUME NEW s \in Panel, HearFrame(s) PROVE PanelInv'
  <2> DEFINE due == panel[s].due
  <2>1. /\ \A t \in Panel \ {s} : panel'[t] = panel[t]
        /\ UNCHANGED <<sessions, started, shell>>
        /\ panel[s] \in Socket /\ panel[s].at = "attached" /\ due # <<>>
      BY <1>t, <1>6 DEF HearFrame, ShellTypeInv
  <2>2. ASSUME NEW t \in Panel \ {s} PROVE Shown(t)'
      BY <1>q, <2>1, <2>2, ShownStays
  <2>3. CASE Head(due) = Exited
    <3>1. panel'[s] = Away
        BY <1>t, <1>6, <2>3 DEF HearFrame, ShellTypeInv
    <3>2. Shown(s)'
        BY <3>1 DEF Shown, Away
    <3>3. QuietInv'
        BY <1>q, <1>0, <2>1, <3>1 DEF QuietInv, Away
    <3> QED
        BY <1>t, <2>2, <3>2, <3>3 DEF PanelInv
  <2>4. CASE Head(due) # Exited
    <3>1. panel'[s] = [panel[s] EXCEPT !.got = Append(@, Head(due)), !.due = Tail(@)]
        BY <1>t, <1>6, <2>4 DEF HearFrame, ShellTypeInv
    <3>2. /\ panel'[s].at = "attached" /\ panel'[s].shell = panel[s].shell
          /\ panel'[s].told = panel[s].told /\ panel'[s].due = Tail(due)
          /\ panel'[s].got = Append(panel[s].got, Head(due))
        BY <2>1, <3>1 DEF Socket
    <3>3. panel[s].got \in Seq(Nat) /\ due \in Seq(Nat)
        BY <2>1 DEF Socket
    <3>4. Stream(s)' = Stream(s)
        BY <2>1, <3>2, <3>3, HeardStream DEF Stream
    <3>5. Shown(s)'
        BY <1>q, <2>1, <3>2, <3>4 DEF Shown
    <3>6. QuietInv'
        BY <1>q, <2>1, <3>2 DEF QuietInv
    <3> QED
        BY <1>t, <2>2, <3>5, <3>6 DEF PanelInv
  <2> QED
      BY <2>3, <2>4
<1>7. ASSUME NEW s \in Panel, LookAway(s) PROVE PanelInv'
  <2>1. /\ \A t \in Panel \ {s} : panel'[t] = panel[t]
        /\ panel'[s].at = "away" /\ UNCHANGED shell
      BY <1>t, <1>7 DEF LookAway, Away, ShellTypeInv
  <2>2. \A t \in Panel : Shown(t)'
    <3>1. ASSUME NEW t \in Panel \ {s} PROVE Shown(t)'
        BY <1>q, <2>1, ShownStays
    <3>2. Shown(s)'
        BY <2>1 DEF Shown
    <3> QED
        BY <3>1, <3>2
  <2>3. QuietInv'
      BY <1>t, <1>q, <1>0, <1>7 DEF LookAway, QuietInv, Away, ShellTypeInv
  <2> QED
      BY <1>t, <2>2, <2>3 DEF PanelInv
<1>8. ASSUME NEW i \in Shell, Write(i) PROVE PanelInv'
  <2>1. /\ panel' = Sent(i, shell[i].wrote + 1) /\ shell[i].wrote + 1 \in Nat
        /\ shell[i].wrote \in Nat /\ shell[i].pump # "over"
        /\ shell'[i].wrote = shell[i].wrote + 1
        /\ \A k \in Shell \ {i} : shell'[k] = shell[k]
        /\ UNCHANGED <<sessions, started>>
      BY <1>t, <1>8 DEF Write, ShellTypeInv, Exited
  <2>2. \A s \in Panel : panel'[s].at = panel[s].at /\ panel'[s].shell = panel[s].shell
      BY <1>t, <2>1, SentType
  <2>3. ASSUME NEW s \in Panel, panel[s].at = "attached", ~panel'[s].told PROVE Shown(s)'
    <3>1. /\ ~panel[s].told /\ (panel[s].shell # i => panel'[s] = panel[s])
          /\ (panel[s].shell = i => Stream(s)' = Append(Stream(s), shell[i].wrote + 1))
        BY <1>t, <2>1, <2>3, SentStream
    <3>2. CASE panel[s].shell # i
      <4>1. panel[s].shell \in Shell \ {i}
          BY <1>0, <2>3, <3>2
      <4> QED
          BY <1>q, <2>1, <3>1, <3>2, <4>1, ShownStays
    <3>3. CASE panel[s].shell = i
      <4>1. Whole(Stream(s), shell[i].wrote) /\ Endless(Stream(s))
          BY <1>q, <2>1, <2>3, <3>1, <3>3 DEF Shown
      <4>2. Stream(s) \in Seq(Nat)
          BY <1>t, ConcatProperties DEF ShellTypeInv, Socket, Stream
      <4>3. /\ Whole(Append(Stream(s), shell[i].wrote + 1), shell[i].wrote + 1)
            /\ Endless(Append(Stream(s), shell[i].wrote + 1))
          BY <2>1, <4>1, <4>2, WholeGrows
      <4> QED
          BY <2>1, <2>2, <3>1, <3>3, <4>3 DEF Shown
    <3> QED
        BY <3>2, <3>3
  <2>4. \A s \in Panel : Shown(s)'
      BY <2>2, <2>3 DEF Shown
  <2>5. QuietInv'
    <3>1. ASSUME NEW s \in Panel, panel[s].at # "attached" PROVE panel'[s] = panel[s]
        BY <2>1, <3>1 DEF Sent
    <3> QED
        BY SMTT(60), <1>q, <2>1, <2>2, <3>1 DEF QuietInv
  <2> QED
      BY <1>t, <2>4, <2>5 DEF PanelInv
<1>9. ASSUME NEW i \in Shell, ShellEnds(i) PROVE PanelInv'
  <2>1. /\ \A k \in Shell : /\ shell'[k].wrote = shell[k].wrote
                            /\ shell'[k].pump # "over" => shell[k].pump # "over"
        /\ UNCHANGED <<started, panel>> /\ (sessions' = sessions \/ sessions' = 0)
      BY <1>t, <1>9 DEF ShellEnds, ShellTypeInv
  <2>2. ASSUME NEW s \in Panel PROVE Shown(s)'
      BY <1>q, <1>0, <2>1, ShownStays
  <2>3. QuietInv'
      BY <1>q, <1>0, <2>1 DEF QuietInv
  <2> QED
      BY <1>t, <2>2, <2>3 DEF PanelInv
<1>10. ASSUME NEW i \in Shell, PumpForgets(i) PROVE PanelInv'
  <2>1. /\ \A k \in Shell : /\ shell'[k].wrote = shell[k].wrote
                            /\ shell'[k].pump # "over" => shell[k].pump # "over"
        /\ UNCHANGED <<started, panel>> /\ (sessions' = sessions \/ sessions' = 0)
      BY <1>t, <1>10 DEF PumpForgets, Forget, ShellTypeInv
  <2>2. ASSUME NEW s \in Panel PROVE Shown(s)'
      BY <1>q, <1>0, <2>1, ShownStays
  <2>3. QuietInv'
      BY <1>q, <1>0, <2>1 DEF QuietInv
  <2> QED
      BY <1>t, <2>2, <2>3 DEF PanelInv
<1>11. ASSUME NEW i \in Shell, PumpTells(i) PROVE PanelInv'
  <2>1. /\ panel' = Sent(i, Exited) /\ Exited \in Nat
        /\ shell[i].wrote \in Nat /\ shell[i].pump # "over"
        /\ shell'[i].wrote = shell[i].wrote /\ shell'[i].pump = "over"
        /\ \A k \in Shell \ {i} : shell'[k] = shell[k]
        /\ UNCHANGED <<sessions, started>>
      BY <1>t, <1>11 DEF PumpTells, ShellTypeInv, Exited
  <2>2. \A s \in Panel : panel'[s].at = panel[s].at /\ panel'[s].shell = panel[s].shell
      BY <1>t, <2>1, SentType
  <2>3. ASSUME NEW s \in Panel, panel[s].at = "attached", ~panel'[s].told PROVE Shown(s)'
    <3>1. /\ ~panel[s].told /\ (panel[s].shell # i => panel'[s] = panel[s])
          /\ (panel[s].shell = i => Stream(s)' = Append(Stream(s), Exited))
        BY <1>t, <2>1, <2>3, SentStream
    <3>2. CASE panel[s].shell # i
      <4>1. panel[s].shell \in Shell \ {i}
          BY <1>0, <2>3, <3>2
      <4> QED
          BY <1>q, <2>1, <3>1, <3>2, <4>1, ShownStays
    <3>3. CASE panel[s].shell = i
      <4>1. Whole(Stream(s), shell[i].wrote) /\ Endless(Stream(s))
          BY <1>q, <2>1, <2>3, <3>1, <3>3 DEF Shown
      <4>2. Stream(s) \in Seq(Nat)
          BY <1>t, ConcatProperties DEF ShellTypeInv, Socket, Stream
      <4>3. Whole(Append(Stream(s), Exited), shell[i].wrote)
          BY <2>1, <4>1, <4>2, WholeGrows
      <4> QED
          BY <2>1, <2>2, <3>1, <3>3, <4>3 DEF Shown
    <3> QED
        BY <3>2, <3>3
  <2>4. \A s \in Panel : Shown(s)'
      BY <2>2, <2>3 DEF Shown
  <2>5. QuietInv'
    <3>1. ASSUME NEW s \in Panel, panel[s].at # "attached" PROVE panel'[s] = panel[s]
        BY <2>1, <3>1 DEF Sent
    <3> QED
        BY SMTT(60), <1>q, <2>1, <2>2, <3>1 DEF QuietInv
  <2> QED
      BY <1>t, <2>4, <2>5 DEF PanelInv
<1>12. CASE ShutdownShell
  <2>1. /\ \A k \in Shell : /\ shell'[k].wrote = shell[k].wrote
                            /\ shell'[k].pump # "over" => shell[k].pump # "over"
        /\ UNCHANGED <<started, panel>> /\ (sessions' = sessions \/ sessions' = 0)
      BY <1>t, <1>12 DEF ShutdownShell, ShellTypeInv
  <2>2. ASSUME NEW s \in Panel PROVE Shown(s)'
      BY <1>q, <1>0, <2>1, ShownStays
  <2>3. QuietInv'
      BY <1>q, <1>0, <2>1 DEF QuietInv
  <2> QED
      BY <1>t, <2>2, <2>3 DEF PanelInv
<1>13. CASE UNCHANGED tvars
  <2>1. UNCHANGED <<sessions, started, shell, panel>>
      BY <1>13 DEF tvars
  <2>2. ASSUME NEW s \in Panel PROVE Shown(s)'
      BY <1>q, <2>1, ShownStays
  <2>3. QuietInv'
      BY <1>q, <2>1 DEF QuietInv
  <2> QED
      BY <1>t, <2>2, <2>3 DEF PanelInv
<1> QED
    BY <1>1, <1>2, <1>3, <1>4, <1>5, <1>6, <1>7, <1>8, <1>9, <1>10, <1>11,
       <1>12, <1>13 DEF TNext

(* What an attached panel shows, and what is on its way to it, is a stretch *)
(* of the shell's output with nothing missing and nothing twice, up to the *)
(* newest or to the end, unless it fell behind and was told so             *)
(* (terminal.rs).                                                          *)
THEOREM PanelsMissNothing == TSpec => []PanelMissesNothing
<1>1. TInit => PanelInv
  <2>1. TInit => QuietInv /\ \A s \in Panel : Shown(s)
      BY DEF TInit, QuietInv, Shown, Away
  <2> QED
      BY <2>1, ShellTypeInit DEF PanelInv
<1>2. PanelInv /\ [TNext]_tvars => PanelInv'
    BY PanelNext
<1>3. PanelInv => PanelMissesNothing
    BY DEF PanelInv, PanelMissesNothing, Shown
<1> QED
    BY <1>1, <1>2, <1>3, PTL DEF TSpec

-----------------------------------------------------------------------------
(* The files he edits.                                                     *)

Mode == {"notes", "edit"}

PanelOf ==
    [path : File \cup {NoFile}, mode : Mode, opened : BOOLEAN,
     text : DText, stamp : DText, buffer : DText, stash : [File -> DText],
     restored : BOOLEAN, fetching : BOOLEAN, fetched : DText,
     asked : File \cup {NoFile}, acts : Nat]

CallOf ==
    [kind : {"save", "delete", "none"}, at : {"sent", "checked", "written", "landed", "done"},
     file : File \cup {NoFile}, text : DText, stamp : DText, restored : BOOLEAN]

EditorTypeInv ==
    /\ files \in [File -> DText] /\ temps \in [File -> DText]
    /\ court \in [at : {"idle", "read", "written"}, file : File \cup {NoFile},
                  text : DText, count : Nat]
    /\ court.at # "idle" => court.file \in File
    /\ editor \in PanelOf /\ calls \in Seq(CallOf)

(* What is fetched or edited is a file's, and what is called for too.      *)
NamedInv ==
    /\ editor.mode = "edit" \/ editor.fetching => editor.path \in File
    /\ editor.fetching => editor.asked \in File
    /\ \A i \in DOMAIN calls : calls[i].at # "done" => calls[i].file \in File

(* The King has seen the court's work in what he types; and in the text he *)
(* opened, unless what he types came back from the stash.                  *)
TypedInv ==
    /\ editor.buffer.court \subseteq seen
    /\ editor.stamp.court \subseteq seen \cup editor.text.court
    /\ ~editor.restored \/ ~editor.opened => editor.stamp.court \subseteq seen

(* The same of what he sent away.                                          *)
SentInv ==
    \A i \in DOMAIN calls :
        /\ calls[i].text.court \subseteq seen
        /\ ~calls[i].restored => calls[i].stamp.court \subseteq seen

EditorInv == EditorTypeInv /\ NamedInv /\ TypedInv /\ SentInv /\ StampsGuardTheWork

LEMMA TextFacts ==
    /\ Absent \in DText /\ Absent.court = {}
    /\ \A f \in File : Born(f) \in DText
    /\ Done \in CallOf /\ Done.at = "done" /\ Done.text.court = {} /\ Done.stamp.court = {}
<1>1. 0 \in 0 .. MaxTyped /\ {} \in SUBSET (1 .. MaxPatches)
    BY EditorsAssumption
<1>2. Absent \in DText /\ Absent.court = {}
    BY <1>1 DEF Absent, DText
<1>3. \A f \in File : Born(f) \in DText
    BY <1>2 DEF Born, DText
<1> QED
    BY <1>2, <1>3 DEF Done, CallOf

LEMMA CallChanges ==
    ASSUME EditorTypeInv, NEW i \in DOMAIN calls, NEW c \in CallOf
    PROVE  /\ [calls EXCEPT ![i] = c] \in Seq(CallOf)
           /\ DOMAIN [calls EXCEPT ![i] = c] = DOMAIN calls
           /\ [calls EXCEPT ![i] = c][i] = c
           /\ \A j \in DOMAIN calls \ {i} : [calls EXCEPT ![i] = c][j] = calls[j]
BY DEF EditorTypeInv

(* The call is taken on by one step, or is done with.                      *)
LEMMA CallGoes ==
    ASSUME EditorTypeInv, NEW i \in DOMAIN calls, calls[i].at # "done",
           NEW at \in {"checked", "written", "landed"}, Goes(i, at)
    PROVE  /\ calls' \in Seq(CallOf) /\ DOMAIN calls' = DOMAIN calls
           /\ calls'[i] = [calls[i] EXCEPT !.at = at]
           /\ \A j \in DOMAIN calls \ {i} : calls'[j] = calls[j]
<1> DEFINE c == [calls[i] EXCEPT !.at = at]
<1>1. calls[i] \in CallOf
    BY DEF EditorTypeInv
<1>2. c \in CallOf
    BY <1>1 DEF CallOf
<1>3. calls' = [calls EXCEPT ![i] = c]
    BY DEF Goes
<1> HIDE DEF c
<1> QED
    BY <1>2, <1>3, CallChanges DEF c

LEMMA CallEnds ==
    ASSUME EditorTypeInv, NEW i \in DOMAIN calls, Ends(i)
    PROVE  /\ calls' \in Seq(CallOf) /\ DOMAIN calls' = DOMAIN calls
           /\ calls'[i] = Done
           /\ \A j \in DOMAIN calls \ {i} : calls'[j] = calls[j]
BY CallChanges, TextFacts DEF Ends

LEMMA CallFacts ==
    ASSUME EditorTypeInv, NEW i \in DOMAIN calls
    PROVE  /\ calls[i].text \in DText /\ calls[i].stamp \in DText
           /\ calls[i].restored \in BOOLEAN
           /\ calls[i].at \in {"sent", "checked", "written", "landed", "done"}
           /\ calls[i].file \in File \cup {NoFile}
<1>1. calls[i] \in CallOf
    BY DEF EditorTypeInv
<1> QED
    BY <1>1 DEF CallOf

(* What is checked is what the call was made of, and so passes as it is.   *)
LEMMA CheckedCall ==
    ASSUME EditorTypeInv, NEW i \in DOMAIN calls, Check(i)
    PROVE  /\ calls' \in Seq(CallOf) /\ DOMAIN calls' = DOMAIN calls
           /\ calls'[i] \in {Done, [calls[i] EXCEPT !.at = "checked"]}
           /\ \A j \in DOMAIN calls \ {i} : calls'[j] = calls[j]
<1>1. CASE files[calls[i].file] = calls[i].stamp
  <2>1. calls[i] \in CallOf
      BY DEF EditorTypeInv
  <2>2. calls' = [calls EXCEPT ![i] = [calls[i] EXCEPT !.at = "checked",
                                                        !.stamp = calls[i].stamp]]
      BY <1>1 DEF Check, Passes
  <2>3. [calls[i] EXCEPT !.at = "checked", !.stamp = calls[i].stamp] =
        [calls[i] EXCEPT !.at = "checked"]
      BY <2>1 DEF CallOf
  <2>4. [calls[i] EXCEPT !.at = "checked"] \in CallOf
      BY <2>1 DEF CallOf
  <2> QED
      BY <2>2, <2>3, <2>4, CallChanges
<1>2. CASE files[calls[i].file] # calls[i].stamp
    BY <1>2, CallEnds DEF Check
<1> QED
    BY <1>1, <1>2

LEMMA EditorTypeNext == EditorInv /\ [DNext]_dvars => EditorTypeInv'
<1> SUFFICES ASSUME EditorInv, [DNext]_dvars
             PROVE  EditorTypeInv'
    OBVIOUS
<1>0. editor.acts + 1 \in Nat
    BY DEF EditorInv, EditorTypeInv, PanelOf
<1> USE <1>0, TextFacts DEF EditorInv, EditorTypeInv, NamedInv
<1>1. ASSUME NEW f \in File, PatchReads(f) PROVE EditorTypeInv'
  <2> DEFINE n == court.count + 1
             text == [files[f] EXCEPT !.of = f, !.court = @ \cup {n}]
  <2>1. n \in Nat /\ n \in 1 .. MaxPatches
      BY <1>1, EditorsAssumption DEF PatchReads
  <2>2. files[f] \in DText
      OBVIOUS
  <2>3. text \in DText
      BY <2>1, <2>2 DEF DText
  <2>4. court' = [at |-> "read", file |-> f, count |-> n, text |-> text]
      BY <1>1 DEF PatchReads
  <2>5. UNCHANGED <<files, temps, editor, calls>>
      BY <1>1 DEF PatchReads
  <2> HIDE DEF n, text
  <2> QED
      BY <2>1, <2>3, <2>4, <2>5
<1>2. ASSUME NEW f \in File, Show(f) PROVE EditorTypeInv'
  <2>1. editor' \in PanelOf
    <3>1. Stashed \in [File -> DText]
        BY DEF Stashed, PanelOf
    <3> QED
        BY <1>2, <3>1 DEF Show, PanelOf, Mode
  <2>2. UNCHANGED <<files, temps, court, calls>>
      BY <1>2 DEF Show
  <2> QED
      BY <2>1, <2>2
<1>3. CASE PatchWrites
    BY SMTT(60), <1>3 DEF PatchWrites, Beside, Over, Resting
<1>4. CASE Close
  <2>1. editor' \in PanelOf
    <3>1. [f \in File |-> Absent] \in [File -> DText]
        OBVIOUS
    <3> QED
        BY <1>4, <3>1 DEF Close, Unmounted, PanelOf, Mode
  <2>2. UNCHANGED <<files, temps, court, calls>>
      BY <1>4 DEF Close
  <2> QED
      BY <2>1, <2>2
<1>5. CASE LookAgain
    BY <1>5 DEF LookAgain
<1>6. CASE BeginEdit
  <2>1. editor' \in PanelOf
    <3>1. editor.path \in File /\ files[editor.path] \in DText
        BY <1>6 DEF BeginEdit, PanelOf
    <3> QED
        BY <1>6, <3>1 DEF BeginEdit, PanelOf
  <2>2. UNCHANGED <<files, temps, court, calls>>
      BY <1>6 DEF BeginEdit
  <2> QED
      BY <2>1, <2>2
<1>7. CASE EditBegins
  <2>1. editor' \in PanelOf
    <3> DEFINE buffer == IF editor.stash[editor.asked] # Absent
                         THEN editor.stash[editor.asked] ELSE editor.fetched
    <3>1. editor.stash[editor.asked] \in DText /\ buffer \in DText
        BY <1>7 DEF EditBegins, PanelOf
    <3>2. CASE editor.fetched = Absent
      <4>1. editor' = [editor EXCEPT !.fetching = FALSE, !.fetched = Absent, !.asked = NoFile]
          BY <1>7, <3>2 DEF EditBegins
      <4> QED
          BY <4>1 DEF PanelOf
    <3>3. CASE editor.fetched # Absent
      <4>1. editor' = [editor EXCEPT !.fetching = FALSE, !.fetched = Absent, !.asked = NoFile,
                        !.mode = "edit", !.opened = TRUE, !.text = editor.fetched,
                        !.stamp = editor.fetched, !.buffer = buffer,
                        !.restored = editor.stash[editor.asked] # Absent]
          BY <1>7, <3>3 DEF EditBegins
      <4> HIDE DEF buffer
      <4> QED
          BY ZenonT(60), <3>1, <4>1 DEF PanelOf, Mode
    <3> QED
        BY <3>2, <3>3
  <2>2. UNCHANGED <<files, temps, court, calls>>
      BY <1>7 DEF EditBegins
  <2> QED
      BY <2>1, <2>2
<1>8. CASE Type
  <2>1. editor' \in PanelOf
    <3>1. PICK n \in (1 .. MaxTyped) \ {editor.buffer.king} :
             editor' = [editor EXCEPT !.buffer.king = n]
        BY <1>8 DEF Type
    <3>2. n \in 0 .. MaxTyped /\ editor.buffer \in DText
        BY EditorsAssumption DEF PanelOf
    <3>3. [editor.buffer EXCEPT !.king = n] \in DText
        BY <3>2 DEF DText
    <3> QED
        BY <3>1, <3>3 DEF PanelOf
  <2>2. UNCHANGED <<files, temps, court, calls>>
      BY <1>8 DEF Type
  <2> QED
      BY <2>1, <2>2
<1>9. CASE Revert
    BY <1>9 DEF Revert, PanelOf
<1>10. CASE LeaveEdit
    BY <1>10 DEF LeaveEdit, PanelOf, Mode, Stashed
<1>11. CASE Save
  <2>1. Press("save")
      BY <1>11 DEF Save
  <2> DEFINE c == [kind |-> "save", at |-> "sent", file |-> editor.path, text |-> editor.buffer,
                   stamp |-> editor.stamp, restored |-> editor.restored]
  <2>2. editor' \in PanelOf /\ UNCHANGED <<files, temps, court>>
      BY <2>1 DEF Press, PanelOf
  <2>3. c \in CallOf
      BY DEF CallOf, PanelOf
  <2>4. calls' \in Seq(CallOf)
      BY <2>1, <2>3 DEF Press
  <2> QED
      BY <2>2, <2>4
<1>12. CASE Delete
  <2>1. Press("delete")
      BY <1>12 DEF Delete
  <2> DEFINE c == [kind |-> "delete", at |-> "sent", file |-> editor.path, text |-> editor.buffer,
                   stamp |-> editor.stamp, restored |-> editor.restored]
  <2>2. editor' \in PanelOf /\ UNCHANGED <<files, temps, court>>
      BY <2>1 DEF Press, PanelOf
  <2>3. c \in CallOf
      BY DEF CallOf, PanelOf
  <2>4. calls' \in Seq(CallOf)
      BY <2>1, <2>3 DEF Press
  <2> QED
      BY <2>2, <2>4
<1>13. ASSUME NEW i \in DOMAIN calls, Check(i) PROVE EditorTypeInv'
  <2>1. calls' \in Seq(CallOf)
      BY <1>13, CheckedCall
  <2> QED
      BY <1>13, <2>1 DEF Check
<1>14. ASSUME NEW i \in DOMAIN calls, WriteOver(i) PROVE EditorTypeInv'
  <2> DEFINE c == calls[i]
  <2>1. c.kind = "save" /\ c.at # "done" /\ c.file \in File /\ c.text \in DText
      BY <1>14, CallFacts DEF WriteOver
  <2>2. calls' \in Seq(CallOf)
      BY <1>14, <2>1, CallGoes, CallEnds DEF WriteOver
  <2>3. temps[c.file] \in DText
      BY <2>1
  <2>4. files' \in [File -> DText] /\ temps' \in [File -> DText]
      BY <1>14, <2>1, <2>3 DEF WriteOver, Beside, Over
  <2> QED
      BY <1>14, <2>2, <2>4 DEF WriteOver
<1>15. ASSUME NEW i \in DOMAIN calls, Unlink(i) PROVE EditorTypeInv'
  <2>1. calls' \in Seq(CallOf)
      BY <1>15, CallGoes, CallEnds DEF Unlink
  <2>2. files' \in [File -> DText]
      BY <1>15 DEF Unlink
  <2> QED
      BY <1>15, <2>1, <2>2 DEF Unlink
<1>16. ASSUME NEW i \in DOMAIN calls, Saved(i) PROVE EditorTypeInv'
  <2>1. calls' \in Seq(CallOf)
      BY <1>16, CallEnds DEF Saved
  <2>2. calls[i].text \in DText
      BY CallFacts
  <2>3. editor' \in PanelOf
      BY <1>16, <2>2 DEF Saved, PanelOf
  <2> QED
      BY <1>16, <2>1, <2>3 DEF Saved
<1>17. ASSUME NEW i \in DOMAIN calls, Deleted(i) PROVE EditorTypeInv'
  <2>1. calls' \in Seq(CallOf)
      BY <1>17, CallEnds DEF Deleted
  <2>2. [f \in File |-> Absent] \in [File -> DText]
      OBVIOUS
  <2>3. editor' \in PanelOf
      BY <1>17, <2>2 DEF Deleted, Unmounted, PanelOf, Mode
  <2> QED
      BY <1>17, <2>1, <2>3 DEF Deleted
<1>18. CASE UNCHANGED dvars
    BY <1>18 DEF dvars
<1> QED
    BY <1>1, <1>2, <1>3, <1>4, <1>5, <1>6, <1>7, <1>8, <1>9, <1>10, <1>11,
       <1>12, <1>13, <1>14, <1>15, <1>16, <1>17, <1>18 DEF DNext

LEMMA CallsFollow ==
    ASSUME EditorInv, UNCHANGED <<editor, seen>>, NEW i \in DOMAIN calls,
           calls[i].at # "done", DOMAIN calls' = DOMAIN calls,
           \A j \in DOMAIN calls \ {i} : calls'[j] = calls[j],
           calls'[i] = Done \/ \E at : calls'[i] = [calls[i] EXCEPT !.at = at]
    PROVE  NamedInv' /\ TypedInv' /\ SentInv'
<1>1. calls[i] \in CallOf
    BY DEF EditorInv, EditorTypeInv
<1>2. \/ calls'[i].at = "done" /\ calls'[i].text.court = {} /\ calls'[i].stamp.court = {}
      \/ /\ calls'[i].text = calls[i].text /\ calls'[i].stamp = calls[i].stamp
         /\ calls'[i].file = calls[i].file /\ calls'[i].restored = calls[i].restored
  <2>1. CASE calls'[i] = Done
      BY <2>1, TextFacts
  <2>2. CASE \E at : calls'[i] = [calls[i] EXCEPT !.at = at]
      BY <1>1, <2>2 DEF CallOf
  <2> QED
      BY <2>1, <2>2
<1> USE <1>2 DEF EditorInv
<1>3. NamedInv'
    BY DEF NamedInv
<1>4. TypedInv'
    BY DEF TypedInv
<1>5. SentInv'
    BY DEF SentInv
<1> QED
    BY <1>3, <1>4, <1>5

(* What is written over as it was stamped has been seen.                   *)
LEMMA FreshDoesNoHarm ==
    ASSUME EditorInv, NEW i \in DOMAIN calls, NEW kept, Harmed(calls[i], kept)
    PROVE  StampsGuardTheWork'
<1>1. CASE calls[i].restored
    BY <1>1 DEF Harmed, EditorInv, StampsGuardTheWork
<1>2. CASE ~calls[i].restored
    BY <1>2 DEF Harmed, Unseen, EditorInv, SentInv, StampsGuardTheWork
<1> QED
    BY <1>1, <1>2

LEMMA EditorNext == EditorInv /\ [DNext]_dvars => EditorInv'
<1> SUFFICES ASSUME EditorInv, [DNext]_dvars
             PROVE  (NamedInv /\ TypedInv /\ SentInv /\ StampsGuardTheWork)'
    BY EditorTypeNext DEF EditorInv
<1>t. EditorTypeInv'
    BY EditorTypeNext
<1>f. UNCHANGED <<editor, calls, seen, harm>> =>
          (NamedInv /\ TypedInv /\ SentInv /\ StampsGuardTheWork)'
    BY DEF EditorInv, NamedInv, TypedInv, SentInv, StampsGuardTheWork
<1>e. editor \in PanelOf /\ \A i \in DOMAIN calls : calls[i] \in CallOf
    BY DEF EditorInv, EditorTypeInv
<1> USE TextFacts DEF EditorInv
<1>1. ASSUME NEW f \in File, PatchReads(f)
      PROVE  (NamedInv /\ TypedInv /\ SentInv /\ StampsGuardTheWork)'
  <2>1. UNCHANGED <<editor, calls, seen, harm>>
      BY <1>1 DEF PatchReads
  <2> QED
      BY <2>1, <1>f
<1>2. ASSUME NEW f \in File, Show(f)
      PROVE  (NamedInv /\ TypedInv /\ SentInv /\ StampsGuardTheWork)'
  <2>1. UNCHANGED <<calls, harm>>
      BY <1>2 DEF Show
  <2>2. NamedInv'
      BY <1>e, <1>2, <2>1 DEF Show, NamedInv, PanelOf
  <2>3. TypedInv'
      BY <1>e, <1>2, <2>1 DEF Show, TypedInv, PanelOf
  <2>4. SentInv' /\ StampsGuardTheWork'
      BY <1>e, <1>2, <2>1 DEF Show, SentInv, StampsGuardTheWork
  <2> QED
      BY <2>2, <2>3, <2>4
<1>3. CASE PatchWrites
  <2>1. UNCHANGED <<editor, calls, seen, harm>>
      BY <1>3 DEF PatchWrites
  <2> QED
      BY <2>1, <1>f
<1>4. CASE Close
  <2>1. UNCHANGED <<calls, harm>>
      BY <1>4 DEF Close
  <2>2. NamedInv'
      BY <1>e, <1>4, <2>1 DEF Close, NamedInv, Unmounted
  <2>3. TypedInv'
      BY <1>e, <1>4, <2>1 DEF Close, TypedInv, Unmounted
  <2>4. SentInv' /\ StampsGuardTheWork'
      BY <1>e, <1>4, <2>1 DEF Close, SentInv, StampsGuardTheWork
  <2> QED
      BY <2>2, <2>3, <2>4
<1>5. CASE LookAgain
  <2>1. UNCHANGED <<calls, harm>>
      BY <1>5 DEF LookAgain
  <2>2. NamedInv'
      BY <1>e, <1>5, <2>1 DEF LookAgain, NamedInv
  <2>3. TypedInv'
      BY <1>e, <1>5, <2>1 DEF LookAgain, TypedInv
  <2>4. SentInv' /\ StampsGuardTheWork'
      BY <1>e, <1>5, <2>1 DEF LookAgain, SentInv, StampsGuardTheWork
  <2> QED
      BY <2>2, <2>3, <2>4
<1>6. CASE BeginEdit
  <2>1. UNCHANGED <<calls, harm>>
      BY <1>6 DEF BeginEdit
  <2>2. NamedInv'
      BY <1>e, <1>6, <2>1 DEF BeginEdit, NamedInv, PanelOf
  <2>3. TypedInv'
      BY <1>e, <1>6, <2>1 DEF BeginEdit, TypedInv, PanelOf
  <2>4. SentInv' /\ StampsGuardTheWork'
      BY <1>e, <1>6, <2>1 DEF BeginEdit, SentInv, StampsGuardTheWork
  <2> QED
      BY <2>2, <2>3, <2>4
<1>7. CASE EditBegins
  <2>1. editor.fetching /\ UNCHANGED <<calls, harm>>
      BY <1>7 DEF EditBegins
  <2>2. CASE editor.fetched = Absent
    <3>1. editor' = [editor EXCEPT !.fetching = FALSE, !.fetched = Absent, !.asked = NoFile]
        BY <1>7, <2>2 DEF EditBegins
    <3>2. /\ editor'.path = editor.path /\ editor'.mode = editor.mode /\ ~editor'.fetching
          /\ editor'.opened = editor.opened /\ editor'.restored = editor.restored
          /\ editor'.buffer = editor.buffer /\ editor'.text = editor.text
          /\ editor'.stamp = editor.stamp
        BY <1>e, <3>1 DEF PanelOf
    <3>3. seen' = seen
        BY <1>7, <2>2 DEF EditBegins
    <3> QED
        BY <2>1, <3>2, <3>3 DEF NamedInv, TypedInv, SentInv, StampsGuardTheWork
  <2>3. CASE editor.fetched # Absent
    <3> DEFINE buffer == IF editor.stash[editor.asked] # Absent
                         THEN editor.stash[editor.asked] ELSE editor.fetched
    <3>1. editor' = [editor EXCEPT !.fetching = FALSE, !.fetched = Absent, !.asked = NoFile,
                      !.mode = "edit", !.opened = TRUE, !.text = editor.fetched,
                      !.stamp = editor.fetched, !.buffer = buffer,
                      !.restored = editor.stash[editor.asked] # Absent]
        BY <1>7, <2>3 DEF EditBegins
    <3>2. seen' = seen \cup buffer.court
        BY <1>7, <2>3 DEF EditBegins
    <3>3. ~(editor.stash[editor.asked] # Absent) => buffer = editor.fetched
        OBVIOUS
    <3> HIDE DEF buffer
    <3>4. /\ editor'.path = editor.path /\ ~editor'.fetching /\ editor'.opened
          /\ editor'.restored = (editor.stash[editor.asked] # Absent)
          /\ editor'.buffer = buffer /\ editor'.text = editor.fetched
          /\ editor'.stamp = editor.fetched
        BY <1>e, <3>1 DEF PanelOf
    <3>5. NamedInv'
        BY <2>1, <3>4 DEF NamedInv
    <3>6. TypedInv'
        BY <3>2, <3>3, <3>4 DEF TypedInv
    <3>7. SentInv' /\ StampsGuardTheWork'
        BY <2>1, <3>2 DEF SentInv, StampsGuardTheWork
    <3> QED
        BY <3>5, <3>6, <3>7
  <2> QED
      BY <2>2, <2>3
<1>8. CASE Type
  <2>1. UNCHANGED <<calls, harm>>
      BY <1>8 DEF Type
  <2>2. NamedInv'
      BY <1>e, <1>8, <2>1 DEF Type, NamedInv, PanelOf
  <2>3. TypedInv'
      BY <1>e, <1>8, <2>1 DEF Type, TypedInv, PanelOf, DText
  <2>4. SentInv' /\ StampsGuardTheWork'
      BY <1>e, <1>8, <2>1 DEF Type, SentInv, StampsGuardTheWork
  <2> QED
      BY <2>2, <2>3, <2>4
<1>9. CASE Revert
  <2>1. UNCHANGED <<calls, harm>>
      BY <1>9 DEF Revert
  <2>2. NamedInv'
      BY <1>e, <1>9, <2>1 DEF Revert, NamedInv, PanelOf
  <2>3. TypedInv'
      BY <1>e, <1>9, <2>1 DEF Revert, TypedInv, PanelOf
  <2>4. SentInv' /\ StampsGuardTheWork'
      BY <1>e, <1>9, <2>1 DEF Revert, SentInv, StampsGuardTheWork
  <2> QED
      BY <2>2, <2>3, <2>4
<1>10. CASE LeaveEdit
  <2>1. UNCHANGED <<calls, harm>>
      BY <1>10 DEF LeaveEdit
  <2>2. NamedInv'
      BY <1>e, <1>10, <2>1 DEF LeaveEdit, NamedInv, PanelOf
  <2>3. TypedInv'
      BY <1>e, <1>10, <2>1 DEF LeaveEdit, TypedInv, PanelOf
  <2>4. SentInv' /\ StampsGuardTheWork'
      BY <1>e, <1>10, <2>1 DEF LeaveEdit, SentInv, StampsGuardTheWork
  <2> QED
      BY <2>2, <2>3, <2>4
<1>11. CASE Save
  <2>1. Press("save")
      BY <1>11 DEF Save
  <2> DEFINE c == [kind |-> "save", at |-> "sent", file |-> editor.path, text |-> editor.buffer,
                   stamp |-> editor.stamp, restored |-> editor.restored]
  <2>2. calls' = Append(calls, c) /\ UNCHANGED <<seen, harm>>
      BY <2>1 DEF Press
  <2>3. /\ editor.opened /\ editor.mode = "edit"
        /\ editor'.path = editor.path /\ editor'.mode = editor.mode
        /\ editor'.fetching = editor.fetching /\ editor'.asked = editor.asked
        /\ editor'.opened = editor.opened /\ editor'.restored = editor.restored
        /\ editor'.buffer = editor.buffer /\ editor'.text = editor.text
        /\ editor'.stamp = editor.stamp
      BY <1>e, <2>1 DEF Press, PanelOf
  <2>4. /\ c.file = editor.path /\ c.text = editor.buffer /\ c.stamp = editor.stamp
        /\ c.restored = editor.restored
      OBVIOUS
  <2> HIDE DEF c
  <2>5. ASSUME NEW j \in DOMAIN calls' PROVE j \in DOMAIN calls \/ calls'[j] = c
    <3>1. calls \in Seq(CallOf)
        BY DEF EditorTypeInv
    <3> QED
        BY <2>2, <3>1
  <2>6. ASSUME NEW j \in DOMAIN calls PROVE calls'[j] = calls[j]
    <3>1. calls \in Seq(CallOf)
        BY DEF EditorTypeInv
    <3> QED
        BY <2>2, <3>1
  <2>7. NamedInv'
      BY <2>3, <2>4, <2>5, <2>6 DEF NamedInv
  <2>8. TypedInv'
      BY <2>2, <2>3 DEF TypedInv
  <2>9. SentInv' /\ StampsGuardTheWork'
      BY <2>2, <2>3, <2>4, <2>5, <2>6 DEF SentInv, TypedInv, StampsGuardTheWork
  <2> QED
      BY <2>7, <2>8, <2>9
<1>12. CASE Delete
  <2>1. Press("delete")
      BY <1>12 DEF Delete
  <2> DEFINE c == [kind |-> "delete", at |-> "sent", file |-> editor.path, text |-> editor.buffer,
                   stamp |-> editor.stamp, restored |-> editor.restored]
  <2>2. calls' = Append(calls, c) /\ UNCHANGED <<seen, harm>>
      BY <2>1 DEF Press
  <2>3. /\ editor.opened /\ editor.mode = "edit"
        /\ editor'.path = editor.path /\ editor'.mode = editor.mode
        /\ editor'.fetching = editor.fetching /\ editor'.asked = editor.asked
        /\ editor'.opened = editor.opened /\ editor'.restored = editor.restored
        /\ editor'.buffer = editor.buffer /\ editor'.text = editor.text
        /\ editor'.stamp = editor.stamp
      BY <1>e, <2>1 DEF Press, PanelOf
  <2>4. /\ c.file = editor.path /\ c.text = editor.buffer /\ c.stamp = editor.stamp
        /\ c.restored = editor.restored
      OBVIOUS
  <2> HIDE DEF c
  <2>5. ASSUME NEW j \in DOMAIN calls' PROVE j \in DOMAIN calls \/ calls'[j] = c
    <3>1. calls \in Seq(CallOf)
        BY DEF EditorTypeInv
    <3> QED
        BY <2>2, <3>1
  <2>6. ASSUME NEW j \in DOMAIN calls PROVE calls'[j] = calls[j]
    <3>1. calls \in Seq(CallOf)
        BY DEF EditorTypeInv
    <3> QED
        BY <2>2, <3>1
  <2>7. NamedInv'
      BY <2>3, <2>4, <2>5, <2>6 DEF NamedInv
  <2>8. TypedInv'
      BY <2>2, <2>3 DEF TypedInv
  <2>9. SentInv' /\ StampsGuardTheWork'
      BY <2>2, <2>3, <2>4, <2>5, <2>6 DEF SentInv, TypedInv, StampsGuardTheWork
  <2> QED
      BY <2>7, <2>8, <2>9
<1>13. ASSUME NEW i \in DOMAIN calls, Check(i)
      PROVE  (NamedInv /\ TypedInv /\ SentInv /\ StampsGuardTheWork)'
  <2>1. calls[i].at # "done" /\ UNCHANGED <<editor, seen, harm>>
      BY <1>13 DEF Check
  <2>2. /\ DOMAIN calls' = DOMAIN calls
        /\ calls'[i] \in {Done, [calls[i] EXCEPT !.at = "checked"]}
        /\ \A j \in DOMAIN calls \ {i} : calls'[j] = calls[j]
      BY <1>13, CheckedCall
  <2>3. NamedInv' /\ TypedInv' /\ SentInv'
      BY <2>1, <2>2, CallsFollow
  <2> QED
      BY <2>1, <2>3 DEF StampsGuardTheWork
<1>14. ASSUME NEW i \in DOMAIN calls, WriteOver(i)
      PROVE  (NamedInv /\ TypedInv /\ SentInv /\ StampsGuardTheWork)'
  <2>1. calls[i].at # "done" /\ UNCHANGED <<editor, seen>>
      BY <1>14 DEF WriteOver
  <2>2. /\ DOMAIN calls' = DOMAIN calls
        /\ calls'[i] = Done \/ \E at : calls'[i] = [calls[i] EXCEPT !.at = at]
        /\ \A j \in DOMAIN calls \ {i} : calls'[j] = calls[j]
    <3>1. Ends(i) \/ \E at \in {"checked", "written", "landed"} : Goes(i, at)
        BY <1>14 DEF WriteOver
    <3>2. CASE Ends(i)
        BY <3>2, CallEnds
    <3>3. CASE \E at \in {"checked", "written", "landed"} : Goes(i, at)
        BY <2>1, <3>3, CallGoes
    <3> QED
        BY <3>1, <3>2, <3>3
  <2>3. NamedInv' /\ TypedInv' /\ SentInv'
      BY <2>1, <2>2, CallsFollow
  <2>4. harm' = harm \/ \E kept : Harmed(calls[i], kept)
      BY <1>14 DEF WriteOver
  <2>5. StampsGuardTheWork'
      BY <2>4, FreshDoesNoHarm DEF StampsGuardTheWork
  <2> QED
      BY <2>3, <2>5
<1>15. ASSUME NEW i \in DOMAIN calls, Unlink(i)
      PROVE  (NamedInv /\ TypedInv /\ SentInv /\ StampsGuardTheWork)'
  <2>1. calls[i].at # "done" /\ UNCHANGED <<editor, seen>>
      BY <1>15 DEF Unlink
  <2>2. /\ DOMAIN calls' = DOMAIN calls
        /\ calls'[i] = Done \/ \E at : calls'[i] = [calls[i] EXCEPT !.at = at]
        /\ \A j \in DOMAIN calls \ {i} : calls'[j] = calls[j]
    <3>1. Ends(i) \/ \E at \in {"checked", "written", "landed"} : Goes(i, at)
        BY <1>15 DEF Unlink
    <3>2. CASE Ends(i)
        BY <3>2, CallEnds
    <3>3. CASE \E at \in {"checked", "written", "landed"} : Goes(i, at)
        BY <2>1, <3>3, CallGoes
    <3> QED
        BY <3>1, <3>2, <3>3
  <2>3. NamedInv' /\ TypedInv' /\ SentInv'
      BY <2>1, <2>2, CallsFollow
  <2>4. harm' = harm \/ \E kept : Harmed(calls[i], kept)
      BY <1>15 DEF Unlink
  <2>5. StampsGuardTheWork'
      BY <2>4, FreshDoesNoHarm DEF StampsGuardTheWork
  <2> QED
      BY <2>3, <2>5
<1>16. ASSUME NEW i \in DOMAIN calls, Saved(i)
      PROVE  (NamedInv /\ TypedInv /\ SentInv /\ StampsGuardTheWork)'
  <2>1. /\ DOMAIN calls' = DOMAIN calls /\ calls'[i] = Done
        /\ \A j \in DOMAIN calls \ {i} : calls'[j] = calls[j]
      BY <1>16, CallEnds DEF Saved
  <2>2. UNCHANGED <<seen, harm>>
      BY <1>16 DEF Saved
  <2>3. SentInv' /\ StampsGuardTheWork'
      BY <2>1, <2>2 DEF SentInv, StampsGuardTheWork
  <2>4. NamedInv' /\ TypedInv'
    <3>1. CASE editor.path = NoFile
      <4>1. editor' = editor
          BY <1>16, <3>1 DEF Saved
      <4> QED
          BY <2>1, <2>2, <4>1 DEF NamedInv, TypedInv
    <3>2. CASE editor.path # NoFile
      <4> DEFINE text == IF editor.opened THEN editor.buffer ELSE editor.text
                 stamp == IF editor.opened THEN calls[i].text ELSE editor.stamp
      <4>1. editor' = [editor EXCEPT !.stash[editor.path] = Absent, !.text = text,
                        !.stamp = stamp, !.restored = FALSE]
          BY <1>16, <3>2 DEF Saved
      <4>2. /\ editor'.path = editor.path /\ editor'.mode = editor.mode
            /\ editor'.fetching = editor.fetching /\ editor'.asked = editor.asked
            /\ editor'.opened = editor.opened /\ editor'.buffer = editor.buffer
            /\ editor'.text = text /\ editor'.stamp = stamp
          BY <1>e, <4>1 DEF PanelOf
      <4>3. stamp.court \subseteq seen
          BY DEF SentInv, TypedInv
      <4> HIDE DEF stamp, text
      <4>4. NamedInv'
          BY <2>1, <4>2 DEF NamedInv
      <4> QED
          BY <2>2, <4>2, <4>3, <4>4 DEF TypedInv
    <3> QED
        BY <3>1, <3>2
  <2> QED
      BY <2>3, <2>4
<1>17. ASSUME NEW i \in DOMAIN calls, Deleted(i)
      PROVE  (NamedInv /\ TypedInv /\ SentInv /\ StampsGuardTheWork)'
  <2>1. /\ DOMAIN calls' = DOMAIN calls /\ calls'[i] = Done
        /\ \A j \in DOMAIN calls \ {i} : calls'[j] = calls[j]
      BY <1>17, CallEnds DEF Deleted
  <2>2. UNCHANGED <<seen, harm>>
      BY <1>17 DEF Deleted
  <2>3. SentInv' /\ StampsGuardTheWork'
      BY <2>1, <2>2 DEF SentInv, StampsGuardTheWork
  <2>4. NamedInv' /\ TypedInv'
      BY <1>17, <2>1, <2>2 DEF Deleted, Unmounted, NamedInv, TypedInv
  <2> QED
      BY <2>3, <2>4
<1>18. CASE UNCHANGED dvars
  <2>1. UNCHANGED <<editor, calls, seen, harm>>
      BY <1>18 DEF dvars
  <2> QED
      BY <2>1, <1>f
<1> QED
    BY <1>1, <1>2, <1>3, <1>4, <1>5, <1>6, <1>7, <1>8, <1>9, <1>10, <1>11,
       <1>12, <1>13, <1>14, <1>15, <1>16, <1>17, <1>18 DEF DNext

LEMMA EditorHolds == DSpec => []EditorInv
<1>1. DInit => EditorInv
  <2> SUFFICES ASSUME DInit PROVE EditorInv
      OBVIOUS
  <2>1. [f \in File |-> Absent] \in [File -> DText] /\ [f \in File |-> Born(f)] \in [File -> DText]
      BY TextFacts
  <2>2. Unmounted \in PanelOf
      BY <2>1, TextFacts DEF Unmounted, PanelOf, Mode
  <2>3. EditorTypeInv
      BY <2>1, <2>2, TextFacts DEF DInit, EditorTypeInv, Resting
  <2> QED
      BY <2>3, TextFacts DEF DInit, EditorInv, NamedInv, TypedInv, SentInv, StampsGuardTheWork,
         Unmounted
<1>2. EditorInv /\ [DNext]_dvars => EditorInv'
    BY EditorNext
<1> QED
    BY <1>1, <1>2, PTL DEF DSpec

(* However he turns between files, closes the panel, saves again before he *)
(* is answered or is answered late, a save or a deletion that nobody       *)
(* overtook takes away no work of the court the King was not shown, unless *)
(* what he saved came back from the stash (source_view.rs; edit.rs:20-31). *)
THEOREM SavesRespectTheCourt == DSpec => []StampsGuardTheWork
<1>1. EditorInv => StampsGuardTheWork
    BY DEF EditorInv
<1> QED
    BY <1>1, EditorHolds, PTL


-----------------------------------------------------------------------------
(* Queues.                                                                 *)

Msg == [of : Folk, rev : Nat]

\* The last a queue holds of a plan.
Newest(queue, f, m) ==
    \E i \in DOMAIN queue :
        /\ queue[i] = m /\ m.of = f
        /\ \A j \in DOMAIN queue : j > i => queue[j].of # f

(* Where a queue holds anything of a plan, it holds a last message of it.  *)
LEMMA AppendKeeps ==
    ASSUME NEW queue \in Seq(Msg), NEW msg \in Msg
    PROVE  /\ Append(queue, msg) \in Seq(Msg) /\ Append(queue, msg) # <<>>
           /\ Newest(Append(queue, msg), msg.of, msg) /\ Has(Append(queue, msg), msg.of)
           /\ \A f : f # msg.of =>
                /\ Has(Append(queue, msg), f) <=> Has(queue, f)
                /\ \A m : Newest(queue, f, m) => Newest(Append(queue, msg), f, m)
<1> DEFINE long == Append(queue, msg)
           n == Len(queue) + 1
<1>1. /\ long \in Seq(Msg) /\ Len(queue) \in Nat /\ DOMAIN queue = 1 .. Len(queue)
      /\ DOMAIN long = 1 .. n /\ long[n] = msg
      /\ \A i \in 1 .. Len(queue) : long[i] = queue[i]
    OBVIOUS
<1>2. /\ n \in 1 .. n /\ \A i \in 1 .. n : i = n \/ i \in 1 .. Len(queue)
      /\ \A i \in 1 .. Len(queue) : i \in 1 .. n /\ ~(n < i)
      /\ \A i \in 1 .. n : ~(i > n)
    BY <1>1
<1> HIDE DEF long, n
<1>3. long # <<>>
    BY <1>1, <1>2
<1>4. Newest(long, msg.of, msg) /\ Has(long, msg.of)
    BY <1>1, <1>2 DEF Newest, Has
<1>5. ASSUME NEW f, f # msg.of PROVE Has(long, f) <=> Has(queue, f)
    BY <1>1, <1>2, <1>5 DEF Has
<1>6. ASSUME NEW f, f # msg.of, NEW m, Newest(queue, f, m) PROVE Newest(long, f, m)
  <2>1. PICK i \in 1 .. Len(queue) :
            /\ queue[i] = m /\ m.of = f
            /\ \A j \in 1 .. Len(queue) : j > i => queue[j].of # f
      BY <1>1, <1>6 DEF Newest
  <2>2. \A j \in 1 .. n : j > i => long[j].of # f
      BY <1>1, <1>2, <1>6, <2>1
  <2> QED
      BY <1>1, <1>2, <2>1, <2>2 DEF Newest
<1> QED
    BY <1>1, <1>3, <1>4, <1>5, <1>6 DEF long

(* The oldest message gone, the last of a plan is what it was, or was that.*)
LEMMA TailKeeps ==
    ASSUME NEW queue \in Seq(Msg), queue # <<>>
    PROVE  /\ Tail(queue) \in Seq(Msg) /\ Head(queue) \in Msg
           /\ \A f : /\ Has(Tail(queue), f) => Has(queue, f)
                     /\ Has(queue, f) /\ Head(queue).of # f => Has(Tail(queue), f)
                     /\ \A m : Newest(queue, f, m) =>
                          IF Has(Tail(queue), f) THEN Newest(Tail(queue), f, m)
                          ELSE m = Head(queue)
<1> DEFINE rest == Tail(queue)
           n == Len(queue)
<1>1. /\ rest \in Seq(Msg) /\ n \in Nat /\ n > 0 /\ DOMAIN queue = 1 .. n
      /\ DOMAIN rest = 1 .. n - 1 /\ Head(queue) = queue[1] /\ Head(queue) \in Msg
      /\ \A i \in 1 .. n - 1 : rest[i] = queue[i + 1]
    OBVIOUS
<1>2. /\ 1 \in 1 .. n
      /\ \A i \in 1 .. n - 1 : i + 1 \in 1 .. n
      /\ \A i \in 1 .. n : i = 1 \/ (i - 1 \in 1 .. n - 1 /\ rest[i - 1] = queue[i])
    BY <1>1
<1> HIDE DEF rest, n
<1>3. ASSUME NEW f, Has(rest, f) PROVE Has(queue, f)
  <2>1. PICK i \in 1 .. n - 1 : rest[i].of = f
      BY <1>1, <1>3 DEF Has
  <2>2. i + 1 \in 1 .. n /\ queue[i + 1].of = f
      BY <1>1, <1>2, <2>1
  <2> QED
      BY <1>1, <2>2 DEF Has
<1>4. ASSUME NEW f, Has(queue, f), Head(queue).of # f PROVE Has(rest, f)
  <2>1. PICK i \in 1 .. n : queue[i].of = f
      BY <1>1, <1>4 DEF Has
  <2>2. i - 1 \in 1 .. n - 1 /\ rest[i - 1] = queue[i]
      BY <1>1, <1>2, <1>4, <2>1
  <2> QED
      BY <1>1, <2>1, <2>2 DEF Has
<1>5. ASSUME NEW f, NEW m, Newest(queue, f, m)
      PROVE  IF Has(rest, f) THEN Newest(rest, f, m) ELSE m = Head(queue)
  <2>1. PICK i \in 1 .. n :
            /\ queue[i] = m /\ m.of = f /\ \A j \in 1 .. n : j > i => queue[j].of # f
      BY <1>1, <1>5 DEF Newest
  <2>2. CASE i = 1
    <3>1. \A j \in 1 .. n - 1 : j + 1 \in 1 .. n /\ j + 1 > 1
        BY <1>1
    <3>2. ~Has(rest, f)
        BY <1>1, <2>1, <2>2, <3>1 DEF Has
    <3> QED
        BY <1>1, <2>1, <2>2, <3>2
  <2>3. CASE i # 1
    <3>1. i - 1 \in 1 .. n - 1 /\ rest[i - 1] = m
        BY <1>2, <2>1, <2>3
    <3>2. \A j \in 1 .. n - 1 : j > i - 1 => j + 1 \in 1 .. n /\ j + 1 > i
        BY <1>1, <2>1
    <3>3. \A j \in 1 .. n - 1 : j > i - 1 => rest[j].of # f
        BY <1>1, <2>1, <3>2
    <3>4. Newest(rest, f, m) /\ Has(rest, f)
        BY <1>1, <2>1, <3>1, <3>3 DEF Newest, Has
    <3> QED
        BY <3>4
  <2> QED
      BY <2>2, <2>3
<1> QED
    BY <1>1, <1>3, <1>4, <1>5 DEF rest

LEMMA PushKeeps ==
    ASSUME NEW queue \in Seq(Msg), NEW msg \in Msg
    PROVE  /\ Pushed(queue, msg) \in Seq(Msg) /\ Pushed(queue, msg) # <<>>
           /\ Newest(Pushed(queue, msg), msg.of, msg) /\ Has(Pushed(queue, msg), msg.of)
           /\ \A f : f # msg.of /\ Has(Pushed(queue, msg), f) =>
                /\ Has(queue, f)
                /\ \A m : Newest(queue, f, m) => Newest(Pushed(queue, msg), f, m)
<1>1. CASE Len(queue) < Backlog
    BY <1>1, AppendKeeps DEF Pushed
<1>2. CASE ~(Len(queue) < Backlog)
  <2>1. queue # <<>>
      BY <1>2, WireAssumption
  <2> DEFINE rest == Tail(queue)
  <2>2. /\ rest \in Seq(Msg)
        /\ \A f : /\ Has(rest, f) => Has(queue, f)
                  /\ \A m : Newest(queue, f, m) /\ Has(rest, f) => Newest(rest, f, m)
      BY <2>1, TailKeeps
  <2>3. Pushed(queue, msg) = Append(rest, msg)
      BY <1>2 DEF Pushed
  <2> HIDE DEF rest
  <2> QED
      BY <2>2, <2>3, AppendKeeps
<1> QED
    BY <1>1, <1>2

-----------------------------------------------------------------------------
(* The invariant.                                                          *)

WireTypeInv ==
    /\ record \in [Folk -> Nat] /\ announced \in [Folk -> SUBSET BOOLEAN]
    /\ socket \in [Watches -> {"none", "subscribed", "watching", "closed"}]
    /\ backlog \in [Watches -> Seq(Msg)]
    /\ \A w \in Watches : ~Listens(w) => backlog[w] = <<>>
    /\ glance # <<>> => glance[1] \in Nat

Rides(w, rev, f) ==
    IF w = "rail" THEN Digest(rev) = Digest(record[f]) ELSE rev = record[f]

(* What is last on its way of a plan is the plan as it is recorded, or for *)
(* the rail, as good as that.                                              *)
WaitsInv ==
    \A w \in Watches : \A f \in On(w) \ misled :
        Listens(w) /\ Has(backlog[w], f) =>
            \E m : Newest(backlog[w], f, m) /\ Rides(w, m.rev, f)

(* What was said of a plan is what would be said of it now.                *)
SaidInv ==
    \A f \in On("rail") \ misled :
        announced[f] # {} => announced[f] = {Digest(record[f])}

Comes(w, f) == Listens(w) /\ Has(backlog[w], f)
Reopens(w, f) == f \in Shot(w) /\ socket[w] # "watching"

(* Where something older is shown, the newest is on its way in one of the  *)
(* room's watches; or there is none that lacks it without being known to,  *)
(* or that will not be given it when it opens.                             *)
RoomInv ==
    \A f \in Room \ misled : shown[f] # record[f] =>
        \/ \E w \in Rooms : Comes(w, f)
        \/ \A w \in Rooms : <<w, f>> \in missed \/ Reopens(w, f)

RailInv ==
    \A f \in On("rail") \ misled : badge[f] # Digest(record[f]) =>
        Comes("rail", f) \/ <<"rail", f>> \in missed \/ Reopens("rail", f)

WireInv == WireTypeInv /\ WaitsInv /\ SaidInv /\ RoomInv /\ RailInv

LEMMA WireFacts ==
    /\ Watches = {"room", "leaked", "rail"} /\ Rooms = {"room", "leaked"} /\ "rail" \notin Rooms
    /\ Folk = {"open", "subagent", "other"} /\ Room = {"open", "subagent"}
    /\ On("rail") = {"open", "other"} /\ \A w \in Rooms : On(w) = Room /\ Shot(w) = {"open"}
    /\ Shot("rail") = On("rail") /\ \A w \in Watches : On(w) \subseteq Folk /\ Shot(w) \subseteq On(w)
    /\ \A f : ~Has(<<>>, f)
BY DEF Watches, Rooms, Folk, Room, On, Shot, Has

(* Some watches end, and what was on its way in them is lost.              *)
Ended ==
    \A w \in Watches : \/ backlog'[w] = backlog[w] /\ socket'[w] = socket[w]
                       \/ backlog'[w] = <<>> /\ socket'[w] \in {"none", "closed"}

LEMMA EndingKeeps ==
    ASSUME WireInv, Ended, missed' = missed \cup Lost(backlog'),
           UNCHANGED <<record, shown, badge, misled>>
    PROVE  WaitsInv' /\ RoomInv' /\ RailInv'
<1> USE WireFacts DEF WireInv, WireTypeInv
<1>1. WaitsInv'
    BY DEF WaitsInv, Ended, Listens, Rides, Digest
<1>2. ASSUME NEW w \in Watches, NEW f \in On(w), Comes(w, f), ~Comes(w, f)'
      PROVE  <<w, f>> \in missed' \/ Reopens(w, f)'
  <2>1. backlog'[w] = <<>> /\ socket'[w] \in {"none", "closed"}
      BY <1>2 DEF Ended, Comes, Listens
  <2>2. CASE f \in Shot(w)
      BY <2>1, <2>2 DEF Reopens
  <2>3. CASE f \notin Shot(w)
    <3>1. Loses(w, f, backlog')
        BY <1>2, <2>1, <2>3 DEF Loses, Comes
    <3> QED
        BY <3>1 DEF Lost
  <2> QED
      BY <2>2, <2>3
<1>3. ASSUME NEW w \in Watches, NEW f, <<w, f>> \in missed \/ Reopens(w, f)
      PROVE  <<w, f>> \in missed' \/ Reopens(w, f)'
    BY <1>3 DEF Ended, Reopens
<1>4. RoomInv'
  <2> SUFFICES ASSUME NEW f \in Room \ misled, shown[f] # record[f],
                      \A w \in Rooms : ~Comes(w, f)', NEW v \in Rooms
               PROVE  <<v, f>> \in missed' \/ Reopens(v, f)'
      BY DEF RoomInv
  <2>1. CASE \E w \in Rooms : Comes(w, f)
    <3>1. PICK w \in Rooms : Comes(w, f)
        BY <2>1
    <3>2. ~Has(backlog'[v], f) /\ ~Has(backlog'[w], f)
        BY DEF Ended, Comes, Listens
    <3>3. CASE v = w
        BY <1>2, <3>1, <3>3
    <3>4. CASE v # w
      <4>1. Undoes(v, f, backlog')
          BY <3>1, <3>2, <3>4 DEF Undoes, Comes
      <4>2. <<v, f>> \in Lost(backlog')
          BY <4>1 DEF Lost
      <4> QED
          BY <4>2
    <3> QED
        BY <3>3, <3>4
  <2>2. CASE \A w \in Rooms : <<w, f>> \in missed \/ Reopens(w, f)
      BY <1>3, <2>2
  <2> QED
      BY <2>1, <2>2 DEF RoomInv
<1>5. RailInv'
    BY <1>2, <1>3 DEF RailInv, Digest
<1> QED
    BY <1>1, <1>4, <1>5

(* What a message of a plan does to the channels: it is the last in each   *)
(* it goes to, and what is still on its way of the others is as it was.    *)
To(f, rev) ==
    (IF f = "other" THEN {} ELSE Rooms) \cup (IF Pulses(f, rev) THEN {"rail"} ELSE {})

LEMMA PublishKeeps ==
    ASSUME WireInv, NEW f \in Folk, NEW rev \in Nat, Publish(f, rev)
    PROVE  /\ backlog' \in [Watches -> Seq(Msg)] /\ announced' \in [Folk -> SUBSET BOOLEAN]
           /\ \A w \in Watches :
                IF w \in To(f, rev) /\ Listens(w)
                THEN /\ Newest(backlog'[w], f, [of |-> f, rev |-> rev]) /\ Has(backlog'[w], f)
                     /\ backlog'[w] # <<>>
                     /\ \A g \in Folk \ {f} : Has(backlog'[w], g) =>
                          /\ Has(backlog[w], g)
                          /\ \A m : Newest(backlog[w], g, m) => Newest(backlog'[w], g, m)
                ELSE backlog'[w] = backlog[w]
           /\ missed' = {m \in missed \cup Lost(backlog') : ~(m[1] \in To(f, rev) /\ m[2] = f)}
                \cup {<<w, f>> : w \in {v \in To(f, rev) : ~Listens(v) /\ f \notin Shot(v)}}
           /\ announced' = IF Pulses(f, rev) THEN [announced EXCEPT ![f] = {Digest(rev)}]
                           ELSE announced
<1> DEFINE msg == [of |-> f, rev |-> rev]
           Left == [w \in Watches |-> IF w \in To(f, rev) /\ Listens(w)
                                     THEN Pushed(backlog[w], msg) ELSE backlog[w]]
<1>1. msg \in Msg /\ msg.of = f
    BY DEF Msg
<1>2. \A w \in Watches : backlog[w] \in Seq(Msg)
    BY DEF WireInv, WireTypeInv
<1>3. backlog' = Left
    BY DEF Publish, To
<1>4. /\ announced' = IF Pulses(f, rev) THEN [announced EXCEPT ![f] = {Digest(rev)}]
                      ELSE announced
      /\ missed' = {m \in missed \cup Lost(Left) : ~(m[1] \in To(f, rev) /\ m[2] = f)}
                \cup {<<w, f>> : w \in {v \in To(f, rev) : ~Listens(v) /\ f \notin Shot(v)}}
    BY DEF Publish, To
<1> HIDE DEF msg
<1>5. ASSUME NEW w \in Watches, w \in To(f, rev) /\ Listens(w)
      PROVE  /\ backlog'[w] \in Seq(Msg) /\ backlog'[w] # <<>>
             /\ Newest(backlog'[w], f, msg) /\ Has(backlog'[w], f)
             /\ \A g \in Folk \ {f} : Has(backlog'[w], g) =>
                  /\ Has(backlog[w], g)
                  /\ \A m : Newest(backlog[w], g, m) => Newest(backlog'[w], g, m)
  <2>1. backlog'[w] = Pushed(backlog[w], msg)
      BY <1>3, <1>5
  <2> QED
      BY <1>1, <1>2, <2>1, PushKeeps
<1>6. ASSUME NEW w \in Watches, ~(w \in To(f, rev) /\ Listens(w))
      PROVE  backlog'[w] = backlog[w]
    BY <1>3, <1>6
<1>7. backlog' \in [Watches -> Seq(Msg)]
  <2>1. \A w \in Watches : backlog'[w] \in Seq(Msg)
      BY <1>2, <1>5, <1>6
  <2>2. backlog' = [w \in Watches |-> backlog'[w]]
      BY <1>3
  <2> QED
      BY <2>1, <2>2
<1>8. announced' \in [Folk -> SUBSET BOOLEAN]
    BY <1>4 DEF Digest, WireInv, WireTypeInv
<1> HIDE DEF Left
<1> QED
    BY <1>3, <1>4, <1>5, <1>6, <1>7, <1>8 DEF msg

(* What was said of the others is not disturbed: what is pushed out of a   *)
(* full channel is known to be missed.                                     *)
LEMMA PublishSparesOthers ==
    ASSUME WireInv, NEW f \in Folk, NEW rev \in Nat, Publish(f, rev),
           UNCHANGED <<socket, shown, badge>>, NEW g \in Folk \ {f}, g \notin misled,
           record'[g] = record[g]
    PROVE  /\ \A w \in Watches : g \in On(w) =>
                (Comes(w, g)' => \E m : Newest(backlog'[w], g, m) /\ Rides(w, m.rev, g)')
           /\ announced'[g] = announced[g]
           /\ g \in Room /\ shown[g] # record[g] =>
                \/ \E w \in Rooms : Comes(w, g)'
                \/ \A w \in Rooms : <<w, g>> \in missed' \/ Reopens(w, g)'
           /\ g \in On("rail") /\ badge[g] # Digest(record[g]) =>
                Comes("rail", g)' \/ <<"rail", g>> \in missed' \/ Reopens("rail", g)'
<1>0. /\ \A w \in Watches :
           IF w \in To(f, rev) /\ Listens(w)
           THEN /\ backlog'[w] # <<>>
                /\ Has(backlog'[w], g) =>
                     /\ Has(backlog[w], g)
                     /\ \A m : Newest(backlog[w], g, m) => Newest(backlog'[w], g, m)
           ELSE backlog'[w] = backlog[w]
      /\ missed' = {m \in missed \cup Lost(backlog') : ~(m[1] \in To(f, rev) /\ m[2] = f)}
           \cup {<<w, f>> : w \in {v \in To(f, rev) : ~Listens(v) /\ f \notin Shot(v)}}
      /\ announced' = IF Pulses(f, rev) THEN [announced EXCEPT ![f] = {Digest(rev)}]
                      ELSE announced
    BY PublishKeeps
<1> USE WireFacts DEF WireInv, WireTypeInv
<1>1. ASSUME NEW w \in Watches, Comes(w, g)'
      PROVE  Comes(w, g) /\ \A m : Newest(backlog[w], g, m) => Newest(backlog'[w], g, m)
    BY <1>1, <1>0 DEF Comes, Listens
<1>2. announced'[g] = announced[g]
    BY <1>0
<1>3. \A m \in missed \cup Lost(backlog') : m[2] = g => m \in missed'
  <2> HIDE DEF WireInv, WireTypeInv
  <2> QED
      BY <1>0
<1>4. ASSUME NEW w \in Watches, Comes(w, g), ~Comes(w, g)'
      PROVE  <<w, g>> \in missed'
  <2>1. backlog'[w] # <<>>
      BY <1>4, <1>0 DEF Comes, Listens
  <2>2. Loses(w, g, backlog')
      BY <1>4, <2>1 DEF Loses, Comes, Listens
  <2>3. <<w, g>> \in Lost(backlog')
      BY <2>2 DEF Lost
  <2> QED
      BY <1>3, <2>3
<1>5. ASSUME NEW w \in Watches, <<w, g>> \in missed \/ Reopens(w, g)
      PROVE  <<w, g>> \in missed' \/ Reopens(w, g)'
    BY <1>3, <1>5 DEF Reopens
<1>6. ASSUME g \in Room, shown[g] # record[g], \A w \in Rooms : ~Comes(w, g)', NEW v \in Rooms
      PROVE  <<v, g>> \in missed' \/ Reopens(v, g)'
  <2>1. CASE \E w \in Rooms : Comes(w, g)
    <3>1. PICK w \in Rooms : Comes(w, g)
        BY <2>1
    <3>2. CASE v = w
        BY <1>4, <1>6, <3>1, <3>2
    <3>3. CASE v # w
      <4>1. ~Has(backlog'[v], g) /\ ~Has(backlog'[w], g)
        <5>1. ASSUME NEW u \in {v, w} PROVE ~Has(backlog'[u], g)
          <6>1. u \in Rooms /\ ~Comes(u, g)'
              BY <1>6
          <6>2. CASE Listens(u)
              BY <6>1, <6>2 DEF Comes, Listens
          <6>3. CASE ~Listens(u)
            <7>1. backlog[u] = <<>> /\ backlog'[u] = backlog[u]
                BY <1>0, <6>1, <6>3
            <7> QED
                BY <7>1
          <6> QED
              BY <6>2, <6>3
        <5> QED
            BY <5>1
      <4>2. Undoes(v, g, backlog')
          BY <1>6, <3>1, <3>3, <4>1 DEF Undoes, Comes
      <4>3. <<v, g>> \in Lost(backlog')
          BY <4>2 DEF Lost
      <4> QED
          BY <1>3, <4>3
    <3> QED
        BY <3>2, <3>3
  <2>2. CASE \A w \in Rooms : <<w, g>> \in missed \/ Reopens(w, g)
      BY <1>5, <2>2
  <2> QED
      BY <1>6, <2>1, <2>2 DEF RoomInv
<1>7. g \in On("rail") /\ badge[g] # Digest(record[g]) =>
          Comes("rail", g)' \/ <<"rail", g>> \in missed' \/ Reopens("rail", g)'
    BY <1>4, <1>5 DEF RailInv
<1>8. ASSUME NEW w \in Watches, NEW m
      PROVE  Rides(w, m.rev, g)' <=> Rides(w, m.rev, g)
    BY DEF Rides, Digest
<1> QED
    BY <1>1, <1>2, <1>6, <1>7, <1>8 DEF WaitsInv, Comes

(* What is published as it is recorded comes to every watch there is, or   *)
(* will be given it when it opens, or is known to miss it; to the rail if  *)
(* it is news there.                                                       *)
LEMMA PublishTold ==
    ASSUME WireInv, NEW f \in Folk, NEW rev \in Nat, Publish(f, rev),
           UNCHANGED <<socket, shown, badge>>, record'[f] = rev,
           Pulses(f, rev) \/ f \notin misled
    PROVE  /\ \A w \in Watches : f \in On(w) /\ (w = "rail" => f \notin misled \/ Pulses(f, rev)) =>
                (Comes(w, f)' => \E m : Newest(backlog'[w], f, m) /\ Rides(w, m.rev, f)')
           /\ f \in On("rail") => announced'[f] = {Digest(rev)}
           /\ f \in Room =>
                \/ \E w \in Rooms : Comes(w, f)'
                \/ \A w \in Rooms : <<w, f>> \in missed' \/ Reopens(w, f)'
           /\ f \in On("rail") /\ badge[f] # Digest(rev) =>
                Comes("rail", f)' \/ <<"rail", f>> \in missed' \/ Reopens("rail", f)'
<1>0. /\ \A w \in Watches :
           IF w \in To(f, rev) /\ Listens(w)
           THEN Newest(backlog'[w], f, [of |-> f, rev |-> rev]) /\ Has(backlog'[w], f)
           ELSE backlog'[w] = backlog[w]
      /\ missed' = {m \in missed \cup Lost(backlog') : ~(m[1] \in To(f, rev) /\ m[2] = f)}
           \cup {<<w, f>> : w \in {v \in To(f, rev) : ~Listens(v) /\ f \notin Shot(v)}}
      /\ announced' = IF Pulses(f, rev) THEN [announced EXCEPT ![f] = {Digest(rev)}]
                      ELSE announced
    BY PublishKeeps
<1>1. /\ f \in Room => Rooms \subseteq To(f, rev)
      /\ "rail" \in To(f, rev) <=> Pulses(f, rev)
      /\ To(f, rev) \subseteq Watches
    BY WireFacts DEF To
<1>2. ASSUME f \in On("rail"), ~Pulses(f, rev)
      PROVE  /\ f \notin misled /\ announced[f] = {Digest(rev)} /\ announced' = announced
             /\ Digest(record[f]) = Digest(rev)
  <2>1. Digest(rev) \in announced[f] /\ f \notin misled
      BY <1>2, WireFacts DEF Pulses
  <2>2. announced[f] = {Digest(record[f])}
      BY <1>2, <2>1 DEF WireInv, SaidInv
  <2> QED
      BY <1>0, <1>2, <2>1, <2>2
<1>3. ASSUME NEW w \in Watches
      PROVE  Rides(w, rev, f)' /\ Rides("rail", rev, f)'
    BY DEF Rides, Digest
<1>4. ASSUME NEW w \in Watches, f \in On(w), Comes(w, f)'
      PROVE  \E m : Newest(backlog'[w], f, m) /\ Rides(w, m.rev, f)'
  <2>1. Listens(w) /\ Has(backlog'[w], f)
      BY <1>4 DEF Comes, Listens
  <2>2. CASE w \in To(f, rev)
    <3> DEFINE m == [of |-> f, rev |-> rev]
    <3>1. Newest(backlog'[w], f, m) /\ m.rev = rev
        BY <1>0, <2>1, <2>2
    <3>2. Rides(w, m.rev, f)'
        BY <1>3, <3>1
    <3> QED
        BY <3>1, <3>2
  <2>3. CASE w \notin To(f, rev)
    <3>1. w = "rail" /\ f \in On("rail") /\ ~Pulses(f, rev) /\ backlog'[w] = backlog[w]
        BY <1>0, <1>1, <1>4, <2>3, WireFacts
    <3>2. PICK m : Newest(backlog[w], f, m) /\ Rides(w, m.rev, f)
        BY <1>2, <1>4, <2>1, <3>1 DEF WireInv, WaitsInv
    <3>3. Rides(w, m.rev, f)'
        BY <1>2, <3>1, <3>2 DEF Rides, Digest
    <3> QED
        BY <3>1, <3>2, <3>3
  <2> QED
      BY <2>2, <2>3
<1>5. ASSUME f \in On("rail") PROVE announced'[f] = {Digest(rev)}
  <2>1. CASE Pulses(f, rev)
      BY <1>0, <2>1 DEF WireInv, WireTypeInv
  <2>2. CASE ~Pulses(f, rev)
      BY <1>2, <1>5, <2>2
  <2> QED
      BY <2>1, <2>2
<1>6. ASSUME f \in Room, \A w \in Rooms : ~Comes(w, f)', NEW v \in Rooms
      PROVE  <<v, f>> \in missed' \/ Reopens(v, f)'
  <2>1. v \in To(f, rev) /\ ~Listens(v)
      BY <1>0, <1>1, <1>6, WireFacts DEF Comes, Listens
  <2>2. CASE f \in Shot(v)
      BY <2>1, <2>2 DEF Reopens, Listens
  <2>3. CASE f \notin Shot(v)
      BY <1>0, <2>1, <2>3
  <2> QED
      BY <2>2, <2>3
<1>7. ASSUME f \in On("rail"), badge[f] # Digest(rev)
      PROVE  Comes("rail", f)' \/ <<"rail", f>> \in missed' \/ Reopens("rail", f)'
  <2>1. CASE Pulses(f, rev) /\ Listens("rail")
      BY <1>0, <1>1, <2>1, WireFacts DEF Comes, Listens
  <2>2. CASE Pulses(f, rev) /\ ~Listens("rail")
      BY <1>7, <2>2, WireFacts DEF Reopens, Listens
  <2>3. CASE ~Pulses(f, rev)
    <3>1. Comes("rail", f) \/ <<"rail", f>> \in missed \/ Reopens("rail", f)
        BY <1>2, <1>7, <2>3 DEF WireInv, RailInv
    <3>2. backlog'["rail"] = backlog["rail"] /\ (<<"rail", f>> \in missed => <<"rail", f>> \in missed')
        BY <1>0, <1>1, <2>3, WireFacts
    <3> QED
        BY <3>1, <3>2 DEF Comes, Reopens, Listens
  <2> QED
      BY <2>1, <2>2, <2>3
<1> QED
    BY <1>4, <1>5, <1>6, <1>7

LEMMA PublishStep ==
    ASSUME WireInv, NEW f \in Folk, NEW rev \in Nat, Publish(f, rev),
           UNCHANGED <<socket, shown, badge>>, misled \ {f} \subseteq misled',
           \A g \in Folk \ {f} : record'[g] = record[g],
           f \in misled' \/ (record'[f] = rev /\ (Pulses(f, rev) \/ f \notin misled))
    PROVE  WaitsInv' /\ SaidInv' /\ RoomInv' /\ RailInv'
<1>1. /\ Room \subseteq Folk /\ On("rail") \subseteq Folk
      /\ \A w \in Watches : On(w) \subseteq Folk
    BY WireFacts
<1>2. ASSUME NEW g \in Folk, g \notin misled'
      PROVE  /\ \A w \in Watches : g \in On(w) =>
                  (Comes(w, g)' => \E m : Newest(backlog'[w], g, m) /\ Rides(w, m.rev, g)')
             /\ g \in On("rail") /\ announced'[g] # {} => announced'[g] = {Digest(record'[g])}
             /\ g \in Room /\ shown[g] # record'[g] =>
                  \/ \E w \in Rooms : Comes(w, g)'
                  \/ \A w \in Rooms : <<w, g>> \in missed' \/ Reopens(w, g)'
             /\ g \in On("rail") /\ badge[g] # Digest(record'[g]) =>
                  Comes("rail", g)' \/ <<"rail", g>> \in missed' \/ Reopens("rail", g)'
  <2>1. CASE g = f
    <3>1. record'[f] = rev /\ (Pulses(f, rev) \/ f \notin misled)
        BY <1>2, <2>1
    <3> QED
        BY <2>1, <3>1, PublishTold
  <2>2. CASE g # f
    <3>1. g \in Folk \ {f} /\ g \notin misled /\ record'[g] = record[g]
        BY <1>2, <2>2
    <3>2. g \in On("rail") /\ announced[g] # {} => announced[g] = {Digest(record[g])}
        BY <3>1 DEF WireInv, SaidInv
    <3> QED
        BY <3>1, <3>2, PublishSparesOthers
  <2> QED
      BY <2>1, <2>2
<1>4. WaitsInv'
    BY <1>1, <1>2 DEF WaitsInv, Comes, Listens
<1>5. SaidInv'
    BY <1>1, <1>2 DEF SaidInv, Digest
<1>6. RoomInv'
    BY <1>1, <1>2 DEF RoomInv
<1>7. RailInv'
    BY <1>1, <1>2 DEF RailInv, Digest
<1> QED
    BY <1>4, <1>5, <1>6, <1>7

(* One message is taken off, and shown: it was the last of its plan, or    *)
(* another is behind it.                                                   *)
LEMMA ProclaimStep ==
    ASSUME WireInv, NEW w \in Watches, Proclaim(w)
    PROVE  WireTypeInv' /\ WaitsInv' /\ SaidInv' /\ RoomInv' /\ RailInv'
<1> DEFINE msg == Head(backlog[w])
           revs == [f \in {msg.of} |-> msg.rev]
<1>1. /\ socket[w] = "watching" /\ backlog[w] # <<>> /\ Absorb(w, revs)
      /\ backlog' = [backlog EXCEPT ![w] = Tail(backlog[w])]
      /\ UNCHANGED <<record, announced, socket, glance, misled, missed>>
    BY DEF Proclaim
<1>2. backlog[w] \in Seq(Msg)
    BY DEF WireInv, WireTypeInv
<1>3. /\ Tail(backlog[w]) \in Seq(Msg) /\ msg \in Msg
      /\ \A f : /\ Has(Tail(backlog[w]), f) => Has(backlog[w], f)
                /\ Has(backlog[w], f) /\ msg.of # f => Has(Tail(backlog[w]), f)
                /\ \A m : Newest(backlog[w], f, m) =>
                     IF Has(Tail(backlog[w]), f) THEN Newest(Tail(backlog[w]), f, m) ELSE m = msg
    BY <1>1, <1>2, TailKeeps
<1>4. DOMAIN revs = {msg.of} /\ \A f : f = msg.of => revs[f] = msg.rev
    OBVIOUS
<1> HIDE DEF msg, revs
<1>5. /\ backlog'[w] = Tail(backlog[w]) /\ \A v \in Watches \ {w} : backlog'[v] = backlog[v]
      /\ backlog' \in [Watches -> Seq(Msg)]
    BY <1>1, <1>3 DEF WireInv, WireTypeInv
<1>6. WireTypeInv'
    BY <1>1, <1>5 DEF WireInv, WireTypeInv, Listens
<1>7. WaitsInv'
  <2> SUFFICES ASSUME NEW v \in Watches, NEW f \in On(v), f \notin misled,
                      Listens(v), Has(backlog'[v], f)
               PROVE  \E m : Newest(backlog'[v], f, m) /\ Rides(v, m.rev, f)'
      BY <1>1 DEF WaitsInv, Listens
  <2>1. Has(backlog[v], f)
      BY <1>3, <1>5
  <2>2. PICK m : Newest(backlog[v], f, m) /\ Rides(v, m.rev, f)
      BY <2>1 DEF WireInv, WaitsInv
  <2>3. Newest(backlog'[v], f, m)
      BY <1>3, <1>5, <2>2
  <2>4. Rides(v, m.rev, f)'
      BY <1>1, <2>2 DEF Rides, Digest
  <2> QED
      BY <2>3, <2>4
<1>8. SaidInv'
    BY <1>1 DEF WireInv, SaidInv, Digest
<1>9. ASSUME NEW f \in On(w) \ misled, f = msg.of, ~Has(backlog'[w], f), Has(backlog[w], f)
      PROVE  Rides(w, msg.rev, f)
  <2>1. PICK m : Newest(backlog[w], f, m) /\ Rides(w, m.rev, f)
      BY <1>1, <1>9 DEF WireInv, WaitsInv, Listens
  <2> QED
      BY <1>3, <1>5, <1>9, <2>1
<1>10. Has(backlog[w], msg.of)
  <2>1. 1 \in DOMAIN backlog[w] /\ backlog[w][1] = msg
      BY <1>1, <1>2 DEF msg
  <2> QED
      BY <2>1 DEF Has
<1>11. ASSUME NEW v \in Watches, NEW f, Comes(v, f), v = w => f # msg.of
       PROVE  Comes(v, f)'
    BY <1>1, <1>3, <1>5, <1>11 DEF Comes, Listens
<1>12. ASSUME NEW v \in Watches, NEW f PROVE Reopens(v, f)' <=> Reopens(v, f)
    BY <1>1 DEF Reopens
<1>13. RoomInv'
  <2> SUFFICES ASSUME NEW f \in Room \ misled, shown'[f] # record[f]
               PROVE  \/ \E v \in Rooms : Comes(v, f)'
                      \/ \A v \in Rooms : <<v, f>> \in missed \/ Reopens(v, f)
      BY <1>1, <1>12, WireFacts DEF RoomInv
  <2>1. CASE w \in Rooms /\ f = msg.of
    <3>1. shown'[f] = msg.rev
        BY <1>1, <1>4, <2>1, WireFacts DEF Absorb
    <3>2. CASE Has(backlog'[w], f)
        BY <1>1, <2>1, <3>2 DEF Comes, Listens
    <3>3. CASE ~Has(backlog'[w], f)
      <4>1. Rides(w, msg.rev, f)
          BY <1>9, <1>10, <2>1, <3>3, WireFacts
      <4> QED
          BY <2>1, <3>1, <4>1, WireFacts DEF Rides
    <3> QED
        BY <3>2, <3>3
  <2>2. CASE ~(w \in Rooms /\ f = msg.of)
    <3>1. shown'[f] = shown[f]
        BY <1>1, <1>4, <2>2, WireFacts DEF Absorb
    <3>2. \/ \E v \in Rooms : Comes(v, f)
          \/ \A v \in Rooms : <<v, f>> \in missed \/ Reopens(v, f)
        BY <3>1 DEF WireInv, RoomInv
    <3> QED
        BY <1>11, <2>2, <3>2, WireFacts
  <2> QED
      BY <2>1, <2>2
<1>14. RailInv'
  <2> SUFFICES ASSUME NEW f \in On("rail") \ misled, badge'[f] # Digest(record[f])
               PROVE  Comes("rail", f)' \/ <<"rail", f>> \in missed \/ Reopens("rail", f)
      BY <1>1, <1>12, WireFacts DEF RailInv, Digest
  <2>1. CASE w = "rail" /\ f = msg.of
    <3>1. badge'[f] = Digest(msg.rev)
        BY <1>1, <1>4, <2>1 DEF Absorb
    <3>2. CASE Has(backlog'[w], f)
        BY <1>1, <2>1, <3>2 DEF Comes, Listens
    <3>3. CASE ~Has(backlog'[w], f)
      <4>1. Rides(w, msg.rev, f)
          BY <1>9, <1>10, <2>1, <3>3
      <4> QED
          BY <2>1, <3>1, <4>1 DEF Rides
    <3> QED
        BY <3>2, <3>3
  <2>2. CASE ~(w = "rail" /\ f = msg.of)
    <3>1. badge'[f] = badge[f]
        BY <1>1, <1>4, <2>2 DEF Absorb
    <3>2. Comes("rail", f) \/ <<"rail", f>> \in missed \/ Reopens("rail", f)
        BY <3>1 DEF WireInv, RailInv
    <3> QED
        BY <1>11, <2>2, <3>2, WireFacts
  <2> QED
      BY <2>1, <2>2
<1> QED
    BY <1>6, <1>7, <1>8, <1>13, <1>14

(* A watch that is not listening opens; nothing waits for it yet.          *)
LEMMA ListeningStep ==
    ASSUME WireInv,
           socket' \in [Watches -> {"none", "subscribed", "watching", "closed"}],
           \A w \in Watches : \/ socket'[w] = socket[w]
                              \/ ~Listens(w) /\ socket'[w] # "watching",
           UNCHANGED <<record, announced, backlog, shown, badge, glance, misled, missed>>
    PROVE  WireInv'
<1> USE WireFacts DEF WireInv
<1>1. WireTypeInv'
    BY DEF WireTypeInv, Listens
<1>2. \A w \in Watches : \A f : Comes(w, f) => Comes(w, f)'
    BY DEF Comes, Listens, WireTypeInv
<1>3. \A w \in Watches : \A f : Reopens(w, f) => Reopens(w, f)'
    BY DEF Reopens
<1>4. WaitsInv'
  <2> SUFFICES ASSUME NEW w \in Watches, NEW f \in On(w) \ misled, Has(backlog[w], f)
               PROVE  \E m : Newest(backlog[w], f, m) /\ Rides(w, m.rev, f)'
      BY DEF WaitsInv
  <2>1. Listens(w)
      BY DEF WireTypeInv
  <2>2. PICK m : Newest(backlog[w], f, m) /\ Rides(w, m.rev, f)
      BY <2>1 DEF WaitsInv
  <2> QED
      BY <2>2 DEF Rides, Digest
<1>5. SaidInv'
    BY DEF SaidInv, Digest
<1>6. RoomInv'
    BY <1>2, <1>3 DEF RoomInv
<1>7. RailInv'
    BY <1>2, <1>3 DEF RailInv, Digest
<1> QED
    BY <1>1, <1>4, <1>5, <1>6, <1>7

LEMMA OpeningStep ==
    ASSUME WireInv, NEW w \in Watches, Opening(w)
    PROVE  WireInv'
<1> DEFINE revs == [f \in Shot(w) |-> record[f]]
<1>1. /\ socket[w] = "subscribed" /\ Absorb(w, revs)
      /\ socket' = [socket EXCEPT ![w] = "watching"] /\ missed' = missed \ ({w} \X Shot(w))
      /\ UNCHANGED <<record, announced, backlog, glance, misled>>
    BY DEF Opening
<1>2. DOMAIN revs = Shot(w) /\ \A f \in Shot(w) : revs[f] = record[f]
    OBVIOUS
<1> HIDE DEF revs
<1>3. WireTypeInv'
    BY <1>1 DEF WireInv, WireTypeInv, Listens
<1>4. \A v \in Watches : Listens(v)' <=> Listens(v)
    BY <1>1 DEF WireInv, WireTypeInv, Listens
<1>5. \A v \in Watches : \A f : Comes(v, f)' <=> Comes(v, f)
    BY <1>1, <1>4 DEF Comes
<1>6. ASSUME NEW v \in Watches, NEW f, <<v, f>> \in missed \/ Reopens(v, f),
             v = w => f \notin Shot(w)
      PROVE  <<v, f>> \in missed' \/ Reopens(v, f)'
    BY <1>1, <1>6 DEF Reopens, WireInv, WireTypeInv
<1>7. WaitsInv'
  <2> SUFFICES ASSUME NEW v \in Watches, NEW f \in On(v), f \notin misled,
                      Listens(v), Has(backlog[v], f)
               PROVE  \E m : Newest(backlog[v], f, m) /\ Rides(v, m.rev, f)'
      BY <1>1, <1>4 DEF WaitsInv
  <2>1. PICK m : Newest(backlog[v], f, m) /\ Rides(v, m.rev, f)
      BY DEF WireInv, WaitsInv
  <2> QED
      BY <1>1, <2>1 DEF Rides, Digest
<1>8. SaidInv'
    BY <1>1 DEF WireInv, SaidInv, Digest
<1>9. RoomInv'
  <2> SUFFICES ASSUME NEW f \in Room \ misled, shown'[f] # record[f],
                      \A v \in Rooms : ~Comes(v, f), NEW u \in Rooms
               PROVE  <<u, f>> \in missed' \/ Reopens(u, f)'
      BY <1>1, <1>5, WireFacts DEF RoomInv
  <2>1. ~(w \in Rooms /\ f \in Shot(w)) /\ shown'[f] = shown[f]
      BY <1>1, <1>2, WireFacts DEF Absorb
  <2>2. <<u, f>> \in missed \/ Reopens(u, f)
      BY <2>1 DEF WireInv, RoomInv
  <2> QED
      BY <1>6, <2>1, <2>2, WireFacts
<1>10. RailInv'
  <2> SUFFICES ASSUME NEW f \in On("rail") \ misled, badge'[f] # Digest(record[f]),
                      ~Comes("rail", f)
               PROVE  <<"rail", f>> \in missed' \/ Reopens("rail", f)'
      BY <1>1, <1>5, WireFacts DEF RailInv, Digest
  <2>1. w # "rail" /\ badge'[f] = badge[f]
      BY <1>1, <1>2, WireFacts DEF Absorb
  <2>2. <<"rail", f>> \in missed \/ Reopens("rail", f)
      BY <2>1 DEF WireInv, RailInv
  <2> QED
      BY <1>6, <2>1, <2>2, WireFacts
<1> QED
    BY <1>3, <1>7, <1>8, <1>9, <1>10 DEF WireInv

LEMMA WireNext == WireInv /\ [WNext]_wvars => WireInv'
<1> SUFFICES ASSUME WireInv, [WNext]_wvars
             PROVE  WireInv'
    OBVIOUS
<1>t. WireTypeInv
    BY DEF WireInv
<1>1. ASSUME NEW f \in Folk, Update(f) PROVE WireInv'
  <2> DEFINE rev == record[f] + 1
  <2>1. rev \in Nat /\ Publish(f, rev) /\ f \in Folk
      BY <1>t, <1>1, WireFacts DEF Update, WireTypeInv
  <2>2. /\ UNCHANGED <<socket, shown, badge>> /\ misled \ {f} \subseteq misled'
        /\ \A g \in Folk \ {f} : record'[g] = record[g]
        /\ f \in misled' \/ (record'[f] = rev /\ (Pulses(f, rev) \/ f \notin misled))
      BY <1>t, <1>1, WireFacts DEF Update, WireTypeInv
  <2>3. record' \in [Folk -> Nat] /\ (glance' # <<>> => glance'[1] \in Nat)
      BY <1>t, <1>1, WireFacts DEF Update, WireTypeInv
  <2> HIDE DEF rev
  <2>4. WaitsInv' /\ SaidInv' /\ RoomInv' /\ RailInv'
      BY <2>1, <2>2, PublishStep
  <2>5. /\ backlog' \in [Watches -> Seq(Msg)] /\ announced' \in [Folk -> SUBSET BOOLEAN]
        /\ \A w \in Watches : ~Listens(w) => backlog'[w] = backlog[w]
      BY <2>1, PublishKeeps
  <2>6. WireTypeInv'
      BY <1>t, <2>2, <2>3, <2>5 DEF WireTypeInv, Listens
  <2> QED
      BY <2>4, <2>6 DEF WireInv
<1>2. ASSUME NEW w \in Watches, Opening(w) PROVE WireInv'
    BY <1>2, OpeningStep
<1>3. ASSUME NEW w \in Watches, Proclaim(w) PROVE WireInv'
    BY <1>3, ProclaimStep DEF WireInv
<1>4. ASSUME NEW w \in Watches, Lose(w) PROVE WireInv'
  <2>1. Ended /\ missed' = missed \cup Lost(backlog')
      BY <1>t, <1>4, WireFacts DEF Lose, Ended, WireTypeInv
  <2>2. UNCHANGED <<record, shown, badge, misled>>
      BY <1>4 DEF Lose
  <2>3. WireTypeInv'
      BY <1>t, <1>4, WireFacts DEF Lose, WireTypeInv, Listens
  <2>4. SaidInv'
      BY <1>4, WireFacts DEF Lose, WireInv, SaidInv, Digest
  <2> QED
      BY <2>1, <2>2, <2>3, <2>4, EndingKeeps DEF WireInv
<1>5. ASSUME NEW w \in Watches, Reconnect(w) PROVE WireInv'
  <2>1. /\ socket' \in [Watches -> {"none", "subscribed", "watching", "closed"}]
        /\ \A u \in Watches : \/ socket'[u] = socket[u]
                              \/ ~Listens(u) /\ socket'[u] # "watching"
        /\ UNCHANGED <<record, announced, backlog, shown, badge, glance, misled, missed>>
      BY <1>t, <1>5, WireFacts DEF Reconnect, Listens, WireTypeInv
  <2> QED
      BY <2>1, ListeningStep
<1>6. CASE Glance
  <2>1. UNCHANGED <<record, socket, backlog, badge, missed>>
      BY <1>6 DEF Glance
  <2>2. /\ WireTypeInv' /\ misled \subseteq misled'
        /\ \A f \in On("rail") : announced'[f] \in {announced[f], {}}
        /\ \A f \in Room : shown'[f] = shown[f] \/ shown'[f] = record[f] \/ f \in misled'
      BY <1>t, <1>6, WireFacts DEF Glance, WireTypeInv, Listens
  <2>3. WaitsInv'
      BY <2>1, <2>2 DEF WireInv, WaitsInv, Rides, Listens, Digest
  <2>4. SaidInv'
      BY <2>1, <2>2 DEF WireInv, SaidInv, Digest
  <2>5. RoomInv'
      BY <2>1, <2>2 DEF WireInv, RoomInv, Comes, Reopens, Listens
  <2>6. RailInv'
      BY <2>1, <2>2 DEF WireInv, RailInv, Comes, Reopens, Listens, Digest
  <2> QED
      BY <2>2, <2>3, <2>4, <2>5, <2>6 DEF WireInv
<1>7. CASE PublishGlance
  <2> DEFINE rev == glance[1]
  <2>1. rev \in Nat /\ Publish("open", rev) /\ "open" \in Folk
      BY <1>t, <1>7, WireFacts DEF PublishGlance, WireTypeInv
  <2>2. /\ UNCHANGED <<socket, shown, badge>> /\ misled \ {"open"} \subseteq misled'
        /\ \A g \in Folk \ {"open"} : record'[g] = record[g]
        /\ "open" \in misled' \/ (record'["open"] = rev /\ (Pulses("open", rev) \/ "open" \notin misled))
      BY <1>t, <1>7, WireFacts DEF PublishGlance, WireTypeInv
  <2>3. record' \in [Folk -> Nat] /\ (glance' # <<>> => glance'[1] \in Nat)
      BY <1>t, <1>7, WireFacts DEF PublishGlance, WireTypeInv
  <2> HIDE DEF rev
  <2>4. WaitsInv' /\ SaidInv' /\ RoomInv' /\ RailInv'
      BY <2>1, <2>2, PublishStep
  <2>5. /\ backlog' \in [Watches -> Seq(Msg)] /\ announced' \in [Folk -> SUBSET BOOLEAN]
        /\ \A w \in Watches : ~Listens(w) => backlog'[w] = backlog[w]
      BY <2>1, PublishKeeps
  <2>6. WireTypeInv'
      BY <1>t, <2>2, <2>3, <2>5 DEF WireTypeInv, Listens
  <2> QED
      BY <2>4, <2>6 DEF WireInv
<1>8. CASE RestartServer
  <2>1. Ended /\ missed' = missed \cup Lost(backlog')
      BY <1>t, <1>8, WireFacts DEF RestartServer, Ended, WireTypeInv
  <2>2. UNCHANGED <<record, shown, badge, misled>>
      BY <1>8 DEF RestartServer
  <2>3. WireTypeInv'
      BY <1>t, <1>8, WireFacts DEF RestartServer, WireTypeInv, Listens
  <2>4. SaidInv'
      BY <1>8, WireFacts DEF RestartServer, WireInv, SaidInv, Digest
  <2> QED
      BY <2>1, <2>2, <2>3, <2>4, EndingKeeps DEF WireInv
<1>9. CASE LeaveRoom
  <2>1. Ended /\ missed' = missed \cup Lost(backlog')
      BY <1>t, <1>9, WireFacts DEF LeaveRoom, Ended, WireTypeInv
  <2>2. UNCHANGED <<record, shown, badge, misled>>
      BY <1>9 DEF LeaveRoom
  <2>3. WireTypeInv'
      BY <1>t, <1>9, WireFacts DEF LeaveRoom, WireTypeInv, Listens
  <2>4. SaidInv'
      BY <1>9, WireFacts DEF LeaveRoom, WireInv, SaidInv, Digest
  <2> QED
      BY <2>1, <2>2, <2>3, <2>4, EndingKeeps DEF WireInv
<1>10. CASE EnterRoom
  <2>1. /\ socket' \in [Watches -> {"none", "subscribed", "watching", "closed"}]
        /\ \A u \in Watches : \/ socket'[u] = socket[u]
                              \/ ~Listens(u) /\ socket'[u] # "watching"
        /\ UNCHANGED <<record, announced, backlog, shown, badge, glance, misled, missed>>
      BY <1>t, <1>10, WireFacts DEF EnterRoom, Listens, WireTypeInv
  <2> QED
      BY <2>1, ListeningStep
<1>11. CASE Fetch
  <2>1. UNCHANGED <<record, socket, backlog, badge, missed>>
      BY <1>11 DEF Fetch
  <2>2. /\ WireTypeInv' /\ misled \subseteq misled'
        /\ \A f \in On("rail") : announced'[f] \in {announced[f], {}}
        /\ \A f \in Room : shown'[f] = shown[f] \/ shown'[f] = record[f] \/ f \in misled'
      BY <1>t, <1>11, WireFacts DEF Fetch, WireTypeInv, Listens
  <2>3. WaitsInv'
      BY <2>1, <2>2 DEF WireInv, WaitsInv, Rides, Listens, Digest
  <2>4. SaidInv'
      BY <2>1, <2>2 DEF WireInv, SaidInv, Digest
  <2>5. RoomInv'
      BY <2>1, <2>2 DEF WireInv, RoomInv, Comes, Reopens, Listens
  <2>6. RailInv'
      BY <2>1, <2>2 DEF WireInv, RailInv, Comes, Reopens, Listens, Digest
  <2> QED
      BY <2>2, <2>3, <2>4, <2>5, <2>6 DEF WireInv
<1>12. CASE Refetched
  <2>1. UNCHANGED <<record, socket, backlog, badge, missed>>
      BY <1>12 DEF Refetched
  <2>2. /\ WireTypeInv' /\ misled \subseteq misled'
        /\ \A f \in On("rail") : announced'[f] \in {announced[f], {}}
        /\ \A f \in Room : shown'[f] = shown[f] \/ shown'[f] = record[f] \/ f \in misled'
      BY <1>t, <1>12, WireFacts DEF Refetched, WireTypeInv, Listens
  <2>3. WaitsInv'
      BY <2>1, <2>2 DEF WireInv, WaitsInv, Rides, Listens, Digest
  <2>4. SaidInv'
      BY <2>1, <2>2 DEF WireInv, SaidInv, Digest
  <2>5. RoomInv'
      BY <2>1, <2>2 DEF WireInv, RoomInv, Comes, Reopens, Listens
  <2>6. RailInv'
      BY <2>1, <2>2 DEF WireInv, RailInv, Comes, Reopens, Listens, Digest
  <2> QED
      BY <2>2, <2>3, <2>4, <2>5, <2>6 DEF WireInv
<1>13. CASE ForgetPulses
  <2>1. UNCHANGED <<record, socket, backlog, badge, missed>>
      BY <1>13 DEF ForgetPulses
  <2>2. /\ WireTypeInv' /\ misled \subseteq misled'
        /\ \A f \in On("rail") : announced'[f] \in {announced[f], {}}
        /\ \A f \in Room : shown'[f] = shown[f] \/ shown'[f] = record[f] \/ f \in misled'
      BY <1>t, <1>13, WireFacts DEF ForgetPulses, WireTypeInv, Listens
  <2>3. WaitsInv'
      BY <2>1, <2>2 DEF WireInv, WaitsInv, Rides, Listens, Digest
  <2>4. SaidInv'
      BY <2>1, <2>2 DEF WireInv, SaidInv, Digest
  <2>5. RoomInv'
      BY <2>1, <2>2 DEF WireInv, RoomInv, Comes, Reopens, Listens
  <2>6. RailInv'
      BY <2>1, <2>2 DEF WireInv, RailInv, Comes, Reopens, Listens, Digest
  <2> QED
      BY <2>2, <2>3, <2>4, <2>5, <2>6 DEF WireInv
<1>14. CASE UNCHANGED wvars
  <2>1. UNCHANGED <<record, socket, backlog, badge, missed>>
      BY <1>14 DEF wvars
  <2>2. /\ WireTypeInv' /\ misled \subseteq misled'
        /\ \A f \in On("rail") : announced'[f] \in {announced[f], {}}
        /\ \A f \in Room : shown'[f] = shown[f] \/ shown'[f] = record[f] \/ f \in misled'
      BY <1>t, <1>14, WireFacts DEF wvars, WireTypeInv, Listens
  <2>3. WaitsInv'
      BY <2>1, <2>2 DEF WireInv, WaitsInv, Rides, Listens, Digest
  <2>4. SaidInv'
      BY <2>1, <2>2 DEF WireInv, SaidInv, Digest
  <2>5. RoomInv'
      BY <2>1, <2>2 DEF WireInv, RoomInv, Comes, Reopens, Listens
  <2>6. RailInv'
      BY <2>1, <2>2 DEF WireInv, RailInv, Comes, Reopens, Listens, Digest
  <2> QED
      BY <2>2, <2>3, <2>4, <2>5, <2>6 DEF WireInv
<1> QED
    BY <1>1, <1>2, <1>3, <1>4, <1>5, <1>6, <1>7, <1>8, <1>9, <1>10, <1>11,
       <1>12, <1>13, <1>14 DEF WNext

LEMMA WireHolds == WSpec => []WireInv
<1>1. WInit => WireInv
  <2> SUFFICES ASSUME WInit PROVE WireInv
      OBVIOUS
  <2>1. WireTypeInv
      BY WireFacts DEF WInit, WireTypeInv, Listens
  <2>2. \A f \in On("rail") : badge[f] = Digest(record[f])
      BY WireFacts DEF WInit
  <2> QED
      BY <2>1, <2>2, WireFacts DEF WInit, WireInv, WaitsInv, SaidInv, RoomInv, RailInv
<1>2. WireInv /\ [WNext]_wvars => WireInv'
    BY WireNext
<1> QED
    BY <1>1, <1>2, PTL DEF WSpec

(* However snapshots, messages queued behind them, a second watch of the   *)
(* plan, a full channel and a fetch fall, a room gone quiet shows the plan *)
(* and its subagents as they are recorded, and a quiet rail the badge of   *)
(* every plan, what is known to be missed or older apart (watch.rs watch;  *)
(* events.rs publish_within, pulse; app.rs absorb).                        *)
THEOREM QuietMeansTrue == WSpec => []QuietTabsAreTrue
<1>1. WireInv => QuietTabsAreTrue
  <2> SUFFICES ASSUME WireInv, Settled PROVE QuietTabsAreTrue
      BY DEF QuietTabsAreTrue, QuietRoomIsTrue, QuietRailIsTrue
  <2>1. \A w \in Watches : \A f : ~Comes(w, f)
      BY WireFacts DEF Settled, Comes
  <2>2. QuietRoomIsTrue
      BY <2>1, WireFacts DEF WireInv, RoomInv, QuietRoomIsTrue, WasTold, Reopens
  <2>3. QuietRailIsTrue
      BY <2>1, WireFacts DEF WireInv, RailInv, QuietRailIsTrue, WasTold, Reopens
  <2> QED
      BY <2>2, <2>3 DEF QuietTabsAreTrue
<1> QED
    BY <1>1, WireHolds, PTL

-----------------------------------------------------------------------------
(* Margins.  A note is heard once, in one place or not at all, whatever he *)
(* sends, withdraws and deletes and however late it arrives; and a reply   *)
(* keeps what belongs to it.                                               *)

DraftText == 0 .. MaxDrafts

Entry ==
    [id : Nat, what : {"king", "court", "note", "call"}, reply : Nat, thinks : BOOLEAN,
     open : BOOLEAN, notes : SUBSET NoteId]

Proposal == [body : DraftText, approved : BOOLEAN, notes : SUBSET NoteId]

Status == {"Drafting", "AwaitingReview", "Failed", "Settled"}

Book ==
    [entries : Seq(Entry), count : Nat, queue : Seq(SUBSET NoteId),
     status : Status, full : BOOLEAN,
     proposal : Proposal, review : SUBSET NoteId]

Kind ==
    {"annotate", "annotate_file", "say", "stop", "withdraw", "withdraw_file", "send",
     "send_file", "approve", "set_aside", "delete"}

Asking == [kind : Kind, note : NoteId \cup {0}, body : DraftText, at : Nat, id : Nat]

Seat ==
    [at : {"none", "round", "asking", "acting", "calling", "done", "spoke"},
     halted : BOOLEAN, full : BOOLEAN, reply : Nat, first : BOOLEAN, left : Nat, call : Nat,
     tool : {"none", "propose_plan", "patch"}, put : DraftText]

Tally ==
    [dropped : SUBSET NoteId, erased : SUBSET NoteId, bereft : SUBSET Nat,
     wrong : BOOLEAN, read : DraftText]

(* A draft that is being patched has room for one more text.               *)
MarginsTypeInv ==
    /\ book \in Book
    /\ sitting \in Seat
    /\ draft \in DraftText /\ filed \in DraftText
    /\ demands \in SUBSET Asking /\ made \in Nat
    /\ fates \in [NoteId -> {"unwritten", "asked", "refused", "written", "withdrawn"}]
    /\ tally \in Tally
    /\ sitting.at = "calling" /\ sitting.tool = "patch" => draft < MaxDrafts
    /\ sitting.at = "acting" => sitting.left # 0

Marks(d) == d.kind \in {"annotate", "annotate_file"}

(* A note that is asked for is asked for once and has no fate yet; one that *)
(* went with a proposal, or was erased, had been written.                  *)
AskedInv ==
    /\ \A d \in demands : Marks(d) =>
          /\ d.note \in NoteId /\ fates[d.note] = "asked"
          /\ \A e \in demands : Marks(e) /\ e.note = d.note => e = d
    /\ \A n \in tally.dropped \cup tally.erased : fates[n] \in {"written", "withdrawn"}

OpenIds(s) == {s[i].id : i \in {i \in DOMAIN s : IsOpen(s[i])}}

Called(s, reply) == \E j \in DOMAIN s : s[j].what = "call" /\ s[j].reply = reply

Carried(s, bereft) ==
    \A i \in DOMAIN s :
        (/\ s[i].what = "call" /\ s[i].reply \notin bereft
         /\ \A j \in 1 .. i - 1 : ~SameReply(s[j], s[i]))
        => s[i].thinks

(* A turn that has begun a call of its reply left one, or none is owed.    *)
BegunInv ==
    sitting.at \in {"acting", "calling", "done"} =>
        /\ sitting.at # "acting" => ~sitting.first
        /\ ~sitting.first =>
              sitting.reply \in tally.bereft \/ Called(book.entries, sitting.reply)

RepliesInv ==
    /\ Carried(book.entries, tally.bereft)
    /\ OpenIds(book.entries)
          = IF sitting.at \in {"calling", "done"} THEN {sitting.call} ELSE {}

MarginsInv == MarginsTypeInv /\ AskedInv /\ NotesAreHeardOnce /\ BegunInv /\ RepliesInv

-----------------------------------------------------------------------------
(* The record.                                                             *)

(* What is added without a call leaves the calls of every reply as they    *)
(* were.                                                                   *)
LEMMA MoreIsSaid ==
    ASSUME NEW s \in Seq(Entry), NEW t \in Seq(Entry), Len(s) <= Len(t),
           \A i \in DOMAIN s : t[i] = s[i],
           \A i \in DOMAIN t : i > Len(s) => t[i].what # "call"
    PROVE  /\ OpenIds(t) = OpenIds(s)
           /\ \A bereft : Carried(s, bereft) => Carried(t, bereft)
           /\ \A reply : Called(s, reply) => Called(t, reply)
<1>1. Len(s) \in Nat /\ Len(t) \in Nat /\ DOMAIN s = 1 .. Len(s) /\ DOMAIN t = 1 .. Len(t)
    BY LenProperties
<1>2. \A i \in DOMAIN s : i \in DOMAIN t /\ t[i] = s[i]
    BY <1>1
<1>3. \A i \in DOMAIN t : t[i].what = "call" => i \in DOMAIN s /\ t[i] = s[i]
    BY <1>1
<1>4. OpenIds(t) = OpenIds(s)
    BY <1>2, <1>3 DEF OpenIds, IsOpen
<1>5. ASSUME NEW bereft, Carried(s, bereft)
      PROVE  Carried(t, bereft)
    <2> SUFFICES ASSUME NEW i \in DOMAIN t, t[i].what = "call", t[i].reply \notin bereft,
                        \A j \in 1 .. i - 1 : ~SameReply(t[j], t[i])
                 PROVE  t[i].thinks
        BY DEF Carried
    <2>1. i \in DOMAIN s /\ t[i] = s[i]
        BY <1>3
    <2>2. \A j \in 1 .. i - 1 : j \in DOMAIN s /\ t[j] = s[j]
        BY <1>1, <2>1
    <2> QED
        BY <1>5, <2>1, <2>2 DEF Carried
<1>6. \A reply : Called(s, reply) => Called(t, reply)
    BY <1>2 DEF Called
<1> QED
    BY <1>4, <1>5, <1>6

(* A call that comes back is not open any more, and nothing else changes.  *)
LEMMA CallIsClosed ==
    ASSUME NEW r \in Book, NEW call
    PROVE  LET s == r.entries
               t == Closed(r, call).entries
           IN  /\ Closed(r, call) \in Book
               /\ OpenIds(t) = OpenIds(s) \ {call}
               /\ \A bereft : Carried(s, bereft) => Carried(t, bereft)
               /\ \A reply : Called(s, reply) => Called(t, reply)
<1> DEFINE s == r.entries
           t == [i \in DOMAIN s |-> IF s[i].id = call THEN [s[i] EXCEPT !.open = FALSE]
                                    ELSE s[i]]
<1>1. s \in Seq(Entry) /\ Closed(r, call) = [r EXCEPT !.entries = t]
    BY DEF Closed, Book
<1>2. Len(s) \in Nat /\ DOMAIN s = 1 .. Len(s) /\ \A i \in DOMAIN s : s[i] \in Entry
    BY <1>1, LenProperties, ElementOfSeq
<1>3. \A i \in DOMAIN s :
        /\ t[i] \in Entry /\ t[i].what = s[i].what /\ t[i].reply = s[i].reply
        /\ t[i].thinks = s[i].thinks /\ t[i].id = s[i].id
        /\ t[i].open <=> s[i].open /\ s[i].id # call
    <2> TAKE i \in DOMAIN s
    <2> \A e \in Entry : LET f == [e EXCEPT !.open = FALSE] IN
            /\ f \in Entry /\ f.what = e.what /\ f.reply = e.reply
            /\ f.thinks = e.thinks /\ f.id = e.id /\ f.open = FALSE
        BY DEF Entry
    <2> QED
        BY <1>2
<1>4. t \in Seq(Entry) /\ DOMAIN t = DOMAIN s
    <2>1. t \in [1 .. Len(s) -> Entry] /\ DOMAIN t = DOMAIN s
        BY <1>2, <1>3
    <2> HIDE DEF t
    <2> QED
        BY <1>2, <2>1, SeqDef
<1> HIDE DEF t
<1>5. OpenIds(t) = OpenIds(s) \ {call}
    BY <1>3, <1>4 DEF OpenIds, IsOpen
<1>6. \A bereft : Carried(s, bereft) => Carried(t, bereft)
    <2>1. \A i \in DOMAIN s : \A j \in 1 .. i - 1 : j \in DOMAIN s
        BY <1>2
    <2>2. \A i \in DOMAIN s : \A j \in DOMAIN s :
             SameReply(t[j], t[i]) <=> SameReply(s[j], s[i])
        BY <1>3 DEF SameReply
    <2> QED
        BY <1>3, <1>4, <2>1, <2>2 DEF Carried
<1>7. \A reply : Called(s, reply) => Called(t, reply)
    BY <1>3, <1>4 DEF Called
<1>8. [r EXCEPT !.entries = t] \in Book /\ [r EXCEPT !.entries = t].entries = t
    BY <1>4 DEF Book
<1> QED
    BY <1>1, <1>5, <1>6, <1>7, <1>8

(* Logging adds one entry, and hearing all that waits one for each.        *)
LEMMA LogAppends ==
    ASSUME NEW r \in Book, NEW line \in Entry
    PROVE  LET t == Log(r, line).entries
               logged == [line EXCEPT !.id = r.count + 1]
           IN  /\ Log(r, line) \in Book /\ logged \in Entry
               /\ Log(r, line) = [r EXCEPT !.count = r.count + 1, !.entries = t]
               /\ t \in Seq(Entry) /\ Len(t) = Len(r.entries) + 1
               /\ \A i \in DOMAIN r.entries : t[i] = r.entries[i]
               /\ t[Len(r.entries) + 1] = logged
<1> DEFINE logged == [line EXCEPT !.id = r.count + 1]
           t == Append(r.entries, logged)
<1>0. r.entries \in Seq(Entry) /\ r.count \in Nat /\ r.count + 1 \in Nat
    BY DEF Book
<1>1. logged \in Entry
    <2> \A n \in Nat : [line EXCEPT !.id = n] \in Entry
        BY DEF Entry
    <2> QED
        BY <1>0
<1> HIDE DEF logged
<1>2. /\ t \in Seq(Entry) /\ Len(t) = Len(r.entries) + 1
      /\ \A i \in 1 .. Len(r.entries) : t[i] = r.entries[i]
      /\ t[Len(r.entries) + 1] = logged
    BY <1>0, <1>1, AppendProperties
<1>3. DOMAIN r.entries = 1 .. Len(r.entries)
    BY <1>0, LenProperties
<1>4. Log(r, line) = [r EXCEPT !.count = r.count + 1, !.entries = t]
    BY DEF Log, logged
<1> HIDE DEF t
<1>5. /\ [r EXCEPT !.count = r.count + 1, !.entries = t] \in Book
      /\ [r EXCEPT !.count = r.count + 1, !.entries = t].entries = t
    BY <1>0, <1>2 DEF Book
<1> QED
    BY <1>1, <1>2, <1>3, <1>4, <1>5 DEF logged

LEMMA LineType ==
    ASSUME NEW what \in {"king", "court", "note", "call"}, NEW notes \in SUBSET NoteId
    PROVE  /\ Line(what, notes) \in Entry /\ Line(what, notes).what = what
           /\ Line(what, notes).notes = notes
           /\ \A n \in Nat : /\ [Line(what, notes) EXCEPT !.id = n] \in Entry
                             /\ [Line(what, notes) EXCEPT !.id = n].what = what
                             /\ [Line(what, notes) EXCEPT !.id = n].notes = notes
    BY DEF Line, Entry

LEMMA HearAllAppends ==
    ASSUME NEW r \in Book
    PROVE  LET t == HearAll(r).entries
           IN  /\ HearAll(r) \in Book
               /\ HearAll(r) = [r EXCEPT !.count = r.count + Len(r.queue),
                                         !.queue = <<>>, !.entries = t]
               /\ t \in Seq(Entry) /\ Len(t) = Len(r.entries) + Len(r.queue)
               /\ \A i \in DOMAIN r.entries : t[i] = r.entries[i]
               /\ \A i \in DOMAIN r.queue :
                    /\ t[Len(r.entries) + i].what = "king"
                    /\ t[Len(r.entries) + i].notes = r.queue[i]
<1> DEFINE said == [i \in DOMAIN r.queue |->
                       [Line("king", r.queue[i]) EXCEPT !.id = r.count + i]]
           t == r.entries \o said
<1>1. /\ r.entries \in Seq(Entry) /\ r.queue \in Seq(SUBSET NoteId) /\ r.count \in Nat
      /\ Len(r.queue) \in Nat /\ DOMAIN r.queue = 1 .. Len(r.queue)
      /\ \A i \in DOMAIN r.queue : r.queue[i] \in SUBSET NoteId
    BY LenProperties, ElementOfSeq DEF Book
<1>2. \A i \in DOMAIN r.queue :
          said[i] \in Entry /\ said[i].what = "king" /\ said[i].notes = r.queue[i]
    <2> TAKE i \in DOMAIN r.queue
    <2>1. r.count + i \in Nat /\ r.queue[i] \in SUBSET NoteId
        BY <1>1
    <2> QED
        BY <2>1, LineType
<1>3. said \in Seq(Entry) /\ Len(said) = Len(r.queue)
    <2>1. said \in [1 .. Len(r.queue) -> Entry]
        BY <1>1, <1>2
    <2> HIDE DEF said
    <2> QED
        BY SMTT(60), <1>1, <2>1, SeqDef, LenProperties
<1>8. HearAll(r) = [r EXCEPT !.count = r.count + Len(r.queue), !.queue = <<>>, !.entries = t]
    BY DEF HearAll
<1> HIDE DEF said
<1>4. /\ t \in Seq(Entry) /\ Len(t) = Len(r.entries) + Len(r.queue)
      /\ \A i \in 1 .. Len(r.entries) + Len(r.queue) :
           t[i] = IF i <= Len(r.entries) THEN r.entries[i] ELSE said[i - Len(r.entries)]
    <2>1. r.entries \in Seq(Entry) /\ said \in Seq(Entry)
        BY <1>1, <1>3
    <2>2. /\ t \in Seq(Entry) /\ Len(t) = Len(r.entries) + Len(said)
          /\ \A i \in 1 .. Len(r.entries) + Len(said) :
               t[i] = IF i <= Len(r.entries) THEN r.entries[i] ELSE said[i - Len(r.entries)]
        BY ONLY <2>1, ConcatProperties
    <2> QED
        BY <1>3, <2>2
<1> HIDE DEF t
<1>5. /\ Len(r.entries) \in Nat /\ DOMAIN r.entries = 1 .. Len(r.entries)
      /\ Len(r.queue) \in Nat /\ DOMAIN r.queue = 1 .. Len(r.queue)
    BY <1>1, LenProperties
<1>6. ASSUME NEW i \in DOMAIN r.entries
      PROVE  t[i] = r.entries[i]
    <2> \A m, n \in Nat : \A k \in 1 .. m : k \in 1 .. m + n /\ k <= m
        OBVIOUS
    <2>1. i \in 1 .. Len(r.entries) + Len(r.queue) /\ i <= Len(r.entries)
        BY <1>5
    <2> QED
        BY <1>4, <2>1
<1>7. ASSUME NEW i \in DOMAIN r.queue
      PROVE  t[Len(r.entries) + i] = said[i]
    <2> DEFINE m == Len(r.entries)
               n == Len(r.queue)
               k == m + i
    <2>1. m \in Nat /\ n \in Nat /\ i \in 1 .. n
        BY <1>5
    <2>2. \A l \in 1 .. m + n : t[l] = IF l <= m THEN r.entries[l] ELSE said[l - m]
        BY <1>4
    <2> HIDE DEF m, n
    <2>3. k \in 1 .. m + n /\ ~(k <= m) /\ k - m = i
        BY <2>1
    <2> HIDE DEF k
    <2>4. t[k] = said[i]
        BY <2>2, <2>3
    <2> QED
        BY <2>4 DEF k, m
<1>9. /\ HearAll(r) \in Book /\ HearAll(r).entries = t
    <2>1. <<>> \in Seq(SUBSET NoteId) /\ r.count + Len(r.queue) \in Nat
        BY <1>1, EmptySeq
    <2>2. t \in Seq(Entry)
        BY <1>4
    <2> QED
        BY <1>8, <2>1, <2>2 DEF Book
<1> QED
    BY ZenonT(60), <1>2, <1>4, <1>6, <1>7, <1>8, <1>9

(* What is left when the entry at a place is struck.                       *)
LEMMA RemoveAtShifts ==
    ASSUME NEW S, NEW s \in Seq(S), NEW a \in DOMAIN s
    PROVE  /\ RemoveAt(s, a) \in Seq(S) /\ Len(RemoveAt(s, a)) = Len(s) - 1
           /\ \A j \in 1 .. Len(s) - 1 :
                RemoveAt(s, a)[j] = IF j < a THEN s[j] ELSE s[j + 1]
<1> DEFINE n == Len(s)
           u == SubSeq(s, 1, a - 1)
           v == SubSeq(s, a + 1, n)
           t == u \o v
<1>1. n \in Nat /\ a \in Nat /\ 1 <= a /\ a <= n /\ DOMAIN s = 1 .. n
    BY LenProperties
<1>2. RemoveAt(s, a) = t
    BY DEF RemoveAt
<1>3. /\ u \in Seq(S) /\ Len(u) = a - 1
      /\ \A j \in 1 .. a - 1 : u[j] = s[j]
    <2>1. \A j \in 1 .. a - 1 : s[j] \in S
        BY <1>1, ElementOfSeq
    <2>2. /\ u \in Seq(S) /\ Len(u) = (IF 1 <= a - 1 THEN a - 1 - 1 + 1 ELSE 0)
          /\ \A j \in 1 .. a - 1 - 1 + 1 : u[j] = s[1 + j - 1]
        BY <1>1, <2>1, SubSeqProperties
    <2> HIDE DEF u
    <2> QED
        BY <1>1, <2>2
<1>4. /\ v \in Seq(S) /\ Len(v) = n - a
      /\ \A j \in 1 .. n - a : v[j] = s[a + j]
    <2>1. \A j \in a + 1 .. n : s[j] \in S
        BY <1>1, ElementOfSeq
    <2>2. /\ v \in Seq(S) /\ Len(v) = (IF a + 1 <= n THEN n - (a + 1) + 1 ELSE 0)
          /\ \A j \in 1 .. n - (a + 1) + 1 : v[j] = s[a + 1 + j - 1]
        BY <1>1, <2>1, SubSeqProperties
    <2> HIDE DEF v, n
    <2>3. \A j \in 1 .. n - a : j \in 1 .. n - (a + 1) + 1 /\ a + 1 + j - 1 = a + j
        BY <1>1
    <2>4. ASSUME NEW j \in 1 .. n - a
          PROVE  v[j] = s[a + j]
        <3>1. v[j] = s[a + 1 + j - 1]
            BY <2>2, <2>3
        <3> QED
            BY <2>3, <3>1
    <2>5. Len(v) = n - a
        BY <1>1, <2>2
    <2> QED
        BY <2>2, <2>4, <2>5
<1> HIDE DEF u, v
<1>5. /\ t \in Seq(S) /\ Len(t) = Len(u) + Len(v)
      /\ \A j \in 1 .. Len(u) + Len(v) :
           t[j] = IF j <= Len(u) THEN u[j] ELSE v[j - Len(u)]
    BY <1>3, <1>4, ConcatProperties
<1> HIDE DEF t
<1>6. Len(t) = n - 1
    BY <1>1, <1>3, <1>4, <1>5
<1>7. ASSUME NEW j \in 1 .. n - 1
      PROVE  t[j] = IF j < a THEN s[j] ELSE s[j + 1]
    <2>1. t[j] = IF j <= a - 1 THEN u[j] ELSE v[j - (a - 1)]
        BY <1>1, <1>3, <1>4, <1>5
    <2>2. CASE j < a
        BY <1>1, <1>3, <2>1, <2>2
    <2>3. CASE ~(j < a)
        <3>1. j - (a - 1) \in 1 .. n - a /\ a + (j - (a - 1)) = j + 1 /\ ~(j <= a - 1)
            BY <1>1, <2>3
        <3> QED
            BY <1>4, <2>1, <2>3, <3>1
    <2> QED
        BY <2>2, <2>3
<1> QED
    BY <1>2, <1>5, <1>6, <1>7

(* Thinking is handed to an entry; nothing else changes.                   *)
LEMMA HandOnChanges ==
    ASSUME NEW s \in Seq(Entry), NEW a \in DOMAIN s
    PROVE  LET u == HandOn(s, a)
           IN  /\ u \in Seq(Entry) /\ Len(u) = Len(s) /\ DOMAIN u = DOMAIN s
               /\ \A j \in DOMAIN s :
                    /\ u[j].id = s[j].id /\ u[j].what = s[j].what /\ u[j].reply = s[j].reply
                    /\ u[j].open = s[j].open /\ u[j].notes = s[j].notes
                    /\ s[j].thinks => u[j].thinks
               /\ \A j \in DOMAIN s :
                    /\ j > a /\ SameReply(s[j], s[a]) /\ s[a].thinks
                    /\ \A k \in DOMAIN s : k > a /\ SameReply(s[k], s[a]) => j <= k
                    => u[j].thinks
<1> DEFINE u == HandOn(s, a)
           first(j) == /\ j > a /\ j \in DOMAIN s /\ SameReply(s[j], s[a])
                       /\ \A k \in DOMAIN s : k > a /\ SameReply(s[k], s[a]) => j <= k
<1>1. /\ Len(s) \in Nat /\ DOMAIN s = 1 .. Len(s) /\ a \in Nat /\ 1 <= a
      /\ \A j \in DOMAIN s : s[j] \in Entry
    BY LenProperties, ElementOfSeq
<1>2. DOMAIN u = DOMAIN s
    BY DEF HandOn
<1>3. ASSUME NEW j \in DOMAIN s
      PROVE  u[j] = IF first(j) THEN [s[j] EXCEPT !.thinks = s[j].thinks \/ s[a].thinks]
                    ELSE s[j]
    <2> DEFINE later == {i \in a + 1 .. Len(s) : SameReply(s[i], s[a])}
    <2>1. \A i : i \in later <=> i \in DOMAIN s /\ i > a /\ SameReply(s[i], s[a])
        BY <1>1
    <2>2. u[j] = IF j \in later /\ \A k \in later : j <= k
                 THEN [s[j] EXCEPT !.thinks = s[j].thinks \/ s[a].thinks] ELSE s[j]
        BY DEF HandOn
    <2> HIDE DEF later
    <2>3. (j \in later /\ \A k \in later : j <= k) <=> first(j)
        BY <2>1
    <2> QED
        BY <2>2, <2>3
<1> HIDE DEF u, first
<1>4. ASSUME NEW j \in DOMAIN s
      PROVE  /\ u[j] \in Entry
             /\ u[j].id = s[j].id /\ u[j].what = s[j].what /\ u[j].reply = s[j].reply
             /\ u[j].open = s[j].open /\ u[j].notes = s[j].notes
             /\ s[j].thinks => u[j].thinks
             /\ first(j) /\ s[a].thinks => u[j].thinks
    <2>1. \A e \in Entry : \A b \in BOOLEAN :
            LET f == [e EXCEPT !.thinks = e.thinks \/ b] IN
            /\ f \in Entry /\ f.id = e.id /\ f.what = e.what /\ f.reply = e.reply
            /\ f.open = e.open /\ f.notes = e.notes
            /\ e.thinks => f.thinks
            /\ b => f.thinks
        BY DEF Entry
    <2>2. s[a].thinks \in BOOLEAN /\ s[j] \in Entry
        BY <1>1 DEF Entry
    <2> DEFINE f == [s[j] EXCEPT !.thinks = s[j].thinks \/ s[a].thinks]
    <2>3. /\ f \in Entry /\ f.id = s[j].id /\ f.what = s[j].what
          /\ f.reply = s[j].reply /\ f.open = s[j].open /\ f.notes = s[j].notes
          /\ s[j].thinks => f.thinks
          /\ s[a].thinks => f.thinks
        BY <2>1, <2>2
    <2>4. u[j] = IF first(j) THEN f ELSE s[j]
        BY <1>3
    <2> HIDE DEF f
    <2>5. CASE first(j)
        <3>1. u[j] = f
            BY <2>4, <2>5
        <3> QED
            BY <2>3, <3>1
    <2>6. CASE ~first(j)
        <3>1. u[j] = s[j]
            BY <2>4, <2>6
        <3> QED
            BY <2>2, <2>6, <3>1
    <2> QED
        BY <2>5, <2>6
<1>5. u \in Seq(Entry) /\ Len(u) = Len(s)
    <2>1. u = [j \in 1 .. Len(s) |-> u[j]]
        BY <1>1, <1>2 DEF u, HandOn
    <2>2. u \in [1 .. Len(s) -> Entry]
        BY <1>1, <1>4, <2>1
    <2> QED
        BY <1>1, <2>2, SeqDef, LenProperties
<1> QED
    BY <1>2, <1>4, <1>5 DEF u, first

Sole(s, a) == ~\E j \in DOMAIN s : j # a /\ SameReply(s[j], s[a])

Left(s, a) == RemoveAt(IF s[a].what = "call" THEN HandOn(s, a) ELSE s, a)

From(a, j) == IF j < a THEN j ELSE j + 1
NewPlace(a, i) == IF i < a THEN i ELSE i - 1

(* What is left when an entry is struck is what there was, moved up.       *)
LEMMA StrikingMoves ==
    ASSUME NEW s \in Seq(Entry), NEW a \in DOMAIN s
    PROVE  LET t == Left(s, a)
           IN  /\ t \in Seq(Entry)
               /\ \A j \in DOMAIN t :
                    /\ From(a, j) \in DOMAIN s \ {a} /\ NewPlace(a, From(a, j)) = j
                    /\ t[j].id = s[From(a, j)].id /\ t[j].what = s[From(a, j)].what
                    /\ t[j].reply = s[From(a, j)].reply /\ t[j].open = s[From(a, j)].open
                    /\ t[j].notes = s[From(a, j)].notes
               /\ \A i \in DOMAIN s \ {a} : NewPlace(a, i) \in DOMAIN t /\ From(a, NewPlace(a, i)) = i
               /\ \A j \in DOMAIN t : s[From(a, j)].thinks => t[j].thinks
               /\ \A j \in DOMAIN t : s[a].what = "call" => t[j] = HandOn(s, a)[From(a, j)]
<1> DEFINE u == IF s[a].what = "call" THEN HandOn(s, a) ELSE s
           t == RemoveAt(u, a)
           n == Len(s)
<1>1. /\ u \in Seq(Entry) /\ Len(u) = n /\ DOMAIN u = DOMAIN s
      /\ \A j \in DOMAIN s :
           /\ u[j].id = s[j].id /\ u[j].what = s[j].what /\ u[j].reply = s[j].reply
           /\ u[j].open = s[j].open /\ u[j].notes = s[j].notes
           /\ s[j].thinks => u[j].thinks
    BY SMTT(60), HandOnChanges
<1>2. n \in Nat /\ DOMAIN s = 1 .. n
    BY LenProperties
<1>3. s[a].what = "call" => u = HandOn(s, a)
    OBVIOUS
<1> HIDE DEF u
<1>4. /\ t \in Seq(Entry) /\ Len(t) = n - 1
      /\ \A j \in 1 .. n - 1 : t[j] = IF j < a THEN u[j] ELSE u[j + 1]
    BY ZenonT(60), <1>1, RemoveAtShifts
<1>5. DOMAIN t = 1 .. n - 1
    BY <1>4, LenProperties
<1> HIDE DEF t
<1>6. ASSUME NEW j \in DOMAIN t
      PROVE  /\ From(a, j) \in DOMAIN s \ {a} /\ NewPlace(a, From(a, j)) = j
             /\ t[j] = u[From(a, j)]
    BY <1>2, <1>4, <1>5 DEF From, NewPlace
<1>7. ASSUME NEW i \in DOMAIN s \ {a}
      PROVE  NewPlace(a, i) \in DOMAIN t /\ From(a, NewPlace(a, i)) = i
    BY <1>2, <1>5 DEF From, NewPlace
<1>8. Left(s, a) = t
    BY DEF Left, t, u
<1>9. \A j \in DOMAIN t :
        /\ t[j].id = s[From(a, j)].id /\ t[j].what = s[From(a, j)].what
        /\ t[j].reply = s[From(a, j)].reply /\ t[j].open = s[From(a, j)].open
        /\ t[j].notes = s[From(a, j)].notes
    BY <1>1, <1>6
<1>10. \A j \in DOMAIN t : s[From(a, j)].thinks => t[j].thinks
    BY <1>1, <1>6
<1>11. \A j \in DOMAIN t : s[a].what = "call" => t[j] = HandOn(s, a)[From(a, j)]
    BY <1>3, <1>6
<1> QED
    BY <1>4, <1>6, <1>7, <1>8, <1>9, <1>10, <1>11

(* The calls of a reply keep its thinking, or the reply is bereft of calls. *)
LEMMA StrikingCarries ==
    ASSUME NEW s \in Seq(Entry), NEW a \in DOMAIN s, ~IsOpen(s[a]),
           NEW bereft, NEW more,
           more = IF s[a].what = "call" /\ Sole(s, a) THEN bereft \cup {s[a].reply} ELSE bereft
    PROVE  LET t == Left(s, a)
           IN  /\ OpenIds(t) = OpenIds(s)
               /\ Carried(s, bereft) => Carried(t, more)
               /\ \A reply : reply \in bereft \/ Called(s, reply)
                     => reply \in more \/ Called(t, reply)
<1> DEFINE t == Left(s, a)
<1>1. /\ \A j \in DOMAIN t :
           /\ From(a, j) \in DOMAIN s \ {a} /\ NewPlace(a, From(a, j)) = j
           /\ t[j].id = s[From(a, j)].id /\ t[j].what = s[From(a, j)].what
           /\ t[j].reply = s[From(a, j)].reply /\ t[j].open = s[From(a, j)].open
      /\ \A i \in DOMAIN s \ {a} : NewPlace(a, i) \in DOMAIN t /\ From(a, NewPlace(a, i)) = i
      /\ \A j \in DOMAIN t : s[From(a, j)].thinks => t[j].thinks
      /\ \A j \in DOMAIN t : s[a].what = "call" => t[j] = HandOn(s, a)[From(a, j)]
      /\ t \in Seq(Entry)
    BY StrikingMoves
<1>2. /\ Len(s) \in Nat /\ DOMAIN s = 1 .. Len(s)
    BY LenProperties
<1>0. /\ Len(t) \in Nat /\ DOMAIN t = 1 .. Len(t)
    BY <1>1, LenProperties
<1> HIDE DEF t
<1>3. OpenIds(t) = OpenIds(s)
    <2>1. ASSUME NEW x \in OpenIds(t)
          PROVE  x \in OpenIds(s)
        <3>1. PICK j \in DOMAIN t : x = t[j].id /\ IsOpen(t[j])
            BY <2>1 DEF OpenIds
        <3>2. From(a, j) \in DOMAIN s /\ s[From(a, j)].id = x /\ IsOpen(s[From(a, j)])
            BY <1>1, <3>1 DEF IsOpen
        <3> QED
            BY <3>2 DEF OpenIds
    <2>2. ASSUME NEW x \in OpenIds(s)
          PROVE  x \in OpenIds(t)
        <3>1. PICK i \in DOMAIN s : x = s[i].id /\ IsOpen(s[i])
            BY <2>2 DEF OpenIds
        <3>2. i \in DOMAIN s \ {a}
            BY <3>1
        <3>3. NewPlace(a, i) \in DOMAIN t /\ t[NewPlace(a, i)].id = x /\ IsOpen(t[NewPlace(a, i)])
            BY <1>1, <3>1, <3>2 DEF IsOpen
        <3> QED
            BY <3>3 DEF OpenIds
    <2> QED
        BY <2>1, <2>2
<1>4. ASSUME Carried(s, bereft)
      PROVE  Carried(t, more)
    <2> SUFFICES ASSUME NEW i \in DOMAIN t, t[i].what = "call", t[i].reply \notin more,
                        \A j \in 1 .. i - 1 : ~SameReply(t[j], t[i])
                 PROVE  t[i].thinks
        BY DEF Carried
    <2> DEFINE I == From(a, i)
    <2>1. I \in DOMAIN s /\ I # a /\ s[I].what = "call" /\ s[I].reply = t[i].reply
        BY <1>1
    <2>2. s[I].reply \notin bereft
        BY <2>1
    <2>3. ASSUME NEW J \in DOMAIN s, J < I, J # a
          PROVE  ~SameReply(s[J], s[I])
        <3> DEFINE j == NewPlace(a, J)
        <3>0. J \in DOMAIN s \ {a}
            BY <2>3
        <3>1. j \in DOMAIN t /\ From(a, j) = J
            BY <1>1, <3>0
        <3>2. j \in 1 .. i - 1
            BY <1>0, <1>2, <2>3 DEF From, NewPlace
        <3>3. s[J].what = t[j].what /\ s[J].reply = t[j].reply
            BY <1>1, <3>1
        <3> HIDE DEF j
        <3> QED
            BY <2>1, <3>2, <3>3 DEF SameReply
    <2>4. CASE a < I /\ SameReply(s[a], s[I])
        <3>1. s[a].what = "call" /\ s[a].reply = s[I].reply
            BY <2>4 DEF SameReply
        <3>2. \A j \in 1 .. a - 1 : ~SameReply(s[j], s[a])
            <4> TAKE j \in 1 .. a - 1
            <4>1. j \in DOMAIN s /\ j < I /\ j # a
                BY <1>2, <2>1, <2>4
            <4> QED
                BY <2>3, <3>1, <4>1 DEF SameReply
        <3>3. s[a].thinks
            BY <1>4, <2>2, <3>1, <3>2 DEF Carried
        <3>4. SameReply(s[I], s[a])
            BY <2>1, <3>1 DEF SameReply
        <3>5. \A k \in DOMAIN s : k > a /\ SameReply(s[k], s[a]) => I <= k
            BY <1>2, <2>1, <2>3, <3>1 DEF SameReply
        <3>6. I > a
            BY <1>2, <2>1, <2>4
        <3> HIDE DEF I
        <3>7. HandOn(s, a)[I].thinks
            BY <2>1, <3>3, <3>4, <3>5, <3>6, HandOnChanges
        <3> QED
            BY <1>1, <3>1, <3>7 DEF I
    <2>5. CASE ~(a < I /\ SameReply(s[a], s[I]))
        <3>1. \A j \in 1 .. I - 1 : ~SameReply(s[j], s[I])
            <4> TAKE j \in 1 .. I - 1
            <4>1. j \in DOMAIN s /\ j < I
                BY <1>2, <2>1
            <4> QED
                BY <2>3, <2>5, <4>1
        <3>2. s[I].thinks
            BY <1>4, <2>1, <2>2, <3>1 DEF Carried
        <3> QED
            BY <1>1, <3>2
    <2> QED
        BY <2>4, <2>5
<1>5. ASSUME NEW reply, reply \in bereft \/ Called(s, reply), reply \notin more
      PROVE  Called(t, reply)
    <2>1. PICK j \in DOMAIN s : s[j].what = "call" /\ s[j].reply = reply
        BY <1>5 DEF Called
    <2>2. CASE j # a
        BY <1>1, <2>1, <2>2 DEF Called
    <2>3. CASE j = a
        <3>1. ~Sole(s, a)
            BY <1>5, <2>1, <2>3
        <3>2. PICK k \in DOMAIN s : k # a /\ SameReply(s[k], s[a])
            BY <3>1 DEF Sole
        <3> QED
            BY <1>1, <2>1, <2>3, <3>2 DEF Called, SameReply
    <2> QED
        BY <2>2, <2>3
<1> QED
    BY <1>3, <1>4, <1>5 DEF t

(* A call carries the thinking of its reply if it is the first of it.      *)
LEMMA CallBegins ==
    ASSUME NEW s \in Seq(Entry), NEW line \in Entry, NEW t \in Seq(Entry), NEW bereft,
           Len(t) = Len(s) + 1, \A i \in DOMAIN s : t[i] = s[i], t[Len(s) + 1] = line,
           line.what = "call", line.open,
           line.thinks \/ line.reply \in bereft \/ Called(s, line.reply)
    PROVE  /\ OpenIds(t) = OpenIds(s) \cup {line.id}
           /\ Carried(s, bereft) => Carried(t, bereft)
           /\ Called(t, line.reply)
<1> DEFINE n == Len(s)
<1>1. n \in Nat /\ DOMAIN s = 1 .. n /\ DOMAIN t = 1 .. n + 1
    BY LenProperties
<1>2. /\ \A i \in DOMAIN s : i \in DOMAIN t /\ t[i] = s[i]
      /\ \A i \in DOMAIN t : i = n + 1 \/ i \in DOMAIN s
      /\ n + 1 \in DOMAIN t /\ t[n + 1] = line
    BY <1>1
<1> HIDE DEF n
<1>3. OpenIds(t) = OpenIds(s) \cup {line.id}
    BY <1>2 DEF OpenIds, IsOpen
<1>4. ASSUME Carried(s, bereft), NEW i \in DOMAIN t, t[i].reply \notin bereft,
             t[i].what = "call", \A j \in 1 .. i - 1 : ~SameReply(t[j], t[i])
      PROVE  t[i].thinks
    <2>1. CASE i = n + 1
        <3>1. ~Called(s, line.reply)
            <4> SUFFICES ASSUME NEW j \in DOMAIN s, s[j].what = "call", s[j].reply = line.reply
                         PROVE  FALSE
                BY DEF Called
            <4>1. j \in 1 .. i - 1 /\ t[j] = s[j] /\ t[i] = line
                BY <1>1, <1>2, <2>1
            <4> QED
                BY <1>4, <4>1 DEF SameReply
        <3> QED
            BY <1>2, <1>4, <2>1, <3>1
    <2>2. CASE i \in DOMAIN s
        <3>1. \A j \in 1 .. i - 1 : j \in DOMAIN s
            BY <1>1, <2>2
        <3> QED
            BY <1>2, <1>4, <2>2, <3>1 DEF Carried
    <2> QED
        BY <1>2, <2>1, <2>2
<1>5. Called(t, line.reply)
    BY <1>2 DEF Called
<1> QED
    BY <1>3, <1>4, <1>5 DEF Carried

-----------------------------------------------------------------------------
(* Where notes are.                                                        *)

IsOne(places) == \E p : places = {p}

LEMMA PlacesAre ==
    ASSUME NEW r, NEW n, NEW p
    PROVE  p \in Places(r, n) <=>
             \/ p = <<"margin", 1>> /\ n \in r.proposal.notes
             \/ p = <<"review", 1>> /\ n \in r.review
             \/ \E i \in DOMAIN r.queue : p = <<"queue", i>> /\ n \in r.queue[i]
             \/ \E i \in DOMAIN r.entries : p = <<"told", i>> /\ n \in r.entries[i].notes
<1> DEFINE in(where, sets) == {<<where, i>> : i \in {j \in DOMAIN sets : n \in sets[j]}}
           told == [i \in DOMAIN r.entries |-> r.entries[i].notes]
<1>1. ASSUME NEW where, NEW sets
      PROVE  p \in in(where, sets) <=>
                \E i \in DOMAIN sets : p = <<where, i>> /\ n \in sets[i]
    OBVIOUS
<1>2. \A s : DOMAIN <<s>> = {1} /\ <<s>>[1] = s
    OBVIOUS
<1>3. /\ DOMAIN told = DOMAIN r.entries
      /\ \A i \in DOMAIN r.entries : told[i] = r.entries[i].notes
    OBVIOUS
<1>4. Places(r, n) = in("margin", <<r.proposal.notes>>) \cup in("review", <<r.review>>)
                      \cup in("queue", r.queue) \cup in("told", told)
    BY DEF Places
<1> HIDE DEF in, told
<1>5. p \in in("margin", <<r.proposal.notes>>) <=> p = <<"margin", 1>> /\ n \in r.proposal.notes
    BY <1>1, <1>2
<1>6. p \in in("review", <<r.review>>) <=> p = <<"review", 1>> /\ n \in r.review
    BY <1>1, <1>2
<1>7. p \in in("queue", r.queue) <=>
        \E i \in DOMAIN r.queue : p = <<"queue", i>> /\ n \in r.queue[i]
    BY <1>1
<1>8. p \in in("told", told) <=>
        \E i \in DOMAIN r.entries : p = <<"told", i>> /\ n \in r.entries[i].notes
    BY <1>1, <1>3
<1> QED
    BY <1>4, <1>5, <1>6, <1>7, <1>8

(* What changes only how a plan stands, or a call, moves no note.          *)
LEMMA SamePlaces ==
    ASSUME NEW r, NEW s, NEW n,
           s.proposal.notes = r.proposal.notes, s.review = r.review, s.queue = r.queue,
           DOMAIN s.entries = DOMAIN r.entries,
           \A i \in DOMAIN r.entries : s.entries[i].notes = r.entries[i].notes
    PROVE  Places(s, n) = Places(r, n)
<1>1. ASSUME NEW p
      PROVE  p \in Places(s, n) <=> p \in Places(r, n)
    BY PlacesAre
<1> QED
    BY <1>1

(* A line of the record carries the notes it is made of.                   *)
LEMMA LogPlaces ==
    ASSUME NEW r \in Book, NEW line \in Entry, NEW n
    PROVE  Places(Log(r, line), n)
              = Places(r, n) \cup (IF n \in line.notes THEN {<<"told", Len(r.entries) + 1>>}
                                   ELSE {})
<1> DEFINE s == Log(r, line)
           m == Len(r.entries)
           more == IF n \in line.notes THEN {<<"told", m + 1>>} ELSE {}
<1>1. /\ s.proposal = r.proposal /\ s.review = r.review /\ s.queue = r.queue
      /\ s.entries \in Seq(Entry) /\ Len(s.entries) = m + 1 /\ r.entries \in Seq(Entry)
      /\ \A i \in DOMAIN r.entries : s.entries[i] = r.entries[i]
      /\ s.entries[m + 1].notes = line.notes
    <2>1. /\ s = [r EXCEPT !.count = r.count + 1, !.entries = s.entries]
          /\ s.entries \in Seq(Entry) /\ Len(s.entries) = m + 1
          /\ \A i \in DOMAIN r.entries : s.entries[i] = r.entries[i]
          /\ s.entries[m + 1] = [line EXCEPT !.id = r.count + 1]
        BY LogAppends
    <2> HIDE DEF s, m
    <2>2. /\ s.proposal = r.proposal /\ s.review = r.review /\ s.queue = r.queue
          /\ r.entries \in Seq(Entry)
        BY <2>1 DEF Book
    <2>3. [line EXCEPT !.id = r.count + 1].notes = line.notes
        BY DEF Entry
    <2> QED
        BY <2>1, <2>2, <2>3
<1>2. m \in Nat /\ DOMAIN r.entries = 1 .. m /\ DOMAIN s.entries = 1 .. m + 1
    BY <1>1, LenProperties
<1> HIDE DEF s, m
<1>3. /\ \A i \in DOMAIN r.entries : i \in DOMAIN s.entries
      /\ \A i \in DOMAIN s.entries : i \in DOMAIN r.entries \/ i = m + 1
      /\ m + 1 \in DOMAIN s.entries
    BY <1>2
<1>4. ASSUME NEW p
      PROVE  p \in Places(s, n) <=> p \in Places(r, n) \/ p \in more
    <2>1. p \in more <=> p = <<"told", m + 1>> /\ n \in line.notes
        OBVIOUS
    <2> HIDE DEF more
    <2>2. (\E i \in DOMAIN s.entries : p = <<"told", i>> /\ n \in s.entries[i].notes)
          <=> \/ \E i \in DOMAIN r.entries : p = <<"told", i>> /\ n \in r.entries[i].notes
              \/ p \in more
        BY <1>1, <1>3, <2>1
    <2> QED
        BY <1>1, <2>2, PlacesAre
<1> QED
    BY <1>4 DEF s, m

(* A note that waited is said, and is where it was otherwise.              *)
LEMMA HearAllPlaces ==
    ASSUME NEW r \in Book, NEW n
    PROVE  /\ Places(r, n) = {} => Places(HearAll(r), n) = {}
           /\ IsOne(Places(r, n)) => IsOne(Places(HearAll(r), n))
<1> DEFINE s == HearAll(r)
           m == Len(r.entries)
           moved(p) == IF p[1] = "queue" THEN <<"told", m + p[2]>> ELSE p
<1>1. /\ s.proposal = r.proposal /\ s.review = r.review /\ s.queue = <<>>
      /\ s.entries \in Seq(Entry) /\ Len(s.entries) = m + Len(r.queue)
      /\ r.entries \in Seq(Entry) /\ r.queue \in Seq(SUBSET NoteId)
      /\ \A i \in DOMAIN r.entries : s.entries[i] = r.entries[i]
      /\ \A i \in DOMAIN r.queue : s.entries[m + i].notes = r.queue[i]
    <2>1. /\ s = [r EXCEPT !.count = r.count + Len(r.queue), !.queue = <<>>,
                            !.entries = s.entries]
          /\ s.entries \in Seq(Entry) /\ Len(s.entries) = m + Len(r.queue)
          /\ \A i \in DOMAIN r.entries : s.entries[i] = r.entries[i]
          /\ \A i \in DOMAIN r.queue : s.entries[m + i].notes = r.queue[i]
        BY HearAllAppends
    <2> HIDE DEF s, m
    <2>2. /\ s.proposal = r.proposal /\ s.review = r.review /\ s.queue = <<>>
          /\ r.entries \in Seq(Entry) /\ r.queue \in Seq(SUBSET NoteId)
        BY <2>1 DEF Book
    <2> QED
        BY <2>1, <2>2
<1>2. /\ m \in Nat /\ DOMAIN r.entries = 1 .. m
      /\ Len(r.queue) \in Nat /\ DOMAIN r.queue = 1 .. Len(r.queue)
      /\ DOMAIN s.entries = 1 .. m + Len(r.queue)
    BY <1>1, LenProperties
<1> HIDE DEF s, m
<1>3. /\ \A i \in DOMAIN r.entries : i \in DOMAIN s.entries
      /\ \A i \in DOMAIN r.queue : m + i \in DOMAIN s.entries
      /\ \A i \in DOMAIN s.entries : i \in DOMAIN r.entries \/ \E j \in DOMAIN r.queue : i = m + j
    <2>1. ASSUME NEW i \in DOMAIN s.entries, i \notin DOMAIN r.entries
          PROVE  \E j \in DOMAIN r.queue : i = m + j
        <3>1. i - m \in DOMAIN r.queue /\ i = m + (i - m)
            BY <1>2, <2>1
        <3> QED
            BY <3>1
    <2>2. \A i \in DOMAIN r.entries : i \in DOMAIN s.entries
        BY <1>2
    <2>3. \A i \in DOMAIN r.queue : m + i \in DOMAIN s.entries
        BY <1>2
    <2> QED
        BY <2>1, <2>2, <2>3
<1>4. ASSUME NEW p \in Places(r, n)
      PROVE  moved(p) \in Places(s, n)
    <2>1. CASE \E i \in DOMAIN r.queue : p = <<"queue", i>> /\ n \in r.queue[i]
        <3>1. PICK i \in DOMAIN r.queue : p = <<"queue", i>> /\ n \in r.queue[i]
            BY <2>1
        <3>2. moved(p) = <<"told", m + i>>
            BY <3>1
        <3>3. m + i \in DOMAIN s.entries /\ n \in s.entries[m + i].notes
            BY <1>1, <1>3, <3>1
        <3> QED
            BY <3>2, <3>3, PlacesAre
    <2>2. CASE p = <<"margin", 1>> /\ n \in r.proposal.notes
        BY <1>1, <2>2, PlacesAre
    <2>3. CASE p = <<"review", 1>> /\ n \in r.review
        BY <1>1, <2>3, PlacesAre
    <2>4. CASE \E i \in DOMAIN r.entries : p = <<"told", i>> /\ n \in r.entries[i].notes
        <3>1. PICK i \in DOMAIN r.entries : p = <<"told", i>> /\ n \in r.entries[i].notes
            BY <2>4
        <3>2. moved(p) = p /\ i \in DOMAIN s.entries /\ n \in s.entries[i].notes
            BY <1>1, <1>3, <3>1
        <3> QED
            BY <3>1, <3>2, PlacesAre
    <2> QED
        BY <2>1, <2>2, <2>3, <2>4, PlacesAre
<1>5. ASSUME NEW q \in Places(s, n)
      PROVE  \E p \in Places(r, n) : q = moved(p)
    <2>1. CASE \E i \in DOMAIN s.entries : q = <<"told", i>> /\ n \in s.entries[i].notes
        <3>1. PICK i \in DOMAIN s.entries : q = <<"told", i>> /\ n \in s.entries[i].notes
            BY <2>1
        <3>2. CASE i \in DOMAIN r.entries
            <4>1. q \in Places(r, n) /\ q = moved(q)
                BY <1>1, <3>1, <3>2, PlacesAre
            <4> QED
                BY <4>1
        <3>3. CASE \E j \in DOMAIN r.queue : i = m + j
            <4>1. PICK j \in DOMAIN r.queue : i = m + j
                BY <3>3
            <4>2. n \in r.queue[j]
                BY <1>1, <3>1, <4>1
            <4>3. <<"queue", j>> \in Places(r, n) /\ q = moved(<<"queue", j>>)
                BY <3>1, <4>1, <4>2, PlacesAre
            <4> QED
                BY <4>3
        <3> QED
            BY <1>3, <3>2, <3>3
    <2>2. CASE q = <<"margin", 1>> /\ n \in r.proposal.notes
        <3>1. q \in Places(r, n) /\ q = moved(q)
            BY <2>2, PlacesAre
        <3> QED
            BY <3>1
    <2>3. CASE q = <<"review", 1>> /\ n \in r.review
        <3>1. q \in Places(r, n) /\ q = moved(q)
            BY <2>3, PlacesAre
        <3> QED
            BY <3>1
    <2>4. DOMAIN s.queue = {}
        BY <1>1
    <2> QED
        BY <1>1, <2>1, <2>2, <2>3, <2>4, PlacesAre
<1> HIDE DEF moved
<1>6. ASSUME Places(r, n) = {}
      PROVE  Places(s, n) = {}
    BY <1>5, <1>6
<1>7. ASSUME NEW p, Places(r, n) = {p}
      PROVE  Places(s, n) = {moved(p)}
    BY <1>4, <1>5, <1>7
<1> QED
    BY <1>6, <1>7 DEF IsOne, s

(* Words that are queued carry the notes they are made of.                 *)
LEMMA QueuePlaces ==
    ASSUME NEW r \in Book, NEW notes \in SUBSET NoteId, NEW n
    PROVE  LET s == [r EXCEPT !.queue = Append(@, notes)]
           IN  /\ s \in Book /\ s.entries = r.entries
               /\ Places(s, n) = Places(r, n) \cup
                    (IF n \in notes THEN {<<"queue", Len(r.queue) + 1>>} ELSE {})
<1> DEFINE queue == Append(r.queue, notes)
           s == [r EXCEPT !.queue = queue]
           m == Len(r.queue)
           more == IF n \in notes THEN {<<"queue", m + 1>>} ELSE {}
<1>0. r.queue \in Seq(SUBSET NoteId)
    BY DEF Book
<1>1. /\ queue \in Seq(SUBSET NoteId) /\ Len(queue) = m + 1
      /\ \A i \in 1 .. m : queue[i] = r.queue[i]
      /\ queue[m + 1] = notes
    BY <1>0, AppendProperties
<1>2. m \in Nat /\ DOMAIN r.queue = 1 .. m /\ DOMAIN queue = 1 .. m + 1
    BY <1>0, <1>1, LenProperties
<1> HIDE DEF queue
<1>3. /\ s \in Book /\ s.queue = queue
      /\ s.proposal = r.proposal /\ s.review = r.review /\ s.entries = r.entries
    BY <1>1 DEF Book
<1>4. [r EXCEPT !.queue = Append(@, notes)] = s
    BY DEF queue
<1> HIDE DEF s, m
<1>5. /\ \A i \in DOMAIN r.queue : i \in DOMAIN queue
      /\ \A i \in DOMAIN queue : i \in DOMAIN r.queue \/ i = m + 1
      /\ m + 1 \in DOMAIN queue
    BY <1>2
<1>6. ASSUME NEW p
      PROVE  p \in Places(s, n) <=> p \in Places(r, n) \/ p \in more
    <2>1. p \in more <=> p = <<"queue", m + 1>> /\ n \in notes
        OBVIOUS
    <2> HIDE DEF more
    <2>2. (\E i \in DOMAIN s.queue : p = <<"queue", i>> /\ n \in s.queue[i])
          <=> \/ \E i \in DOMAIN r.queue : p = <<"queue", i>> /\ n \in r.queue[i]
              \/ p \in more
        BY <1>1, <1>2, <1>3, <1>5, <2>1
    <2> QED
        BY <1>3, <2>2, PlacesAre
<1>7. Places(s, n) = Places(r, n) \cup more
    BY <1>6
<1> QED
    BY <1>3, <1>4, <1>7 DEF m

(* Striking a line takes its notes with it, and moves the others up.       *)
LEMMA StrikingPlaces ==
    ASSUME NEW r \in Book, NEW a \in DOMAIN r.entries, NEW n
    PROVE  LET s == [r EXCEPT !.entries = Left(r.entries, a)]
           IN  /\ s \in Book
               /\ Places(r, n) = {} => Places(s, n) = {}
               /\ IsOne(Places(r, n)) /\ n \in r.entries[a].notes => Places(s, n) = {}
               /\ IsOne(Places(r, n)) /\ n \notin r.entries[a].notes => IsOne(Places(s, n))
<1> DEFINE t == Left(r.entries, a)
           s == [r EXCEPT !.entries = t]
           moved(p) == IF p[1] = "told" THEN <<"told", NewPlace(a, p[2])>> ELSE p
           d == r.entries
<1>1. /\ t \in Seq(Entry) /\ d \in Seq(Entry)
      /\ \A j \in DOMAIN t :
           /\ From(a, j) \in DOMAIN d \ {a} /\ NewPlace(a, From(a, j)) = j
           /\ t[j].notes = d[From(a, j)].notes
      /\ \A i \in DOMAIN d \ {a} : NewPlace(a, i) \in DOMAIN t /\ From(a, NewPlace(a, i)) = i
    <2> r.entries \in Seq(Entry)
        BY DEF Book
    <2> QED
        BY StrikingMoves
<1> HIDE DEF t
<1>2. /\ s \in Book /\ s.entries = t
      /\ s.proposal = r.proposal /\ s.review = r.review /\ s.queue = r.queue
    BY <1>1 DEF Book
<1> HIDE DEF s
<1>3. ASSUME NEW p \in Places(r, n), p # <<"told", a>>
      PROVE  moved(p) \in Places(s, n)
    <2>1. CASE \E i \in DOMAIN r.entries : p = <<"told", i>> /\ n \in r.entries[i].notes
        <3>1. PICK i \in DOMAIN d : p = <<"told", i>> /\ n \in d[i].notes
            BY <2>1
        <3>2. moved(p) = <<"told", NewPlace(a, i)>> /\ i \in DOMAIN d \ {a}
            BY <1>3, <3>1
        <3>3. NewPlace(a, i) \in DOMAIN t /\ n \in t[NewPlace(a, i)].notes
            BY <1>1, <3>1, <3>2
        <3> QED
            BY <1>2, <3>2, <3>3, PlacesAre
    <2>2. CASE p = <<"margin", 1>> /\ n \in r.proposal.notes
        BY <1>2, <2>2, PlacesAre
    <2>3. CASE p = <<"review", 1>> /\ n \in r.review
        BY <1>2, <2>3, PlacesAre
    <2>4. CASE \E i \in DOMAIN r.queue : p = <<"queue", i>> /\ n \in r.queue[i]
        <3>1. moved(p) = p
            BY <2>4
        <3> QED
            BY <1>2, <2>4, <3>1, PlacesAre
    <2> QED
        BY <2>1, <2>2, <2>3, <2>4, PlacesAre
<1>4. ASSUME NEW q \in Places(s, n)
      PROVE  \E p \in Places(r, n) : p # <<"told", a>> /\ q = moved(p)
    <2>1. CASE \E i \in DOMAIN s.entries : q = <<"told", i>> /\ n \in s.entries[i].notes
        <3>1. PICK i \in DOMAIN t : q = <<"told", i>> /\ n \in t[i].notes
            BY <1>2, <2>1
        <3> DEFINE j == From(a, i)
        <3>2. j \in DOMAIN d /\ j # a /\ n \in d[j].notes /\ NewPlace(a, j) = i
            BY <1>1, <3>1
        <3> HIDE DEF j
        <3>3. <<"told", j>> \in Places(r, n)
            BY <3>2, PlacesAre
        <3>4. <<"told", j>> # <<"told", a>> /\ q = moved(<<"told", j>>)
            BY <3>1, <3>2
        <3> QED
            BY <3>3, <3>4
    <2>2. CASE q = <<"margin", 1>> /\ n \in r.proposal.notes
        <3>1. q \in Places(r, n) /\ q = moved(q) /\ q # <<"told", a>>
            BY <2>2, PlacesAre
        <3> QED
            BY <3>1
    <2>3. CASE q = <<"review", 1>> /\ n \in r.review
        <3>1. q \in Places(r, n) /\ q = moved(q) /\ q # <<"told", a>>
            BY <2>3, PlacesAre
        <3> QED
            BY <3>1
    <2>4. CASE \E i \in DOMAIN r.queue : q = <<"queue", i>> /\ n \in r.queue[i]
        <3>1. q = moved(q) /\ q # <<"told", a>>
            BY <2>4
        <3>2. q \in Places(r, n)
            BY <2>4, PlacesAre
        <3> QED
            BY <3>1, <3>2
    <2> QED
        BY <1>2, <2>1, <2>2, <2>3, <2>4, PlacesAre
<1>5. <<"told", a>> \in Places(r, n) <=> n \in d[a].notes
    <2>1. n \in d[a].notes => <<"told", a>> \in Places(r, n)
        BY PlacesAre
    <2>2. <<"told", a>> \in Places(r, n) => n \in d[a].notes
        <3>1. /\ <<"told", a>> # <<"margin", 1>> /\ <<"told", a>> # <<"review", 1>>
              /\ \A i : <<"told", a>> # <<"queue", i>>
              /\ \A i : <<"told", a>> = <<"told", i>> => i = a
            OBVIOUS
        <3> QED
            BY <3>1, PlacesAre
    <2> QED
        BY <2>1, <2>2
<1> HIDE DEF moved
<1>6. ASSUME Places(r, n) = {}
      PROVE  Places(s, n) = {}
    BY <1>4, <1>6
<1>7. ASSUME NEW p, Places(r, n) = {p}, n \in d[a].notes
      PROVE  Places(s, n) = {}
    BY <1>4, <1>5, <1>7
<1>8. ASSUME NEW p, Places(r, n) = {p}, n \notin d[a].notes
      PROVE  Places(s, n) = {moved(p)}
    BY <1>3, <1>4, <1>5, <1>8
<1> QED
    BY <1>2, <1>6, <1>7, <1>8 DEF IsOne, s, t

-----------------------------------------------------------------------------
(* What is done to a plan keeps its replies whole and its notes in place.  *)

Grows(r, s) ==
    /\ OpenIds(s.entries) = OpenIds(r.entries)
    /\ \A bereft : Carried(r.entries, bereft) => Carried(s.entries, bereft)
    /\ \A reply : Called(r.entries, reply) => Called(s.entries, reply)

StaysPut(r, s) ==
    \A n : /\ Places(r, n) = {} => Places(s, n) = {}
           /\ IsOne(Places(r, n)) => IsOne(Places(s, n))

\* The notes given come to a place; the others stay put.
Lands(r, s, notes) ==
    \A n : /\ Places(r, n) = {} => IF n \in notes THEN IsOne(Places(s, n)) ELSE Places(s, n) = {}
           /\ IsOne(Places(r, n)) /\ n \notin notes => IsOne(Places(s, n))

LEMMA WithStatus ==
    ASSUME NEW r \in Book, NEW status \in Status
    PROVE  LET s == [r EXCEPT !.status = status]
           IN  /\ s \in Book /\ s.entries = r.entries
               /\ Grows(r, s)
               /\ \A n : Places(s, n) = Places(r, n)
               /\ s.proposal = r.proposal /\ s.review = r.review /\ s.status = status
<1> DEFINE s == [r EXCEPT !.status = status]
<1>1. /\ s \in Book /\ s.entries = r.entries /\ s.queue = r.queue
      /\ s.proposal = r.proposal /\ s.review = r.review /\ s.status = status
    BY DEF Book, Status
<1> HIDE DEF s
<1>2. \A n : Places(s, n) = Places(r, n)
    BY <1>1, SamePlaces
<1>3. Grows(r, s)
    BY <1>1 DEF Grows
<1> QED
    BY <1>1, <1>2, <1>3 DEF s

LEMMA SpeakKeeps ==
    ASSUME NEW r \in Book, NEW who \in {"king", "court", "note"}, NEW notes \in SUBSET NoteId
    PROVE  LET s == Speak(r, who, notes)
           IN  /\ s \in Book /\ Grows(r, s) /\ Lands(r, s, notes)
               /\ s.proposal = r.proposal /\ s.review = r.review
<1> DEFINE line == Line(who, notes)
           s == Log(r, line)
<1>1. line \in Entry /\ line.what = who /\ line.notes = notes
    BY LineType
<1>2. Speak(r, who, notes) = s
    BY DEF Speak
<1> HIDE DEF line
<1>3. /\ s \in Book /\ s = [r EXCEPT !.count = r.count + 1, !.entries = s.entries]
      /\ s.entries \in Seq(Entry) /\ Len(s.entries) = Len(r.entries) + 1
      /\ \A i \in DOMAIN r.entries : s.entries[i] = r.entries[i]
      /\ s.entries[Len(r.entries) + 1] = [line EXCEPT !.id = r.count + 1]
    BY <1>1, LogAppends
<1>4. \A n : Places(s, n) = Places(r, n) \cup
                (IF n \in notes THEN {<<"told", Len(r.entries) + 1>>} ELSE {})
    BY <1>1, LogPlaces
<1> HIDE DEF s
<1>5. Lands(r, s, notes)
    BY <1>4 DEF Lands, IsOne
<1>6. /\ s.proposal = r.proposal /\ s.review = r.review /\ r.entries \in Seq(Entry)
    BY <1>3 DEF Book
<1>7. [line EXCEPT !.id = r.count + 1].what = who
    BY <1>1 DEF Entry
<1>8. /\ Len(r.entries) <= Len(s.entries)
      /\ \A i \in DOMAIN s.entries : i > Len(r.entries) => s.entries[i].what # "call"
    <2> DEFINE m == Len(r.entries)
    <2>1. m \in Nat /\ Len(s.entries) = m + 1 /\ DOMAIN s.entries = 1 .. m + 1
        BY <1>3, <1>6, LenProperties
    <2>2. s.entries[m + 1].what = who
        BY <1>3, <1>7
    <2> HIDE DEF m
    <2>3. \A i \in DOMAIN s.entries : i > m => i = m + 1
        BY <2>1
    <2>4. m <= Len(s.entries)
        BY <2>1
    <2> QED
        BY <2>2, <2>3, <2>4 DEF m
<1>9. Grows(r, s)
    BY SMTT(60), <1>3, <1>6, <1>8, MoreIsSaid DEF Grows
<1> QED
    BY <1>2, <1>3, <1>5, <1>6, <1>9 DEF s

LEMMA RemarkKeeps ==
    ASSUME NEW r \in Book
    PROVE  LET s == Remark(r)
           IN  /\ s \in Book /\ Grows(r, s) /\ StaysPut(r, s)
               /\ s.proposal = r.proposal /\ s.review = r.review
<1>1. Remark(r) = Speak(r, "note", {})
    BY DEF Remark, Speak
<1> QED
    BY <1>1, SpeakKeeps DEF Lands, StaysPut

LEMMA HearAllKeeps ==
    ASSUME NEW r \in Book
    PROVE  LET s == HearAll(r)
           IN  /\ s \in Book /\ Grows(r, s) /\ StaysPut(r, s)
               /\ s.proposal = r.proposal /\ s.review = r.review
<1> DEFINE s == HearAll(r)
           m == Len(r.entries)
           k == Len(r.queue)
<1>1. /\ s \in Book /\ s = [r EXCEPT !.count = r.count + Len(r.queue), !.queue = <<>>,
                                    !.entries = s.entries]
      /\ s.entries \in Seq(Entry) /\ Len(s.entries) = m + k
      /\ \A i \in DOMAIN r.entries : s.entries[i] = r.entries[i]
      /\ \A i \in DOMAIN r.queue : s.entries[m + i].what = "king"
    BY HearAllAppends
<1>2. StaysPut(r, s)
    BY HearAllPlaces DEF StaysPut
<1> HIDE DEF s
<1>3. /\ s.proposal = r.proposal /\ s.review = r.review /\ r.entries \in Seq(Entry)
      /\ r.queue \in Seq(SUBSET NoteId)
    BY <1>1 DEF Book
<1>4. /\ m \in Nat /\ k \in Nat /\ DOMAIN r.queue = 1 .. k /\ DOMAIN s.entries = 1 .. m + k
    BY <1>1, <1>3, LenProperties
<1>5. ASSUME NEW i \in DOMAIN s.entries, i > Len(r.entries)
      PROVE  s.entries[i].what # "call"
    <2> DEFINE j == i - m
    <2> HIDE DEF m, k
    <2>1. i > m
        BY <1>5 DEF m
    <2>2. j \in DOMAIN r.queue /\ i = m + j
        BY <1>4, <2>1
    <2> HIDE DEF j
    <2> QED
        BY <1>1, <2>2
<1>6. Len(r.entries) <= Len(s.entries)
    <2>1. Len(s.entries) = m + k
        BY <1>1
    <2> HIDE DEF m, k
    <2>2. m <= Len(s.entries)
        BY <1>4, <2>1
    <2> QED
        BY <2>2 DEF m
<1>7. Grows(r, s)
    BY <1>1, <1>3, <1>5, <1>6, MoreIsSaid DEF Grows
<1> QED
    BY <1>1, <1>2, <1>3, <1>7 DEF s

LEMMA ReceivesKeeps ==
    ASSUME NEW r \in Book, NEW notes \in SUBSET NoteId
    PROVE  LET s == Receives(r, notes)
           IN  s \in Book /\ Grows(r, s) /\ Lands(r, s, notes)
<1> DEFINE s == Receives(r, notes)
<1>1. CASE sitting.at # "none"
    <2> DEFINE u == [r EXCEPT !.queue = Append(@, notes)]
    <2>1. s = u
        BY <1>1 DEF Receives
    <2>2. /\ u \in Book /\ u.entries = r.entries
          /\ \A n : Places(u, n) = Places(r, n) \cup
                (IF n \in notes THEN {<<"queue", Len(r.queue) + 1>>} ELSE {})
        BY ZenonT(60), QueuePlaces
    <2> HIDE DEF u, s
    <2>3. Lands(r, u, notes)
        BY <2>2 DEF Lands, IsOne
    <2>4. Grows(r, u)
        BY <2>2 DEF Grows
    <2> QED
        BY <2>1, <2>2, <2>3, <2>4 DEF s
<1>2. CASE sitting.at = "none"
    <2> DEFINE h == HearAll(r)
               k == Speak(h, "king", notes)
               u == [k EXCEPT !.status = "Drafting"]
    <2>1. s = u
        BY <1>2 DEF Receives
    <2>2. h \in Book /\ Grows(r, h) /\ StaysPut(r, h)
        BY HearAllKeeps
    <2> HIDE DEF h
    <2>3. k \in Book /\ Grows(h, k) /\ Lands(h, k, notes)
        BY <2>2, SpeakKeeps
    <2> HIDE DEF k
    <2>4. u \in Book /\ Grows(k, u) /\ \A n : Places(u, n) = Places(k, n)
        <3> "Drafting" \in Status
            BY DEF Status
        <3> QED
            BY <2>3, WithStatus
    <2> HIDE DEF u, s
    <2>5. Grows(r, u)
        BY <2>2, <2>3, <2>4 DEF Grows
    <2>6. Lands(r, u, notes)
        BY <2>2, <2>3, <2>4 DEF StaysPut, Lands
    <2> QED
        BY <2>1, <2>4, <2>5, <2>6 DEF s
<1> QED
    BY <1>1, <1>2

LEMMA ClosedKeeps ==
    ASSUME NEW r \in Book, NEW call
    PROVE  LET s == Closed(r, call)
           IN  /\ s \in Book /\ s.proposal = r.proposal /\ s.review = r.review
               /\ \A n : Places(s, n) = Places(r, n)
<1> DEFINE t == [i \in DOMAIN r.entries |->
                    IF r.entries[i].id = call THEN [r.entries[i] EXCEPT !.open = FALSE]
                    ELSE r.entries[i]]
           s == Closed(r, call)
<1>1. s = [r EXCEPT !.entries = t] /\ s \in Book
    BY CallIsClosed DEF Closed
<1>2. \A i \in DOMAIN r.entries : t[i].notes = r.entries[i].notes
    <2>1. \A e \in Entry : [e EXCEPT !.open = FALSE].notes = e.notes
        BY DEF Entry
    <2>2. \A i \in DOMAIN r.entries : r.entries[i] \in Entry
        BY LenProperties, ElementOfSeq DEF Book
    <2> QED
        BY <2>1, <2>2
<1>3. DOMAIN t = DOMAIN r.entries
    OBVIOUS
<1> HIDE DEF t, s
<1>4. /\ s.entries = t /\ s.proposal = r.proposal /\ s.review = r.review /\ s.queue = r.queue
    BY <1>1 DEF Book
<1>5. \A n : Places(s, n) = Places(r, n)
    BY <1>2, <1>3, <1>4, SamePlaces
<1> QED
    BY <1>1, <1>4, <1>5 DEF s

(* What is written in the margin, or the review, is there, and is not when *)
(* it is taken from there.                                                 *)
LEMMA MarginPlaces ==
    ASSUME NEW r, NEW s, NEW n,
           s.review = r.review, s.queue = r.queue, s.entries = r.entries
    PROVE  /\ <<"margin", 1>> \in Places(r, n) <=> n \in r.proposal.notes
           /\ Places(s, n) = (Places(r, n) \ {<<"margin", 1>>})
                 \cup (IF n \in s.proposal.notes THEN {<<"margin", 1>>} ELSE {})
<1>1. /\ \A i : <<"margin", 1>> # <<"queue", i>> /\ <<"margin", 1>> # <<"told", i>>
      /\ <<"margin", 1>> # <<"review", 1>>
    OBVIOUS
<1>2. ASSUME NEW p, p # <<"margin", 1>>
      PROVE  p \in Places(s, n) <=> p \in Places(r, n)
    BY <1>2, PlacesAre
<1>3. <<"margin", 1>> \in Places(r, n) <=> n \in r.proposal.notes
    BY <1>1, PlacesAre
<1>4. <<"margin", 1>> \in Places(s, n) <=> n \in s.proposal.notes
    BY <1>1, PlacesAre
<1> QED
    BY <1>2, <1>3, <1>4

LEMMA ReviewPlaces ==
    ASSUME NEW r, NEW s, NEW n,
           s.proposal = r.proposal, s.queue = r.queue, s.entries = r.entries
    PROVE  /\ <<"review", 1>> \in Places(r, n) <=> n \in r.review
           /\ Places(s, n) = (Places(r, n) \ {<<"review", 1>>})
                 \cup (IF n \in s.review THEN {<<"review", 1>>} ELSE {})
<1>1. /\ \A i : <<"review", 1>> # <<"queue", i>> /\ <<"review", 1>> # <<"told", i>>
      /\ <<"review", 1>> # <<"margin", 1>>
    OBVIOUS
<1>2. ASSUME NEW p, p # <<"review", 1>>
      PROVE  p \in Places(s, n) <=> p \in Places(r, n)
    BY <1>2, PlacesAre
<1>3. <<"review", 1>> \in Places(r, n) <=> n \in r.review
    BY <1>1, PlacesAre
<1>4. <<"review", 1>> \in Places(s, n) <=> n \in s.review
    BY <1>1, PlacesAre
<1> QED
    BY <1>2, <1>3, <1>4

LEMMA WithProposal ==
    ASSUME NEW r \in Book, NEW proposal \in Proposal
    PROVE  LET s == [r EXCEPT !.proposal = proposal]
           IN  /\ s \in Book /\ Grows(r, s) /\ s.entries = r.entries
               /\ s.review = r.review /\ s.proposal = proposal
               /\ \A n : Places(s, n) = (Places(r, n) \ {<<"margin", 1>>})
                     \cup (IF n \in proposal.notes THEN {<<"margin", 1>>} ELSE {})
<1> DEFINE s == [r EXCEPT !.proposal = proposal]
<1>1. /\ s \in Book /\ s.entries = r.entries /\ s.review = r.review
      /\ s.queue = r.queue /\ s.proposal = proposal
    BY DEF Book
<1> HIDE DEF s
<1>2. \A n : Places(s, n) = (Places(r, n) \ {<<"margin", 1>>})
                \cup (IF n \in proposal.notes THEN {<<"margin", 1>>} ELSE {})
    BY <1>1, MarginPlaces
<1> QED
    BY <1>1, <1>2 DEF Grows, s

LEMMA NoNotesProposed ==
    /\ NoProposal \in Proposal /\ NoProposal.notes = {}
    /\ \A body \in DraftText : /\ [NoProposal EXCEPT !.body = body] \in Proposal
                         /\ [NoProposal EXCEPT !.body = body].notes = {}
<1> NoProposal \in Proposal /\ NoProposal.notes = {}
    <2> NoBody \in DraftText
        BY MarginsAssumption DEF NoBody, DraftText
    <2> QED
        BY DEF NoProposal, Proposal
<1> QED
    BY DEF Proposal

LEMMA WithReview ==
    ASSUME NEW r \in Book, NEW notes \in SUBSET NoteId
    PROVE  LET s == [r EXCEPT !.review = notes]
           IN  /\ s \in Book /\ Grows(r, s) /\ s.entries = r.entries
               /\ s.review = notes /\ s.proposal = r.proposal
               /\ \A n : Places(s, n) = (Places(r, n) \ {<<"review", 1>>})
                     \cup (IF n \in notes THEN {<<"review", 1>>} ELSE {})
<1> DEFINE s == [r EXCEPT !.review = notes]
<1>1. /\ s \in Book /\ s.entries = r.entries /\ s.proposal = r.proposal
      /\ s.queue = r.queue /\ s.review = notes
    BY DEF Book
<1> HIDE DEF s
<1>2. \A n : Places(s, n) = (Places(r, n) \ {<<"review", 1>>})
                \cup (IF n \in notes THEN {<<"review", 1>>} ELSE {})
    BY <1>1, ReviewPlaces
<1> QED
    BY <1>1, <1>2 DEF Grows, s

-----------------------------------------------------------------------------
(* The steps.                                                              *)

LEMMA HeardOnce ==
    NotesAreHeardOnce <=>
        \A n \in NoteId :
            IF fates[n] = "written" /\ n \notin tally.dropped \cup tally.erased
            THEN IsOne(Places(book, n)) ELSE Places(book, n) = {}
<1>1. \A places : (\E p \in places : places = {p}) <=> IsOne(places)
    BY DEF IsOne
<1> QED
    BY <1>1 DEF NotesAreHeardOnce

LEMMA HeardOnceNext ==
    NotesAreHeardOnce' <=>
        \A n \in NoteId :
            IF fates'[n] = "written" /\ n \notin tally'.dropped \cup tally'.erased
            THEN IsOne(Places(book', n)) ELSE Places(book', n) = {}
<1>1. \A places : (\E p \in places : places = {p}) <=> IsOne(places)
    BY DEF IsOne
<1> QED
    BY <1>1 DEF NotesAreHeardOnce

LEMMA SittingTypes ==
    /\ NoBody \in DraftText /\ NoSitting \in Seat
    /\ sitting \in Seat => NextRound \in Seat
    /\ [NoSitting EXCEPT !.at = "round"] \in Seat
    /\ sitting \in Seat => [NoSitting EXCEPT !.at = "spoke", !.halted = sitting.halted] \in Seat
<1>1. NoBody \in DraftText
    BY MarginsAssumption DEF NoBody, DraftText
<1> QED
    BY <1>1 DEF NoSitting, NextRound, Seat

(* A step that moves no note and decides of none.                          *)
LEMMA SameNotes ==
    ASSUME MarginsInv, StaysPut(book, book'), demands' \subseteq demands, fates' = fates,
           tally'.dropped = tally.dropped, tally'.erased = tally.erased
    PROVE  AskedInv' /\ NotesAreHeardOnce'
<1>1. AskedInv'
    BY DEF MarginsInv, AskedInv
<1>2. NotesAreHeardOnce'
    <2>1. \A n \in NoteId :
            IF fates[n] = "written" /\ n \notin tally.dropped \cup tally.erased
            THEN IsOne(Places(book, n)) ELSE Places(book, n) = {}
        BY HeardOnce DEF MarginsInv
    <2>2. \A n \in NoteId :
            IF fates'[n] = "written" /\ n \notin tally'.dropped \cup tally'.erased
            THEN IsOne(Places(book', n)) ELSE Places(book', n) = {}
        BY <2>1 DEF StaysPut
    <2> QED
        BY <2>2, HeardOnceNext
<1> QED
    BY <1>1, <1>2

(* What a step of the turn that moves no note owes.                        *)
LEMMA TurnKeeps ==
    ASSUME MarginsInv, book' \in Book, sitting' \in Seat, Grows(book, book'),
           StaysPut(book, book'), UNCHANGED <<draft, filed, demands, made, fates, tally>>,
           sitting'.at \notin {"calling", "done"}, sitting.at \notin {"calling", "done"},
           sitting'.at = "acting" => sitting'.first /\ sitting'.left # 0
    PROVE  MarginsInv'
<1>1. MarginsTypeInv'
    BY DEF MarginsInv, MarginsTypeInv
<1>2. AskedInv' /\ NotesAreHeardOnce'
    BY SameNotes
<1>3. BegunInv'
    BY DEF BegunInv
<1>4. RepliesInv'
    BY DEF MarginsInv, RepliesInv, Grows
<1> QED
    BY <1>1, <1>2, <1>3, <1>4 DEF MarginsInv

LEMMA TakesUpKeeps ==
    ASSUME MarginsInv, TakesUp
    PROVE  MarginsInv'
<1> DEFINE s == [book EXCEPT !.status = "Drafting"]
<1>1. book \in Book /\ "Drafting" \in Status
    BY DEF MarginsInv, MarginsTypeInv, Status
<1>2. s \in Book /\ Grows(book, s) /\ \A n : Places(s, n) = Places(book, n)
    BY <1>1, WithStatus
<1>3. /\ book' = s /\ sitting' = [NoSitting EXCEPT !.at = "round"] /\ sitting.at = "none"
      /\ UNCHANGED <<draft, filed, demands, made, fates, tally>>
    BY DEF TakesUp, NothingElse
<1> HIDE DEF s
<1>4. sitting' \in Seat /\ sitting'.at = "round"
    BY <1>3, SittingTypes DEF NoSitting
<1> QED
    BY <1>2, <1>3, <1>4, TurnKeeps DEF StaysPut

LEMMA StopsHereKeeps ==
    ASSUME MarginsInv, StopsHere
    PROVE  MarginsInv'
<1> DEFINE c == Closed(book, sitting.call)
           u == [c EXCEPT !.status = "AwaitingReview"]
           s == Remark(u)
<1>1. book \in Book /\ "AwaitingReview" \in Status
    BY DEF MarginsInv, MarginsTypeInv, Status
<1>2. /\ c \in Book /\ \A n : Places(c, n) = Places(book, n)
      /\ OpenIds(c.entries) = OpenIds(book.entries) \ {sitting.call}
      /\ \A bereft : Carried(book.entries, bereft) => Carried(c.entries, bereft)
    BY <1>1, ClosedKeeps, CallIsClosed
<1> HIDE DEF c
<1>3. u \in Book /\ Grows(c, u) /\ \A n : Places(u, n) = Places(c, n)
    BY <1>1, <1>2, WithStatus
<1> HIDE DEF u
<1>4. s \in Book /\ Grows(u, s) /\ StaysPut(u, s)
    BY <1>3, RemarkKeeps
<1>5. /\ book' = s /\ sitting' = NoSitting
      /\ UNCHANGED <<draft, filed, demands, made, fates, tally>>
    BY DEF StopsHere, NothingElse, c, u
<1> HIDE DEF s
<1>6. sitting' \in Seat /\ sitting'.at = "none"
    BY <1>5, SittingTypes DEF NoSitting
<1>7. MarginsTypeInv'
    BY <1>4, <1>5, <1>6 DEF MarginsInv, MarginsTypeInv
<1>8. AskedInv' /\ NotesAreHeardOnce'
    BY <1>2, <1>3, <1>4, <1>5, SameNotes DEF StaysPut
<1>9. BegunInv'
    BY <1>6 DEF BegunInv
<1>10. RepliesInv'
    <2>1. OpenIds(book.entries) \subseteq {sitting.call}
        BY DEF MarginsInv, RepliesInv
    <2>2. OpenIds(s.entries) = {}
        BY <1>2, <1>3, <1>4, <2>1 DEF Grows
    <2>3. Carried(s.entries, tally.bereft)
        BY <1>2, <1>3, <1>4 DEF Grows, MarginsInv, RepliesInv
    <2> QED
        BY <1>5, <1>6, <2>2, <2>3 DEF RepliesInv
<1> QED
    BY <1>7, <1>8, <1>9, <1>10 DEF MarginsInv

LEMMA HearAndAskKeeps ==
    ASSUME MarginsInv, HearAndAsk
    PROVE  MarginsInv'
<1> DEFINE s == HearAll(book)
<1>1. book \in Book /\ sitting \in Seat
    BY DEF MarginsInv, MarginsTypeInv
<1>2. s \in Book /\ Grows(book, s) /\ StaysPut(book, s)
    BY <1>1, HearAllKeeps
<1>3. /\ book' = s /\ sitting' = [sitting EXCEPT !.at = "asking", !.full = book.full]
      /\ sitting.at = "round" /\ UNCHANGED <<draft, filed, demands, made, fates, tally>>
    BY DEF HearAndAsk, NothingElse
<1> HIDE DEF s
<1>4. sitting' \in Seat /\ sitting'.at = "asking"
    BY <1>1, <1>3 DEF Seat, Book
<1> QED
    BY <1>2, <1>3, <1>4, TurnKeeps

LEMMA GivesUpKeeps ==
    ASSUME MarginsInv, GivesUp
    PROVE  MarginsInv'
<1> DEFINE u == [book EXCEPT !.status = "Failed"]
           s == Remark(u)
<1>1. book \in Book /\ "Failed" \in Status
    BY DEF MarginsInv, MarginsTypeInv, Status
<1>2. u \in Book /\ Grows(book, u) /\ \A n : Places(u, n) = Places(book, n)
    BY <1>1, WithStatus
<1>3. /\ book' = s /\ sitting' = NoSitting /\ sitting.at \in {"asking", "round"}
      /\ UNCHANGED <<draft, filed, demands, made, fates, tally>>
    BY DEF GivesUp, NothingElse
<1> HIDE DEF u
<1>4. s \in Book /\ Grows(u, s) /\ StaysPut(u, s)
    BY <1>2, RemarkKeeps
<1> HIDE DEF s
<1>5. sitting' \in Seat /\ sitting'.at = "none"
    BY <1>3, SittingTypes DEF NoSitting
<1>6. Grows(book, s) /\ StaysPut(book, s)
    BY <1>2, <1>4 DEF Grows, StaysPut
<1> QED
    BY <1>3, <1>4, <1>5, <1>6, TurnKeeps

LEMMA LeavesOrGoesOnKeeps ==
    ASSUME MarginsInv, LeavesOrGoesOn
    PROVE  MarginsInv'
<1> DEFINE s == [book EXCEPT !.status = "Drafting"]
<1>1. book \in Book /\ sitting \in Seat /\ "Drafting" \in Status
    BY DEF MarginsInv, MarginsTypeInv, Status
<1>2. s \in Book /\ Grows(book, s) /\ \A n : Places(s, n) = Places(book, n)
    BY <1>1, WithStatus
<1>3. /\ sitting.at = "spoke" /\ UNCHANGED <<draft, filed, demands, made, fates, tally>>
      /\ \/ sitting' = NoSitting /\ book' = book
         \/ sitting' = NextRound /\ book' = s
    BY DEF LeavesOrGoesOn, NothingElse
<1> HIDE DEF s
<1>4. sitting' \in Seat /\ sitting'.at \in {"none", "round"}
    <2>1. NoSitting \in Seat /\ NoSitting.at = "none"
        BY SittingTypes DEF NoSitting
    <2>2. NextRound \in Seat /\ NextRound.at = "round"
        BY <1>1, SittingTypes DEF NextRound, NoSitting
    <2> QED
        BY <1>3, <2>1, <2>2
<1>5. Grows(book, book) /\ StaysPut(book, book) /\ StaysPut(book, s)
    BY <1>2 DEF Grows, StaysPut
<1> QED
    BY <1>1, <1>2, <1>3, <1>4, <1>5, TurnKeeps

LEMMA ActsKeeps ==
    ASSUME MarginsInv, Acts
    PROVE  MarginsInv'
<1>1. book \in Book /\ sitting \in Seat /\ book.count + 1 \in Nat
    BY DEF MarginsInv, MarginsTypeInv, Book
<1>2. PICK n \in 1 .. MaxCalls :
        sitting' = [sitting EXCEPT !.at = "acting", !.left = n, !.first = TRUE,
                        !.reply = book.count + 1]
    BY DEF Acts
<1>3. /\ sitting.at = "asking" /\ book' = book
      /\ UNCHANGED <<draft, filed, demands, made, fates, tally>>
    BY DEF Acts, NothingElse
<1>4. sitting' \in Seat /\ sitting'.at = "acting" /\ sitting'.first /\ sitting'.left # 0
    <2> n \in Nat \ {0}
        BY MarginsAssumption
    <2> QED
        BY <1>1, <1>2 DEF Seat
<1>5. Grows(book, book) /\ StaysPut(book, book)
    BY DEF Grows, StaysPut
<1> QED
    BY <1>1, <1>3, <1>4, <1>5, TurnKeeps

(* A call that begins is open, and carries the thinking if it is the first. *)
LEMMA BeginsCallKeeps ==
    ASSUME MarginsInv, BeginsCall
    PROVE  MarginsInv'
<1> DEFINE line == [Line("call", {}) EXCEPT !.reply = sitting.reply,
                                !.thinks = sitting.first, !.open = TRUE]
           s == Log(book, line)
           d == book.entries
           m == Len(d)
           logged == [line EXCEPT !.id = book.count + 1]
<1>1. book \in Book /\ sitting \in Seat /\ book.count + 1 \in Nat /\ d \in Seq(Entry)
    BY DEF MarginsInv, MarginsTypeInv, Book
<1>2. /\ line \in Entry /\ line.what = "call" /\ line.reply = sitting.reply
      /\ line.thinks = sitting.first /\ line.open = TRUE /\ line.notes = {}
    <2>2. sitting.reply \in Nat /\ sitting.first \in BOOLEAN
        BY <1>1 DEF Seat
    <2> DEFINE e == Line("call", {})
               f(reply, b) == [e EXCEPT !.reply = reply, !.thinks = b, !.open = TRUE]
    <2>3. e \in Entry /\ e.what = "call" /\ e.notes = {}
        BY LineType
    <2>4. line = f(sitting.reply, sitting.first)
        OBVIOUS
    <2> HIDE DEF e, line
    <2>5. ASSUME NEW reply \in Nat, NEW b \in BOOLEAN
          PROVE  /\ f(reply, b) \in Entry /\ f(reply, b).what = "call"
                 /\ f(reply, b).reply = reply /\ f(reply, b).thinks = b
                 /\ f(reply, b).open = TRUE /\ f(reply, b).notes = {}
        BY <2>3 DEF Entry
    <2> HIDE DEF f
    <2> QED
        BY <2>2, <2>4, <2>5
<1>3. PICK tool \in {"propose_plan", "patch"} :
        /\ tool = "patch" => draft < MaxDrafts
        /\ sitting' = [sitting EXCEPT !.at = "calling", !.tool = tool, !.left = @ - 1,
                        !.first = FALSE, !.call = book.count + 1,
                        !.put = IF tool = "propose_plan" THEN draft ELSE NoBody]
    BY DEF BeginsCall
<1>4. /\ sitting.at = "acting" /\ book' = s
      /\ UNCHANGED <<draft, filed, demands, made, fates, tally>>
    BY DEF BeginsCall, NothingElse
<1> HIDE DEF line
<1>5. /\ s \in Book /\ logged \in Entry
      /\ s.entries \in Seq(Entry) /\ Len(s.entries) = m + 1
      /\ \A i \in DOMAIN d : s.entries[i] = d[i]
      /\ s.entries[m + 1] = logged
    BY <1>1, <1>2, LogAppends
<1>6. ASSUME NEW n
      PROVE  Places(s, n) = Places(book, n)
    <2>1. Places(s, n) = Places(book, n) \cup
            (IF n \in line.notes THEN {<<"told", Len(book.entries) + 1>>} ELSE {})
        BY <1>1, <1>2, LogPlaces
    <2> QED
        BY <1>2, <2>1
<1> HIDE DEF s
<1>7. /\ logged.id = book.count + 1 /\ logged.what = "call" /\ logged.reply = sitting.reply
      /\ logged.thinks = sitting.first /\ logged.open
    <2> \A e \in Entry : \A n \in Nat :
            LET f == [e EXCEPT !.id = n] IN
            /\ f.id = n /\ f.what = e.what /\ f.reply = e.reply /\ f.thinks = e.thinks
            /\ f.open = e.open
        BY DEF Entry
    <2> QED
        BY <1>1, <1>2
<1>8. AskedInv' /\ NotesAreHeardOnce'
    BY <1>4, <1>6, SameNotes DEF StaysPut
<1>9. sitting.first \/ sitting.reply \in tally.bereft \/ Called(d, sitting.reply)
    BY <1>4 DEF MarginsInv, BegunInv
<1>9a. /\ logged.thinks \/ logged.reply \in tally.bereft \/ Called(d, logged.reply)
       /\ logged.open
    BY <1>7, <1>9
<1> HIDE DEF logged, d
<1>10. /\ OpenIds(s.entries) = OpenIds(d) \cup {book.count + 1}
       /\ Carried(d, tally.bereft) => Carried(s.entries, tally.bereft)
       /\ Called(s.entries, sitting.reply)
    <2>1. /\ OpenIds(s.entries) = OpenIds(d) \cup {logged.id}
          /\ Carried(d, tally.bereft) => Carried(s.entries, tally.bereft)
          /\ Called(s.entries, logged.reply)
        <3> DEFINE t == s.entries
                   b == tally.bereft
        <3>1. Len(t) = Len(d) + 1 /\ t[Len(d) + 1] = logged
            BY <1>5
        <3>2. /\ d \in Seq(Entry) /\ logged \in Entry /\ t \in Seq(Entry)
              /\ \A i \in DOMAIN d : t[i] = d[i]
            BY <1>1, <1>5
        <3>3. logged.what = "call" /\ logged.open
            BY <1>7, <1>9a
        <3>4. logged.thinks \/ logged.reply \in b \/ Called(d, logged.reply)
            BY <1>9a
        <3> HIDE DEF t, b
        <3>5. /\ OpenIds(t) = OpenIds(d) \cup {logged.id}
              /\ Carried(d, b) => Carried(t, b)
              /\ Called(t, logged.reply)
            BY ONLY <3>1, <3>2, <3>3, <3>4, CallBegins
        <3> QED
            BY <3>5 DEF t, b
    <2> QED
        BY <1>7, <2>1
<1>11. /\ sitting'.at = "calling" /\ sitting'.call = book.count + 1
       /\ sitting'.reply = sitting.reply /\ sitting'.tool = tool /\ ~sitting'.first
    BY <1>1, <1>3 DEF Seat
<1>12. BegunInv'
    BY <1>4, <1>10, <1>11 DEF BegunInv
<1>13. RepliesInv'
    <2>1. OpenIds(d) = {} /\ Carried(d, tally.bereft)
        BY <1>4 DEF MarginsInv, RepliesInv, d
    <2> QED
        BY <1>4, <1>10, <1>11, <2>1 DEF RepliesInv
<1>14. MarginsTypeInv'
    <2>1. draft \in DraftText /\ NoBody \in DraftText
        BY SittingTypes DEF MarginsInv, MarginsTypeInv
    <2>2. sitting.left - 1 \in Nat
        BY <1>4 DEF MarginsInv, MarginsTypeInv, Seat
    <2>3. sitting' \in Seat
        BY <1>1, <1>3, <2>1, <2>2 DEF Seat
    <2> QED
        BY <1>3, <1>4, <1>5, <1>11, <2>3 DEF MarginsInv, MarginsTypeInv
<1> QED
    BY <1>8, <1>12, <1>13, <1>14 DEF MarginsInv

(* Notes that are dropped with a proposal were in its margin and nowhere   *)
(* else.                                                                   *)
LEMMA DroppedNotes ==
    ASSUME MarginsInv, NEW r, StaysPut(book, r), r.proposal.notes = book.proposal.notes,
           \A n : Places(book', n) = Places(r, n) \ {<<"margin", 1>>},
           demands' \subseteq demands, fates' = fates, tally'.erased = tally.erased,
           tally'.dropped = tally.dropped \cup book.proposal.notes
    PROVE  AskedInv' /\ NotesAreHeardOnce'
<1>1. \A n \in NoteId :
        IF fates[n] = "written" /\ n \notin tally.dropped \cup tally.erased
        THEN IsOne(Places(book, n)) ELSE Places(book, n) = {}
    BY HeardOnce DEF MarginsInv
<1>2. \A n : /\ <<"margin", 1>> \in Places(book, n) <=> n \in book.proposal.notes
             /\ <<"margin", 1>> \in Places(r, n) <=> n \in book.proposal.notes
    BY MarginPlaces
<1>3. book.proposal.notes \subseteq NoteId
    BY DEF MarginsInv, MarginsTypeInv, Book, Proposal
<1>4. ASSUME NEW n \in NoteId
      PROVE  IF fates'[n] = "written" /\ n \notin tally'.dropped \cup tally'.erased
             THEN IsOne(Places(book', n)) ELSE Places(book', n) = {}
    <2>1. CASE n \in book.proposal.notes
        <3>1. IsOne(Places(r, n)) /\ <<"margin", 1>> \in Places(r, n)
            BY <1>1, <1>2, <2>1 DEF StaysPut
        <3>2. Places(book', n) = {}
            BY <3>1 DEF IsOne
        <3> QED
            BY <2>1, <3>2
    <2>2. CASE n \notin book.proposal.notes
        <3>1. Places(book', n) = Places(r, n)
            BY <1>2, <2>2
        <3> QED
            BY <1>1, <2>2, <3>1 DEF StaysPut
    <2> QED
        BY <2>1, <2>2
<1>5. \A n \in book.proposal.notes : fates[n] = "written"
    BY <1>1, <1>2, <1>3
<1>6. AskedInv'
    BY <1>5 DEF MarginsInv, AskedInv
<1> QED
    BY <1>4, <1>6, HeardOnceNext

LEMMA SpeaksKeeps ==
    ASSUME MarginsInv, Speaks
    PROVE  MarginsInv'
<1> DEFINE k == Speak(book, "court", {})
           u == [k EXCEPT !.status = "AwaitingReview"]
           v == [u EXCEPT !.proposal = NoProposal]
<1>1. /\ book \in Book /\ sitting \in Seat /\ "AwaitingReview" \in Status /\ tally \in Tally
      /\ book.proposal.notes \in SUBSET NoteId
    BY DEF MarginsInv, MarginsTypeInv, Status, Book, Proposal
<1>2. k \in Book /\ Grows(book, k) /\ StaysPut(book, k) /\ k.proposal = book.proposal
    BY <1>1, SpeakKeeps DEF Lands, StaysPut
<1>3. /\ book' = Aside(u) /\ DropsToo(Dropped(book)) /\ sitting.at = "asking"
      /\ sitting' = [NoSitting EXCEPT !.at = "spoke", !.halted = sitting.halted]
      /\ UNCHANGED <<draft, filed, demands, made, fates>>
    BY DEF Speaks, NothingElse
<1> HIDE DEF k
<1>4. /\ u \in Book /\ Grows(k, u) /\ \A n : Places(u, n) = Places(k, n)
      /\ u.proposal = k.proposal
    BY <1>1, <1>2, WithStatus
<1> HIDE DEF u
<1>5. Grows(book, u) /\ StaysPut(book, u) /\ u.proposal = book.proposal
    BY <1>2, <1>4 DEF Grows, StaysPut
<1>6. /\ v \in Book /\ Grows(u, v) /\ \A n : Places(v, n) = Places(u, n) \ {<<"margin", 1>>}
    BY <1>4, WithProposal, NoNotesProposed
<1>7. /\ \/ book.proposal.approved /\ book' = u
         \/ ~book.proposal.approved /\ book' = v
      /\ tally' = [tally EXCEPT !.dropped = @ \cup
                      (IF book.proposal.approved THEN {} ELSE book.proposal.notes)]
    BY <1>3, <1>5 DEF Aside, DropsToo, Dropped
<1> HIDE DEF v
<1>8. sitting' \in Seat /\ sitting'.at = "spoke"
    <2> sitting'.at = "spoke"
        BY <1>3 DEF NoSitting
    <2> QED
        BY <1>1, <1>3, SittingTypes
<1>9. /\ tally' \in Tally /\ tally'.bereft = tally.bereft /\ tally'.erased = tally.erased
      /\ tally'.dropped = tally.dropped \cup
            (IF book.proposal.approved THEN {} ELSE book.proposal.notes)
    BY <1>1, <1>7 DEF Tally
<1>10. book' \in Book /\ Grows(book, book')
    BY <1>4, <1>5, <1>6, <1>7 DEF Grows
<1>11. MarginsTypeInv'
    BY <1>3, <1>8, <1>9, <1>10 DEF MarginsInv, MarginsTypeInv
<1>12. AskedInv' /\ NotesAreHeardOnce'
    <2>1. CASE book.proposal.approved
        <3>1. book' = u /\ tally'.dropped = tally.dropped
            BY <1>7, <1>9, <2>1
        <3> QED
            BY <1>3, <1>5, <1>9, <3>1, SameNotes
    <2>2. CASE ~book.proposal.approved
        <3>1. book' = v /\ tally'.dropped = tally.dropped \cup book.proposal.notes
            BY <1>7, <1>9, <2>2
        <3>2. u.proposal.notes = book.proposal.notes
            BY <1>5
        <3> QED
            BY <1>3, <1>5, <1>6, <1>9, <3>1, <3>2, DroppedNotes
    <2> QED
        BY <2>1, <2>2
<1>13. BegunInv'
    BY <1>8 DEF BegunInv
<1>14. RepliesInv'
    BY <1>3, <1>8, <1>9, <1>10 DEF MarginsInv, RepliesInv, Grows
<1> QED
    BY <1>11, <1>12, <1>13, <1>14 DEF MarginsInv

LEMMA ToolRunsKeeps ==
    ASSUME MarginsInv, ToolRuns
    PROVE  MarginsInv'
<1>1. sitting \in Seat /\ draft \in DraftText
    BY DEF MarginsInv, MarginsTypeInv
<1>2. /\ sitting.at = "calling" /\ sitting' = [sitting EXCEPT !.at = "done"]
      /\ draft' = IF sitting.tool = "patch" THEN draft + 1 ELSE draft
      /\ UNCHANGED <<book, filed, demands, made, fates, tally>>
    BY DEF ToolRuns, NothingElse
<1>3. /\ sitting' \in Seat /\ sitting'.at = "done" /\ sitting'.call = sitting.call
      /\ sitting'.first = sitting.first /\ sitting'.reply = sitting.reply
    BY <1>1, <1>2 DEF Seat
<1>4. draft' \in DraftText
    BY <1>1, <1>2, MarginsAssumption DEF MarginsInv, MarginsTypeInv, DraftText
<1>5. MarginsTypeInv'
    BY <1>2, <1>3, <1>4 DEF MarginsInv, MarginsTypeInv
<1>6. AskedInv' /\ NotesAreHeardOnce'
    BY <1>2, SameNotes DEF StaysPut
<1>7. BegunInv'
    BY <1>2, <1>3 DEF MarginsInv, BegunInv
<1>8. RepliesInv'
    BY <1>2, <1>3 DEF MarginsInv, RepliesInv
<1> QED
    BY <1>5, <1>6, <1>7, <1>8 DEF MarginsInv

LEMMA SettlesCallKeeps ==
    ASSUME MarginsInv, SettlesCall
    PROVE  MarginsInv'
<1> DEFINE c == Closed(book, sitting.call)
           status == IF book.queue # <<>> THEN "Drafting" ELSE "AwaitingReview"
           u == [c EXCEPT !.status = status]
           v == [u EXCEPT !.proposal = [NoProposal EXCEPT !.body = sitting.put]]
           puts == ~sitting.full /\ sitting.put # NoBody
<1>1. /\ book \in Book /\ sitting \in Seat /\ tally \in Tally /\ status \in Status
      /\ book.proposal.notes \in SUBSET NoteId
    BY DEF MarginsInv, MarginsTypeInv, Status, Book, Proposal
<1>2. /\ c \in Book /\ \A n : Places(c, n) = Places(book, n)
      /\ OpenIds(c.entries) = OpenIds(book.entries) \ {sitting.call}
      /\ \A bereft : Carried(book.entries, bereft) => Carried(c.entries, bereft)
      /\ \A reply : Called(book.entries, reply) => Called(c.entries, reply)
      /\ c.proposal = book.proposal
    BY <1>1, ClosedKeeps, CallIsClosed
<1>3. /\ sitting.at = "done" /\ UNCHANGED <<draft, filed, demands, made, fates>>
      /\ \/ /\ puts /\ sitting' \in {NextRound, NoSitting} /\ DropsToo(book.proposal.notes)
            /\ book' = [c EXCEPT !.proposal = [NoProposal EXCEPT !.body = sitting.put],
                                 !.status = status]
         \/ /\ ~puts /\ book' = c /\ tally' = tally
            /\ \/ sitting' = NextRound
               \/ sitting.left # 0 /\ sitting' = [sitting EXCEPT !.at = "acting", !.call = 0]
    BY DEF SettlesCall, NothingElse
<1> HIDE DEF c, status, puts
<1>4. u \in Book /\ Grows(c, u) /\ (\A n : Places(u, n) = Places(c, n)) /\ u.proposal = c.proposal
    BY <1>1, <1>2, WithStatus
<1>5. [c EXCEPT !.proposal = [NoProposal EXCEPT !.body = sitting.put], !.status = status] = v
    BY <1>2 DEF Book
<1> HIDE DEF u
<1>6. v \in Book /\ Grows(u, v) /\ \A n : Places(v, n) = Places(u, n) \ {<<"margin", 1>>}
    <2>2. sitting.put \in DraftText
        BY <1>1 DEF Seat
    <2> DEFINE p == [NoProposal EXCEPT !.body = sitting.put]
               w == [u EXCEPT !.proposal = p]
    <2>3. p \in Proposal /\ p.notes = {}
        BY <2>2, NoNotesProposed
    <2>4. v = w
        OBVIOUS
    <2> HIDE DEF p
    <2>5. /\ w \in Book /\ Grows(u, w)
          /\ \A n : Places(w, n) = (Places(u, n) \ {<<"margin", 1>>})
                \cup (IF n \in p.notes THEN {<<"margin", 1>>} ELSE {})
        BY <1>4, <2>3, WithProposal
    <2> HIDE DEF v, w
    <2> QED
        BY <2>3, <2>4, <2>5
<1> HIDE DEF v
<1>7. sitting' \in Seat /\ \/ sitting'.at \in {"none", "round"}
                           \/ /\ sitting'.at = "acting" /\ sitting'.first = sitting.first
                              /\ sitting'.reply = sitting.reply /\ sitting'.left # 0 /\ ~puts
    <2>1. NoSitting \in Seat /\ NoSitting.at = "none"
        BY SittingTypes DEF NoSitting
    <2>2. NextRound \in Seat /\ NextRound.at = "round"
        BY <1>1, SittingTypes DEF NextRound, NoSitting
    <2>3. CASE ~puts /\ sitting.left # 0 /\ sitting' = [sitting EXCEPT !.at = "acting", !.call = 0]
        BY <1>1, <2>3 DEF Seat
    <2> QED
        BY <1>3, <2>1, <2>2, <2>3
<1>8. /\ tally' \in Tally /\ tally'.bereft = tally.bereft /\ tally'.erased = tally.erased
      /\ puts => book' = v /\ tally'.dropped = tally.dropped \cup book.proposal.notes
      /\ ~puts => book' = c /\ tally'.dropped = tally.dropped
    BY <1>1, <1>3, <1>5 DEF Tally, DropsToo
<1>9. /\ book' \in Book /\ OpenIds(book'.entries) = OpenIds(c.entries)
      /\ Carried(c.entries, tally.bereft) => Carried(book'.entries, tally.bereft)
    BY <1>2, <1>4, <1>6, <1>8 DEF Grows
<1>10. MarginsTypeInv'
    BY <1>3, <1>7, <1>8, <1>9 DEF MarginsInv, MarginsTypeInv
<1>11. AskedInv' /\ NotesAreHeardOnce'
    <2>1. CASE puts
        <3>1. StaysPut(book, u) /\ u.proposal.notes = book.proposal.notes
            BY <1>2, <1>4 DEF StaysPut
        <3> QED
            BY <1>3, <1>6, <1>8, <2>1, <3>1, DroppedNotes
    <2>2. CASE ~puts
        BY <1>2, <1>3, <1>8, <2>2, SameNotes DEF StaysPut
    <2> QED
        BY <2>1, <2>2
<1>12. BegunInv'
    <2>1. sitting.first = FALSE
        BY <1>1, <1>3 DEF MarginsInv, BegunInv, Seat
    <2>2. sitting.reply \in tally.bereft \/ Called(c.entries, sitting.reply)
        BY <1>2, <1>3, <2>1 DEF MarginsInv, BegunInv
    <2> QED
        BY <1>7, <1>8, <2>2 DEF BegunInv
<1>13. RepliesInv'
    <2>1. OpenIds(c.entries) = {}
        BY <1>2, <1>3 DEF MarginsInv, RepliesInv
    <2>2. Carried(book'.entries, tally'.bereft)
        BY <1>2, <1>8, <1>9 DEF MarginsInv, RepliesInv
    <2> QED
        BY <1>7, <1>9, <2>1, <2>2 DEF RepliesInv
<1> QED
    BY <1>10, <1>11, <1>12, <1>13 DEF MarginsInv

-----------------------------------------------------------------------------
(* The King's steps.                                                       *)

LEMMA DemandType ==
    ASSUME NEW kind \in Kind
    PROVE  /\ Demand(kind) \in Asking /\ Demand(kind).kind = kind
           /\ \A n \in NoteId :
                LET d == [Demand(kind) EXCEPT !.note = n]
                IN  d \in Asking /\ d.kind = kind /\ d.note = n
           /\ \A body \in DraftText :
                LET d == [Demand(kind) EXCEPT !.body = body]
                IN  d \in Asking /\ d.kind = kind
           /\ \A at, id \in Nat :
                LET d == [Demand(kind) EXCEPT !.at = at, !.id = id]
                IN  d \in Asking /\ d.kind = kind
<1>1. Demand(kind) \in Asking /\ Demand(kind).kind = kind
    <2> NoBody \in DraftText
        BY SittingTypes
    <2> QED
        BY DEF Demand, Asking
<1> QED
    BY <1>1 DEF Asking

LEMMA MakesKeeps ==
    ASSUME MarginsInv, NEW demand \in Asking, demands' = demands \cup {demand},
           made' = made + 1, UNCHANGED <<book, sitting, draft, filed, tally>>
    PROVE  /\ MarginsTypeInv /\ fates' = fates => MarginsTypeInv'
           /\ BegunInv' /\ RepliesInv'
<1>1. fates' = fates => MarginsTypeInv'
    BY DEF MarginsInv, MarginsTypeInv
<1>2. BegunInv' /\ RepliesInv'
    BY DEF MarginsInv, BegunInv, RepliesInv
<1> QED
    BY <1>1, <1>2

LEMMA AsksOfKeeps ==
    ASSUME MarginsInv, AsksOf
    PROVE  MarginsInv'
<1>1. /\ book.proposal.body \in DraftText /\ book.proposal.notes \subseteq NoteId
      /\ book.review \subseteq NoteId /\ book.entries \in Seq(Entry)
    BY DEF MarginsInv, MarginsTypeInv, Book, Proposal
<1>2. \A i \in DOMAIN book.entries : i \in Nat /\ book.entries[i].id \in Nat
    <2> \A i \in DOMAIN book.entries : i \in Nat /\ book.entries[i] \in Entry
        BY <1>1, LenProperties, ElementOfSeq
    <2> QED
        BY DEF Entry
<1>3. fates' = fates
    BY DEF AsksOf
<1>4. made' = made + 1 /\ UNCHANGED <<book, sitting, draft, filed, tally>>
    BY DEF AsksOf, Makes
<1>5. PICK demand \in Asking : demands' = demands \cup {demand} /\ ~Marks(demand)
    <2>1. CASE Makes(Demand("say"))
        <3> DEFINE d == Demand("say")
        <3>1. d \in Asking /\ d.kind = "say"
            BY ZenonT(60), <1>1, DemandType DEF Kind
        <3>2. demands' = demands \cup {d}
            BY <2>1 DEF Makes
        <3> HIDE DEF d
        <3> QED
            BY SMTT(60), <3>1, <3>2 DEF Marks
    <2>2. CASE Makes(Demand("stop"))
        <3> DEFINE d == Demand("stop")
        <3>1. d \in Asking /\ d.kind = "stop"
            BY <1>1, DemandType DEF Kind
        <3>2. demands' = demands \cup {d}
            BY <2>2 DEF Makes
        <3> HIDE DEF d
        <3> QED
            BY <3>1, <3>2 DEF Marks
    <2>3. CASE \E n \in book.proposal.notes : Makes([Demand("withdraw") EXCEPT !.note = n])
        <3>1. PICK n \in book.proposal.notes : Makes([Demand("withdraw") EXCEPT !.note = n])
            BY <2>3
        <3> DEFINE d == [Demand("withdraw") EXCEPT !.note = n]
        <3>2. d \in Asking /\ d.kind = "withdraw"
            <4>1. n \in NoteId
                BY <1>1, <1>2
            <4>2. "withdraw" \in Kind
                BY DEF Kind
            <4>3. \A m \in NoteId : LET e == [Demand("withdraw") EXCEPT !.note = m]
                             IN  e \in Asking /\ e.kind = "withdraw"
                BY <4>2, DemandType
            <4> QED
                BY <4>1, <4>3
        <3>3. demands' = demands \cup {d}
            BY <3>1 DEF Makes
        <3> HIDE DEF d
        <3> QED
            BY <3>2, <3>3 DEF Marks
    <2>4. CASE \E n \in book.review : Makes([Demand("withdraw_file") EXCEPT !.note = n])
        <3>1. PICK n \in book.review : Makes([Demand("withdraw_file") EXCEPT !.note = n])
            BY <2>4
        <3> DEFINE d == [Demand("withdraw_file") EXCEPT !.note = n]
        <3>2. d \in Asking /\ d.kind = "withdraw_file"
            <4>1. n \in NoteId
                BY <1>1, <1>2
            <4>2. "withdraw_file" \in Kind
                BY DEF Kind
            <4>3. \A m \in NoteId : LET e == [Demand("withdraw_file") EXCEPT !.note = m]
                             IN  e \in Asking /\ e.kind = "withdraw_file"
                BY <4>2, DemandType
            <4> QED
                BY <4>1, <4>3
        <3>3. demands' = demands \cup {d}
            BY <3>1 DEF Makes
        <3> HIDE DEF d
        <3> QED
            BY <3>2, <3>3 DEF Marks
    <2>5. CASE Makes(Demand("send"))
        <3> DEFINE d == Demand("send")
        <3>1. d \in Asking /\ d.kind = "send"
            BY <1>1, DemandType DEF Kind
        <3>2. demands' = demands \cup {d}
            BY <2>5 DEF Makes
        <3> HIDE DEF d
        <3> QED
            BY SMTT(60), <3>1, <3>2 DEF Marks
    <2>6. CASE Makes(Demand("send_file"))
        <3> DEFINE d == Demand("send_file")
        <3>1. d \in Asking /\ d.kind = "send_file"
            BY <1>1, DemandType DEF Kind
        <3>2. demands' = demands \cup {d}
            BY <2>6 DEF Makes
        <3> HIDE DEF d
        <3> QED
            BY SMTT(60), <3>1, <3>2 DEF Marks
    <2>7. CASE Makes([Demand("approve") EXCEPT !.body = book.proposal.body])
        <3> DEFINE d == [Demand("approve") EXCEPT !.body = book.proposal.body]
        <3>1. d \in Asking /\ d.kind = "approve"
            BY ZenonT(60), <1>1, DemandType DEF Kind
        <3>2. demands' = demands \cup {d}
            BY <2>7 DEF Makes
        <3> HIDE DEF d
        <3> QED
            BY SMTT(60), <3>1, <3>2 DEF Marks
    <2>8. CASE Makes(Demand("set_aside"))
        <3> DEFINE d == Demand("set_aside")
        <3>1. d \in Asking /\ d.kind = "set_aside"
            BY <1>1, DemandType DEF Kind
        <3>2. demands' = demands \cup {d}
            BY <2>8 DEF Makes
        <3> HIDE DEF d
        <3> QED
            BY <3>1, <3>2 DEF Marks
    <2>9. CASE \E i \in DOMAIN book.entries : Makes([Demand("delete") EXCEPT !.at = i, !.id = book.entries[i].id])
        <3>1. PICK i \in DOMAIN book.entries : Makes([Demand("delete") EXCEPT !.at = i, !.id = book.entries[i].id])
            BY <2>9
        <3> DEFINE d == [Demand("delete") EXCEPT !.at = i, !.id = book.entries[i].id]
        <3>2. d \in Asking /\ d.kind = "delete"
            <4>1. i \in Nat /\ book.entries[i].id \in Nat
                BY <1>1, <1>2
            <4>2. "delete" \in Kind
                BY DEF Kind
            <4>3. \A at, id \in Nat : LET e == [Demand("delete") EXCEPT !.at = at, !.id = id]
                             IN  e \in Asking /\ e.kind = "delete"
                BY <4>2, DemandType
            <4> QED
                BY <4>1, <4>3
        <3>3. demands' = demands \cup {d}
            BY <3>1 DEF Makes
        <3> HIDE DEF d
        <3> QED
            BY <3>2, <3>3 DEF Marks
    <2> QED
        BY <2>1, <2>2, <2>3, <2>4, <2>5, <2>6, <2>7, <2>8, <2>9 DEF AsksOf
<1>6. MarginsTypeInv' /\ BegunInv' /\ RepliesInv'
    BY <1>3, <1>4, <1>5, MakesKeeps DEF MarginsInv
<1>7. AskedInv'
    BY <1>3, <1>4, <1>5 DEF MarginsInv, AskedInv
<1>8. NotesAreHeardOnce'
    BY <1>3, <1>4 DEF MarginsInv, NotesAreHeardOnce
<1> QED
    BY <1>6, <1>7, <1>8 DEF MarginsInv

(* A note is asked for before it has any fate, and is nowhere yet.         *)
LEMMA WritesKeeps ==
    ASSUME MarginsInv, Writes
    PROVE  MarginsInv'
<1>1. PICK n \in NoteId : /\ Fresh(n) /\ fates' = [fates EXCEPT ![n] = "asked"]
                          /\ \/ Makes([Demand("annotate") EXCEPT !.note = n])
                             \/ Makes([Demand("annotate_file") EXCEPT !.note = n])
    BY DEF Writes
<1>2. made' = made + 1 /\ UNCHANGED <<book, sitting, draft, filed, tally>>
    BY DEF Writes, Makes
<1>3. PICK demand \in Asking :
        demands' = demands \cup {demand} /\ Marks(demand) /\ demand.note = n
    <2>1. CASE Makes([Demand("annotate") EXCEPT !.note = n])
        <3> DEFINE d == [Demand("annotate") EXCEPT !.note = n]
        <3>1. d \in Asking /\ d.kind = "annotate" /\ d.note = n
            BY ZenonT(60), DemandType DEF Kind
        <3>2. demands' = demands \cup {d}
            BY <2>1 DEF Makes
        <3> HIDE DEF d
        <3> QED
            BY <3>1, <3>2 DEF Marks
    <2>2. CASE Makes([Demand("annotate_file") EXCEPT !.note = n])
        <3> DEFINE d == [Demand("annotate_file") EXCEPT !.note = n]
        <3>1. d \in Asking /\ d.kind = "annotate_file" /\ d.note = n
            BY ZenonT(60), DemandType DEF Kind
        <3>2. demands' = demands \cup {d}
            BY <2>2 DEF Makes
        <3> HIDE DEF d
        <3> QED
            BY <3>1, <3>2 DEF Marks
    <2> QED
        BY <1>1, <2>1, <2>2
<1>4. /\ fates \in [NoteId -> {"unwritten", "asked", "refused", "written", "withdrawn"}]
      /\ fates[n] = "unwritten"
    BY <1>1 DEF MarginsInv, MarginsTypeInv, Fresh
<1>5. fates' \in [NoteId -> {"unwritten", "asked", "refused", "written", "withdrawn"}]
    BY <1>1, <1>4
<1>6. fates'[n] = "asked" /\ \A m \in NoteId \ {n} : fates'[m] = fates[m]
    BY <1>1, <1>4
<1>7. MarginsTypeInv'
    BY <1>2, <1>3, <1>5 DEF MarginsInv, MarginsTypeInv
<1>8. BegunInv' /\ RepliesInv'
    BY <1>2, <1>3, MakesKeeps
<1>9. AskedInv'
    <2>1. \A d \in demands : Marks(d) => d.note \in NoteId \ {n}
        BY <1>4 DEF MarginsInv, AskedInv
    <2>2. \A m \in tally.dropped \cup tally.erased : m \in NoteId \ {n}
        BY <1>4 DEF MarginsInv, AskedInv, MarginsTypeInv, Tally
    <2>3. \A d \in demands' : Marks(d) =>
            /\ d.note \in NoteId /\ fates'[d.note] = "asked"
            /\ \A e \in demands' : Marks(e) /\ e.note = d.note => e = d
        BY <1>3, <1>6, <2>1 DEF MarginsInv, AskedInv
    <2>4. \A m \in tally'.dropped \cup tally'.erased : fates'[m] \in {"written", "withdrawn"}
        BY <1>2, <1>6, <2>2 DEF MarginsInv, AskedInv
    <2> QED
        BY <2>3, <2>4 DEF AskedInv
<1>10. NotesAreHeardOnce'
    <2>1. \A m \in NoteId :
            IF fates[m] = "written" /\ m \notin tally.dropped \cup tally.erased
            THEN IsOne(Places(book, m)) ELSE Places(book, m) = {}
        BY HeardOnce DEF MarginsInv
    <2>2. Places(book', n) = {} /\ fates'[n] # "written"
        BY <1>2, <1>4, <1>6, <2>1
    <2> QED
        BY <1>2, <1>6, <2>1, <2>2, HeardOnceNext
<1> QED
    BY <1>7, <1>8, <1>9, <1>10 DEF MarginsInv

LEMMA ClosesKeeps ==
    ASSUME MarginsInv, Closes
    PROVE  MarginsInv'
<1> DEFINE s == [book EXCEPT !.status = "Settled"]
<1>1. book \in Book /\ "Settled" \in Status /\ filed \in DraftText /\ draft \in DraftText
    BY DEF MarginsInv, MarginsTypeInv, Status
<1>2. s \in Book /\ Grows(book, s) /\ \A n : Places(s, n) = Places(book, n)
    BY <1>1, WithStatus
<1>3. /\ book' = s /\ filed' = IF filed = NoBody THEN draft ELSE filed
      /\ UNCHANGED <<sitting, draft, demands, made, fates, tally>>
    BY DEF Closes
<1> HIDE DEF s
<1>4. MarginsTypeInv'
    BY <1>1, <1>2, <1>3 DEF MarginsInv, MarginsTypeInv
<1>5. AskedInv' /\ NotesAreHeardOnce'
    BY <1>2, <1>3, SameNotes DEF StaysPut
<1>6. BegunInv' /\ RepliesInv'
    BY <1>2, <1>3 DEF MarginsInv, BegunInv, RepliesInv, Grows
<1> QED
    BY <1>4, <1>5, <1>6 DEF MarginsInv

(* What a request owes that leaves the turn alone and strikes nothing.     *)
LEMMA ServedKeeps ==
    ASSUME MarginsInv, book' \in Book, Grows(book, book'), demands' \subseteq demands,
           UNCHANGED <<sitting, draft, made>>, filed' \in DraftText, tally' \in Tally,
           tally'.bereft = tally.bereft,
           fates' \in [NoteId -> {"unwritten", "asked", "refused", "written", "withdrawn"}],
           AskedInv', NotesAreHeardOnce'
    PROVE  MarginsInv'
<1>1. MarginsTypeInv'
    BY DEF MarginsInv, MarginsTypeInv
<1>2. BegunInv' /\ RepliesInv'
    BY DEF MarginsInv, BegunInv, RepliesInv, Grows
<1> QED
    BY <1>1, <1>2 DEF MarginsInv

(* What is decided of a note that is asked for is the first there is.      *)
LEMMA DecidedNotes ==
    ASSUME MarginsInv, NEW d \in demands, Marks(d), NEW fate \in {"refused", "written"},
           demands' = demands \ {d}, fates' = [fates EXCEPT ![d.note] = fate], tally' = tally,
           \A n \in NoteId \ {d.note} : Places(book', n) = Places(book, n),
           IF fate = "written" THEN IsOne(Places(book', d.note))
           ELSE Places(book', d.note) = Places(book, d.note)
    PROVE  /\ AskedInv' /\ NotesAreHeardOnce'
           /\ fates' \in [NoteId -> {"unwritten", "asked", "refused", "written", "withdrawn"}]
<1> DEFINE n == d.note
<1>1. /\ n \in NoteId /\ fates[n] = "asked"
      /\ \A e \in demands : Marks(e) /\ e.note = n => e = d
    BY DEF MarginsInv, AskedInv
<1>2. fates \in [NoteId -> {"unwritten", "asked", "refused", "written", "withdrawn"}]
    BY DEF MarginsInv, MarginsTypeInv
<1>3. /\ fates' \in [NoteId -> {"unwritten", "asked", "refused", "written", "withdrawn"}]
      /\ fates'[n] = fate /\ \A m \in NoteId \ {n} : fates'[m] = fates[m]
    BY <1>1, <1>2
<1>4. n \notin tally.dropped \cup tally.erased
    BY <1>1 DEF MarginsInv, AskedInv
<1> HIDE DEF n
<1>5. AskedInv'
    <2>1. \A e \in demands' : Marks(e) => e \in demands /\ e.note \in NoteId \ {n}
        BY <1>1 DEF MarginsInv, AskedInv
    <2>2. tally.dropped \cup tally.erased \subseteq NoteId
        BY DEF MarginsInv, MarginsTypeInv, Tally
    <2> QED
        BY <1>3, <1>4, <2>1, <2>2 DEF MarginsInv, AskedInv
<1>6. NotesAreHeardOnce'
    <2>1. \A m \in NoteId :
            IF fates[m] = "written" /\ m \notin tally.dropped \cup tally.erased
            THEN IsOne(Places(book, m)) ELSE Places(book, m) = {}
        BY HeardOnce DEF MarginsInv
    <2>2. Places(book, n) = {}
        BY <1>1, <2>1
    <2>3. IF fate = "written" THEN IsOne(Places(book', n)) ELSE Places(book', n) = {}
        BY <2>2 DEF n
    <2>4. \A m \in NoteId \ {n} : Places(book', m) = Places(book, m)
        BY DEF n
    <2> QED
        BY <1>3, <1>4, <2>1, <2>3, <2>4, HeardOnceNext
<1> QED
    BY <1>3, <1>5, <1>6

LEMMA AnnotatedKeeps ==
    ASSUME MarginsInv, NEW d \in demands, Annotated(d), demands' = demands \ {d},
           UNCHANGED <<draft, made>>
    PROVE  MarginsInv'
<1> DEFINE p == [book.proposal EXCEPT !.notes = @ \cup {d.note}]
           s == [book EXCEPT !.proposal = p]
<1>1. /\ book \in Book /\ filed \in DraftText /\ tally \in Tally /\ book.proposal \in Proposal
      /\ Marks(d) /\ d.note \in NoteId
    BY DEF MarginsInv, MarginsTypeInv, Book, AskedInv, Marks, Annotated
<1>2. /\ UNCHANGED <<sitting, filed, tally>>
      /\ \/ book' = s /\ fates' = [fates EXCEPT ![d.note] = "written"]
         \/ book' = book /\ fates' = [fates EXCEPT ![d.note] = "refused"]
    BY DEF Annotated, Becomes
<1>3. p \in Proposal /\ p.notes = book.proposal.notes \cup {d.note}
    BY <1>1 DEF Proposal
<1> HIDE DEF p
<1>4. /\ s \in Book /\ Grows(book, s)
      /\ \A n : Places(s, n) = (Places(book, n) \ {<<"margin", 1>>})
            \cup (IF n \in p.notes THEN {<<"margin", 1>>} ELSE {})
    BY <1>1, <1>3, WithProposal
<1> HIDE DEF s
<1>5. \A n : <<"margin", 1>> \in Places(book, n) <=> n \in book.proposal.notes
    BY MarginPlaces
<1>6. ASSUME NEW n \in NoteId \ {d.note}
      PROVE  Places(s, n) = Places(book, n)
    <2>1. n \in p.notes <=> n \in book.proposal.notes
        BY <1>3
    <2> QED
        BY ZenonT(60), <1>4, <1>5, <2>1
<1>7. Places(book, d.note) = {}
    BY <1>1, HeardOnce DEF MarginsInv, AskedInv
<1>8. IsOne(Places(s, d.note))
    <2>1. Places(s, d.note) = {<<"margin", 1>>}
        <3>1. d.note \in p.notes
            BY <1>3
        <3> QED
            BY <1>4, <1>7, <3>1
    <2> QED
        BY <2>1 DEF IsOne
<1>9. CASE book' = s /\ fates' = [fates EXCEPT ![d.note] = "written"]
    <2>1. /\ AskedInv' /\ NotesAreHeardOnce'
          /\ fates' \in [NoteId -> {"unwritten", "asked", "refused", "written", "withdrawn"}]
        BY <1>1, <1>2, <1>6, <1>8, <1>9, DecidedNotes
    <2> QED
        BY <1>1, <1>2, <1>4, <1>9, <2>1, ServedKeeps
<1>10. CASE book' = book /\ fates' = [fates EXCEPT ![d.note] = "refused"]
    <2>1. /\ AskedInv' /\ NotesAreHeardOnce'
          /\ fates' \in [NoteId -> {"unwritten", "asked", "refused", "written", "withdrawn"}]
        BY <1>1, <1>2, <1>10, DecidedNotes
    <2>2. Grows(book, book)
        BY DEF Grows
    <2> QED
        BY <1>1, <1>2, <1>10, <2>1, <2>2, ServedKeeps
<1> QED
    BY <1>2, <1>9, <1>10

LEMMA FileAnnotatedKeeps ==
    ASSUME MarginsInv, NEW d \in demands, FileAnnotated(d), demands' = demands \ {d},
           UNCHANGED <<draft, made>>
    PROVE  MarginsInv'
<1> DEFINE notes == book.review \cup {d.note}
           s == [book EXCEPT !.review = notes]
<1>1. /\ book \in Book /\ filed \in DraftText /\ tally \in Tally /\ book.review \subseteq NoteId
      /\ Marks(d) /\ d.note \in NoteId
    BY DEF MarginsInv, MarginsTypeInv, Book, AskedInv, Marks, FileAnnotated
<1>2. /\ UNCHANGED <<sitting, filed, tally>>
      /\ \/ book' = s /\ fates' = [fates EXCEPT ![d.note] = "written"]
         \/ book' = book /\ fates' = [fates EXCEPT ![d.note] = "refused"]
    BY DEF FileAnnotated, Becomes
<1>3. notes \in SUBSET NoteId /\ \A n : n \in notes <=> n \in book.review \/ n = d.note
    BY <1>1
<1> HIDE DEF notes
<1>4. /\ s \in Book /\ Grows(book, s)
      /\ \A n : Places(s, n) = (Places(book, n) \ {<<"review", 1>>})
            \cup (IF n \in notes THEN {<<"review", 1>>} ELSE {})
    BY <1>1, <1>3, WithReview
<1> HIDE DEF s
<1>5. \A n : <<"review", 1>> \in Places(book, n) <=> n \in book.review
    BY ReviewPlaces
<1>6. ASSUME NEW n \in NoteId \ {d.note}
      PROVE  Places(s, n) = Places(book, n)
    BY ZenonT(60), <1>3, <1>4, <1>5
<1>7. Places(book, d.note) = {}
    BY <1>1, HeardOnce DEF MarginsInv, AskedInv
<1>8. IsOne(Places(s, d.note))
    <2>1. Places(s, d.note) = {<<"review", 1>>}
        BY <1>3, <1>4, <1>7
    <2> QED
        BY <2>1 DEF IsOne
<1>9. CASE book' = s /\ fates' = [fates EXCEPT ![d.note] = "written"]
    <2>1. /\ AskedInv' /\ NotesAreHeardOnce'
          /\ fates' \in [NoteId -> {"unwritten", "asked", "refused", "written", "withdrawn"}]
        BY <1>1, <1>2, <1>6, <1>8, <1>9, DecidedNotes
    <2> QED
        BY <1>1, <1>2, <1>4, <1>9, <2>1, ServedKeeps
<1>10. CASE book' = book /\ fates' = [fates EXCEPT ![d.note] = "refused"]
    <2>1. /\ AskedInv' /\ NotesAreHeardOnce'
          /\ fates' \in [NoteId -> {"unwritten", "asked", "refused", "written", "withdrawn"}]
        BY <1>1, <1>2, <1>10, DecidedNotes
    <2>2. Grows(book, book)
        BY DEF Grows
    <2> QED
        BY <1>1, <1>2, <1>10, <2>1, <2>2, ServedKeeps
<1> QED
    BY <1>2, <1>9, <1>10

(* A note that is taken from where it stands was nowhere else; one that is *)
(* not there is not said to be withdrawn.                                  *)
LEMMA WithdrawnNotes ==
    ASSUME MarginsInv, NEW n, NEW place, NEW notes \in SUBSET NoteId,
           \A m : place \in Places(book, m) <=> m \in notes,
           \A m : Places(book', m) = Places(book, m) \ (IF m = n THEN {place} ELSE {}),
           demands' \subseteq demands, tally' = tally,
           fates' = IF n \in notes THEN [fates EXCEPT ![n] = "withdrawn"] ELSE fates
    PROVE  /\ AskedInv' /\ NotesAreHeardOnce'
           /\ fates' \in [NoteId -> {"unwritten", "asked", "refused", "written", "withdrawn"}]
<1>1. \A m \in NoteId :
        IF fates[m] = "written" /\ m \notin tally.dropped \cup tally.erased
        THEN IsOne(Places(book, m)) ELSE Places(book, m) = {}
    BY HeardOnce DEF MarginsInv
<1>2. fates \in [NoteId -> {"unwritten", "asked", "refused", "written", "withdrawn"}]
    BY DEF MarginsInv, MarginsTypeInv
<1>3. CASE n \in notes
    <2>1. n \in NoteId /\ IsOne(Places(book, n)) /\ place \in Places(book, n)
        BY <1>1, <1>3
    <2>2. Places(book', n) = {}
        BY <2>1 DEF IsOne
    <2>3. fates[n] = "written"
        BY <1>1, <2>1
    <2>4. /\ fates' \in [NoteId -> {"unwritten", "asked", "refused", "written", "withdrawn"}]
          /\ fates'[n] = "withdrawn" /\ \A m \in NoteId \ {n} : fates'[m] = fates[m]
        BY <1>2, <1>3, <2>1
    <2>5. AskedInv'
        <3>1. \A e \in demands : Marks(e) => e.note \in NoteId \ {n}
            BY <2>3 DEF MarginsInv, AskedInv
        <3>2. tally.dropped \cup tally.erased \subseteq NoteId
            BY DEF MarginsInv, MarginsTypeInv, Tally
        <3> QED
            BY <2>4, <3>1, <3>2 DEF MarginsInv, AskedInv
    <2>6. NotesAreHeardOnce'
        <3>1. \A m \in NoteId \ {n} : Places(book', m) = Places(book, m)
            OBVIOUS
        <3> QED
            BY <1>1, <2>2, <2>4, <3>1, HeardOnceNext
    <2> QED
        BY <2>4, <2>5, <2>6
<1>4. CASE n \notin notes
    <2>1. \A m : Places(book', m) = Places(book, m)
        BY <1>4
    <2>2. fates' = fates
        BY <1>4
    <2>3. AskedInv' /\ NotesAreHeardOnce'
        BY <2>1, <2>2, SameNotes DEF StaysPut
    <2> QED
        BY <1>2, <2>2, <2>3
<1> QED
    BY <1>3, <1>4

LEMMA WithdrawnKeeps ==
    ASSUME MarginsInv, NEW d \in demands, Withdrawn(d), demands' = demands \ {d},
           UNCHANGED <<draft, made>>
    PROVE  MarginsInv'
<1> DEFINE n == d.note
           p == [book.proposal EXCEPT !.notes = @ \ {n}]
           left == book.review \ {n}
           s == [book EXCEPT !.proposal = p]
           t == [book EXCEPT !.review = left]
<1>1. /\ book \in Book /\ filed \in DraftText /\ tally \in Tally /\ book.proposal \in Proposal
      /\ book.review \in SUBSET NoteId /\ book.proposal.notes \in SUBSET NoteId
    BY DEF MarginsInv, MarginsTypeInv, Book, Proposal
<1>2. /\ UNCHANGED <<sitting, filed, tally>> /\ book' \in {s, t}
      /\ fates' = IF book' # book THEN [fates EXCEPT ![n] = "withdrawn"] ELSE fates
    BY DEF Withdrawn, Becomes
<1>3. p \in Proposal /\ p.notes = book.proposal.notes \ {n}
    BY <1>1 DEF Proposal
<1>4. n \notin book.proposal.notes => p = book.proposal
    BY <1>1 DEF Proposal
<1> HIDE DEF p
<1>5. /\ s \in Book /\ Grows(book, s) /\ s.proposal = p
      /\ \A m : Places(s, m) = (Places(book, m) \ {<<"margin", 1>>})
            \cup (IF m \in p.notes THEN {<<"margin", 1>>} ELSE {})
    BY <1>1, <1>3, WithProposal
<1>6. s = book <=> n \notin book.proposal.notes
    <2>1. n \notin book.proposal.notes => s = book
        BY <1>1, <1>4 DEF Book
    <2>2. n \in book.proposal.notes => s # book
        BY <1>3, <1>5
    <2> QED
        BY <2>1, <2>2
<1>7. /\ left \in SUBSET NoteId /\ \A m : m \in left <=> m \in book.review /\ m # n
      /\ n \notin book.review => left = book.review
    BY <1>1
<1> HIDE DEF left
<1>8. /\ t \in Book /\ Grows(book, t) /\ t.review = left
      /\ \A m : Places(t, m) = (Places(book, m) \ {<<"review", 1>>})
            \cup (IF m \in left THEN {<<"review", 1>>} ELSE {})
    BY <1>1, <1>7, WithReview
<1>9. t = book <=> n \notin book.review
    <2>1. n \notin book.review => t = book
        BY <1>1, <1>7 DEF Book
    <2>2. n \in book.review => t # book
        BY <1>7, <1>8
    <2> QED
        BY <2>1, <2>2
<1> HIDE DEF s, t
<1>10. /\ \A m : <<"margin", 1>> \in Places(book, m) <=> m \in book.proposal.notes
       /\ \A m : <<"review", 1>> \in Places(book, m) <=> m \in book.review
    BY MarginPlaces, ReviewPlaces
<1>11. CASE book' = s
    <2>1. \A m : Places(s, m) = Places(book, m) \ (IF m = n THEN {<<"margin", 1>>} ELSE {})
        BY <1>3, <1>5, <1>10
    <2>2. fates' = IF n \in book.proposal.notes THEN [fates EXCEPT ![n] = "withdrawn"] ELSE fates
        BY <1>2, <1>6, <1>11
    <2> HIDE DEF n
    <2>3. /\ AskedInv' /\ NotesAreHeardOnce'
          /\ fates' \in [NoteId -> {"unwritten", "asked", "refused", "written", "withdrawn"}]
        <3> DEFINE notes == book.proposal.notes
                   place == <<"margin", 1>>
        <3>1. /\ notes \in SUBSET NoteId /\ \A m : place \in Places(book, m) <=> m \in notes
              /\ fates' = IF n \in notes THEN [fates EXCEPT ![n] = "withdrawn"] ELSE fates
            BY <1>1, <1>10, <2>2
        <3>2. \A m : Places(book', m) = Places(book, m) \ (IF m = n THEN {place} ELSE {})
            BY <1>11, <2>1
        <3>3. demands' \subseteq demands /\ tally' = tally
            BY <1>2
        <3> HIDE DEF notes, place
        <3> QED
            BY <3>1, <3>2, <3>3, WithdrawnNotes
    <2> QED
        BY <1>1, <1>2, <1>5, <1>11, <2>3, ServedKeeps
<1>12. CASE book' = t
    <2>1. \A m : Places(t, m) = Places(book, m) \ (IF m = n THEN {<<"review", 1>>} ELSE {})
        BY <1>7, <1>8, <1>10
    <2>2. fates' = IF n \in book.review THEN [fates EXCEPT ![n] = "withdrawn"] ELSE fates
        BY <1>2, <1>9, <1>12
    <2> HIDE DEF n
    <2>3. /\ AskedInv' /\ NotesAreHeardOnce'
          /\ fates' \in [NoteId -> {"unwritten", "asked", "refused", "written", "withdrawn"}]
        <3> DEFINE notes == book.review
                   place == <<"review", 1>>
        <3>1. /\ notes \in SUBSET NoteId /\ \A m : place \in Places(book, m) <=> m \in notes
              /\ fates' = IF n \in notes THEN [fates EXCEPT ![n] = "withdrawn"] ELSE fates
            BY <1>1, <1>10, <2>2
        <3>2. \A m : Places(book', m) = Places(book, m) \ (IF m = n THEN {place} ELSE {})
            BY <1>12, <2>1
        <3>3. demands' \subseteq demands /\ tally' = tally
            BY <1>2
        <3> HIDE DEF notes, place
        <3> QED
            BY <3>1, <3>2, <3>3, WithdrawnNotes
    <2> QED
        BY <1>1, <1>2, <1>8, <1>12, <2>3, ServedKeeps
<1> QED
    BY <1>2, <1>11, <1>12

(* Notes that are sent leave one place for another.                        *)
LEMMA SentNotes ==
    ASSUME MarginsInv, NEW place, NEW notes, NEW r,
           \A n : place \in Places(book, n) <=> n \in notes,
           \A n : Places(r, n) = Places(book, n) \ {place},
           Lands(r, book', notes), demands' \subseteq demands, fates' = fates, tally' = tally
    PROVE  AskedInv' /\ NotesAreHeardOnce'
<1>1. StaysPut(book, book')
    <2>1. ASSUME NEW n, Places(book, n) = {}
          PROVE  Places(book', n) = {}
        <3>1. n \notin notes /\ Places(r, n) = {}
            BY <2>1
        <3> QED
            BY <3>1 DEF Lands
    <2>2. ASSUME NEW n, IsOne(Places(book, n))
          PROVE  IsOne(Places(book', n))
        <3>1. CASE n \in notes
            <4>1. Places(r, n) = {}
                BY <2>2, <3>1 DEF IsOne
            <4> QED
                BY <3>1, <4>1 DEF Lands
        <3>2. CASE n \notin notes
            <4>1. Places(r, n) = Places(book, n)
                BY <3>2
            <4> QED
                BY <2>2, <3>2, <4>1 DEF Lands
        <3> QED
            BY <3>1, <3>2
    <2> QED
        BY <2>1, <2>2 DEF StaysPut
<1> QED
    BY <1>1, SameNotes

LEMMA ToldKeeps ==
    ASSUME MarginsInv, NEW d \in demands, Told(d), demands' = demands \ {d},
           UNCHANGED <<draft, made>>
    PROVE  MarginsInv'
<1> DEFINE p == [book.proposal EXCEPT !.notes = {}]
           s == [book EXCEPT !.proposal = p]
           none == {}
           t == [book EXCEPT !.review = none]
<1>1. /\ book \in Book /\ filed \in DraftText /\ tally \in Tally /\ book.proposal \in Proposal
      /\ book.review \in SUBSET NoteId /\ book.proposal.notes \in SUBSET NoteId
      /\ fates \in [NoteId -> {"unwritten", "asked", "refused", "written", "withdrawn"}]
    BY DEF MarginsInv, MarginsTypeInv, Book, Proposal
<1>2. /\ UNCHANGED <<sitting, filed, fates, tally>>
      /\ \/ book' = Receives(book, {})
         \/ book' = Receives(s, book.proposal.notes)
         \/ book' = Receives(t, book.review)
    BY DEF Told
<1>3. p \in Proposal /\ p.notes = {}
    BY <1>1 DEF Proposal
<1> HIDE DEF p
<1>4. s \in Book /\ Grows(book, s) /\ \A n : Places(s, n) = Places(book, n) \ {<<"margin", 1>>}
    BY <1>1, <1>3, WithProposal
<1>5. t \in Book /\ Grows(book, t) /\ \A n : Places(t, n) = Places(book, n) \ {<<"review", 1>>}
    <2>1. none \in SUBSET NoteId /\ \A n : n \notin none
        OBVIOUS
    <2> HIDE DEF none
    <2>2. /\ t \in Book /\ Grows(book, t)
          /\ \A n : Places(t, n) = (Places(book, n) \ {<<"review", 1>>})
                \cup (IF n \in none THEN {<<"review", 1>>} ELSE {})
        BY <1>1, <2>1, WithReview
    <2> QED
        BY <2>1, <2>2
<1> HIDE DEF s, t
<1>6. CASE book' = Receives(book, {})
    <2>1. book' \in Book /\ Grows(book, book') /\ Lands(book, book', {})
        BY <1>1, <1>6, ReceivesKeeps
    <2>2. AskedInv' /\ NotesAreHeardOnce'
        BY <1>2, <2>1, SameNotes DEF Lands, StaysPut
    <2> QED
        BY <1>1, <1>2, <2>1, <2>2, ServedKeeps
<1>7. CASE book' = Receives(s, book.proposal.notes)
    <2>1. book' \in Book /\ Grows(s, book') /\ Lands(s, book', book.proposal.notes)
        BY <1>1, <1>4, <1>7, ReceivesKeeps
    <2>2. \A n : <<"margin", 1>> \in Places(book, n) <=> n \in book.proposal.notes
        BY MarginPlaces
    <2>3. AskedInv' /\ NotesAreHeardOnce'
        BY <1>2, <1>4, <2>1, <2>2, SentNotes
    <2>4. Grows(book, book')
        BY <1>4, <2>1 DEF Grows
    <2> QED
        BY <1>1, <1>2, <2>1, <2>3, <2>4, ServedKeeps
<1>8. CASE book' = Receives(t, book.review)
    <2>1. book' \in Book /\ Grows(t, book') /\ Lands(t, book', book.review)
        BY <1>1, <1>5, <1>8, ReceivesKeeps
    <2>2. \A n : <<"review", 1>> \in Places(book, n) <=> n \in book.review
        BY ReviewPlaces
    <2>3. AskedInv' /\ NotesAreHeardOnce'
        BY <1>2, <1>5, <2>1, <2>2, SentNotes
    <2>4. Grows(book, book')
        BY <1>5, <2>1 DEF Grows
    <2> QED
        BY <1>1, <1>2, <2>1, <2>3, <2>4, ServedKeeps
<1> QED
    BY <1>2, <1>6, <1>7, <1>8

LEMMA ApprovedKeeps ==
    ASSUME MarginsInv, NEW d \in demands, Approved(d), demands' = demands \ {d},
           UNCHANGED <<draft, made>>
    PROVE  MarginsInv'
<1> DEFINE r == [book EXCEPT !.proposal.approved = TRUE, !.full = TRUE]
           u == Remark(r)
           v == Speak(u, "king", {})
           w == [v EXCEPT !.status = "Drafting"]
<1>1. /\ book \in Book /\ filed \in DraftText /\ draft \in DraftText /\ tally \in Tally
      /\ book.proposal \in Proposal /\ d.body \in DraftText /\ "Drafting" \in Status
      /\ fates \in [NoteId -> {"unwritten", "asked", "refused", "written", "withdrawn"}]
    BY DEF MarginsInv, MarginsTypeInv, Book, Asking, Status
<1>2. /\ UNCHANGED <<sitting, fates>> /\ book' = w
      /\ filed' = IF filed = NoBody THEN draft ELSE filed
      /\ tally' = [tally EXCEPT !.read = d.body]
    BY DEF Approved
<1>3. /\ tally' \in Tally /\ tally'.bereft = tally.bereft
      /\ tally'.dropped = tally.dropped /\ tally'.erased = tally.erased
    BY <1>1, <1>2 DEF Tally
<1>4. /\ r \in Book /\ r.entries = book.entries /\ r.queue = book.queue
      /\ r.review = book.review /\ r.proposal.notes = book.proposal.notes
    BY <1>1 DEF Book, Proposal
<1> HIDE DEF r
<1>5. Grows(book, r) /\ \A n : Places(r, n) = Places(book, n)
    BY <1>4, SamePlaces DEF Grows
<1>6. u \in Book /\ Grows(r, u) /\ StaysPut(r, u)
    BY <1>4, RemarkKeeps
<1> HIDE DEF u
<1>7. v \in Book /\ Grows(u, v) /\ Lands(u, v, {})
    BY <1>6, SpeakKeeps
<1> HIDE DEF v
<1>8. w \in Book /\ Grows(v, w) /\ \A n : Places(w, n) = Places(v, n)
    BY <1>1, <1>7, WithStatus
<1> HIDE DEF w
<1>9. Grows(book, w)
    BY <1>5, <1>6, <1>7, <1>8 DEF Grows
<1>10. StaysPut(book, w)
    BY <1>5, <1>6, <1>7, <1>8 DEF StaysPut, Lands
<1>11. AskedInv' /\ NotesAreHeardOnce'
    BY <1>2, <1>3, <1>10, SameNotes
<1>12. filed' \in DraftText
    BY <1>1, <1>2
<1> QED
    BY <1>1, <1>2, <1>3, <1>8, <1>9, <1>11, <1>12, ServedKeeps

LEMMA SetsAsideKeeps ==
    ASSUME MarginsInv, NEW d \in demands, SetsAside(d), demands' = demands \ {d},
           UNCHANGED <<draft, made>>
    PROVE  MarginsInv'
<1> DEFINE v == [book EXCEPT !.proposal = NoProposal]
<1>1. /\ book \in Book /\ filed \in DraftText /\ tally \in Tally
      /\ book.proposal.notes \in SUBSET NoteId
      /\ fates \in [NoteId -> {"unwritten", "asked", "refused", "written", "withdrawn"}]
    BY DEF MarginsInv, MarginsTypeInv, Book, Proposal
<1>2. /\ UNCHANGED <<sitting, filed, fates>>
      /\ \/ book.proposal.approved /\ book' = book
         \/ ~book.proposal.approved /\ book' = v
      /\ tally' = [tally EXCEPT !.dropped = @ \cup
                      (IF book.proposal.approved THEN {} ELSE book.proposal.notes)]
    BY DEF SetsAside, Aside, DropsToo, Dropped
<1>3. /\ v \in Book /\ Grows(book, v)
      /\ \A n : Places(v, n) = Places(book, n) \ {<<"margin", 1>>}
    BY <1>1, WithProposal, NoNotesProposed
<1> HIDE DEF v
<1>4. /\ tally' \in Tally /\ tally'.bereft = tally.bereft /\ tally'.erased = tally.erased
      /\ tally'.dropped = tally.dropped \cup
            (IF book.proposal.approved THEN {} ELSE book.proposal.notes)
    BY <1>1, <1>2 DEF Tally
<1>5. Grows(book, book) /\ StaysPut(book, book)
    BY DEF Grows, StaysPut
<1>6. AskedInv' /\ NotesAreHeardOnce'
    <2>1. CASE book.proposal.approved
        <3>1. book' = book /\ tally'.dropped = tally.dropped
            BY <1>2, <1>4, <2>1
        <3> QED
            BY <1>2, <1>4, <1>5, <3>1, SameNotes
    <2>2. CASE ~book.proposal.approved
        <3>1. book' = v /\ tally'.dropped = tally.dropped \cup book.proposal.notes
            BY <1>2, <1>4, <2>2
        <3> QED
            BY <1>2, <1>3, <1>4, <1>5, <3>1, DroppedNotes
    <2> QED
        BY <2>1, <2>2
<1> QED
    BY <1>1, <1>2, <1>3, <1>4, <1>5, <1>6, ServedKeeps

LEMMA StopHeardKeeps ==
    ASSUME MarginsInv, NEW d \in demands, StopHeard(d), demands' = demands \ {d},
           UNCHANGED <<draft, made>>
    PROVE  MarginsInv'
<1>1. /\ sitting' = [sitting EXCEPT !.halted = TRUE]
      /\ UNCHANGED <<book, filed, fates, tally>>
    BY DEF StopHeard
<1>2. sitting \in Seat
    BY DEF MarginsInv, MarginsTypeInv
<1>3. /\ sitting' \in Seat /\ sitting'.at = sitting.at /\ sitting'.first = sitting.first
      /\ sitting'.reply = sitting.reply /\ sitting'.call = sitting.call
      /\ sitting'.tool = sitting.tool /\ sitting'.left = sitting.left
    BY <1>1, <1>2 DEF Seat
<1>4. MarginsTypeInv'
    BY <1>1, <1>3 DEF MarginsInv, MarginsTypeInv
<1>5. AskedInv' /\ NotesAreHeardOnce'
    BY <1>1, SameNotes DEF StaysPut
<1>6. BegunInv' /\ RepliesInv'
    BY <1>1, <1>3 DEF MarginsInv, BegunInv, RepliesInv
<1> QED
    BY <1>4, <1>5, <1>6 DEF MarginsInv

(* A line goes with its notes, and its thinking stays with its reply.      *)
LEMMA StruckKeeps ==
    ASSUME MarginsInv, NEW d \in demands, Struck(d), demands' = demands \ {d},
           UNCHANGED <<draft, made>>
    PROVE  MarginsInv'
<1> DEFINE e == book.entries
           a == d.at
           line == e[a]
           s == [book EXCEPT !.entries = Left(e, a)]
           w == Remark(s)
           more == IF line.what = "call" /\ Sole(e, a)
                   THEN tally.bereft \cup {line.reply} ELSE tally.bereft
<1>1. /\ book \in Book /\ filed \in DraftText /\ tally \in Tally /\ e \in Seq(Entry)
      /\ fates \in [NoteId -> {"unwritten", "asked", "refused", "written", "withdrawn"}]
    BY DEF MarginsInv, MarginsTypeInv, Book
<1>2. /\ Deletable(a) /\ book' = w /\ UNCHANGED <<sitting, filed, fates>>
      /\ tally' = [tally EXCEPT !.erased = @ \cup line.notes,
                                !.wrong = @ \/ line.id # d.id, !.bereft = more]
    BY DEF Struck, Left, Sole
<1>3. a \in DOMAIN e /\ ~IsOpen(line)
    BY <1>2 DEF Deletable
<1>4. line \in Entry
    BY <1>1, <1>3, ElementOfSeq, LenProperties
<1>5. line.notes \subseteq NoteId /\ line.reply \in Nat
    BY <1>4 DEF Entry
<1>6. /\ tally' \in Tally /\ tally'.bereft = more /\ tally'.dropped = tally.dropped
      /\ tally'.erased = tally.erased \cup line.notes
    <2>1. more \in SUBSET Nat
        BY <1>1, <1>5 DEF Tally
    <2> HIDE DEF more
    <2>2. (tally.wrong \/ line.id # d.id) \in BOOLEAN
        OBVIOUS
    <2> QED
        BY <1>1, <1>2, <1>5, <2>1, <2>2 DEF Tally
<1>7. /\ s \in Book /\ s.entries = Left(e, a)
      /\ \A n : /\ Places(book, n) = {} => Places(s, n) = {}
                /\ IsOne(Places(book, n)) /\ n \in line.notes => Places(s, n) = {}
                /\ IsOne(Places(book, n)) /\ n \notin line.notes => IsOne(Places(s, n))
    <2>1. s.entries = Left(e, a)
        BY <1>1 DEF Book
    <2> QED
        BY <1>1, <1>3, <2>1, StrikingPlaces
<1> HIDE DEF s
<1>8. /\ OpenIds(s.entries) = OpenIds(e)
      /\ Carried(e, tally.bereft) => Carried(s.entries, more)
      /\ \A reply : reply \in tally.bereft \/ Called(e, reply)
            => reply \in more \/ Called(s.entries, reply)
    <2> DEFINE b == tally.bereft
    <2>1. more = IF e[a].what = "call" /\ Sole(e, a) THEN b \cup {e[a].reply} ELSE b
        OBVIOUS
    <2>2. e \in Seq(Entry) /\ a \in DOMAIN e /\ ~IsOpen(e[a]) /\ s.entries = Left(e, a)
        BY <1>1, <1>3, <1>7
    <2> HIDE DEF e, a, b, more
    <2>3. /\ OpenIds(Left(e, a)) = OpenIds(e)
          /\ Carried(e, b) => Carried(Left(e, a), more)
          /\ \A reply : reply \in b \/ Called(e, reply)
                => reply \in more \/ Called(Left(e, a), reply)
        BY ZenonT(60), <2>1, <2>2, StrikingCarries
    <2> QED
        BY <2>2, <2>3 DEF b
<1>9. w \in Book /\ Grows(s, w) /\ StaysPut(s, w)
    BY <1>7, RemarkKeeps
<1> HIDE DEF w, more
<1>10. MarginsTypeInv'
    BY <1>1, <1>2, <1>6, <1>9 DEF MarginsInv, MarginsTypeInv
<1>11. BegunInv' /\ RepliesInv'
    <2>1. BegunInv'
        BY <1>2, <1>6, <1>8, <1>9 DEF MarginsInv, BegunInv, Grows
    <2>2. RepliesInv'
        BY <1>2, <1>6, <1>8, <1>9 DEF MarginsInv, RepliesInv, Grows
    <2> QED
        BY <2>1, <2>2
<1>12. \A n \in NoteId :
         IF fates[n] = "written" /\ n \notin tally.dropped \cup tally.erased
         THEN IsOne(Places(book, n)) ELSE Places(book, n) = {}
    BY HeardOnce DEF MarginsInv
<1>13. \A n \in line.notes : <<"told", a>> \in Places(book, n)
    BY <1>3, PlacesAre
<1> HIDE DEF line, a, e
<1>14. \A n \in line.notes : n \in NoteId /\ fates[n] = "written"
    BY <1>5, <1>12, <1>13
<1>15. AskedInv'
    BY <1>2, <1>6, <1>14 DEF MarginsInv, AskedInv
<1>16. NotesAreHeardOnce'
    BY <1>2, <1>6, <1>7, <1>9, <1>12, <1>14, HeardOnceNext DEF StaysPut
<1> QED
    BY <1>10, <1>11, <1>15, <1>16 DEF MarginsInv

-----------------------------------------------------------------------------
LEMMA ServeKeeps ==
    ASSUME MarginsInv, Serve
    PROVE  MarginsInv'
<1>1. PICK d \in demands :
        /\ \/ Annotated(d) \/ FileAnnotated(d) \/ Withdrawn(d) \/ Told(d) \/ Approved(d)
           \/ SetsAside(d) \/ StopHeard(d) \/ Struck(d) \/ Declined(d)
        /\ demands' = demands \ {d}
        /\ UNCHANGED <<draft, made>>
    BY DEF Serve
<1>2. CASE Declined(d)
    <2>1. UNCHANGED <<book, sitting, filed, fates, tally>>
        BY <1>2 DEF Declined
    <2>2. AskedInv' /\ NotesAreHeardOnce'
        BY <1>1, <2>1, SameNotes DEF StaysPut
    <2> QED
        BY <1>1, <2>1, <2>2 DEF MarginsInv, MarginsTypeInv, BegunInv, RepliesInv
<1> QED
    BY <1>1, <1>2, AnnotatedKeeps, FileAnnotatedKeeps, WithdrawnKeeps, ToldKeeps,
       ApprovedKeeps, SetsAsideKeeps, StopHeardKeeps, StruckKeeps

LEMMA MarginsInit == MInit => MarginsInv
<1> SUFFICES ASSUME MInit
             PROVE  MarginsInv
    OBVIOUS
<1>1. /\ book = [entries |-> <<>>, count |-> 0, queue |-> <<>>, status |-> "AwaitingReview",
                 full |-> FALSE, proposal |-> [NoProposal EXCEPT !.body = 1], review |-> {}]
      /\ sitting = NoSitting /\ draft = 1 /\ filed = NoBody /\ demands = {} /\ made = 0
      /\ fates = [n \in NoteId |-> "unwritten"]
      /\ tally = [dropped |-> {}, erased |-> {}, bereft |-> {}, wrong |-> FALSE,
                  read |-> NoBody]
    BY DEF MInit
<1>2. 1 \in DraftText /\ NoBody \in DraftText
    BY MarginsAssumption, SittingTypes DEF DraftText
<1>3. book \in Book
    <2>1. /\ [NoProposal EXCEPT !.body = 1] \in Proposal
          /\ <<>> \in Seq(Entry) /\ <<>> \in Seq(SUBSET NoteId)
        BY <1>2, NoNotesProposed, EmptySeq
    <2> QED
        BY <1>1, <2>1 DEF Book, Status
<1>4. tally \in Tally
    BY <1>1, <1>2 DEF Tally
<1>5. sitting \in Seat /\ sitting.at = "none"
    BY <1>1, SittingTypes DEF NoSitting
<1>6. MarginsTypeInv
    BY <1>1, <1>2, <1>3, <1>4, <1>5 DEF MarginsTypeInv
<1>7. AskedInv
    BY <1>1 DEF AskedInv
<1>8. NotesAreHeardOnce
    <2>1. /\ book.proposal.notes = {} /\ book.review = {}
          /\ DOMAIN book.queue = {} /\ DOMAIN book.entries = {}
        <3> DEFINE proposal == [NoProposal EXCEPT !.body = 1]
        <3>1. proposal.notes = {}
            BY <1>2, NoNotesProposed
        <3> HIDE DEF proposal
        <3>2. /\ book.proposal = proposal /\ book.review = {}
              /\ book.queue = <<>> /\ book.entries = <<>>
            BY <1>1 DEF proposal
        <3> QED
            BY <3>1, <3>2
    <2>2. \A n : Places(book, n) = {}
        BY <2>1, PlacesAre
    <2> QED
        BY <1>1, <2>2, HeardOnce
<1>9. BegunInv
    BY <1>5 DEF BegunInv
<1>10. RepliesInv
    <2>1. DOMAIN book.entries = {}
        BY <1>1
    <2> QED
        BY <1>5, <2>1 DEF RepliesInv, Carried, OpenIds
<1> QED
    BY <1>6, <1>7, <1>8, <1>9, <1>10 DEF MarginsInv

LEMMA MarginsStep == MarginsInv /\ [MNext]_mvars => MarginsInv'
<1>1. ASSUME MarginsInv, UNCHANGED mvars
      PROVE  MarginsInv'
    BY <1>1 DEF mvars, MarginsInv, MarginsTypeInv, AskedInv, NotesAreHeardOnce, BegunInv,
                RepliesInv
<1> QED
    BY <1>1, TakesUpKeeps, StopsHereKeeps, HearAndAskKeeps, GivesUpKeeps, SpeaksKeeps,
       LeavesOrGoesOnKeeps, ActsKeeps, BeginsCallKeeps, ToolRunsKeeps, SettlesCallKeeps,
       WritesKeeps, AsksOfKeeps, ServeKeeps, ClosesKeeps DEF MNext

LEMMA MarginsHold == MSpec => []MarginsInv
    BY MarginsInit, MarginsStep, PTL DEF MSpec

(* A note is heard once, whatever the King sends, withdraws or deletes and *)
(* however late his requests arrive (api.rs, withdraw_note, send_notes).   *)
THEOREM EveryNoteIsHeardOnce == MSpec => []NotesAreHeardOnce
<1>1. MarginsInv => NotesAreHeardOnce
    BY DEF MarginsInv
<1> QED
    BY <1>1, MarginsHold, PTL

(* A reply keeps its thinking and its open calls, whatever is deleted of   *)
(* it meanwhile (model.rs, delete_entry).                                  *)
THEOREM RepliesAreNotTorn == MSpec => []RepliesStayWhole
<1>1. RepliesInv => RepliesStayWhole
    BY DEF RepliesInv, RepliesStayWhole, Carried, OpenIds
<1> QED
    BY <1>1, MarginsHold, PTL DEF MarginsInv

-----------------------------------------------------------------------------
(* The types.                                                              *)

\* What the types of a shell leave out.
ShellBounds ==
    /\ early \subseteq Shell
    /\ \A i \in Shell : shell[i].wrote <= MaxChunks
    /\ \A s \in Panel : Len(panel[s].due) <= MaxUnheard

LEMMA SentBounds ==
    ASSUME ShellTypeInv, ShellBounds, NEW i, NEW frame \in Nat
    PROVE  \A s \in Panel : Len(Sent(i, frame)[s].due) <= MaxUnheard
<1> SUFFICES ASSUME NEW s \in Panel PROVE Len(Sent(i, frame)[s].due) <= MaxUnheard
    OBVIOUS
<1> DEFINE due == panel[s].due
<1>1. /\ panel[s] \in Socket /\ due \in Seq(Nat) /\ Len(due) <= MaxUnheard
      /\ MaxUnheard \in Nat \ {0} /\ Len(due) \in Nat
    BY ShellsAssumption DEF ShellTypeInv, ShellBounds, Socket
<1>2. Len(Append(due, frame)) = Len(due) + 1
    BY <1>1
<1>3. ASSUME ~(Len(due) < MaxUnheard) PROVE Len(Append(Tail(due), frame)) = Len(due)
  <2>1. due # <<>>
      BY <1>1, <1>3
  <2> QED
      BY <1>1, <2>1
<1>4. Sent(i, frame)[s] =
        IF panel[s].shell # i \/ panel[s].at # "attached" THEN panel[s]
        ELSE IF Len(panel[s].due) < MaxUnheard
             THEN [panel[s] EXCEPT !.due = Append(@, frame)]
             ELSE [panel[s] EXCEPT !.due = Append(Tail(@), frame), !.told = TRUE]
    BY DEF Sent
<1>5. \A q \in Seq(Nat) : [panel[s] EXCEPT !.due = q].due = q
                         /\ [panel[s] EXCEPT !.due = q, !.told = TRUE].due = q
    BY <1>1 DEF Socket
<1>6. Append(due, frame) \in Seq(Nat)
    BY <1>1
<1>7. ASSUME ~(Len(due) < MaxUnheard) PROVE Append(Tail(due), frame) \in Seq(Nat)
  <2>1. due # <<>>
      BY <1>1, <1>7
  <2> QED
      BY <1>1, <2>1
<1>8. CASE Sent(i, frame)[s] = panel[s]
    BY <1>1, <1>8
<1>9. CASE Len(due) < MaxUnheard /\ Sent(i, frame)[s] = [panel[s] EXCEPT !.due = Append(@, frame)]
  <2>1. Sent(i, frame)[s].due = Append(due, frame)
      BY <1>5, <1>6, <1>9
  <2> QED
      BY <1>1, <1>2, <1>9, <2>1
<1>10. CASE ~(Len(due) < MaxUnheard)
         /\ Sent(i, frame)[s] = [panel[s] EXCEPT !.due = Append(Tail(@), frame), !.told = TRUE]
  <2>1. Sent(i, frame)[s].due = Append(Tail(due), frame)
      BY <1>5, <1>7, <1>10
  <2> QED
      BY <1>1, <1>3, <1>10, <2>1
<1> QED
    BY <1>4, <1>8, <1>9, <1>10

LEMMA ShellBoundsNext ==
    ASSUME ShellTypeInv, ShellBounds, [TNext]_tvars
    PROVE  ShellBounds'
<1>0. /\ MaxUnheard \in Nat /\ MaxChunks \in Nat /\ Len(<<>>) = 0
      /\ \A s \in Panel : /\ panel[s] \in Socket /\ panel[s].due \in Seq(Nat)
                          /\ Len(panel[s].due) \in Nat
      /\ \A i \in Shell : shell[i].wrote \in Nat
      /\ \A s \in Panel : panel[s].at = "listing" => panel[s].shell \in Shell
    BY ShellsAssumption DEF ShellTypeInv, Socket
<1>1. Away.due = <<>> /\ \A a, k : [Away EXCEPT !.at = a, !.shell = k].due = <<>>
    BY DEF Away
<1> DEFINE Short(s) == Len(panel'[s].due) <= MaxUnheard
<1>2. ASSUME NEW s \in Panel, LookUp(s) \/ StartRefused(s) \/ LookAway(s) PROVE ShellBounds'
  <2>0. PICK q : panel' = [panel EXCEPT ![s] = q] /\ q.due = <<>>
    <3>1. CASE LookUp(s)
      <4> DEFINE q == [Away EXCEPT !.at = IF sessions = 0 THEN "starting" ELSE "attaching",
                                   !.shell = sessions]
      <4>1. panel' = [panel EXCEPT ![s] = q]
          BY <3>1 DEF LookUp
      <4>2. q.due = <<>>
          BY <1>1
      <4> HIDE DEF q
      <4> QED
          BY <4>1, <4>2
    <3>2. CASE StartRefused(s) \/ LookAway(s)
        BY <1>1, <3>2 DEF StartRefused, LookAway
    <3> QED
        BY <1>2, <3>1, <3>2
  <2>1. \A t \in Panel : panel'[t] = panel[t] \/ panel'[t].due = <<>>
      BY <2>0 DEF ShellTypeInv
  <2>2. \A t \in Panel : Short(t)
      BY <1>0, <2>1 DEF ShellBounds
  <2>3. early' = early /\ shell' = shell
      BY <1>2 DEF LookUp, StartRefused, LookAway
  <2> QED
      BY <2>2, <2>3 DEF ShellBounds
<1>3. ASSUME NEW s \in Panel, StartShell(s) \/ ListShell(s) \/ Attach(s) PROVE ShellBounds'
  <2>0. panel \in [Panel -> Socket]
      BY DEF ShellTypeInv
  <2>1. \A t \in Panel : panel'[t].due = panel[t].due
    <3>1. CASE StartShell(s)
        BY <2>0, <3>1 DEF StartShell, Socket
    <3>2. CASE ListShell(s)
        BY <2>0, <3>2 DEF ListShell, Socket
    <3>3. CASE Attach(s)
        BY <2>0, <3>3 DEF Attach, Socket
    <3> QED
        BY <1>3, <3>1, <3>2, <3>3
  <2>2. \A t \in Panel : Short(t)
      BY <2>1 DEF ShellBounds
  <2>3. early' \subseteq Shell
      BY <1>0, <1>3 DEF StartShell, ListShell, Attach, ShellBounds
  <2>4. \A i \in Shell : shell'[i].wrote <= MaxChunks
      BY SMTT(60), <1>0, <1>3 DEF StartShell, ListShell, Attach, ShellBounds, ShellTypeInv
  <2> QED
      BY <2>2, <2>3, <2>4 DEF ShellBounds
<1>4. ASSUME NEW s \in Panel, HearFrame(s) PROVE ShellBounds'
  <2>1. Len(Tail(panel[s].due)) <= Len(panel[s].due) /\ Len(Tail(panel[s].due)) \in Nat
        /\ Tail(panel[s].due) \in Seq(Nat)
      BY <1>0, <1>4 DEF HearFrame
  <2>2. \A t \in Panel : \/ panel'[t].due = panel[t].due
                         \/ panel'[t].due = <<>>
                         \/ t = s /\ panel'[t].due = Tail(panel[s].due)
      BY <1>0, <1>1, <1>4 DEF HearFrame, ShellTypeInv, Socket
  <2>3. \A t \in Panel : Short(t)
    <3> TAKE t \in Panel
    <3> DEFINE a == Len(panel[s].due)
               b == Len(Tail(panel[s].due))
    <3>1. /\ Len(panel[t].due) <= MaxUnheard /\ a <= MaxUnheard /\ 0 <= MaxUnheard
          /\ a \in Nat /\ b \in Nat /\ b <= a
        BY <1>0, <2>1 DEF ShellBounds
    <3>2. b <= MaxUnheard
        <4> HIDE DEF a, b
        <4> QED
            BY <1>0, <3>1
    <3> QED
        BY <1>0, <2>2, <3>1, <3>2
  <2>4. early' = early /\ shell' = shell
      BY <1>4 DEF HearFrame
  <2> QED
      BY <2>3, <2>4 DEF ShellBounds
<1>5. ASSUME NEW i \in Shell, Write(i) PROVE ShellBounds'
  <2>1. \A s \in Panel : Short(s)
    <3>1. shell[i].wrote + 1 \in Nat /\ panel' = Sent(i, shell[i].wrote + 1)
        BY <1>0, <1>5 DEF Write
    <3> QED
        BY <3>1, SentBounds
  <2>2. \A j \in Shell : shell'[j].wrote <= MaxChunks
      BY <1>0, <1>5 DEF Write, ShellBounds, ShellTypeInv
  <2> QED
      BY <1>5, <2>1, <2>2 DEF Write, ShellBounds
<1>6. ASSUME NEW i \in Shell, ShellEnds(i) \/ PumpForgets(i) PROVE ShellBounds'
  <2>1. \A j \in Shell : shell'[j].wrote = shell[j].wrote
      BY <1>6 DEF ShellEnds, PumpForgets, ShellTypeInv
  <2> QED
      BY <1>6, <2>1 DEF ShellEnds, PumpForgets, ShellBounds
<1>7. ASSUME NEW i \in Shell, PumpTells(i) PROVE ShellBounds'
  <2>1. \A s \in Panel : Short(s)
    <3>1. Exited \in Nat /\ panel' = Sent(i, Exited)
        BY <1>7 DEF PumpTells, Exited
    <3> QED
        BY <3>1, SentBounds
  <2>2. \A j \in Shell : shell'[j].wrote = shell[j].wrote
      BY <1>7 DEF PumpTells, ShellTypeInv
  <2> QED
      BY <1>7, <2>1, <2>2 DEF PumpTells, ShellBounds
<1>8. CASE ShutdownShell
  <2>1. \A j \in Shell : shell'[j].wrote = shell[j].wrote
      BY <1>8 DEF ShutdownShell, ShellTypeInv
  <2> QED
      BY <1>8, <2>1 DEF ShutdownShell, ShellBounds
<1>9. CASE UNCHANGED tvars
    BY <1>9 DEF tvars, ShellBounds
<1> QED
    BY <1>2, <1>3, <1>4, <1>5, <1>6, <1>7, <1>8, <1>9 DEF TNext

(* The variables of the terminals keep to the values the code gives them,  *)
(* for any number of sockets, shells and chunks: and no socket is owed     *)
(* more frames than the broadcast holds.                                   *)
THEOREM ShellsTypeCorrect == TSpec => []TTypeOK
<1>1. TInit => ShellTypeInv /\ ShellBounds
  <2>1. Len(<<>>) = 0 /\ MaxUnheard \in Nat /\ MaxChunks \in Nat
      BY ShellsAssumption
  <2>2. TInit => ShellBounds
      BY <2>1 DEF TInit, ShellBounds, NoShell, Away
  <2> QED
      BY <2>2, ShellTypeInit
<1>2. ShellTypeInv /\ ShellBounds /\ [TNext]_tvars => (ShellTypeInv /\ ShellBounds)'
    BY ShellTypeNext, ShellBoundsNext
<1>3. ShellTypeInv /\ ShellBounds => TTypeOK
  <2> SUFFICES ASSUME ShellTypeInv, ShellBounds PROVE TTypeOK
      OBVIOUS
  <2>1. shell \in [Shell -> [lives : BOOLEAN, wrote : 0 .. MaxChunks,
                             pump : {"none", "reading", "telling", "over"}]]
    <3>1. \A i \in Shell : shell[i].wrote \in 0 .. MaxChunks
        BY DEF ShellTypeInv, ShellBounds
    <3> QED
        BY <3>1 DEF ShellTypeInv
  <2>2. \A s \in Panel : panel[s].at \in PanelAt /\ panel[s].shell \in Shell \cup {0}
      BY DEF ShellTypeInv, Socket
  <2> QED
      BY <2>1, <2>2 DEF ShellTypeInv, ShellBounds, PanelAt, TTypeOK
<1> QED
    BY <1>1, <1>2, <1>3, PTL DEF TSpec

(* What the wire's invariant leaves out of its types: revisions up to the  *)
(* last, and no more on its way than a channel holds.                      *)
Revs == 0 .. MaxChanges
Queue == {q \in Seq([of : Folk, rev : Revs]) : Len(q) <= Backlog}

WireBounds ==
    /\ record \in [Folk -> Revs] /\ shown \in [Room -> Revs] /\ badge \in [On("rail") -> BOOLEAN]
    /\ backlog \in [Watches -> Queue]
    /\ glance # <<>> => glance[1] \in Revs
    /\ fetched # <<>> => fetched[1] \in [Room -> Revs]
    /\ misled \subseteq Folk /\ missed \subseteq Watches \X Folk /\ upsets \in 0 .. MaxUpsets

LEMMA QueueFacts ==
    /\ <<>> \in Queue
    /\ \A q \in Queue : q # <<>> =>
          /\ Head(q) \in [of : Folk, rev : Revs] /\ Tail(q) \in Queue
    /\ \A q \in Queue, msg \in [of : Folk, rev : Revs] : Pushed(q, msg) \in Queue
<1> DEFINE Msgs == [of : Folk, rev : Revs]
<1>0. Queue = {q \in Seq(Msgs) : Len(q) <= Backlog}
    BY DEF Queue
<1> HIDE DEF Msgs
<1>1. Backlog \in Nat \ {0} /\ <<>> \in Seq(Msgs) /\ Len(<<>>) = 0
    BY WireAssumption
<1>2. <<>> \in Queue
    BY <1>0, <1>1
<1>3. ASSUME NEW q \in Queue, q # <<>> PROVE Head(q) \in Msgs /\ Tail(q) \in Queue
  <2>1. q \in Seq(Msgs) /\ Len(q) <= Backlog
      BY <1>0
  <2>2. Head(q) \in Msgs /\ Tail(q) \in Seq(Msgs) /\ Len(Tail(q)) = Len(q) - 1 /\ Len(q) \in Nat
      BY <1>3, <2>1
  <2>3. Len(Tail(q)) <= Backlog
      BY <1>1, <2>1, <2>2
  <2> QED
      BY <1>0, <2>2, <2>3
<1>4. ASSUME NEW q \in Queue, NEW msg \in Msgs PROVE Pushed(q, msg) \in Queue
  <2>1. q \in Seq(Msgs) /\ Len(q) <= Backlog /\ Len(q) \in Nat
      BY <1>0
  <2>2. CASE Len(q) < Backlog
    <3>1. Append(q, msg) \in Seq(Msgs) /\ Len(Append(q, msg)) = Len(q) + 1
        BY <2>1
    <3>2. Len(Append(q, msg)) <= Backlog
        BY <1>1, <2>1, <2>2, <3>1
    <3> QED
        BY <1>0, <2>2, <3>1, <3>2 DEF Pushed
  <2>3. CASE ~(Len(q) < Backlog)
    <3>1. q # <<>>
        BY <1>1, <2>1, <2>3
    <3>2. Tail(q) \in Seq(Msgs) /\ Len(Tail(q)) = Len(q) - 1 /\ Len(q) >= 1
        BY <2>1, <3>1
    <3> DEFINE rest == Tail(q)
    <3> HIDE DEF rest
    <3>3. Append(rest, msg) \in Seq(Msgs) /\ Len(Append(rest, msg)) = Len(rest) + 1
        BY <3>2 DEF rest
    <3>4. Len(Append(rest, msg)) <= Backlog
        BY <2>1, <3>2, <3>3 DEF rest
    <3> QED
        BY <1>0, <2>3, <3>3, <3>4 DEF Pushed, rest
  <2> QED
      BY <2>2, <2>3
<1> QED
    BY <1>2, <1>3, <1>4 DEF Msgs

LEMMA PublishBounds ==
    ASSUME WireBounds, NEW f \in Folk, NEW rev \in Revs, Publish(f, rev)
    PROVE  backlog' \in [Watches -> Queue] /\ missed' \subseteq Watches \X Folk
<1> DEFINE msg == [of |-> f, rev |-> rev]
           Filled == [w \in Watches |-> IF w \in To(f, rev) /\ Listens(w)
                                     THEN Pushed(backlog[w], msg) ELSE backlog[w]]
<1>1. msg \in [of : Folk, rev : Revs] /\ To(f, rev) \subseteq Watches
    BY WireFacts DEF To
<1>2. /\ backlog' = Filled
      /\ missed' = {m \in missed \cup Lost(Filled) : ~(m[1] \in To(f, rev) /\ m[2] = f)}
                \cup {<<w, f>> : w \in {v \in To(f, rev) : ~Listens(v) /\ f \notin Shot(v)}}
    BY DEF Publish, To
<1> HIDE DEF msg
<1>3. \A w \in Watches : Filled[w] \in Queue
    BY <1>1, QueueFacts DEF WireBounds
<1>4. Lost(Filled) \subseteq Watches \X Folk /\ missed \subseteq Watches \X Folk
    BY DEF Lost, WireBounds
<1> HIDE DEF Filled
<1>5. missed' \subseteq Watches \X Folk
    BY <1>1, <1>2, <1>4
<1> QED
    BY <1>2, <1>3, <1>5 DEF Filled

LEMMA AbsorbBounds ==
    ASSUME WireBounds, NEW w, NEW revs, \A f \in DOMAIN revs : revs[f] \in Revs, Absorb(w, revs)
    PROVE  shown' \in [Room -> Revs] /\ badge' \in [On("rail") -> BOOLEAN]
<1>1. CASE w = "rail"
  <2>1. \A f : Digest(revs[f]) \in BOOLEAN
      BY DEF Digest
  <2> QED
      BY <1>1, <2>1 DEF Absorb, WireBounds
<1>2. CASE w # "rail"
    BY <1>2 DEF Absorb, WireBounds
<1> QED
    BY <1>1, <1>2

LEMMA WireBoundsNext ==
    ASSUME WireBounds, [WNext]_wvars
    PROVE  WireBounds'
<1>0. MaxChanges \in Nat /\ MaxUpsets \in Nat
    BY WireAssumption
<1>1. ASSUME NEW f \in Folk, Update(f) PROVE WireBounds'
  <2>1. record[f] + 1 \in Revs
    <3>1. record["open"] \in Nat /\ record["subagent"] \in Nat /\ record["other"] \in Nat
        BY WireFacts DEF WireBounds, Revs
    <3>2. record["open"] + record["subagent"] + record["other"] < MaxChanges
        BY <1>1 DEF Update, Revisions
    <3>3. f = "open" \/ f = "subagent" \/ f = "other"
        BY WireFacts
    <3> QED
        BY <1>0, <3>1, <3>2, <3>3 DEF Revs
  <2> DEFINE rev == record[f] + 1
  <2>2. record' = [record EXCEPT ![f] = rev] /\ Publish(f, rev) /\ misled' \subseteq misled
        /\ UNCHANGED <<socket, shown, badge, glance, fetched, upsets>>
      BY <1>1 DEF Update
  <2> HIDE DEF rev
  <2>3. rev \in Revs
      BY <2>1 DEF rev
  <2>4. backlog' \in [Watches -> Queue] /\ missed' \subseteq Watches \X Folk
      BY <2>2, <2>3, PublishBounds
  <2> QED
      BY <2>2, <2>3, <2>4 DEF WireBounds
<1>2. CASE Glance
  <2>1. glance' = <<record["open"]>> /\ glance'[1] = record["open"] /\ record["open"] \in Revs
      BY <1>2, WireFacts DEF Glance, WireBounds
  <2> QED
      BY <1>2, <2>1 DEF Glance, WireBounds
<1>3. CASE PublishGlance
  <2>1. glance[1] \in Revs /\ "open" \in Folk /\ Publish("open", glance[1])
      BY <1>3, WireFacts DEF PublishGlance, WireBounds
  <2>2. backlog' \in [Watches -> Queue] /\ missed' \subseteq Watches \X Folk
      BY <2>1, PublishBounds
  <2> QED
      BY <1>3, <2>1, <2>2 DEF PublishGlance, WireBounds
<1>4. ASSUME NEW w \in Watches, Opening(w) PROVE WireBounds'
  <2> DEFINE revs == [f \in Shot(w) |-> record[f]]
  <2>1. \A f \in DOMAIN revs : revs[f] \in Revs
      BY WireFacts DEF WireBounds
  <2>2. Absorb(w, revs)
      BY <1>4 DEF Opening
  <2> HIDE DEF revs
  <2>3. shown' \in [Room -> Revs] /\ badge' \in [On("rail") -> BOOLEAN]
      BY <2>1, <2>2, AbsorbBounds
  <2> QED
      BY <1>4, <2>3 DEF Opening, WireBounds
<1>5. ASSUME NEW w \in Watches, Proclaim(w) PROVE WireBounds'
  <2> DEFINE msg == Head(backlog[w])
             revs == [f \in {msg.of} |-> msg.rev]
  <2>0. backlog[w] \in Queue /\ backlog[w] # <<>>
      BY <1>5 DEF Proclaim, WireBounds
  <2>1. msg \in [of : Folk, rev : Revs] /\ Tail(backlog[w]) \in Queue
      BY <2>0, QueueFacts
  <2>2. Absorb(w, revs) /\ backlog' = [backlog EXCEPT ![w] = Tail(@)]
        /\ UNCHANGED <<record, announced, socket, glance, fetched, misled, missed, upsets>>
      BY <1>5 DEF Proclaim
  <2> HIDE DEF msg
  <2>3. \A f \in DOMAIN revs : revs[f] \in Revs
      BY <2>1
  <2> HIDE DEF revs
  <2>4. shown' \in [Room -> Revs] /\ badge' \in [On("rail") -> BOOLEAN]
      BY <2>2, <2>3, AbsorbBounds
  <2> QED
      BY <2>1, <2>2, <2>4 DEF WireBounds
<1>6. ASSUME backlog' \in [Watches -> Queue],
             upsets' = upsets \/ (upsets < MaxUpsets /\ upsets' = upsets + 1),
             missed' = missed \cup Lost(backlog'), UNCHANGED <<record, shown, badge, misled>>,
             glance' = glance \/ glance' = <<>>, fetched' = fetched \/ fetched' = <<>>
      PROVE  WireBounds'
  <2>1. Lost(backlog') \subseteq Watches \X Folk
      BY DEF Lost
  <2>2. upsets' \in 0 .. MaxUpsets
      BY <1>0, <1>6 DEF WireBounds
  <2> QED
      BY <1>6, <2>1, <2>2 DEF WireBounds
<1>7. ASSUME NEW w \in Watches, Lose(w) PROVE WireBounds'
    BY <1>6, <1>7, QueueFacts DEF Lose, WireBounds
<1>8. CASE RestartServer
    BY <1>6, <1>8, QueueFacts DEF RestartServer
<1>9. CASE LeaveRoom
  <2>1. /\ backlog' = [backlog EXCEPT !["room"] = <<>>]
        /\ missed' = missed \cup Lost([backlog EXCEPT !["room"] = <<>>])
        /\ UNCHANGED <<record, announced, shown, badge, glance, fetched, misled, upsets>>
      BY <1>9 DEF LeaveRoom
  <2>2. backlog' \in [Watches -> Queue]
      BY <2>1, QueueFacts DEF WireBounds
  <2>3. missed' = missed \cup Lost(backlog')
      BY <2>1
  <2>4. /\ record' = record /\ shown' = shown /\ badge' = badge /\ misled' = misled
        /\ upsets' = upsets /\ glance' = glance /\ fetched' = fetched
      BY <2>1
  <2> QED
      BY <1>6, <2>2, <2>3, <2>4
<1>10. CASE Fetch
  <2> DEFINE r == [f \in Room |-> record[f]]
  <2>1. r \in [Room -> Revs]
      BY WireFacts DEF WireBounds
  <2>2. fetched' = <<r>>
      BY <1>10 DEF Fetch
  <2> HIDE DEF r
  <2>3. fetched'[1] = r
      BY <2>2
  <2> QED
      BY <1>10, <2>1, <2>3 DEF Fetch, WireBounds
<1>11. CASE Refetched
    BY <1>11, WireFacts DEF Refetched, WireBounds
<1>12. CASE ForgetPulses
    BY <1>0, <1>12 DEF ForgetPulses, WireBounds
<1>13. ASSUME NEW w \in Watches, Reconnect(w) PROVE WireBounds'
    BY <1>13 DEF Reconnect, WireBounds
<1>14. CASE EnterRoom
    BY <1>14 DEF EnterRoom, WireBounds
<1>15. CASE UNCHANGED wvars
    BY <1>15 DEF wvars, WireBounds
<1> QED
    BY <1>1, <1>2, <1>3, <1>4, <1>5, <1>7, <1>8, <1>9, <1>10, <1>11, <1>12, <1>13, <1>14, <1>15
       DEF WNext

(* The variables of the watches keep to the values the code gives them,    *)
(* for any number of changes, upsets and any backlog: and no channel holds *)
(* more than its backlog.                                                  *)
THEOREM WireTypeCorrect == WSpec => []WTypeOK
<1>1. WInit => WireBounds
  <2> SUFFICES ASSUME WInit PROVE WireBounds
      OBVIOUS
  <2>1. 0 \in Revs /\ 0 \in 0 .. MaxUpsets /\ Digest(0) \in BOOLEAN
      BY WireAssumption DEF Revs, Digest
  <2> QED
      BY <2>1, QueueFacts DEF WInit, WireBounds
<1>2. WireBounds /\ [WNext]_wvars => WireBounds'
    BY WireBoundsNext
<1>3. WireInv /\ WireBounds => WTypeOK
  <2> SUFFICES ASSUME WireInv, WireBounds PROVE WTypeOK
      OBVIOUS
  <2> DEFINE Msgs == [of : Folk, rev : 0 .. MaxChanges]
  <2>1. ASSUME NEW w \in Watches PROVE backlog[w] \in UNION {[1 .. n -> Msgs] : n \in 0 .. Backlog}
    <3>1. backlog[w] \in Seq(Msgs) /\ Len(backlog[w]) <= Backlog
        BY DEF WireBounds, Queue, Revs
    <3> HIDE DEF Msgs
    <3>2. Len(backlog[w]) \in 0 .. Backlog /\ backlog[w] \in [1 .. Len(backlog[w]) -> Msgs]
        BY <3>1, WireAssumption
    <3> QED
        BY <3>2
  <2> QED
      BY <2>1 DEF WireInv, WireTypeInv, WireBounds, Revs, WTypeOK
<1>4. WSpec => []WireInv
    BY WireHolds
<1> QED
    BY <1>1, <1>2, <1>3, <1>4, PTL DEF WSpec

(* The variables of the file panel keep to the values the code gives them, *)
(* for any number of texts the King types and patches of the court.        *)
THEOREM EditorsTypeCorrect == DSpec => []DTypeOK
<1>1. EditorInv => DTypeOK
  <2> SUFFICES ASSUME EditorInv PROVE DTypeOK
      OBVIOUS
  <2>1. \A i \in DOMAIN calls : calls[i] \in CallOf
      BY DEF EditorInv, EditorTypeInv
  <2>2. editor \in PanelOf /\ files \in [File -> DText] /\ temps \in [File -> DText]
      BY DEF EditorInv, EditorTypeInv
  <2> QED
      BY <2>1, <2>2 DEF PanelOf, CallOf, Mode, DTypeOK
<1> QED
    BY <1>1, EditorHolds, PTL

(* The variables of the margins keep to the values the code gives them,    *)
(* for any number of notes, demands and entries.                           *)
THEOREM MarginsTypeCorrect == MSpec => []MTypeOK
<1>1. MarginsInv => MTypeOK
  <2> SUFFICES ASSUME MarginsInv PROVE MTypeOK
      OBVIOUS
  <2>1. \A i \in DOMAIN book.entries : book.entries[i] \in Entry
      BY DEF MarginsInv, MarginsTypeInv, Book
  <2> QED
      BY <2>1 DEF MarginsInv, MarginsTypeInv, Book, Entry, Proposal, Seat, DraftText, Status, MTypeOK
<1> QED
    BY <1>1, MarginsHold, PTL
=============================================================================
