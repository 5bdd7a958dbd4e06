------------------------------- MODULE Editors -------------------------------
(***************************************************************************)
(* The King edits a file (components/source_view.rs, conversation.rs,      *)
(* api.rs, edit.rs) in the workspace his court is patching (tools/         *)
(* patch.rs).  A text is the changes that went into it: the court's, and   *)
(* what the King last typed.  The stamp of a text tells it from every      *)
(* other.                                                                  *)
(***************************************************************************)
EXTENDS Naturals, Sequences

CONSTANTS
    File,
    MaxTyped,    \* the texts he may type
    MaxPatches,  \* the court's
    MaxActs       \* times he turns to a file or away, presses Edit, Save or Delete

ASSUME EditorsAssumption == MaxTyped \in Nat /\ MaxPatches \in Nat

VARIABLES
    files, temps,  \* what stands under each name, and under its temporary name
    court,         \* the court's patch
    editor,        \* the source panel in the King's browser
    calls,         \* his saves and deletions, in the order pressed
    seen,          \* of the court's changes, those he was shown
    harm           \* what went wrong, for the properties

dvars == <<files, temps, court, editor, calls, seen, harm>>

NoFile == "no file"
Absent == [of |-> NoFile, king |-> 0, court |-> {}]
Born(f) == [Absent EXCEPT !.of = f]

Resting == [at |-> "idle", file |-> NoFile, text |-> Absent, count |-> 0]

Unmounted ==
    [path |-> NoFile, mode |-> "notes", opened |-> FALSE, text |-> Absent, stamp |-> Absent,
     buffer |-> Absent, stash |-> [f \in File |-> Absent], restored |-> FALSE,
     fetching |-> FALSE, fetched |-> Absent, asked |-> NoFile,
     acts |-> 0]

Done == [kind |-> "none", at |-> "done", file |-> NoFile, text |-> Absent,
         stamp |-> Absent, restored |-> FALSE]

DInit ==
    /\ files = [f \in File |-> Born(f)] /\ temps = [f \in File |-> Absent]
    /\ court = Resting /\ editor = Unmounted
    /\ calls = <<>> /\ seen = {} /\ harm = {}

-----------------------------------------------------------------------------
(* Writing: under a temporary name beside the target, then over it         *)
(* (patch.rs, write_atomically).  The temporary name is the file's own.    *)

Beside(f, text) == temps' = [temps EXCEPT ![f] = text] /\ UNCHANGED files

Fails(f) == temps[f] = Absent

Over(f) ==
    /\ files' = IF Fails(f) THEN files ELSE [files EXCEPT ![f] = temps[f]]
    /\ temps' = [temps EXCEPT ![f] = Absent]

-----------------------------------------------------------------------------
(* The court: a patch reads the file, and writes what it makes of it.      *)

PatchReads(f) ==
    LET n == court.count + 1
    IN  /\ court.at = "idle" /\ n <= MaxPatches
        /\ court' = [at |-> "read", file |-> f, count |-> n,
                     text |-> [files[f] EXCEPT !.of = f, !.court = @ \cup {n}]]
        /\ UNCHANGED <<files, temps, editor, calls, seen, harm>>

PatchWrites ==
    /\ \/ /\ court.at = "read" /\ Beside(court.file, court.text)
          /\ court' = [court EXCEPT !.at = "written"]
       \/ /\ court.at = "written" /\ Over(court.file)
          /\ court' = [Resting EXCEPT !.count = court.count]
    /\ UNCHANGED <<editor, calls, seen, harm>>

-----------------------------------------------------------------------------
(* The source panel.                                                       *)

Dirty == editor.opened /\ editor.text # editor.buffer

Stashed == IF Dirty THEN [editor.stash EXCEPT ![editor.path] = editor.buffer] ELSE editor.stash

\* Another file is shown; what was being typed into the last is kept.
Show(f) ==
    /\ editor.path # f /\ editor.acts < MaxActs
    /\ editor' = [editor EXCEPT !.acts = @ + 1, !.path = f, !.mode = "notes", !.stash = Stashed,
                   !.opened = FALSE, !.text = Absent, !.stamp = Absent, !.buffer = Absent]
    /\ UNCHANGED <<files, temps, court, calls, seen, harm>>

\* The panel is closed, or gives its place to another; nothing of it is kept.
Close ==
    /\ editor.path # NoFile /\ editor.acts < MaxActs
    /\ editor' = [Unmounted EXCEPT !.acts = editor.acts + 1]
    /\ UNCHANGED <<files, temps, court, calls, seen, harm>>

\* The lines he reads are fetched again whenever the court has acted.
LookAgain ==
    /\ editor.path # NoFile /\ editor.mode = "notes"
    /\ seen' = seen \cup files[editor.path].court
    /\ UNCHANGED <<files, temps, court, editor, calls, harm>>

\* Edit is pressed: the file is read whole, and the answer is on its way.
BeginEdit ==
    /\ editor.path # NoFile /\ editor.mode = "notes" /\ ~editor.fetching
    /\ editor.acts < MaxActs
    /\ editor' = [editor EXCEPT !.acts = @ + 1, !.fetching = TRUE, !.fetched = files[editor.path],
                   !.asked = editor.path]
    /\ UNCHANGED <<files, temps, court, calls, seen, harm>>

\* It comes, whichever file is shown by now; what was stashed wins over it, but not its stamp.
EditBegins ==
    LET stashed == editor.stash[editor.asked]
        buffer == IF stashed # Absent THEN stashed ELSE editor.fetched
        closed == [editor EXCEPT !.fetching = FALSE, !.fetched = Absent, !.asked = NoFile]
    IN  /\ editor.fetching
        /\ IF editor.fetched = Absent THEN editor' = closed /\ UNCHANGED seen
           ELSE /\ editor' = [closed EXCEPT !.mode = "edit", !.opened = TRUE,
                               !.text = editor.fetched, !.stamp = editor.fetched,
                               !.buffer = buffer, !.restored = stashed # Absent]
                /\ seen' = seen \cup buffer.court
        /\ UNCHANGED <<files, temps, court, calls, harm>>

Type ==
    /\ editor.mode = "edit"
    /\ \E n \in (1 .. MaxTyped) \ {editor.buffer.king} :
          editor' = [editor EXCEPT !.buffer.king = n]
    /\ UNCHANGED <<files, temps, court, calls, seen, harm>>

Revert ==
    /\ editor.mode = "edit" /\ Dirty
    /\ editor' = [editor EXCEPT !.buffer = editor.text, !.stash[editor.path] = Absent,
                   !.restored = FALSE]
    /\ seen' = seen \cup editor.text.court
    /\ UNCHANGED <<files, temps, court, calls, harm>>

LeaveEdit ==
    /\ editor.mode = "edit"
    /\ editor' = [editor EXCEPT !.mode = "notes", !.stash = Stashed]
    /\ UNCHANGED <<files, temps, court, calls, seen, harm>>

\* The path is read where the call is made; the stamp is the buffer's.
Press(kind) ==
    /\ editor.mode = "edit" /\ editor.opened /\ editor.acts < MaxActs
    /\ editor' = [editor EXCEPT !.acts = @ + 1]
    /\ calls' = Append(calls,
          [kind |-> kind, at |-> "sent", file |-> editor.path, text |-> editor.buffer,
           stamp |-> editor.stamp, restored |-> editor.restored])
    /\ UNCHANGED <<files, temps, court, seen, harm>>

Save == Dirty /\ Press("save")
Delete == Press("delete")

-----------------------------------------------------------------------------
(* The server.                                                             *)

Goes(i, at) == calls' = [calls EXCEPT ![i].at = at]
Ends(i) == calls' = [calls EXCEPT ![i] = Done]

\* What is checked is what is now about to be written over.
Passes(i) ==
    calls' = [calls EXCEPT ![i].at = "checked", ![i].stamp = files[calls[i].file]]

\* As if it were enough that the file is still there.
CheckThere(i) ==
    /\ calls[i].at = "sent"
    /\ IF files[calls[i].file] # Absent THEN Passes(i) ELSE Ends(i)
    /\ UNCHANGED <<files, temps, court, editor, seen, harm>>

Check(i) ==
    /\ calls[i].at = "sent"
    /\ IF files[calls[i].file] = calls[i].stamp THEN Passes(i) ELSE Ends(i)
    /\ UNCHANGED <<files, temps, court, editor, seen, harm>>

\* The King has his way with the file he opened, and with work of the court he was not shown.
Unseen(c, kept) ==
    /\ files[c.file] = c.stamp
    /\ ~(files[c.file].court \subseteq kept \cup seen)

Harmed(c, kept) ==
    harm' = IF Unseen(c, kept)
            THEN harm \cup {IF c.restored THEN "restored" ELSE "fresh"} ELSE harm

WriteOver(i) ==
    LET c == calls[i]
    IN  /\ c.kind = "save"
        /\ \/ /\ c.at = "checked" /\ Beside(c.file, c.text) /\ Goes(i, "written")
              /\ UNCHANGED harm
           \/ /\ c.at = "written" /\ Over(c.file)
              /\ IF Fails(c.file) THEN Ends(i) /\ UNCHANGED harm
                 ELSE Goes(i, "landed") /\ Harmed(c, temps[c.file].court)
        /\ UNCHANGED <<court, editor, seen>>

Unlink(i) ==
    LET c == calls[i]
    IN  /\ c.kind = "delete" /\ c.at = "checked"
        /\ files' = [files EXCEPT ![c.file] = Absent]
        /\ IF files[c.file] = Absent THEN Ends(i) /\ UNCHANGED harm
           ELSE Goes(i, "landed") /\ Harmed(c, {})
        /\ UNCHANGED <<temps, court, editor, seen>>

\* The answer to a save: the buffer, as it is by now, is taken for what was written.
Saved(i) ==
    LET c == calls[i]
    IN  /\ c.kind = "save" /\ c.at = "landed" /\ Ends(i)
        /\ editor' = IF editor.path = NoFile THEN editor
                    ELSE [editor EXCEPT !.stash[editor.path] = Absent,
                            !.text = IF editor.opened THEN editor.buffer ELSE @,
                            !.stamp = IF editor.opened THEN c.text ELSE @,
                            !.restored = FALSE]
        /\ UNCHANGED <<files, temps, court, seen, harm>>

\* The answer to a deletion closes the panel, whatever it shows.
Deleted(i) ==
    LET c == calls[i]
    IN  /\ c.kind = "delete" /\ c.at = "landed" /\ Ends(i)
        /\ editor' = [Unmounted EXCEPT !.acts = editor.acts]
        /\ UNCHANGED <<files, temps, court, seen, harm>>

DNext ==
    \/ \E f \in File : PatchReads(f) \/ Show(f)
    \/ PatchWrites \/ Close \/ LookAgain \/ BeginEdit \/ EditBegins \/ Type \/ Revert
    \/ LeaveEdit \/ Save \/ Delete
    \/ \E i \in DOMAIN calls : Check(i) \/ WriteOver(i) \/ Unlink(i) \/ Saved(i) \/ Deleted(i)

DSpec == DInit /\ [][DNext]_dvars

-----------------------------------------------------------------------------
DText ==
    [of : File \cup {NoFile}, king : 0 .. MaxTyped,
     court : SUBSET (1 .. MaxPatches)]

DTypeOK ==
    /\ files \in [File -> DText] /\ temps \in [File -> DText]
    /\ editor.path \in File \cup {NoFile} /\ editor.mode \in {"notes", "edit"}
    /\ editor.stash \in [File -> DText] /\ {editor.text, editor.buffer} \subseteq DText
    /\ \A i \in DOMAIN calls :
          calls[i].at \in {"sent", "checked", "written", "landed", "done"}

(* A save or a deletion that nobody overtook takes away no work of the     *)
(* court the King was not shown, unless what he saved came back from the   *)
(* stash: not after any turning between files, late answer, second save or *)
(* closed panel (edit.rs:20-31).                                           *)
StampsGuardTheWork == "fresh" \notin harm

(* "makes a save refuse rather than overwrite work the King never saw"     *)
(* (source_view.rs:57-58).                                                 *)
OverwritesOnlyWhatWasSeen == harm = {}
=============================================================================
