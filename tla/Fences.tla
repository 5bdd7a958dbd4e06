------------------------------- MODULE Fences -------------------------------
(***************************************************************************)
(* Which folders a sealed plan is given: the manifests that declare them   *)
(* and what is offered of the machine (services/mod.rs), the boxes the     *)
(* King ticks (components/prompt_bar.rs), the choice a plan records        *)
(* (api.rs begin_plan), the root it is given (namespaces/mount.rs) and what*)
(* its court is told of it (turn.rs).  The folders every sealed plan has   *)
(* are left out, and so are folders inside one another.                    *)
(***************************************************************************)
EXTENDS Naturals, Sequences, SequencesExt

CONSTANTS
    Cargo, Rustup,  \* a toolchain's two folders
    Secret,         \* a folder whose offer starts unticked
    MaxDeclared,    \* folders one manifest declares
    MaxEdits,       \* of a manifest or of the disk, touches among them
    MaxTicks        \* boxes and folders the King touches

ASSUME FencesAssumption == {MaxDeclared, MaxEdits, MaxTicks} \subseteq Nat

VARIABLES
    manifest,  \* what the machine's and the project's manifest declare
    present,      \* the folders that exist
    edits,     \* of both, so far
    picker,     \* the Files tab of the isolation panel
    ticks,     \* he has touched so far
    choice,    \* state.mounts
    opened,    \* the plan
    fence,     \* the root of its namespace
    briefed    \* the folders its court was last told of

fvars == <<manifest, present, edits, picker, ticks, choice, opened, fence, briefed>>

MayEdit == edits + ticks < MaxEdits
MayTick == ticks < MaxTicks /\ MayEdit

Folder == {Cargo, Rustup, Secret}

\* A folder as it is written, under ~ or in full.
Mount == [folder : Folder, tilde : BOOLEAN, mode : {"ro", "rw"}]
SamePath(m, n) == m.folder = n.folder /\ m.tilde = n.tilde

\* One that cannot be read declares nothing.
Manifests == UNION {[1 .. n -> Mount] : n \in 0 .. MaxDeclared}

\* `made` is FALSE before the panel has filled it in.
NoChoice == [made |-> FALSE, list |-> <<>>]
NoPanel == [open |-> FALSE, landed |-> FALSE, rows |-> {}, current |-> FALSE]
Unopened == [begun |-> FALSE, choice |-> NoChoice, shown |-> FALSE, rows |-> {}, mine |-> {}]
NoFence == [up |-> FALSE, binds |-> {}, current |-> FALSE, asShown |-> FALSE]
NotBriefed == [told |-> FALSE, mounts |-> <<>>]

FInit ==
    /\ manifest = [host |-> <<>>, city |-> <<>>] /\ present = Folder /\ edits = 0
    /\ picker = NoPanel /\ ticks = 0 /\ choice = NoChoice
    /\ opened = Unopened /\ fence = NoFence /\ briefed = NotBriefed

-----------------------------------------------------------------------------
(* What a plan is given.                                                   *)

\* The more permissive mode is kept, the place is the first one's.
NamedTwice(list, m) ==
    IF \E i \in DOMAIN list : SamePath(list[i], m)
    THEN [i \in DOMAIN list |->
             IF SamePath(list[i], m) /\ m.mode = "rw" THEN m ELSE list[i]]
    ELSE Append(list, m)

MergedMounts(list) ==
    LET merged[n \in 0 .. Len(list)] ==
            IF n = 0 THEN <<>> ELSE NamedTwice(merged[n - 1], list[n])
    IN  merged[Len(list)]

\* What of a list is among some, in its order.
Only(list, some) ==
    LET kept[n \in 0 .. Len(list)] ==
            IF n = 0 THEN <<>>
            ELSE IF list[n] \in some THEN Append(kept[n - 1], list[n]) ELSE kept[n - 1]
    IN  kept[Len(list)]

MountsFor == MergedMounts(manifest.host \o manifest.city)
MountsForPlanUnasked(c) == MountsFor
MountsForPlan(c) == IF c.made THEN MergedMounts(c.list \o manifest.city) ELSE MountsFor

\* Of a folder under two spellings the first is bound; one that is gone is not.
WithAllowed(list) ==
    {list[i] : i \in {i \in DOMAIN list :
        /\ list[i].folder \in present
        /\ \A j \in 1 .. i - 1 : list[j].folder # list[i].folder}}

-----------------------------------------------------------------------------
(* What is offered.                                                        *)

Tilde(f, mode) == [folder |-> f, tilde |-> TRUE, mode |-> mode]
KnownPaths == {<<Tilde(Cargo, "rw"), Tilde(Rustup, "rw")>>, <<Tilde(Secret, "ro")>>}
OffByDefault(m) == m.folder = Secret /\ m.tilde

Folders(list) == {m.folder : m \in ToSet(list)}

\* The project's word is the answer where both declare a folder.
DeclaredAtFirst(f) ==
    IF f \in Folders(manifest.host) THEN "host"
    ELSE IF f \in Folders(manifest.city) THEN "city"
    ELSE "nowhere"
DeclaredAt(f) ==
    IF f \in Folders(manifest.city) THEN "city"
    ELSE IF f \in Folders(manifest.host) THEN "host"
    ELSE "nowhere"

\* Shared only when every folder of it is.
Row(list) ==
    LET scopes == {DeclaredAt(f) : f \in Folders(list)}
    IN  [folders |-> list,
         declared |-> IF "nowhere" \in scopes THEN "nowhere"
                      ELSE IF "city" \in scopes THEN "city"
                      ELSE "host"]

\* What exists of the known folders, and what is declared beside it.  A
\* toolchain is found by the PATH entry in its first folder.
MountCandidates ==
    LET found == {known \in KnownPaths : known[1].folder \in present}
        live == {Only(known, {m \in Mount : m.folder \in present}) : known \in found}
        covered == UNION {Folders(list) : list \in live}
        declared == manifest.city \o manifest.host
        rest == {i \in DOMAIN declared :
                    /\ declared[i].folder \notin covered
                    /\ \A j \in 1 .. i - 1 : declared[j].folder # declared[i].folder}
    IN  {Row(list) : list \in live \cup {<<declared[i]>> : i \in rest}}

-----------------------------------------------------------------------------
(* The panel.                                                              *)

Fixed(row) == row.declared = "city"
Paths(list) == {<<m.folder, m.tilde>> : m \in ToSet(list)}
Apart(list) == {m \in Mount : <<m.folder, m.tilde>> \notin Paths(list)}
IsTicked(row) == Fixed(row) \/ Paths(row.folders) \cap Paths(choice.list) # {}

\* "Yours": ticked, and no row's.
Mine == {m \in ToSet(choice.list) :
            \A row \in picker.rows : m \in Apart(row.folders)}

PartlyTheProjects(row) ==
    ~Fixed(row) /\ "city" \in {DeclaredAt(f) : f \in Folders(row.folders)}

\* No two rows name one folder, so that their order is of no account.
DefaultSelection(rows) ==
    SetToSeq({m \in UNION {ToSet(row.folders) : row \in rows} :
                ~OffByDefault(m) \/ \E row \in rows : Fixed(row) /\ m \in ToSet(row.folders)})

\* Once, when the offers have landed and the list is on the screen.
Seeded(rows) == IF choice.made THEN choice ELSE [made |-> TRUE, list |-> DefaultSelection(rows)]

\* The offers are asked for when the panel opens; here they land later.
OpensPanel ==
    /\ ~picker.open /\ ~opened.begun
    /\ picker' = [NoPanel EXCEPT !.open = TRUE]
    /\ UNCHANGED <<manifest, present, edits, ticks, choice, opened, fence, briefed>>

OffersLand ==
    /\ picker.open /\ ~picker.landed
    /\ picker' = [picker EXCEPT !.landed = TRUE, !.rows = MountCandidates, !.current = TRUE]
    /\ choice' = Seeded(MountCandidates)
    /\ UNCHANGED <<manifest, present, edits, ticks, opened, fence, briefed>>

\* What is ticked outlives the panel.
ClosesPanel ==
    /\ picker.open /\ ~opened.begun
    /\ picker' = NoPanel
    /\ UNCHANGED <<manifest, present, edits, ticks, choice, opened, fence, briefed>>

Ticked(row) ==
    IF IsTicked(row) THEN Only(choice.list, Apart(row.folders))
    ELSE MergedMounts(choice.list \o row.folders)

Toggles(row) ==
    /\ picker.landed /\ row \in picker.rows /\ ~Fixed(row) /\ MayTick /\ ~opened.begun
    /\ choice' = [made |-> TRUE, list |-> Ticked(row)]
    /\ ticks' = ticks + 1
    /\ UNCHANGED <<manifest, present, edits, picker, opened, fence, briefed>>

\* CustomMount does not wait for the offers; of a path named twice the later
\* mode is kept.
AddsMount(m) ==
    /\ picker.open /\ MayTick /\ ~opened.begun
    /\ choice' = [made |-> TRUE,
                  list |-> IF \E n \in ToSet(choice.list) : SamePath(m, n)
                           THEN [i \in DOMAIN choice.list |->
                                    IF SamePath(m, choice.list[i]) THEN m ELSE choice.list[i]]
                           ELSE Append(choice.list, m)]
    /\ ticks' = ticks + 1
    /\ UNCHANGED <<manifest, present, edits, picker, opened, fence, briefed>>

DropsMount(m) ==
    /\ picker.open /\ m \in Mine /\ MayTick /\ ~opened.begun
    /\ choice' = [choice EXCEPT !.list = Only(@, Apart(<<m>>))]
    /\ ticks' = ticks + 1
    /\ UNCHANGED <<manifest, present, edits, picker, opened, fence, briefed>>

-----------------------------------------------------------------------------
(* The plan.                                                               *)

\* Start is in the composer: the panel may be closed, or never have been open.
\* What is ticked stays, for the next plan.
BeginsPlan ==
    /\ ~opened.begun
    /\ opened' = [begun |-> TRUE, choice |-> choice, shown |-> picker.landed,
                  rows |-> {[folders |-> Folders(row.folders), on |-> IsTicked(row),
                             partly |-> PartlyTheProjects(row)] : row \in picker.rows},
                  mine |-> {m.folder : m \in Mine}]
    /\ picker' = [NoPanel EXCEPT !.current = picker.current]
    /\ UNCHANGED <<manifest, present, edits, ticks, choice, fence, briefed>>

\* Before a turn, or for the King's terminal (terminal.rs).
BuildsFence ==
    /\ opened.begun /\ ~fence.up
    /\ fence' = [up |-> TRUE, binds |-> WithAllowed(MountsForPlan(opened.choice)),
                 current |-> TRUE, asShown |-> picker.current]
    /\ briefed' = NotBriefed
    /\ UNCHANGED <<manifest, present, edits, picker, ticks, choice, opened>>

\* At the top of a round.
BriefsCourt ==
    /\ fence.up
    /\ briefed' = [told |-> TRUE, mounts |-> MountsForPlan(opened.choice)]
    /\ UNCHANGED <<manifest, present, edits, picker, ticks, choice, opened, fence>>

\* With the server, or with the plan's network.
LosesFence ==
    /\ fence.up
    /\ fence' = NoFence /\ briefed' = NotBriefed
    /\ UNCHANGED <<manifest, present, edits, picker, ticks, choice, opened>>

-----------------------------------------------------------------------------
(* The King at his files; declare_mount and withdraw_mount do no more.     *)

\* A recorded choice holds the machine's manifest off.
EditsHost(list) ==
    /\ MayEdit /\ list # manifest.host
    /\ manifest' = [manifest EXCEPT !.host = list]
    /\ edits' = edits + 1
    /\ picker' = [picker EXCEPT !.current = @ /\ opened.begun]
    /\ fence' = [fence EXCEPT !.current = @ /\ opened.choice.made]
    /\ UNCHANGED <<present, ticks, choice, opened, briefed>>

Outdates ==
    /\ edits' = edits + 1
    /\ picker' = [picker EXCEPT !.current = FALSE]
    /\ fence' = [fence EXCEPT !.current = FALSE]
    /\ UNCHANGED <<ticks, choice, opened, briefed>>

EditsCity(list) ==
    /\ MayEdit /\ list # manifest.city
    /\ manifest' = [manifest EXCEPT !.city = list]
    /\ Outdates
    /\ UNCHANGED present

FolderComesOrGoes(f) ==
    /\ MayEdit
    /\ present' = IF f \in present THEN present \ {f} ELSE present \cup {f}
    /\ Outdates
    /\ UNCHANGED manifest

FNext ==
    \/ OpensPanel \/ OffersLand \/ ClosesPanel
    \/ \E row \in picker.rows : Toggles(row)
    \/ \E m \in Mount : AddsMount(m) \/ DropsMount(m)
    \/ BeginsPlan \/ BuildsFence \/ BriefsCourt \/ LosesFence
    \/ \E list \in Manifests : EditsHost(list) \/ EditsCity(list)
    \/ \E f \in Folder : FolderComesOrGoes(f)

FSpec == FInit /\ [][FNext]_fvars

-----------------------------------------------------------------------------
\* Every variable keeps to the values the code gives it.
FTypeOK ==
    /\ manifest \in [host : Manifests, city : Manifests]
    /\ present \subseteq Folder /\ edits \in 0 .. MaxEdits
    /\ picker.open \in BOOLEAN /\ (picker.landed => picker.open)
    /\ ticks \in 0 .. MaxTicks
    /\ \A c \in {choice, opened.choice} : ToSet(c.list) \subseteq Mount /\ (c.list # <<>> => c.made)
    /\ fence.binds \subseteq Mount
    /\ ToSet(briefed.mounts) \subseteq Mount

Inside == {m.folder : m \in fence.binds}

(* What the panel showed when the plan was started is what the plan has,   *)
(* while the machine is as the panel read it: no folder is in the fence    *)
(* that no ticked row named, a ticked row lets in one of its folders at    *)
(* least, and a folder of his own is in.  A row of which the project       *)
(* declares a part only is let off: it can be unticked, and is given in    *)
(* part                                                                    *)
(* (services/mod.rs:1300-1306, 1372-1384; prompt_bar.rs:1019-1036).        *)
FenceIsAsTicked ==
    fence.up /\ fence.current /\ fence.asShown /\ opened.shown =>
        /\ Inside \subseteq opened.mine \cup
              UNION {row.folders : row \in {row \in opened.rows : row.on \/ row.partly}}
        /\ \A row \in opened.rows :
              row.on => row.folders \cap Inside # {} \/ row.folders \cap present = {}
        /\ opened.mine \cap present \subseteq Inside

(* What the court is told of its fence is the fence it stands behind, also *)
(* after the King has edited his own manifest or a terminal has built the  *)
(* fence again; the project's manifest moves it, and so does his own when  *)
(* the plan recorded no choice (services/mod.rs mounts_for_plan and its    *)
(* callers; turn.rs:362-370).                                              *)
FenceIsAsTold ==
    fence.up /\ briefed.told /\ fence.current => WithAllowed(briefed.mounts) = fence.binds
=============================================================================
