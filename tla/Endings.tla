------------------------------- MODULE Endings -------------------------------
(***************************************************************************)
(* How a plan is ended (api.rs, finish_plan; worktree.rs, merge and        *)
(* archive): one git command after another in a repository the King works  *)
(* in too, any of which may fail, with the server free to die between any  *)
(* two; the plan's document carried out of the checkout (store.rs,         *)
(* file_plan); and the ending recorded last.                               *)
(***************************************************************************)
EXTENDS Naturals

CONSTANTS
    MaxRequests,  \* times the King asks
    MaxFaults     \* git commands that fail of themselves, and crashes

ASSUME EndingsAssumption == MaxRequests \in Nat /\ MaxFaults \in Nat

VARIABLES
    at,        \* the request's next step; "none" between requests
    how,       \* "merge" or "archive"
    tree,      \* the plan's checkout exists
    branch,    \* the plan's branch exists
    work,      \* where the plan's work is: of "tree", "branch", "base",
               \*   "astray" (another branch the King had checked out), "patch"
    document,  \* where the draft is: of "tree", "request", "filed"
    patch,     \* the request wrote a patch
    outcome,   \* the ending on record
    head,      \* what the city has checked out: "base" or "other"
    merging,   \* whose merge is unfinished in the city: "nobody", "plan", "King"
    asked, faults

nvars == <<at, how, tree, branch, work, document, patch, outcome, head, merging,
           asked, faults>>

NInit ==
    /\ at = "none" /\ how = "merge"
    /\ tree = TRUE /\ branch = TRUE /\ work = {"tree"} /\ document = {"tree"}
    /\ patch = FALSE /\ outcome = "none"
    /\ head = "base" /\ merging = "nobody"
    /\ asked = 0 /\ faults = 0

Git == <<tree, branch, work>>
City == <<head, merging>>

\* The request returns an error: what it held goes with it.
Errs == at' = "none" /\ document' = document \ {"request"}

-----------------------------------------------------------------------------
(* The request.                                                            *)

\* A settled plan is left alone; the draft is read while it still exists.
AskFinish(h) ==
    /\ at = "none" /\ outcome = "none" /\ asked < MaxRequests
    /\ asked' = asked + 1
    /\ how' = h /\ patch' = FALSE
    /\ at' = "commit"
    /\ document' = IF "tree" \in document THEN document \cup {"request"} ELSE document
    /\ UNCHANGED <<Git, outcome, City, faults>>

\* commit_pending runs in the checkout, and fails if there is none.
CommitPending ==
    /\ at = "commit"
    /\ IF tree
       THEN /\ at' = IF how = "merge" THEN "check" ELSE "patch"
            /\ work' = IF "tree" \in work THEN (work \ {"tree"}) \cup {"branch"} ELSE work
            /\ document' = document
       ELSE Errs /\ work' = work
    /\ UNCHANGED <<how, tree, branch, patch, outcome, City, asked, faults>>

\* merge: not unless the branch it was cut from is checked out.
CheckHead ==
    /\ at = "check"
    /\ at' = IF head = "base" THEN "merge" ELSE "refused"
    /\ UNCHANGED <<how, Git, document, patch, outcome, City, asked, faults>>

\* The merge lands on whatever is checked out by now, or it does not land:
\* because of a conflict, or of a merge the King has not concluded.
GitMerge ==
    /\ at = "merge"
    /\ \/ /\ merging = "nobody"
          /\ work' = work \cup {IF head = "base" THEN "base" ELSE "astray"}
          /\ at' = "remove" /\ merging' = merging
       \/ /\ at' = "abort"
          /\ merging' = IF merging = "nobody" THEN "plan" ELSE merging
          /\ work' = work
    /\ UNCHANGED <<how, tree, branch, document, patch, outcome, head, asked, faults>>

\* A merge that failed is aborted, whatever it failed of.
AbortMerge ==
    /\ at = "abort"
    /\ merging' = "nobody"
    /\ at' = "refused"
    /\ UNCHANGED <<how, Git, document, patch, outcome, head, asked, faults>>

\* archive: the patch is what base does not have; it may not be writable.
WritePatch ==
    /\ at = "patch"
    /\ \/ /\ "branch" \in work /\ "base" \notin work
          /\ patch' = TRUE /\ work' = work \cup {"patch"}
       \/ patch' = FALSE /\ work' = work
    /\ at' = "remove"
    /\ UNCHANGED <<how, tree, branch, document, outcome, City, asked, faults>>

\* worktree remove --force takes what was never committed with it.
RemoveTree ==
    /\ at = "remove"
    /\ tree' = FALSE
    /\ work' = work \ {"tree"} /\ document' = document \ {"tree"}
    /\ at' = "prune"
    /\ UNCHANGED <<how, branch, patch, outcome, City, asked, faults>>

\* branch -d after a merge, which git refuses of a branch that is not merged
\* into what is checked out; branch -D after an archive, only if a patch holds
\* the work, and then only of a branch Kingdom cut itself.
Merged == IF head = "base" THEN "base" \in work ELSE "astray" \in work

PruneAlways ==
    /\ at = "prune"
    /\ at' = "record" /\ branch' = FALSE /\ work' = work \ {"branch"}
    /\ UNCHANGED <<how, tree, document, patch, outcome, City, asked, faults>>

Prune ==
    /\ at = "prune"
    /\ \/ /\ how = "merge" /\ ~Merged
          /\ Errs /\ UNCHANGED <<branch, work>>
       \/ /\ how = "archive"
          /\ at' = "record" /\ UNCHANGED <<branch, work, document>>
       \/ /\ IF how = "merge" THEN Merged ELSE patch
          /\ at' = "record" /\ UNCHANGED document
          /\ branch' = FALSE /\ work' = work \ {"branch"}
    /\ UNCHANGED <<how, tree, patch, outcome, City, asked, faults>>

\* The document is filed, once, and the ending recorded.
RecordEnding ==
    /\ at = "record"
    /\ outcome' = how
    /\ document' = (document \ {"request"})
                       \cup (IF "request" \in document THEN {"filed"} ELSE {})
    /\ at' = "none"
    /\ UNCHANGED <<how, Git, patch, City, asked, faults>>

RecordRefusal ==
    /\ at = "refused"
    /\ at' = "none" /\ outcome' = how /\ document' = document \ {"request"}
    /\ UNCHANGED <<how, Git, patch, City, asked, faults>>

\* A refusal is noted, and changes nothing else.
NoteRefusal ==
    /\ at = "refused"
    /\ at' = "none" /\ document' = document \ {"request"}
    /\ UNCHANGED <<how, Git, patch, outcome, City, asked, faults>>

-----------------------------------------------------------------------------
(* What goes wrong, and what the King does meanwhile.                      *)

\* A git command fails of itself: an error, save for archive's branch -D.
GitFails ==
    /\ faults < MaxFaults
    /\ at \in {"commit", "check", "remove", "prune"}
    /\ faults' = faults + 1
    /\ IF at = "prune" /\ how = "archive" THEN at' = "record" /\ UNCHANGED document ELSE Errs
    /\ UNCHANGED <<how, Git, patch, outcome, City, asked>>

\* The server dies between two commands; nothing of the request is on disk.
ServerDies ==
    /\ faults < MaxFaults /\ at # "none"
    /\ faults' = faults + 1
    /\ Errs
    /\ UNCHANGED <<how, Git, patch, outcome, City, asked>>

\* The King changes branch (git lets him only with no merge unfinished), ...
KingSwitches ==
    /\ merging = "nobody"
    /\ head' = IF head = "base" THEN "other" ELSE "base"
    /\ UNCHANGED <<at, how, Git, document, patch, outcome, merging, asked, faults>>

\* ... begins a merge of his own that conflicts, and concludes it.
KingMerges ==
    /\ \/ merging = "nobody" /\ merging' = "King"
       \/ merging = "King" /\ merging' = "nobody"
    /\ UNCHANGED <<at, how, Git, document, patch, outcome, head, asked, faults>>

Request ==
    \/ CommitPending \/ CheckHead \/ GitMerge \/ AbortMerge \/ WritePatch
    \/ RemoveTree \/ Prune \/ RecordEnding \/ NoteRefusal

NNext ==
    \/ \E h \in {"merge", "archive"} : AskFinish(h)
    \/ CommitPending \/ CheckHead \/ GitMerge \/ AbortMerge \/ WritePatch
    \/ RemoveTree \/ Prune \/ RecordEnding \/ NoteRefusal
    \/ GitFails \/ ServerDies \/ KingSwitches \/ KingMerges

NSpec == NInit /\ [][NNext]_nvars

-----------------------------------------------------------------------------
Place == {"tree", "branch", "base", "astray", "patch"}

NTypeOK ==
    /\ at \in {"none", "commit", "check", "merge", "abort", "patch", "remove",
               "prune", "record", "refused"}
    /\ how \in {"merge", "archive"} /\ outcome \in {"none", "merge", "archive"}
    /\ tree \in BOOLEAN /\ branch \in BOOLEAN /\ patch \in BOOLEAN
    /\ work \subseteq Place /\ document \subseteq {"tree", "request", "filed"}
    /\ head \in {"base", "other"} /\ merging \in {"nobody", "plan", "King"}
    /\ asked \in 0 .. MaxRequests /\ faults \in 0 .. MaxFaults

(* The work is never lost: whatever command fails, whenever the server     *)
(* dies, and whatever the King has checked out, it is in the checkout, on  *)
(* a branch or in a patch.  And its document outlives the checkout it was  *)
(* written in, unless a command after the removal fails or the server dies *)
(* before it is filed.                                                     *)
WorkKept ==
    /\ work # {}
    /\ "tree" \in work => tree
    /\ "branch" \in work => branch
    /\ document = {} => \/ faults > 0
                        \/ outcome = "none" /\ {"base", "astray"} \cap work # {}

(* The record says what git did: a plan recorded as merged has landed, one *)
(* archived is in a patch or still on its branch, and the checkout of      *)
(* either is gone.  And a plan still open whose request is over has its    *)
(* checkout, and can be asked again, unless git failed or the server died  *)
(* half way, or the King changed branch before the branch was deleted.     *)
OutcomeIsTrue ==
    /\ outcome # "none" =>
        /\ ~tree
        /\ outcome = "merge" => {"base", "astray"} \cap work # {}
        /\ outcome = "archive" => {"patch", "branch"} \cap work # {}
    /\ at = "none" /\ outcome = "none" /\ ~tree =>
        faults > 0 \/ {"base", "astray"} \cap work # {}

(* "Every failure stops the whole thing and leaves the city exactly as it  *)
(* was" (worktree.rs, merge): a merge the King has not concluded is still  *)
(* there when the plan's has been refused.                                 *)
CityLeftAsFound == [][merging = "King" => ~AbortMerge]_nvars
=============================================================================
