--------------------------- MODULE RecordsProofs ----------------------------
(***************************************************************************)
(* What is proved of a plan's ending, that its work is kept and that the   *)
(* record is true; of the wells of a city, that the registry follows the   *)
(* plans that live; and of the kingdoms' files, that through openings,     *)
(* failed saves and crashes no plan is written over by another.            *)
(***************************************************************************)
EXTENDS Endings, Wells, Kingdoms, Recursions, FiniteSetTheorems, SequenceTheorems, TLAPS

-----------------------------------------------------------------------------
(* How a plan ends.                                                        *)

Landed == "base" \in work \/ "astray" \in work
WorkSaved == "patch" \in work \/ "branch" \in work

(* Past the commit the checkout holds nothing that is not on the branch,   *)
(* and its document is in the request's hands as well.                     *)
CommittedInv ==
    /\ at \in {"check", "merge", "abort", "refused"} => how = "merge"
    /\ at = "patch" => how = "archive"
    /\ at \in {"check", "merge", "abort", "refused", "patch", "remove"} =>
        tree /\ "tree" \notin work
    /\ at \in {"prune", "record"} => ~tree

(* Where the work is: in the checkout or on the branch while the checkout  *)
(* stands; landed, or in a patch or on the branch, once it may go.         *)
WorkInv ==
    /\ "tree" \in work => tree
    /\ "branch" \in work => branch
    /\ tree => branch /\ ("tree" \in work \/ "branch" \in work)
    /\ patch => "patch" \in work
    /\ work # {}
    /\ at \in {"remove", "prune", "record"} => IF how = "merge" THEN Landed ELSE WorkSaved

(* Where the document is: in the checkout as long as that stands, and with *)
(* the request from its first step to its last.                            *)
DocumentInv ==
    /\ "tree" \in document <=> tree
    /\ at = "commit" /\ tree => "request" \in document
    /\ at \notin {"none", "commit"} => "request" \in document

(* A plan without a checkout is being pruned or recorded, or has landed,   *)
(* or was hit by a fault; and one with an ending is done.                  *)
EndingInv ==
    /\ ~tree /\ outcome = "none" =>
        faults > 0 \/ Landed \/ (at \in {"prune", "record"} /\ how = "archive")
    /\ outcome # "none" =>
        /\ at = "none" /\ ~tree /\ "filed" \in document
        /\ IF outcome = "merge" THEN Landed ELSE WorkSaved

EndingsInv == CommittedInv /\ WorkInv /\ DocumentInv /\ EndingInv

LEMMA NTypeNext ==
    ASSUME MaxRequests \in Nat, MaxFaults \in Nat, NTypeOK, [NNext]_nvars
    PROVE  NTypeOK'
<1>0. /\ asked \in 0 .. MaxRequests /\ asked < MaxRequests => asked + 1 \in 0 .. MaxRequests
      /\ faults \in 0 .. MaxFaults /\ faults < MaxFaults => faults + 1 \in 0 .. MaxFaults
    BY DEF NTypeOK
<1> USE DEF NTypeOK, Place
<1>1. ASSUME NEW h \in {"merge", "archive"}, AskFinish(h) PROVE NTypeOK'
    BY <1>0, <1>1 DEF AskFinish, Git, City
<1>2. CASE CommitPending
    BY <1>0, <1>2 DEF CommitPending, Git, City, Errs
<1>3. CASE CheckHead
    BY <1>0, <1>3 DEF CheckHead, Git, City
<1>4. CASE GitMerge
    BY <1>0, <1>4 DEF GitMerge, Git, City
<1>5. CASE AbortMerge
    BY <1>0, <1>5 DEF AbortMerge, Git, City
<1>6. CASE WritePatch
    BY <1>0, <1>6 DEF WritePatch, Git, City
<1>7. CASE RemoveTree
    BY <1>0, <1>7 DEF RemoveTree, Git, City
<1>8. CASE Prune
    BY <1>0, <1>8 DEF Prune, Git, City, Errs, Merged
<1>9. CASE RecordEnding
    BY <1>0, <1>9 DEF RecordEnding, Git, City
<1>10. CASE NoteRefusal
    BY <1>0, <1>10 DEF NoteRefusal, Git, City
<1>11. CASE GitFails
    BY <1>0, <1>11 DEF GitFails, Git, City, Errs
<1>12. CASE ServerDies
    BY <1>0, <1>12 DEF ServerDies, Git, City, Errs
<1>13. CASE KingSwitches
    BY <1>0, <1>13 DEF KingSwitches, Git, City
<1>14. CASE KingMerges
    BY <1>0, <1>14 DEF KingMerges, Git, City
<1>15. CASE UNCHANGED nvars
    BY <1>0, <1>15 DEF nvars
<1> QED
    BY <1>1, <1>2, <1>3, <1>4, <1>5, <1>6, <1>7, <1>8, <1>9, <1>10, <1>11,
       <1>12, <1>13, <1>14, <1>15 DEF NNext

LEMMA CommittedInvNext ==
    ASSUME NTypeOK, CommittedInv, [NNext]_nvars
    PROVE  CommittedInv'
<1> USE DEF NTypeOK, CommittedInv
<1>1. ASSUME NEW h \in {"merge", "archive"}, AskFinish(h) PROVE CommittedInv'
    BY <1>1 DEF AskFinish, Git, City
<1>2. CASE CommitPending
    BY <1>2 DEF CommitPending, Git, City, Errs
<1>3. CASE CheckHead
    BY <1>3 DEF CheckHead, Git, City
<1>4. CASE GitMerge
    BY <1>4 DEF GitMerge, Git, City
<1>5. CASE AbortMerge
    BY <1>5 DEF AbortMerge, Git, City
<1>6. CASE WritePatch
    BY <1>6 DEF WritePatch, Git, City
<1>7. CASE RemoveTree
    BY <1>7 DEF RemoveTree, Git, City
<1>8. CASE Prune
    BY <1>8 DEF Prune, Git, City, Errs, Merged
<1>9. CASE RecordEnding
    BY <1>9 DEF RecordEnding, Git, City
<1>10. CASE NoteRefusal
    BY <1>10 DEF NoteRefusal, Git, City
<1>11. CASE GitFails
    BY <1>11 DEF GitFails, Git, City, Errs
<1>12. CASE ServerDies
    BY <1>12 DEF ServerDies, Git, City, Errs
<1>13. CASE KingSwitches
    BY <1>13 DEF KingSwitches, Git, City
<1>14. CASE KingMerges
    BY <1>14 DEF KingMerges, Git, City
<1>15. CASE UNCHANGED nvars
    BY <1>15 DEF nvars
<1> QED
    BY <1>1, <1>2, <1>3, <1>4, <1>5, <1>6, <1>7, <1>8, <1>9, <1>10, <1>11,
       <1>12, <1>13, <1>14, <1>15 DEF NNext

LEMMA WorkInvNext ==
    ASSUME NTypeOK, CommittedInv, WorkInv, [NNext]_nvars
    PROVE  WorkInv'
<1> USE DEF NTypeOK, CommittedInv, WorkInv, Landed, WorkSaved
<1>1. ASSUME NEW h \in {"merge", "archive"}, AskFinish(h) PROVE WorkInv'
    BY <1>1 DEF AskFinish, Git, City
<1>2. CASE CommitPending
  <2>1. CASE tree
    <3>1. /\ tree' = tree /\ branch' = branch /\ patch' = patch /\ how' = how
          /\ at' \in {"check", "patch"}
        BY <1>2, <2>1 DEF CommitPending, Git
    <3>2. CASE "tree" \in work
      <4>1. work' = (work \ {"tree"}) \cup {"branch"}
          BY <1>2, <2>1, <3>2 DEF CommitPending
      <4>2. branch
          BY <2>1
      <4> QED
          BY <3>1, <4>1, <4>2, <2>1
    <3>3. CASE "tree" \notin work
        BY <1>2, <2>1, <3>1, <3>3 DEF CommitPending
    <3> QED
        BY <3>2, <3>3
  <2>2. CASE ~tree
      BY <1>2, <2>2 DEF CommitPending, Git, Errs
  <2> QED
      BY <2>1, <2>2
<1>3. CASE CheckHead
    BY <1>3 DEF CheckHead, Git, City
<1>4. CASE GitMerge
    BY <1>4 DEF GitMerge, Git, City
<1>5. CASE AbortMerge
    BY <1>5 DEF AbortMerge, Git, City
<1>6. CASE WritePatch
    BY <1>6 DEF WritePatch, Git, City
<1>7. CASE RemoveTree
    BY <1>7 DEF RemoveTree, Git, City
<1>8. CASE Prune
    BY <1>8 DEF Prune, Git, City, Errs, Merged
<1>9. CASE RecordEnding
    BY <1>9 DEF RecordEnding, Git, City
<1>10. CASE NoteRefusal
    BY <1>10 DEF NoteRefusal, Git, City
<1>11. CASE GitFails
    BY <1>11 DEF GitFails, Git, City, Errs
<1>12. CASE ServerDies
    BY <1>12 DEF ServerDies, Git, City, Errs
<1>13. CASE KingSwitches
    BY <1>13 DEF KingSwitches, Git, City
<1>14. CASE KingMerges
    BY <1>14 DEF KingMerges, Git, City
<1>15. CASE UNCHANGED nvars
    BY <1>15 DEF nvars
<1> QED
    BY <1>1, <1>2, <1>3, <1>4, <1>5, <1>6, <1>7, <1>8, <1>9, <1>10, <1>11,
       <1>12, <1>13, <1>14, <1>15 DEF NNext

LEMMA DocumentInvNext ==
    ASSUME NTypeOK, CommittedInv, DocumentInv, [NNext]_nvars
    PROVE  DocumentInv'
<1> USE DEF NTypeOK, CommittedInv, DocumentInv
<1>1. ASSUME NEW h \in {"merge", "archive"}, AskFinish(h) PROVE DocumentInv'
    BY <1>1 DEF AskFinish, Git, City
<1>2. CASE CommitPending
    BY <1>2 DEF CommitPending, Git, City, Errs
<1>3. CASE CheckHead
    BY <1>3 DEF CheckHead, Git, City
<1>4. CASE GitMerge
    BY <1>4 DEF GitMerge, Git, City
<1>5. CASE AbortMerge
    BY <1>5 DEF AbortMerge, Git, City
<1>6. CASE WritePatch
    BY <1>6 DEF WritePatch, Git, City
<1>7. CASE RemoveTree
    BY <1>7 DEF RemoveTree, Git, City
<1>8. CASE Prune
    BY <1>8 DEF Prune, Git, City, Errs, Merged
<1>9. CASE RecordEnding
    BY <1>9 DEF RecordEnding, Git, City
<1>10. CASE NoteRefusal
    BY <1>10 DEF NoteRefusal, Git, City
<1>11. CASE GitFails
    BY <1>11 DEF GitFails, Git, City, Errs
<1>12. CASE ServerDies
    BY <1>12 DEF ServerDies, Git, City, Errs
<1>13. CASE KingSwitches
    BY <1>13 DEF KingSwitches, Git, City
<1>14. CASE KingMerges
    BY <1>14 DEF KingMerges, Git, City
<1>15. CASE UNCHANGED nvars
    BY <1>15 DEF nvars
<1> QED
    BY <1>1, <1>2, <1>3, <1>4, <1>5, <1>6, <1>7, <1>8, <1>9, <1>10, <1>11,
       <1>12, <1>13, <1>14, <1>15 DEF NNext

LEMMA EndingInvNext ==
    ASSUME NTypeOK, CommittedInv, WorkInv, DocumentInv, EndingInv, [NNext]_nvars
    PROVE  EndingInv'
<1> USE DEF NTypeOK, CommittedInv, WorkInv, DocumentInv, EndingInv, Landed, WorkSaved
<1>1. ASSUME NEW h \in {"merge", "archive"}, AskFinish(h) PROVE EndingInv'
    BY <1>1 DEF AskFinish, Git, City
<1>2. CASE CommitPending
    BY <1>2 DEF CommitPending, Git, City, Errs
<1>3. CASE CheckHead
    BY <1>3 DEF CheckHead, Git, City
<1>4. CASE GitMerge
    BY <1>4 DEF GitMerge, Git, City
<1>5. CASE AbortMerge
    BY <1>5 DEF AbortMerge, Git, City
<1>6. CASE WritePatch
    BY <1>6 DEF WritePatch, Git, City
<1>7. CASE RemoveTree
    BY <1>7 DEF RemoveTree, Git, City
<1>8. CASE Prune
    BY <1>8 DEF Prune, Git, City, Errs, Merged
<1>9. CASE RecordEnding
    BY <1>9 DEF RecordEnding, Git, City
<1>10. CASE NoteRefusal
    BY <1>10 DEF NoteRefusal, Git, City
<1>11. CASE GitFails
    BY <1>11 DEF GitFails, Git, City, Errs
<1>12. CASE ServerDies
    BY <1>12 DEF ServerDies, Git, City, Errs
<1>13. CASE KingSwitches
    BY <1>13 DEF KingSwitches, Git, City
<1>14. CASE KingMerges
    BY <1>14 DEF KingMerges, Git, City
<1>15. CASE UNCHANGED nvars
    BY <1>15 DEF nvars
<1> QED
    BY <1>1, <1>2, <1>3, <1>4, <1>5, <1>6, <1>7, <1>8, <1>9, <1>10, <1>11,
       <1>12, <1>13, <1>14, <1>15 DEF NNext

LEMMA EndingsInductive == NSpec => [](NTypeOK /\ EndingsInv)
<1>1. NInit => NTypeOK /\ EndingsInv
  <2>1. NInit => NTypeOK
    <3>1. 0 \in 0 .. MaxRequests /\ 0 \in 0 .. MaxFaults
        BY EndingsAssumption
    <3> QED
        BY <3>1 DEF NInit, NTypeOK, Place
  <2>2. NInit => EndingsInv
      BY DEF NInit, EndingsInv, CommittedInv, WorkInv, DocumentInv, EndingInv
  <2> QED
      BY <2>1, <2>2
<1>2. NTypeOK /\ EndingsInv /\ [NNext]_nvars => (NTypeOK /\ EndingsInv)'
    BY EndingsAssumption, NTypeNext, CommittedInvNext, WorkInvNext, DocumentInvNext,
       EndingInvNext DEF EndingsInv
<1> QED
    BY <1>1, <1>2, PTL DEF NSpec

(* Whatever command fails, whenever the server dies and whatever the King  *)
(* has checked out, a plan's work is in its checkout, on a branch or in a  *)
(* patch, and its document outlives the checkout unless something failed   *)
(* after the removal (api.rs, finish_plan; worktree.rs).                   *)
THEOREM NothingIsLost == NSpec => []WorkKept
<1>1. NTypeOK /\ EndingsInv => WorkKept
    BY DEF NTypeOK, EndingsInv, CommittedInv, WorkInv, DocumentInv, EndingInv, WorkKept,
       Landed, WorkSaved
<1> QED
    BY <1>1, EndingsInductive, PTL

(* A plan recorded as merged has landed, one archived is in a patch or on  *)
(* its branch; and a plan still open can be asked again, unless something  *)
(* failed half way or it has landed already (api.rs, finish_plan).         *)
THEOREM TheRecordIsTrue == NSpec => []OutcomeIsTrue
<1>1. NTypeOK /\ EndingsInv => OutcomeIsTrue
    BY DEF NTypeOK, EndingsInv, CommittedInv, WorkInv, EndingInv, OutcomeIsTrue,
       Landed, WorkSaved
<1> QED
    BY <1>1, EndingsInductive, PTL

-----------------------------------------------------------------------------
(* The wells of a city.                                                    *)

ScopeNames == {"city", "host"}
Among(x, q) == \E i \in DOMAIN q : q[i] = x

PassType ==
    [people : SUBSET Drawer, scopes : Seq(ScopeNames), todo : Seq(Services),
     up : SUBSET (Services \X {"ours", "his"}),
     stage : {"scope", "by hand", "ensure", "wait", "record", "stop"},
     stop : SUBSET Services]

WellsTypeInv ==
    /\ pass = <<>> \/ pass \in PassType
    /\ spawned \subseteq [people : SUBSET Drawer, no : Nat]
    /\ container \in [Services -> {"absent", "starting", "ready", "stopped", "dead"}]
    /\ running \in [Services -> {"no", "ours", "his"}]
    /\ alive \subseteq Drawer /\ raised \subseteq Services /\ count \in Nat /\ ran \in Nat /\ mishaps \in Nat

(* What a pass knows at each of its stages.                                *)
StageInv ==
    pass # <<>> =>
        /\ pass.stage \in {"scope", "by hand", "stop"} => pass.up = {}
        /\ pass.stage # "stop" => pass.stop = {}
        /\ pass.stage = "stop" => pass.scopes = <<>>
        /\ pass.stage \in {"ensure", "wait", "by hand", "record"} => pass.scopes # <<>>
        /\ pass.stage = "wait" => pass.todo # <<>>
        /\ \A s \in Services : <<s, "his">> \in pass.up =>
            pass.stage = "record" /\ s \in excused
        /\ pass.stage \in {"ensure", "wait"} =>
            \A s \in Services :
                /\ Among(s, pass.todo) => ScopeOf(s) = Scope
                /\ ScopeOf(s) = Scope => <<s, "ours">> \in pass.up \/ Among(s, pass.todo)

(* What a pass stops, and what it leaves, once it has swept.               *)
SweptInv ==
    pass # <<>> /\ pass.stage = "stop" =>
        \A s \in Services :
            /\ running[s] # "no" => ScopeOf(s) \in Wanted(pass.people)
            /\ s \in pass.stop => ScopeOf(s) \notin Wanted(pass.people)

(* What was started or adopted is in the registry, or in the hands of the  *)
(* pass in flight.                                                         *)
InHand(s) ==
    /\ pass # <<>>
    /\ \/ pass.stage = "wait" /\ s = Head(pass.todo)
       \/ <<s, "ours">> \in pass.up
       \/ s \in pass.stop

StartedInv ==
    \A s \in Services :
        s \in raised \ excused /\ container[s] \in {"starting", "ready"} =>
            running[s] = "ours" \/ InHand(s)

(* The newest pass is over the plans now alive, and is still to begin or   *)
(* is the newest that has begun.                                           *)
NewestInv ==
    /\ ran <= count
    /\ \A p \in spawned :
        /\ p.no \in 1 .. count
        /\ p.no = count => p.people = alive /\ ran < count
    /\ count > 0 => ran = count \/ \E p \in spawned : p.no = count
    /\ ~overtaken /\ ran = count /\ pass # <<>> => pass.people = alive

RegistryInv ==
    ~overtaken /\ ran = count /\ pass = <<>> =>
        \A s \in Services : running[s] # "no" => ScopeOf(s) \in Wanted(alive)

(* As long as nothing went wrong, the services of a scope are all raised   *)
(* once a pass is done with it, or one of them is late.                    *)
ScopeSettled(k) ==
    \/ \A s \in Services : ScopeOf(s) = k => running[s] = "ours"
    \/ \E s \in Services : ScopeOf(s) = k /\ s \in excused

RaisedInv ==
    mishaps = 0 =>
        /\ daemon
        /\ pass # <<>> =>
            /\ pass.stage # "by hand"
            /\ \A s \in Services : <<s, "his">> \notin pass.up
            /\ pass.stage = "record" =>
                \E s \in Services : ScopeOf(s) = Scope /\ s \in excused
            /\ \A k \in Wanted(pass.people) : Among(k, pass.scopes) \/ ScopeSettled(k)
        /\ ~overtaken /\ ran = count /\ ran > 0 /\ pass = <<>> =>
            \A k \in Wanted(alive) : ScopeSettled(k)

WellsInv ==
    /\ WellsTypeInv /\ StageInv /\ SweptInv /\ StartedInv /\ NewestInv /\ RegistryInv
    /\ RaisedInv

LEMMA AmongFacts ==
    ASSUME NEW T, NEW q \in Seq(T), q # <<>>
    PROVE  /\ Head(q) \in T /\ Tail(q) \in Seq(T)
           /\ \A x : Among(x, q) <=> x = Head(q) \/ Among(x, Tail(q))
<1>1. /\ Head(q) \in T /\ Tail(q) \in Seq(T) /\ Head(q) = q[1]
      /\ Len(q) \in Nat /\ Len(q) >= 1 /\ Len(Tail(q)) = Len(q) - 1
      /\ DOMAIN q = 1 .. Len(q) /\ DOMAIN Tail(q) = 1 .. Len(Tail(q))
      /\ \A i \in 1 .. Len(Tail(q)) : Tail(q)[i] = q[i + 1]
    OBVIOUS
<1>2. ASSUME NEW x, Among(x, q) PROVE x = Head(q) \/ Among(x, Tail(q))
  <2>1. PICK i \in 1 .. Len(q) : q[i] = x
      BY <1>1, <1>2 DEF Among
  <2>2. CASE i = 1
      BY <1>1, <2>1, <2>2
  <2>3. CASE i # 1
    <3>1. i - 1 \in 1 .. Len(Tail(q)) /\ (i - 1) + 1 = i
        BY <1>1, <2>1, <2>3
    <3> QED
        BY <1>1, <2>1, <3>1 DEF Among
  <2> QED
      BY <2>2, <2>3
<1>3. ASSUME NEW x, x = Head(q) \/ Among(x, Tail(q)) PROVE Among(x, q)
  <2>1. CASE x = Head(q)
      BY <1>1, <2>1 DEF Among
  <2>2. CASE Among(x, Tail(q))
    <3>1. PICK i \in 1 .. Len(Tail(q)) : Tail(q)[i] = x
        BY <1>1, <2>2 DEF Among
    <3>2. i + 1 \in 1 .. Len(q)
        BY <1>1, <3>1
    <3> QED
        BY <1>1, <3>1, <3>2 DEF Among
  <2> QED
      BY <1>3, <2>1, <2>2
<1> QED
    BY <1>1, <1>2, <1>3

LEMMA NoneAmong == \A x : ~Among(x, <<>>)
BY DEF Among

LEMMA InKeyOrderFacts ==
    ASSUME NEW scopes \in SUBSET ScopeNames
    PROVE  /\ InKeyOrder(scopes) \in Seq(ScopeNames)
           /\ \A k \in scopes : Among(k, InKeyOrder(scopes))
<1> DEFINE first == IF "city" \in scopes THEN <<"city">> ELSE <<>>
           second == IF "host" \in scopes THEN <<"host">> ELSE <<>>
<1>0. /\ <<"city">> \in Seq(ScopeNames) /\ <<"host">> \in Seq(ScopeNames)
      /\ <<>> \in Seq(ScopeNames)
      /\ Len(<<"city">>) = 1 /\ Len(<<"host">>) = 1 /\ Len(<<>>) = 0
      /\ <<"city">>[1] = "city" /\ <<"host">>[1] = "host"
    BY DEF ScopeNames
<1>1. /\ first \in Seq(ScopeNames) /\ second \in Seq(ScopeNames)
      /\ "city" \in scopes => first[1] = "city"
      /\ "host" \in scopes => second[1] = "host"
    BY <1>0
<1>2. /\ Len(first) \in Nat /\ Len(second) \in Nat
      /\ "city" \in scopes => Len(first) = 1
      /\ "host" \in scopes => Len(second) = 1
    BY <1>0
<1> HIDE DEF first, second
<1> DEFINE q == first \o second
<1>3. /\ q \in Seq(ScopeNames) /\ DOMAIN q = 1 .. Len(first) + Len(second)
      /\ "city" \in scopes => q[1] = "city"
      /\ "host" \in scopes => q[Len(first) + 1] = "host"
    BY <1>1, <1>2
<1> HIDE DEF q
<1>4. /\ "city" \in scopes => 1 \in 1 .. Len(first) + Len(second)
      /\ "host" \in scopes => Len(first) + 1 \in 1 .. Len(first) + Len(second)
    BY <1>2
<1>5. \A k \in scopes : Among(k, q)
    BY <1>3, <1>4 DEF ScopeNames, Among
<1>6. InKeyOrder(scopes) = q
    BY DEF InKeyOrder, first, second, q
<1> QED
    BY <1>3, <1>5, <1>6

LEMMA ScopeFacts ==
    /\ \A people \in SUBSET Drawer : Wanted(people) \in SUBSET ScopeNames
    /\ \A people : \A a \in people : ScopesFor(a) \subseteq Wanted(people)
    /\ \A s \in Services : ScopeOf(s) \in ScopeNames
    /\ \A k \in ScopeNames :
        /\ ServicesOf(k) \in Seq(Services) /\ ServicesOf(k) # <<>>
        /\ \A s \in Services : Among(s, ServicesOf(k)) <=> ScopeOf(s) = k
<1>1. \A people \in SUBSET Drawer : Wanted(people) \in SUBSET ScopeNames
    BY DEF Wanted, ScopesFor, ScopeNames
<1>2. \A people : \A a \in people : ScopesFor(a) \subseteq Wanted(people)
    BY DEF Wanted
<1>3. \A s \in Services : ScopeOf(s) \in ScopeNames
    BY DEF ScopeOf, ScopeNames
<1>4. /\ ServicesOf("host") \in Seq(Services) /\ ServicesOf("host") # <<>>
      /\ \A s \in Services : Among(s, ServicesOf("host")) <=> ScopeOf(s) = "host"
    BY DEF ServicesOf, Among, ScopeOf, Services
<1>5. /\ ServicesOf("city") \in Seq(Services) /\ ServicesOf("city") # <<>>
      /\ \A s \in Services : Among(s, ServicesOf("city")) <=> ScopeOf(s) = "city"
    BY DEF ServicesOf, Among, ScopeOf, Services
<1> QED
    BY <1>1, <1>2, <1>3, <1>4, <1>5 DEF ScopeNames

LEMMA PassThere == \A r \in PassType : r # <<>>
<1> SUFFICES ASSUME NEW r \in PassType PROVE r # <<>>
    OBVIOUS
<1>1. "stop" \in DOMAIN r
    BY DEF PassType
<1>2. DOMAIN <<>> = {}
    OBVIOUS
<1> QED
    BY <1>1, <1>2

LEMMA PassFacts ==
    ASSUME NEW r \in PassType
    PROVE  /\ r.people \in SUBSET Drawer /\ r.scopes \in Seq(ScopeNames)
           /\ r.todo \in Seq(Services) /\ r.stop \in SUBSET Services
           /\ r.up \in SUBSET (Services \X {"ours", "his"})
BY DEF PassType

(* What each step of a pass makes of the pass.                             *)
LEMMA BeginStep ==
    ASSUME WellsTypeInv, NEW p \in spawned, Begin(p)
    PROVE  /\ pass' \in PassType /\ pass'.people = p.people /\ p.people \in SUBSET Drawer
           /\ pass'.scopes = InKeyOrder(Wanted(p.people))
           /\ pass'.todo = <<>> /\ pass'.up = {} /\ pass'.stage = "scope" /\ pass'.stop = {}
<1>1. p.people \in SUBSET Drawer
    BY DEF WellsTypeInv
<1>2. InKeyOrder(Wanted(p.people)) \in Seq(ScopeNames)
    BY <1>1, ScopeFacts, InKeyOrderFacts
<1>3. <<>> \in Seq(Services)
    OBVIOUS
<1> QED
    BY <1>1, <1>2, <1>3 DEF Begin, PassType

LEMMA RaiseStep ==
    ASSUME WellsTypeInv, RaiseScope
    PROVE  /\ pass \in PassType /\ pass.stage = "scope" /\ pass.scopes # <<>>
           /\ pass' \in PassType /\ pass'.people = pass.people /\ pass'.scopes = pass.scopes
           /\ pass'.todo = ServicesOf(Scope) /\ pass'.up = {} /\ pass'.stop = pass.stop
           /\ pass'.stage = IF daemon THEN "ensure" ELSE "by hand"
           /\ Scope \in ScopeNames
<1>1. pass \in PassType /\ pass.scopes # <<>> /\ pass.stage = "scope"
    BY DEF WellsTypeInv, RaiseScope, In
<1>2. Scope \in ScopeNames /\ ServicesOf(Scope) \in Seq(Services)
    BY <1>1, AmongFacts, PassFacts, ScopeFacts DEF Scope
<1>3. pass' = [pass EXCEPT !.todo = ServicesOf(Scope), !.up = {},
                           !.stage = IF daemon THEN "ensure" ELSE "by hand"]
    BY DEF RaiseScope
<1> QED
    BY <1>1, <1>2, <1>3 DEF PassType

LEMMA ByHandStep ==
    ASSUME WellsTypeInv, StandByHand
    PROVE  /\ pass \in PassType /\ pass.stage = "by hand"
           /\ pass' \in PassType /\ pass'.people = pass.people /\ pass'.scopes = pass.scopes
           /\ pass'.todo = <<>> /\ pass'.stage = "record" /\ pass'.stop = pass.stop
           /\ \A s \in Services :
                /\ <<s, "ours">> \notin pass'.up
                /\ <<s, "his">> \in pass'.up => s \in excused'
           /\ excused \subseteq excused'
<1>1. pass \in PassType /\ pass.stage = "by hand"
    BY DEF WellsTypeInv, StandByHand, In
<1> DEFINE answering == {s \in Services : ScopeOf(s) = Scope /\ container[s] = "ready"}
           hands == {<<s, "his">> : s \in answering}
<1>2. /\ pass' = [pass EXCEPT !.up = hands, !.todo = <<>>, !.stage = "record"]
      /\ excused' = excused \cup answering
    BY DEF StandByHand
<1>3. /\ hands \in SUBSET (Services \X {"ours", "his"}) /\ <<>> \in Seq(Services)
      /\ \A s \in Services : <<s, "ours">> \notin hands /\ (<<s, "his">> \in hands => s \in answering)
    OBVIOUS
<1> HIDE DEF answering, hands
<1> QED
    BY <1>1, <1>2, <1>3 DEF PassType

LEMMA EnsureStep ==
    ASSUME WellsTypeInv, EnsureOne
    PROVE  /\ pass \in PassType /\ pass.stage = "ensure" /\ pass.todo # <<>>
           /\ Head(pass.todo) \in Services
           /\ pass' \in PassType /\ pass'.people = pass.people /\ pass'.scopes = pass.scopes
           /\ pass'.up = pass.up /\ pass'.stop = pass.stop
           /\ IF daemon
              THEN /\ pass'.stage = "wait" /\ pass'.todo = pass.todo
                   /\ raised' = raised \cup {Head(pass.todo)}
                   /\ \A s \in Services : s # Head(pass.todo) => container'[s] = container[s]
              ELSE /\ pass'.stage = "record" /\ pass'.todo = <<>>
                   /\ UNCHANGED <<container, raised>>
<1>1. pass \in PassType /\ pass.stage = "ensure" /\ pass.todo # <<>>
    BY DEF WellsTypeInv, EnsureOne, In
<1>2. Head(pass.todo) \in Services /\ <<>> \in Seq(Services)
    BY <1>1, AmongFacts, PassFacts
<1>3. CASE daemon
  <2>1. /\ pass' = [pass EXCEPT !.stage = "wait"]
        /\ raised' = raised \cup {Head(pass.todo)}
      BY <1>3 DEF EnsureOne
  <2>2. \A s \in Services : s # Head(pass.todo) => container'[s] = container[s]
      BY <1>2, <1>3 DEF EnsureOne, WellsTypeInv
  <2> QED
      BY <1>1, <1>2, <1>3, <2>1, <2>2 DEF PassType
<1>4. CASE ~daemon
    BY <1>1, <1>2, <1>4 DEF EnsureOne, PassType
<1> QED
    BY <1>3, <1>4

LEMMA AnsweredStep ==
    ASSUME WellsTypeInv, Answered, pass.todo # <<>>
    PROVE  /\ pass \in PassType /\ pass.stage = "wait" /\ Head(pass.todo) \in Services
           /\ pass' \in PassType /\ pass'.people = pass.people /\ pass'.scopes = pass.scopes
           /\ pass'.todo = Tail(pass.todo) /\ pass'.stop = pass.stop
           /\ pass'.stage = "ensure"
           /\ \A s \in Services :
                /\ <<s, "ours">> \in pass'.up <=> <<s, "ours">> \in pass.up \/ s = Head(pass.todo)
                /\ <<s, "his">> \in pass'.up <=> <<s, "his">> \in pass.up
           /\ excused' = excused \ {Head(pass.todo)}
<1>1. pass \in PassType /\ pass.stage = "wait"
    BY DEF WellsTypeInv, Answered, In
<1>2. Head(pass.todo) \in Services /\ Tail(pass.todo) \in Seq(Services)
    BY <1>1, AmongFacts, PassFacts
<1> DEFINE up == pass.up \cup {<<Head(pass.todo), "ours">>}
<1>3. /\ pass' = [pass EXCEPT !.up = up, !.todo = Tail(pass.todo), !.stage = "ensure"]
      /\ excused' = excused \ {Head(pass.todo)}
    BY <1>1 DEF Answered, PassType
<1>4. up \in SUBSET (Services \X {"ours", "his"})
    BY <1>1, <1>2, PassFacts
<1>5. \A s \in Services :
        /\ <<s, "ours">> \in up <=> <<s, "ours">> \in pass.up \/ s = Head(pass.todo)
        /\ <<s, "his">> \in up <=> <<s, "his">> \in pass.up
    OBVIOUS
<1> HIDE DEF up
<1>6. /\ pass' \in PassType /\ pass'.people = pass.people /\ pass'.scopes = pass.scopes
      /\ pass'.todo = Tail(pass.todo) /\ pass'.stop = pass.stop
      /\ pass'.stage = "ensure" /\ pass'.up = up
    BY <1>1, <1>2, <1>3, <1>4 DEF PassType
<1> QED
    BY <1>1, <1>2, <1>3, <1>5, <1>6

LEMMA NotAnsweredStep ==
    ASSUME WellsTypeInv, NotAnswered, pass.todo # <<>>
    PROVE  /\ pass \in PassType /\ pass.stage = "wait" /\ Head(pass.todo) \in Services
           /\ pass' \in PassType /\ pass'.people = pass.people /\ pass'.scopes = pass.scopes
           /\ pass'.todo = <<>> /\ pass'.up = pass.up /\ pass'.stop = pass.stop
           /\ pass'.stage = "record"
           /\ excused' = excused \cup {Head(pass.todo)}
<1>1. pass \in PassType /\ pass.stage = "wait"
    BY DEF WellsTypeInv, NotAnswered, In
<1>2. Head(pass.todo) \in Services /\ <<>> \in Seq(Services)
    BY <1>1, AmongFacts, PassFacts
<1>3. /\ pass' = [pass EXCEPT !.todo = <<>>, !.stage = "record"]
      /\ excused' = excused \cup {Head(pass.todo)}
    BY DEF NotAnswered
<1> QED
    BY <1>1, <1>2, <1>3 DEF PassType

LEMMA RecordStep ==
    ASSUME WellsTypeInv, RecordRaised, pass.scopes # <<>>
    PROVE  /\ pass \in PassType /\ Scope \in ScopeNames
           /\ pass.stage = "record" \/ (pass.stage = "ensure" /\ pass.todo = <<>>)
           /\ pass' \in PassType /\ pass'.people = pass.people
           /\ pass'.scopes = Tail(pass.scopes) /\ pass'.todo = <<>> /\ pass'.up = {}
           /\ pass'.stage = "scope" /\ pass'.stop = pass.stop
           /\ running' \in [Services -> {"no", "ours", "his"}]
           /\ \A s \in Services :
                running'[s] = IF <<s, "ours">> \in pass.up THEN "ours"
                              ELSE IF <<s, "his">> \in pass.up THEN "his" ELSE running[s]
<1>1. pass \in PassType /\ (pass.stage = "record" \/ (pass.stage = "ensure" /\ pass.todo = <<>>))
    BY DEF WellsTypeInv, RecordRaised, ScopeDone, In
<1>2. Scope \in ScopeNames /\ Tail(pass.scopes) \in Seq(ScopeNames) /\ <<>> \in Seq(Services)
    BY <1>1, AmongFacts, PassFacts DEF Scope
<1>3. /\ pass' = [pass EXCEPT !.scopes = Tail(pass.scopes), !.todo = <<>>, !.up = {},
                              !.stage = "scope"]
      /\ running' = [s \in Services |-> IF s \in UpIn("ours") THEN "ours"
                                        ELSE IF s \in UpIn("his") THEN "his" ELSE running[s]]
    BY <1>1 DEF RecordRaised, PassType
<1>4. \A kind : \A s \in Services : s \in UpIn(kind) <=> <<s, kind>> \in pass.up
    BY DEF UpIn
<1>5. /\ running' \in [Services -> {"no", "ours", "his"}]
      /\ \A s \in Services :
            running'[s] = IF <<s, "ours">> \in pass.up THEN "ours"
                          ELSE IF <<s, "his">> \in pass.up THEN "his" ELSE running[s]
    BY <1>3, <1>4 DEF WellsTypeInv
<1> QED
    BY <1>1, <1>2, <1>3, <1>5 DEF PassType

LEMMA OrphanStep ==
    ASSUME WellsTypeInv, Orphan
    PROVE  /\ pass \in PassType /\ pass.stage = "scope" /\ pass.scopes = <<>>
           /\ pass' \in PassType /\ pass'.people = pass.people /\ pass'.scopes = pass.scopes
           /\ pass'.todo = pass.todo /\ pass'.up = pass.up /\ pass'.stage = "stop"
           /\ running' \in [Services -> {"no", "ours", "his"}]
           /\ \A s \in Services :
                /\ running'[s] = IF ScopeOf(s) \in Wanted(pass.people) THEN running[s] ELSE "no"
                /\ s \in pass'.stop <=>
                    running[s] = "ours" /\ ScopeOf(s) \notin Wanted(pass.people)
<1>1. pass \in PassType /\ pass.stage = "scope" /\ pass.scopes = <<>>
    BY DEF WellsTypeInv, Orphan, In
<1> DEFINE orphaned == {s \in Services : running[s] # "no"
                                         /\ ScopeOf(s) \notin Wanted(pass.people)}
           stop == {s \in orphaned : running[s] = "ours"}
<1>2. /\ pass' = [pass EXCEPT !.stop = stop, !.stage = "stop"]
      /\ running' = [s \in Services |-> IF s \in orphaned THEN "no" ELSE running[s]]
    BY DEF Orphan
<1>3. /\ stop \in SUBSET Services
      /\ \A s \in Services :
            /\ s \in orphaned <=>
                running[s] # "no" /\ ScopeOf(s) \notin Wanted(pass.people)
            /\ s \in stop <=>
                running[s] = "ours" /\ ScopeOf(s) \notin Wanted(pass.people)
    OBVIOUS
<1> HIDE DEF orphaned, stop
<1>4. /\ running' \in [Services -> {"no", "ours", "his"}]
      /\ \A s \in Services :
            running'[s] = IF ScopeOf(s) \in Wanted(pass.people) THEN running[s] ELSE "no"
    BY <1>2, <1>3 DEF WellsTypeInv
<1> QED
    BY <1>1, <1>2, <1>3, <1>4 DEF PassType

LEMMA StopStep ==
    ASSUME WellsTypeInv, NEW s \in Services, StopOne(s)
    PROVE  /\ pass \in PassType /\ pass.stage = "stop" /\ s \in pass.stop
           /\ pass' \in PassType /\ pass'.people = pass.people /\ pass'.scopes = pass.scopes
           /\ pass'.todo = pass.todo /\ pass'.up = pass.up /\ pass'.stage = "stop"
           /\ pass'.stop = pass.stop \ {s}
           /\ container' \in [Services -> {"absent", "starting", "ready", "stopped", "dead"}]
           /\ \A t \in Services : t # s => container'[t] = container[t]
           /\ container'[s] \in {"absent", "stopped"} \/ s \in excused'
           /\ excused \subseteq excused'
<1>1. pass \in PassType /\ pass.stage = "stop" /\ s \in pass.stop
    BY DEF WellsTypeInv, StopOne, In
<1>2. pass' = [pass EXCEPT !.stop = pass.stop \ {s}]
    BY <1>1 DEF StopOne, PassType
<1>3. /\ pass' \in PassType /\ pass'.people = pass.people /\ pass'.scopes = pass.scopes
      /\ pass'.todo = pass.todo /\ pass'.up = pass.up /\ pass'.stage = "stop"
      /\ pass'.stop = pass.stop \ {s}
    BY <1>1, <1>2 DEF PassType
<1>4. /\ container' \in [Services -> {"absent", "starting", "ready", "stopped", "dead"}]
      /\ \A t \in Services : t # s => container'[t] = container[t]
      /\ container'[s] \in {"absent", "stopped"} \/ s \in excused'
      /\ excused \subseteq excused'
    BY DEF StopOne, WellsTypeInv
<1> QED
    BY <1>1, <1>3, <1>4

(* What every change of the population makes.                              *)
LEMMA SpawnStep ==
    ASSUME (\E a \in Drawer : OpenPlan(a) \/ FinishPlan(a)) \/ LeaveKingdom
    PROVE  /\ spawned' = spawned \cup {[people |-> alive', no |-> count + 1]}
           /\ count' = count + 1
           /\ UNCHANGED <<pass, container, running, daemon, raised, excused, ran,
                          overtaken, mishaps>>
BY DEF OpenPlan, FinishPlan, LeaveKingdom, Spawn

LEMMA WellsTypeInvNext ==
    ASSUME WellsTypeInv, StageInv, [LNext]_lvars
    PROVE  WellsTypeInv'
<1> USE DEF WellsTypeInv
<1>1. ASSUME NEW a \in Drawer, OpenPlan(a) PROVE WellsTypeInv'
  <2>1. /\ spawned' = spawned \cup {[people |-> alive', no |-> count + 1]}
        /\ count' = count + 1 /\ pass' = pass
        /\ container' = container /\ running' = running /\ ran' = ran /\ mishaps' = mishaps
        /\ alive' \in SUBSET Drawer /\ raised' = raised
      BY <1>1 DEF OpenPlan, Spawn
  <2> QED
      BY <2>1
<1>2. ASSUME NEW a \in Drawer, FinishPlan(a) PROVE WellsTypeInv'
  <2>1. /\ spawned' = spawned \cup {[people |-> alive', no |-> count + 1]}
        /\ count' = count + 1 /\ pass' = pass
        /\ container' = container /\ running' = running /\ ran' = ran /\ mishaps' = mishaps
        /\ alive' \in SUBSET Drawer /\ raised' = raised
      BY <1>2 DEF FinishPlan, Spawn
  <2> QED
      BY <2>1
<1>3. ASSUME NEW a \in Drawer, Require(a) PROVE WellsTypeInv'
    BY <1>3 DEF Require
<1>4. CASE LeaveKingdom
  <2>1. /\ spawned' = spawned \cup {[people |-> alive', no |-> count + 1]}
        /\ count' = count + 1 /\ pass' = pass
        /\ container' = container /\ running' = running /\ ran' = ran /\ mishaps' = mishaps
        /\ alive' \in SUBSET Drawer /\ raised' = raised
      BY <1>4 DEF LeaveKingdom, Spawn
  <2> QED
      BY <2>1
<1>5. ASSUME NEW p \in spawned, Begin(p) PROVE WellsTypeInv'
    BY ZenonT(60), BeginStep, <1>5 DEF Begin
<1>6. CASE RaiseScope
    BY ZenonT(60), RaiseStep, <1>6 DEF RaiseScope
<1>7. CASE StandByHand
    BY ZenonT(60), ByHandStep, <1>7 DEF StandByHand
<1>8. CASE EnsureOne
  <2>1. container' \in [Services -> {"absent", "starting", "ready", "stopped", "dead"}]
      BY SMTT(60), <1>8 DEF EnsureOne
  <2> QED
      BY <1>8, EnsureStep, <2>1 DEF EnsureOne
<1>9. CASE Answered
  <2>1. pass.todo # <<>>
      BY SMTT(60), <1>9 DEF Answered, In, StageInv
  <2> QED
      BY ZenonT(60), <1>9, AnsweredStep, <2>1 DEF Answered
<1>10. CASE NotAnswered
  <2>1. pass.todo # <<>>
      BY SMTT(60), <1>10 DEF NotAnswered, In, StageInv
  <2> QED
      BY ZenonT(60), <1>10, NotAnsweredStep, <2>1 DEF NotAnswered
<1>11. CASE RecordRaised
  <2>1. pass.scopes # <<>>
      BY ZenonT(60), <1>11 DEF RecordRaised, ScopeDone, In, StageInv
  <2> QED
      BY ZenonT(60), <1>11, RecordStep, <2>1 DEF RecordRaised
<1>12. CASE Orphan
    BY ZenonT(60), OrphanStep, <1>12 DEF Orphan
<1>13. CASE EndPass
    BY <1>13 DEF EndPass, In
<1>14. CASE DaemonGoes
    BY <1>14 DEF DaemonGoes, Mishap
<1>15. CASE DaemonReturns
    BY <1>15 DEF DaemonReturns
<1>16. CASE RestartCourt
  <2>1. /\ spawned' = {[people |-> alive, no |-> count + 1]}
        /\ count' = count + 1 /\ pass' = <<>> /\ mishaps' = mishaps + 1
        /\ container' = container /\ running' = [s \in Services |-> "no"] /\ ran' = ran
        /\ alive' = alive /\ raised' = {}
      BY <1>16 DEF RestartCourt, Mishap
  <2> QED
      BY <2>1
<1>17. ASSUME NEW s \in Services, ComeUp(s) PROVE WellsTypeInv'
    BY <1>17 DEF ComeUp
<1>18. ASSUME NEW s \in Services, StopOne(s) PROVE WellsTypeInv'
    BY StopStep, <1>18 DEF StopOne
<1>19. ASSUME NEW s \in Services, Dies(s) PROVE WellsTypeInv'
    BY <1>19 DEF Dies, Mishap
<1>20. CASE UNCHANGED lvars
    BY <1>20 DEF lvars
<1> QED
    BY <1>1, <1>2, <1>3, <1>4, <1>5, <1>6, <1>7, <1>8, <1>9, <1>10, <1>11,
       <1>12, <1>13, <1>14, <1>15, <1>16, <1>17, <1>18, <1>19, <1>20 DEF LNext

LEMMA StageInvNext ==
    ASSUME WellsTypeInv, StageInv, [LNext]_lvars
    PROVE  StageInv'
<1> USE DEF StageInv, Scope
<1>1. ASSUME NEW a \in Drawer, OpenPlan(a) PROVE StageInv'
    BY <1>1 DEF OpenPlan, Spawn
<1>2. ASSUME NEW a \in Drawer, FinishPlan(a) PROVE StageInv'
    BY <1>2 DEF FinishPlan, Spawn
<1>3. ASSUME NEW a \in Drawer, Require(a) PROVE StageInv'
    BY <1>3 DEF Require
<1>4. CASE LeaveKingdom
    BY <1>4 DEF LeaveKingdom, Spawn
<1>5. ASSUME NEW p \in spawned, Begin(p) PROVE StageInv'
  <2>1. UNCHANGED <<excused>>
      BY <1>5 DEF Begin
  <2> QED
      BY <1>5, <2>1, BeginStep, PassThere
<1>6. CASE RaiseScope
  <2>1. UNCHANGED <<excused>>
      BY <1>6 DEF RaiseScope
  <2> QED
      BY <1>6, <2>1, RaiseStep, PassThere, ScopeFacts
<1>7. CASE StandByHand
  <2> QED
      BY <1>7, ByHandStep, PassThere
<1>8. CASE EnsureOne
  <2>1. UNCHANGED <<excused>>
      BY <1>8 DEF EnsureOne
  <2> QED
      BY <1>8, <2>1, EnsureStep, PassThere
<1>9. CASE Answered
  <2>1. pass.todo # <<>>
      BY <1>9 DEF Answered, In, StageInv
  <2>2. \A x : Among(x, pass.todo) <=> x = Head(pass.todo) \/ Among(x, Tail(pass.todo))
      BY <1>9, <2>1, AnsweredStep, PassFacts, AmongFacts
  <2> QED
      BY <1>9, <2>1, <2>2, AnsweredStep, PassThere
<1>10. CASE NotAnswered
  <2>1. pass.todo # <<>>
      BY <1>10 DEF NotAnswered, In, StageInv
  <2> QED
      BY <1>10, <2>1, NotAnsweredStep, PassThere
<1>11. CASE RecordRaised
  <2>1. pass.scopes # <<>>
      BY <1>11 DEF RecordRaised, ScopeDone, In, StageInv
  <2>2. UNCHANGED <<excused>>
      BY <1>11 DEF RecordRaised
  <2> QED
      BY <1>11, <2>1, <2>2, RecordStep, PassThere
<1>12. CASE Orphan
  <2>1. UNCHANGED <<excused>>
      BY <1>12 DEF Orphan
  <2> QED
      BY <1>12, <2>1, OrphanStep, PassThere
<1>13. CASE EndPass
    BY <1>13 DEF EndPass, In
<1>14. CASE DaemonGoes
    BY <1>14 DEF DaemonGoes, Mishap
<1>15. CASE DaemonReturns
    BY <1>15 DEF DaemonReturns
<1>16. CASE RestartCourt
    BY <1>16 DEF RestartCourt, Mishap
<1>17. ASSUME NEW s \in Services, ComeUp(s) PROVE StageInv'
    BY <1>17 DEF ComeUp
<1>18. ASSUME NEW s \in Services, StopOne(s) PROVE StageInv'
  <2> QED
      BY <1>18, StopStep, PassThere
<1>19. ASSUME NEW s \in Services, Dies(s) PROVE StageInv'
    BY <1>19 DEF Dies, Mishap
<1>20. CASE UNCHANGED lvars
    BY <1>20 DEF lvars
<1> QED
    BY <1>1, <1>2, <1>3, <1>4, <1>5, <1>6, <1>7, <1>8, <1>9, <1>10, <1>11,
       <1>12, <1>13, <1>14, <1>15, <1>16, <1>17, <1>18, <1>19, <1>20 DEF LNext

LEMMA SweptInvNext ==
    ASSUME WellsTypeInv, StageInv, SweptInv, [LNext]_lvars
    PROVE  SweptInv'
<1> USE DEF StageInv, SweptInv
<1>1. ASSUME NEW a \in Drawer, OpenPlan(a) PROVE SweptInv'
    BY <1>1 DEF OpenPlan, Spawn
<1>2. ASSUME NEW a \in Drawer, FinishPlan(a) PROVE SweptInv'
    BY <1>2 DEF FinishPlan, Spawn
<1>3. ASSUME NEW a \in Drawer, Require(a) PROVE SweptInv'
    BY <1>3 DEF Require
<1>4. CASE LeaveKingdom
    BY <1>4 DEF LeaveKingdom, Spawn
<1>5. ASSUME NEW p \in spawned, Begin(p) PROVE SweptInv'
  <2>1. UNCHANGED <<running>>
      BY <1>5 DEF Begin
  <2> QED
      BY <1>5, <2>1, BeginStep, PassThere
<1>6. CASE RaiseScope
  <2>1. UNCHANGED <<running>>
      BY <1>6 DEF RaiseScope
  <2> QED
      BY <1>6, <2>1, RaiseStep, PassThere
<1>7. CASE StandByHand
  <2>1. UNCHANGED <<running>>
      BY <1>7 DEF StandByHand
  <2> QED
      BY <1>7, <2>1, ByHandStep, PassThere
<1>8. CASE EnsureOne
  <2>1. UNCHANGED <<running>>
      BY <1>8 DEF EnsureOne
  <2> QED
      BY <1>8, <2>1, EnsureStep, PassThere
<1>9. CASE Answered
  <2>1. pass.todo # <<>>
      BY <1>9 DEF Answered, In, StageInv
  <2>2. UNCHANGED <<running>>
      BY <1>9 DEF Answered
  <2> QED
      BY <1>9, <2>1, <2>2, AnsweredStep, PassThere
<1>10. CASE NotAnswered
  <2>1. pass.todo # <<>>
      BY <1>10 DEF NotAnswered, In, StageInv
  <2>2. UNCHANGED <<running>>
      BY <1>10 DEF NotAnswered
  <2> QED
      BY <1>10, <2>1, <2>2, NotAnsweredStep, PassThere
<1>11. CASE RecordRaised
  <2>1. pass.scopes # <<>>
      BY <1>11 DEF RecordRaised, ScopeDone, In, StageInv
  <2> QED
      BY <1>11, <2>1, RecordStep, PassThere
<1>12. CASE Orphan
  <2> QED
      BY <1>12, OrphanStep, PassThere
<1>13. CASE EndPass
    BY <1>13 DEF EndPass, In
<1>14. CASE DaemonGoes
    BY <1>14 DEF DaemonGoes, Mishap
<1>15. CASE DaemonReturns
    BY <1>15 DEF DaemonReturns
<1>16. CASE RestartCourt
    BY <1>16 DEF RestartCourt, Mishap
<1>17. ASSUME NEW s \in Services, ComeUp(s) PROVE SweptInv'
    BY <1>17 DEF ComeUp
<1>18. ASSUME NEW s \in Services, StopOne(s) PROVE SweptInv'
  <2>1. UNCHANGED <<running>>
      BY <1>18 DEF StopOne
  <2> QED
      BY <1>18, <2>1, StopStep, PassThere
<1>19. ASSUME NEW s \in Services, Dies(s) PROVE SweptInv'
    BY <1>19 DEF Dies, Mishap
<1>20. CASE UNCHANGED lvars
    BY <1>20 DEF lvars
<1> QED
    BY <1>1, <1>2, <1>3, <1>4, <1>5, <1>6, <1>7, <1>8, <1>9, <1>10, <1>11,
       <1>12, <1>13, <1>14, <1>15, <1>16, <1>17, <1>18, <1>19, <1>20 DEF LNext

LEMMA StartedInvNext ==
    ASSUME WellsTypeInv, StageInv, StartedInv, [LNext]_lvars
    PROVE  StartedInv'
<1> USE DEF StageInv, StartedInv, InHand
<1>1. ASSUME NEW a \in Drawer, OpenPlan(a) PROVE StartedInv'
    BY <1>1 DEF OpenPlan, Spawn
<1>2. ASSUME NEW a \in Drawer, FinishPlan(a) PROVE StartedInv'
    BY <1>2 DEF FinishPlan, Spawn
<1>3. ASSUME NEW a \in Drawer, Require(a) PROVE StartedInv'
    BY <1>3 DEF Require
<1>4. CASE LeaveKingdom
    BY <1>4 DEF LeaveKingdom, Spawn
<1>5. ASSUME NEW p \in spawned, Begin(p) PROVE StartedInv'
  <2>1. UNCHANGED <<raised, excused, container, running>>
      BY <1>5 DEF Begin
  <2>2. pass = <<>>
      BY <1>5 DEF Begin
  <2> QED
      BY <1>5, <2>1, <2>2, BeginStep, PassThere
<1>6. CASE RaiseScope
  <2>1. UNCHANGED <<raised, excused, container, running>>
      BY <1>6 DEF RaiseScope
  <2> QED
      BY <1>6, <2>1, RaiseStep, PassThere
<1>7. CASE StandByHand
  <2>1. UNCHANGED <<raised, container, running>>
      BY <1>7 DEF StandByHand
  <2> QED
      BY <1>7, <2>1, ByHandStep, PassThere
<1>8. CASE EnsureOne
  <2>1. UNCHANGED <<excused, running>>
      BY <1>8 DEF EnsureOne
  <2>2. CASE daemon
      BY ZenonT(60), <1>8, <2>1, <2>2, EnsureStep, PassThere
  <2>3. CASE ~daemon
      BY <1>8, <2>1, <2>3, EnsureStep, PassThere
  <2> QED
      BY <2>2, <2>3
<1>9. CASE Answered
  <2>1. pass.todo # <<>>
      BY <1>9 DEF Answered, In, StageInv
  <2>2. UNCHANGED <<raised, container, running>>
      BY <1>9 DEF Answered
  <2> QED
      BY <1>9, <2>1, <2>2, AnsweredStep, PassThere
<1>10. CASE NotAnswered
  <2>1. pass.todo # <<>>
      BY <1>10 DEF NotAnswered, In, StageInv
  <2>2. UNCHANGED <<raised, container, running>>
      BY <1>10 DEF NotAnswered
  <2> QED
      BY <1>10, <2>1, <2>2, NotAnsweredStep, PassThere
<1>11. CASE RecordRaised
  <2>1. pass.scopes # <<>>
      BY <1>11 DEF RecordRaised, ScopeDone, In, StageInv
  <2>2. UNCHANGED <<raised, excused, container>>
      BY <1>11 DEF RecordRaised
  <2> QED
      BY <1>11, <2>1, <2>2, RecordStep, PassThere
<1>12. CASE Orphan
  <2>1. UNCHANGED <<raised, excused, container>>
      BY <1>12 DEF Orphan
  <2> QED
      BY <1>12, <2>1, OrphanStep, PassThere
<1>13. CASE EndPass
    BY <1>13 DEF EndPass, In
<1>14. CASE DaemonGoes
    BY <1>14 DEF DaemonGoes, Mishap
<1>15. CASE DaemonReturns
    BY <1>15 DEF DaemonReturns
<1>16. CASE RestartCourt
    BY <1>16 DEF RestartCourt, Mishap
<1>17. ASSUME NEW s \in Services, ComeUp(s) PROVE StartedInv'
  <2>1. \A t \in Services :
            container'[t] \in {"starting", "ready"} => container[t] \in {"starting", "ready"}
      BY <1>17 DEF ComeUp, WellsTypeInv
  <2>2. UNCHANGED <<pass, raised, excused, running>>
      BY <1>17 DEF ComeUp
  <2> QED
      BY <2>1, <2>2
<1>18. ASSUME NEW s \in Services, StopOne(s) PROVE StartedInv'
  <2>1. UNCHANGED <<raised, running>>
      BY <1>18 DEF StopOne
  <2> QED
      BY <1>18, <2>1, StopStep, PassThere
<1>19. ASSUME NEW s \in Services, Dies(s) PROVE StartedInv'
  <2>1. \A t \in Services :
            container'[t] \in {"starting", "ready"} => container[t] \in {"starting", "ready"}
      BY <1>19 DEF Dies, WellsTypeInv
  <2>2. UNCHANGED <<pass, raised, excused, running>>
      BY <1>19 DEF Dies
  <2> QED
      BY <2>1, <2>2
<1>20. CASE UNCHANGED lvars
    BY <1>20 DEF lvars
<1> QED
    BY <1>1, <1>2, <1>3, <1>4, <1>5, <1>6, <1>7, <1>8, <1>9, <1>10, <1>11,
       <1>12, <1>13, <1>14, <1>15, <1>16, <1>17, <1>18, <1>19, <1>20 DEF LNext

LEMMA NewestInvNext ==
    ASSUME WellsTypeInv, StageInv, NewestInv, [LNext]_lvars
    PROVE  NewestInv'
<1>0. /\ count \in Nat /\ ran \in Nat /\ mishaps \in Nat
      /\ spawned \in SUBSET [people : SUBSET Drawer, no : Nat]
    BY DEF WellsTypeInv
<1> USE DEF NewestInv
<1>1. ASSUME NEW a \in Drawer, OpenPlan(a) PROVE NewestInv'
  <2> DEFINE fresh == [people |-> alive', no |-> count + 1]
  <2>1. /\ UNCHANGED <<ran, pass>> /\ count' = count + 1
        /\ spawned' = spawned \cup {fresh}
      BY <1>1, SpawnStep
  <2>2. fresh.people = alive' /\ fresh.no = count'
      BY <2>1
  <2> HIDE DEF fresh
  <2>3. ran' < count'
      BY <1>0, <2>1
  <2>4. ASSUME NEW p \in spawned'
        PROVE  p.no \in 1 .. count' /\ (p.no = count' => p.people = alive')
    <3>1. CASE p = fresh
        BY <1>0, <2>1, <2>2, <3>1
    <3>2. CASE p \in spawned
        BY <1>0, <2>1, <3>2
    <3> QED
        BY <2>1, <3>1, <3>2
  <2> QED
      BY <2>1, <2>2, <2>3, <2>4, <1>0
<1>2. ASSUME NEW a \in Drawer, FinishPlan(a) PROVE NewestInv'
  <2> DEFINE fresh == [people |-> alive', no |-> count + 1]
  <2>1. /\ UNCHANGED <<ran, pass>> /\ count' = count + 1
        /\ spawned' = spawned \cup {fresh}
      BY <1>2, SpawnStep
  <2>2. fresh.people = alive' /\ fresh.no = count'
      BY <2>1
  <2> HIDE DEF fresh
  <2>3. ran' < count'
      BY <1>0, <2>1
  <2>4. ASSUME NEW p \in spawned'
        PROVE  p.no \in 1 .. count' /\ (p.no = count' => p.people = alive')
    <3>1. CASE p = fresh
        BY <1>0, <2>1, <2>2, <3>1
    <3>2. CASE p \in spawned
        BY <1>0, <2>1, <3>2
    <3> QED
        BY <2>1, <3>1, <3>2
  <2> QED
      BY <2>1, <2>2, <2>3, <2>4, <1>0
<1>3. ASSUME NEW a \in Drawer, Require(a) PROVE NewestInv'
    BY <1>0, <1>3 DEF Require
<1>4. CASE LeaveKingdom
  <2> DEFINE fresh == [people |-> alive', no |-> count + 1]
  <2>1. /\ UNCHANGED <<ran, pass>> /\ count' = count + 1
        /\ spawned' = spawned \cup {fresh}
      BY <1>4, SpawnStep
  <2>2. fresh.people = alive' /\ fresh.no = count'
      BY <2>1
  <2> HIDE DEF fresh
  <2>3. ran' < count'
      BY <1>0, <2>1
  <2>4. ASSUME NEW p \in spawned'
        PROVE  p.no \in 1 .. count' /\ (p.no = count' => p.people = alive')
    <3>1. CASE p = fresh
        BY <1>0, <2>1, <2>2, <3>1
    <3>2. CASE p \in spawned
        BY <1>0, <2>1, <3>2
    <3> QED
        BY <2>1, <3>1, <3>2
  <2> QED
      BY <2>1, <2>2, <2>3, <2>4, <1>0
<1>5. ASSUME NEW p \in spawned, Begin(p) PROVE NewestInv'
  <2>1. /\ p.no \in 1 .. count /\ p.no \in Nat
        /\ p.no = count => p.people = alive /\ ran < count
        /\ ran' = IF p.no > ran THEN p.no ELSE ran
        /\ ~overtaken' => ~overtaken /\ p.no >= ran
        /\ UNCHANGED <<alive, count>> /\ spawned' = spawned \ {p}
    <3>1. /\ p.no \in 1 .. count /\ p.no \in Nat
          /\ p.no = count => p.people = alive /\ ran < count
        BY <1>0
    <3>2. /\ ran' = IF p.no > ran THEN p.no ELSE ran
          /\ overtaken' <=> overtaken \/ p.no < ran
          /\ UNCHANGED <<alive, count>> /\ spawned' = spawned \ {p}
        BY <1>5 DEF Begin
    <3> QED
        BY <1>0, <3>1, <3>2
  <2>2. pass' \in PassType /\ pass'.people = p.people
      BY <1>5, BeginStep
  <2>3. ASSUME NEW q \in spawned', q.no = count
        PROVE  q.people = alive /\ ran' < count
    <3>1. q \in spawned /\ q # p /\ q.people = alive /\ ran < count
        BY <2>1, <2>3
    <3>2. p.no # count
        BY <1>0, <2>1, <2>3, <3>1
    <3> QED
        BY <1>0, <2>1, <3>1, <3>2
  <2>4. count > 0 => ran' = count \/ \E q \in spawned' : q.no = count
      BY <1>0, <2>1
  <2>5. ran' <= count
      BY <1>0, <2>1
  <2>6. ~overtaken' /\ ran' = count => pass'.people = alive
      BY <1>0, <2>1, <2>2
  <2> QED
      BY <2>1, <2>3, <2>4, <2>5, <2>6
<1>6. CASE RaiseScope
  <2>1. UNCHANGED <<alive, spawned, ran, overtaken, count>>
      BY <1>6 DEF RaiseScope
  <2> QED
      BY <1>6, <2>1, RaiseStep, PassThere
<1>7. CASE StandByHand
  <2>1. UNCHANGED <<alive, spawned, ran, overtaken, count>>
      BY <1>7 DEF StandByHand
  <2> QED
      BY <1>7, <2>1, ByHandStep, PassThere
<1>8. CASE EnsureOne
  <2>1. UNCHANGED <<alive, spawned, ran, overtaken, count>>
      BY <1>8 DEF EnsureOne
  <2> QED
      BY <1>8, <2>1, EnsureStep, PassThere
<1>9. CASE Answered
  <2>1. pass.todo # <<>>
      BY <1>9 DEF Answered, In, StageInv
  <2>2. UNCHANGED <<alive, spawned, ran, overtaken, count>>
      BY <1>9 DEF Answered
  <2> QED
      BY <1>9, <2>1, <2>2, AnsweredStep, PassThere
<1>10. CASE NotAnswered
  <2>1. pass.todo # <<>>
      BY <1>10 DEF NotAnswered, In, StageInv
  <2>2. UNCHANGED <<alive, spawned, ran, overtaken, count>>
      BY <1>10 DEF NotAnswered
  <2> QED
      BY <1>10, <2>1, <2>2, NotAnsweredStep, PassThere
<1>11. CASE RecordRaised
  <2>1. pass.scopes # <<>>
      BY <1>11 DEF RecordRaised, ScopeDone, In, StageInv
  <2>2. UNCHANGED <<alive, spawned, ran, overtaken, count>>
      BY <1>11 DEF RecordRaised
  <2> QED
      BY <1>11, <2>1, <2>2, RecordStep, PassThere
<1>12. CASE Orphan
  <2>1. UNCHANGED <<alive, spawned, ran, overtaken, count>>
      BY <1>12 DEF Orphan
  <2> QED
      BY <1>12, <2>1, OrphanStep, PassThere
<1>13. CASE EndPass
    BY <1>0, <1>13 DEF EndPass, In
<1>14. CASE DaemonGoes
    BY <1>0, <1>14 DEF DaemonGoes, Mishap
<1>15. CASE DaemonReturns
    BY <1>0, <1>15 DEF DaemonReturns
<1>16. CASE RestartCourt
  <2>1. /\ spawned' = {[people |-> alive, no |-> count + 1]} /\ count' = count + 1
        /\ pass' = <<>> /\ UNCHANGED <<alive, ran>>
      BY <1>16 DEF RestartCourt
  <2> QED
      BY <1>0, <2>1
<1>17. ASSUME NEW s \in Services, ComeUp(s) PROVE NewestInv'
    BY <1>0, <1>17 DEF ComeUp
<1>18. ASSUME NEW s \in Services, StopOne(s) PROVE NewestInv'
  <2>1. UNCHANGED <<alive, spawned, ran, overtaken, count>>
      BY <1>18 DEF StopOne
  <2> QED
      BY <1>18, <2>1, StopStep, PassThere
<1>19. ASSUME NEW s \in Services, Dies(s) PROVE NewestInv'
    BY <1>0, <1>19 DEF Dies, Mishap
<1>20. CASE UNCHANGED lvars
    BY <1>0, <1>20 DEF lvars
<1> QED
    BY <1>1, <1>2, <1>3, <1>4, <1>5, <1>6, <1>7, <1>8, <1>9, <1>10, <1>11,
       <1>12, <1>13, <1>14, <1>15, <1>16, <1>17, <1>18, <1>19, <1>20 DEF LNext

LEMMA RegistryInvNext ==
    ASSUME WellsTypeInv, StageInv, SweptInv, NewestInv, RegistryInv, [LNext]_lvars
    PROVE  RegistryInv'
<1>0. /\ count \in Nat /\ ran \in Nat /\ mishaps \in Nat
      /\ spawned \in SUBSET [people : SUBSET Drawer, no : Nat]
    BY DEF WellsTypeInv
<1> USE DEF SweptInv, NewestInv, RegistryInv
<1>1. ASSUME NEW a \in Drawer, OpenPlan(a) PROVE RegistryInv'
  <2>1. UNCHANGED <<ran>>
      BY <1>1, SpawnStep
  <2>2. count' = count + 1 /\ spawned' = spawned \cup {[people |-> alive', no |-> count + 1]}
      BY <1>1, SpawnStep
  <2> QED
      BY <1>0, <2>1, <2>2
<1>2. ASSUME NEW a \in Drawer, FinishPlan(a) PROVE RegistryInv'
  <2>1. UNCHANGED <<ran>>
      BY <1>2, SpawnStep
  <2>2. count' = count + 1 /\ spawned' = spawned \cup {[people |-> alive', no |-> count + 1]}
      BY <1>2, SpawnStep
  <2> QED
      BY <1>0, <2>1, <2>2
<1>3. ASSUME NEW a \in Drawer, Require(a) PROVE RegistryInv'
    BY <1>0, <1>3 DEF Require
<1>4. CASE LeaveKingdom
  <2>1. UNCHANGED <<ran>>
      BY <1>4, SpawnStep
  <2>2. count' = count + 1 /\ spawned' = spawned \cup {[people |-> alive', no |-> count + 1]}
      BY <1>4, SpawnStep
  <2> QED
      BY <1>0, <2>1, <2>2
<1>5. ASSUME NEW p \in spawned, Begin(p) PROVE RegistryInv'
  <2>1. UNCHANGED <<alive, count, running>>
      BY <1>5 DEF Begin
  <2> QED
      BY <1>5, <2>1, BeginStep, PassThere
<1>6. CASE RaiseScope
  <2>1. UNCHANGED <<alive, ran, overtaken, count, running>>
      BY <1>6 DEF RaiseScope
  <2> QED
      BY <1>6, <2>1, RaiseStep, PassThere
<1>7. CASE StandByHand
  <2>1. UNCHANGED <<alive, ran, overtaken, count, running>>
      BY <1>7 DEF StandByHand
  <2> QED
      BY <1>7, <2>1, ByHandStep, PassThere
<1>8. CASE EnsureOne
  <2>1. UNCHANGED <<alive, ran, overtaken, count, running>>
      BY <1>8 DEF EnsureOne
  <2> QED
      BY <1>8, <2>1, EnsureStep, PassThere
<1>9. CASE Answered
  <2>1. pass.todo # <<>>
      BY <1>9 DEF Answered, In, StageInv
  <2>2. UNCHANGED <<alive, ran, overtaken, count, running>>
      BY <1>9 DEF Answered
  <2> QED
      BY <1>9, <2>1, <2>2, AnsweredStep, PassThere
<1>10. CASE NotAnswered
  <2>1. pass.todo # <<>>
      BY <1>10 DEF NotAnswered, In, StageInv
  <2>2. UNCHANGED <<alive, ran, overtaken, count, running>>
      BY <1>10 DEF NotAnswered
  <2> QED
      BY <1>10, <2>1, <2>2, NotAnsweredStep, PassThere
<1>11. CASE RecordRaised
  <2>1. pass.scopes # <<>>
      BY <1>11 DEF RecordRaised, ScopeDone, In, StageInv
  <2>2. UNCHANGED <<alive, ran, overtaken, count>>
      BY <1>11 DEF RecordRaised
  <2> QED
      BY <1>11, <2>1, <2>2, RecordStep, PassThere
<1>12. CASE Orphan
  <2>1. UNCHANGED <<alive, ran, overtaken, count>>
      BY <1>12 DEF Orphan
  <2> QED
      BY <1>12, <2>1, OrphanStep, PassThere
<1>13. CASE EndPass
    BY <1>0, <1>13 DEF EndPass, In
<1>14. CASE DaemonGoes
    BY <1>0, <1>14 DEF DaemonGoes, Mishap
<1>15. CASE DaemonReturns
    BY <1>0, <1>15 DEF DaemonReturns
<1>16. CASE RestartCourt
    BY <1>0, <1>16 DEF RestartCourt, Mishap
<1>17. ASSUME NEW s \in Services, ComeUp(s) PROVE RegistryInv'
    BY <1>0, <1>17 DEF ComeUp
<1>18. ASSUME NEW s \in Services, StopOne(s) PROVE RegistryInv'
  <2>1. UNCHANGED <<alive, ran, overtaken, count, running>>
      BY <1>18 DEF StopOne
  <2> QED
      BY <1>18, <2>1, StopStep, PassThere
<1>19. ASSUME NEW s \in Services, Dies(s) PROVE RegistryInv'
    BY <1>0, <1>19 DEF Dies, Mishap
<1>20. CASE UNCHANGED lvars
    BY <1>0, <1>20 DEF lvars
<1> QED
    BY <1>1, <1>2, <1>3, <1>4, <1>5, <1>6, <1>7, <1>8, <1>9, <1>10, <1>11,
       <1>12, <1>13, <1>14, <1>15, <1>16, <1>17, <1>18, <1>19, <1>20 DEF LNext

LEMMA RaisedInvNext ==
    ASSUME WellsTypeInv, StageInv, NewestInv, RaisedInv, [LNext]_lvars
    PROVE  RaisedInv'
<1>0. mishaps + 1 # 0 /\ ran # count + 1
    BY DEF WellsTypeInv, NewestInv
<1> USE DEF NewestInv, RaisedInv, ScopeSettled, Scope
<1>1. ASSUME NEW a \in Drawer, OpenPlan(a) PROVE RaisedInv'
  <2>1. UNCHANGED <<pass, running, daemon, excused, ran, mishaps>> /\ count' = count + 1
      BY <1>1, SpawnStep
  <2> QED
      BY <1>0, <2>1
<1>2. ASSUME NEW a \in Drawer, FinishPlan(a) PROVE RaisedInv'
  <2>1. UNCHANGED <<pass, running, daemon, excused, ran, mishaps>> /\ count' = count + 1
      BY <1>2, SpawnStep
  <2> QED
      BY <1>0, <2>1
<1>3. ASSUME NEW a \in Drawer, Require(a) PROVE RaisedInv'
    BY <1>0, <1>3 DEF Require
<1>4. CASE LeaveKingdom
  <2>1. UNCHANGED <<pass, running, daemon, excused, ran, mishaps>> /\ count' = count + 1
      BY <1>4, SpawnStep
  <2> QED
      BY <1>0, <2>1
<1>5. ASSUME NEW p \in spawned, Begin(p) PROVE RaisedInv'
  <2>1. UNCHANGED <<alive, count, running, excused, mishaps, daemon>>
      BY <1>5 DEF Begin
  <2>2. \A k \in Wanted(p.people) : Among(k, pass'.scopes)
    <3>1. /\ p.people \in SUBSET Drawer
          /\ pass'.scopes = InKeyOrder(Wanted(p.people))
        BY <1>5, BeginStep
    <3>2. Wanted(p.people) \in SUBSET ScopeNames
        BY <3>1, ScopeFacts
    <3> QED
        BY <3>1, <3>2, InKeyOrderFacts
  <2> QED
      BY <1>5, <2>1, <2>2, BeginStep, PassThere
<1>6. CASE RaiseScope
  <2>1. UNCHANGED <<alive, ran, overtaken, count, running, excused, mishaps, daemon>>
      BY <1>6 DEF RaiseScope
  <2> QED
      BY <1>6, <2>1, RaiseStep, PassThere
<1>7. CASE StandByHand
  <2>1. UNCHANGED <<alive, ran, overtaken, count, running, mishaps, daemon>>
      BY <1>7 DEF StandByHand
  <2> QED
      BY <1>7, <2>1, ByHandStep, PassThere
<1>8. CASE EnsureOne
  <2>1. UNCHANGED <<alive, ran, overtaken, count, running, excused, mishaps, daemon>>
      BY <1>8 DEF EnsureOne
  <2> QED
      BY <1>8, <2>1, EnsureStep, PassThere
<1>9. CASE Answered
  <2>1. pass.todo # <<>>
      BY <1>9 DEF Answered, In, StageInv
  <2>2. UNCHANGED <<alive, ran, overtaken, count, running, mishaps, daemon>>
      BY <1>9 DEF Answered
  <2>3. ScopeOf(Head(pass.todo)) = Scope /\ Among(Scope, pass.scopes)
      BY <1>9, <2>1, AnsweredStep, PassFacts, PassThere, AmongFacts DEF StageInv, Scope
  <2> QED
      BY <1>9, <2>1, <2>2, <2>3, AnsweredStep, PassThere DEF Scope
<1>10. CASE NotAnswered
  <2>1. pass.todo # <<>>
      BY <1>10 DEF NotAnswered, In, StageInv
  <2>2. UNCHANGED <<alive, ran, overtaken, count, running, mishaps, daemon>>
      BY <1>10 DEF NotAnswered
  <2>3. ScopeOf(Head(pass.todo)) = Scope
      BY <1>10, <2>1, NotAnsweredStep, PassFacts, PassThere, AmongFacts DEF StageInv
  <2> QED
      BY <1>10, <2>1, <2>2, <2>3, NotAnsweredStep, PassThere DEF Scope
<1>11. CASE RecordRaised
  <2>1. pass.scopes # <<>>
      BY <1>11 DEF RecordRaised, ScopeDone, In, StageInv
  <2>2. UNCHANGED <<alive, ran, overtaken, count, excused, mishaps, daemon>>
      BY <1>11 DEF RecordRaised
  <2>3. \A x : Among(x, pass.scopes) <=> x = Scope \/ Among(x, Tail(pass.scopes))
      BY <1>11, <2>1, RecordStep, PassFacts, AmongFacts DEF Scope
  <2>4. pass.stage = "record"
        \/ \A s \in Services : ScopeOf(s) = Scope => <<s, "ours">> \in pass.up
      BY <1>11, <2>1, RecordStep, PassThere, NoneAmong DEF StageInv
  <2>5. mishaps = 0 => \A k : ScopeSettled(k) => ScopeSettled(k)'
      BY <1>11, <2>1, <2>2, RecordStep, PassThere
  <2>6. ASSUME NEW k, k = Scope, mishaps = 0 PROVE ScopeSettled(k)'
    <3>1. CASE \A s \in Services : ScopeOf(s) = k => <<s, "ours">> \in pass.up
        BY <1>11, <2>1, <3>1, RecordStep DEF ScopeSettled
    <3>2. CASE \E s \in Services : ScopeOf(s) = k /\ s \in excused
        BY <2>2, <3>2 DEF ScopeSettled
    <3> QED
        BY <1>11, <2>1, <2>4, <2>6, <3>1, <3>2, RecordStep, PassThere
  <2>7. /\ pass' # <<>> /\ pass'.stage = "scope" /\ pass'.up = {}
        /\ pass'.scopes = Tail(pass.scopes) /\ pass'.people = pass.people /\ pass # <<>>
      BY <1>11, <2>1, RecordStep, PassThere
  <2> HIDE DEF ScopeSettled
  <2> QED
      BY <2>2, <2>3, <2>5, <2>6, <2>7
<1>12. CASE Orphan
  <2>1. UNCHANGED <<alive, ran, overtaken, count, excused, mishaps, daemon>>
      BY <1>12 DEF Orphan
  <2>2. /\ pass # <<>> /\ pass' # <<>> /\ pass'.stage = "stop" /\ pass'.up = pass.up
        /\ pass'.scopes = pass.scopes /\ pass'.people = pass.people
      BY <1>12, OrphanStep, PassThere
  <2>3. \A k \in Wanted(pass.people) : ScopeSettled(k) => ScopeSettled(k)'
      BY <1>12, <2>1, OrphanStep
  <2> HIDE DEF ScopeSettled
  <2> QED
      BY <2>1, <2>2, <2>3
<1>13. CASE EndPass
  <2>1. /\ pass # <<>> /\ pass.scopes = <<>> /\ pass' = <<>>
        /\ UNCHANGED <<alive, running, daemon, excused, ran, overtaken, count, mishaps>>
      BY <1>13 DEF EndPass, In, StageInv
  <2> QED
      BY <2>1, NoneAmong
<1>14. CASE DaemonGoes
  <2>1. mishaps' = mishaps + 1
      BY <1>14 DEF DaemonGoes, Mishap
  <2> QED
      BY <1>0, <2>1
<1>15. CASE DaemonReturns
    BY <1>0, <1>15 DEF DaemonReturns
<1>16. CASE RestartCourt
  <2>1. mishaps' = mishaps + 1
      BY <1>16 DEF RestartCourt, Mishap
  <2> QED
      BY <1>0, <2>1
<1>17. ASSUME NEW s \in Services, ComeUp(s) PROVE RaisedInv'
    BY <1>0, <1>17 DEF ComeUp
<1>18. ASSUME NEW s \in Services, StopOne(s) PROVE RaisedInv'
  <2>1. UNCHANGED <<alive, ran, overtaken, count, running, mishaps, daemon>>
      BY <1>18 DEF StopOne
  <2> QED
      BY <1>18, <2>1, StopStep, PassThere
<1>19. ASSUME NEW s \in Services, Dies(s) PROVE RaisedInv'
  <2>1. mishaps' = mishaps + 1
      BY <1>19 DEF Dies, Mishap
  <2> QED
      BY <1>0, <2>1
<1>20. CASE UNCHANGED lvars
    BY <1>0, <1>20 DEF lvars
<1> QED
    BY <1>1, <1>2, <1>3, <1>4, <1>5, <1>6, <1>7, <1>8, <1>9, <1>10, <1>11,
       <1>12, <1>13, <1>14, <1>15, <1>16, <1>17, <1>18, <1>19, <1>20 DEF LNext

LEMMA WellsInductive == LSpec => []WellsInv
<1>1. LInit => WellsInv
  <2>1. LInit => WellsTypeInv
      BY DEF LInit, WellsTypeInv
  <2> QED
      BY <2>1 DEF LInit, WellsInv, StageInv, SweptInv, StartedInv, NewestInv, RegistryInv,
         RaisedInv
<1>2. WellsInv /\ [LNext]_lvars => WellsInv'
    BY WellsTypeInvNext, StageInvNext, SweptInvNext, StartedInvNext, NewestInvNext,
       RegistryInvNext, RaisedInvNext DEF WellsInv
<1> QED
    BY <1>1, <1>2, PTL DEF LSpec

(* With every pass run, newest last, the registry holds the wells that     *)
(* live agents can reach and no others, all of them if nothing went wrong; *)
(* and what this process started or adopted is in it between passes        *)
(* (services/mod.rs, reconcile; services/docker.rs, raise).                *)
THEOREM RegistryFollowsTheLiving == LSpec => []WellsFollowTheLiving
<1>1. WellsInv => WellsFollowTheLiving
  <2> SUFFICES ASSUME WellsInv
               PROVE  WellsFollowTheLiving
      OBVIOUS
  <2>1. Rest /\ ~overtaken => ran = count
      BY DEF WellsInv, WellsTypeInv, NewestInv, Rest
  <2>2. ASSUME NEW s \in Services, Rest, ~overtaken
        PROVE  /\ running[s] # "no" => ScopeOf(s) \in Wanted(alive)
               /\ ScopeOf(s) \in Wanted(alive) /\ mishaps = 0 /\ excused = {} /\ ran > 0
                  => running[s] = "ours"
      BY <2>1, <2>2 DEF WellsInv, RegistryInv, RaisedInv, ScopeSettled, Rest
  <2>3. ASSUME pass = <<>>, NEW s \in raised \ excused,
               container[s] \in {"starting", "ready"}
        PROVE  running[s] = "ours"
      BY <2>3 DEF WellsInv, WellsTypeInv, StartedInv, InHand
  <2> QED
      BY <2>2, <2>3 DEF WellsFollowTheLiving
<1> QED
    BY <1>1, WellsInductive, PTL

(* Only a pass stops a container, and only one that its sweep set aside.   *)
LEMMA OnlyPassesStop ==
    ASSUME WellsInv, [LNext]_lvars, NEW t \in Services,
           container[t] # "stopped", container'[t] = "stopped"
    PROVE  /\ pass # <<>> /\ pass.stage = "stop"
           /\ t \in pass.stop
<1>0. container \in [Services -> {"absent", "starting", "ready", "stopped", "dead"}]
    BY DEF WellsInv, WellsTypeInv
<1> DEFINE goal == pass # <<>> /\ pass.stage = "stop" /\ t \in pass.stop
<1> HIDE DEF goal
<1>1. ASSUME NEW a \in Drawer, OpenPlan(a) PROVE goal
    BY <1>1 DEF OpenPlan
<1>2. ASSUME NEW a \in Drawer, FinishPlan(a) PROVE goal
    BY <1>2 DEF FinishPlan
<1>3. ASSUME NEW a \in Drawer, Require(a) PROVE goal
    BY <1>3 DEF Require
<1>4. CASE LeaveKingdom
    BY <1>4 DEF LeaveKingdom
<1>5. ASSUME NEW p \in spawned, Begin(p) PROVE goal
    BY <1>5 DEF Begin
<1>6. CASE RaiseScope
    BY <1>6 DEF RaiseScope
<1>7. CASE StandByHand
    BY <1>7 DEF StandByHand
<1>8. CASE EnsureOne
  <2>1. container'[t] \in {container[t], "starting"}
      BY <1>0, <1>8 DEF EnsureOne
  <2> QED
      BY <2>1
<1>9. CASE Answered
    BY <1>9 DEF Answered
<1>10. CASE NotAnswered
    BY <1>10 DEF NotAnswered
<1>11. CASE RecordRaised
    BY <1>11 DEF RecordRaised
<1>12. CASE Orphan
    BY <1>12 DEF Orphan
<1>13. CASE EndPass
    BY <1>13 DEF EndPass
<1>14. CASE DaemonGoes
    BY <1>14 DEF DaemonGoes
<1>15. CASE DaemonReturns
    BY <1>15 DEF DaemonReturns
<1>16. CASE RestartCourt
    BY <1>16 DEF RestartCourt
<1>17. ASSUME NEW s \in Services, ComeUp(s) PROVE goal
  <2>1. container'[t] \in {container[t], "ready", "dead"}
      BY <1>0, <1>17 DEF ComeUp
  <2> QED
      BY <2>1
<1>18. ASSUME NEW s \in Services, StopOne(s) PROVE goal
  <2>1. In("stop") /\ s \in pass.stop /\ (t # s => container'[t] = container[t])
      BY <1>0, <1>18 DEF StopOne
  <2> QED
      BY <2>1 DEF In, goal
<1>19. ASSUME NEW s \in Services, Dies(s) PROVE goal
  <2>1. container'[t] \in {container[t], "ready", "dead"}
      BY <1>0, <1>19 DEF Dies
  <2> QED
      BY <2>1
<1>20. CASE UNCHANGED lvars
    BY <1>20 DEF lvars
<1> QED
    BY <1>1, <1>2, <1>3, <1>4, <1>5, <1>6, <1>7, <1>8, <1>9, <1>10, <1>11,
       <1>12, <1>13, <1>14, <1>15, <1>16, <1>17, <1>18, <1>19, <1>20 DEF LNext, goal

(* No pass stops a well under an agent whose turn was let go on, unless    *)
(* the pass was over a population read before that agent was opened        *)
(* (services/mod.rs, require and reconcile).                               *)
THEOREM NoWellIsTakenAway == LSpec => NoWellTakenAway
<1>1. ASSUME WellsInv, [LNext]_lvars, NEW s \in Services,
             container[s] # "stopped", container'[s] = "stopped",
             NEW a \in granted \cap pass.people
      PROVE  ScopeOf(s) \notin ScopesFor(a)
  <2>1. ScopeOf(s) \notin Wanted(pass.people)
      BY <1>1, OnlyPassesStop DEF WellsInv, SweptInv
  <2> QED
      BY <2>1, ScopeFacts
<1>2. WellsInv /\ [LNext]_lvars =>
        [\A s \in Services : (container[s] # "stopped" /\ container'[s] = "stopped") =>
            \A a \in granted \cap pass.people : ScopeOf(s) \notin ScopesFor(a)]_lvars
    BY <1>1
<1> QED
    BY <1>2, WellsInductive, PTL DEF LSpec, NoWellTakenAway

-----------------------------------------------------------------------------
(* The kingdoms' files.                                                    *)

PlanType == [n : Numbers, deed : Deed, status : {"drafting", "settled", "failed"},
           hands : SUBSET Deed, noted : BOOLEAN]

BeginOf == [at : {"idle", "numbered", "cutting", "begun", "over"}, n : Numbers \cup {0},
            root : Root \cup {Nowhere}, saved : BOOLEAN]

Pending(d) == begin[d].at \in {"numbered", "cutting"}

KingdomsTypeInv ==
    /\ realm \in Root \cup {Nowhere} /\ last \in Root \cup {Nowhere}
    /\ rail \in Seq(PlanType)
    /\ disk \in [Root \cup {Nowhere} -> [Numbers -> PlanType \cup {NoPlan}]]
    /\ \A r \in Root \cup {Nowhere} : \A m \in Numbers :
          disk[r][m] # NoPlan => disk[r][m].n = m
    /\ seq \in Nat \ {0} /\ hurried \in BOOLEAN /\ unread \subseteq Deed
    /\ begin \in [Deed -> BeginOf]
    /\ \A d \in Deed :
          /\ begin[d].at \in {"numbered", "cutting", "begun"} => begin[d].n \in Numbers
          /\ begin[d].at \in {"cutting", "begun"} => begin[d].root \in Root
    /\ turns \subseteq [n : Numbers, deed : Deed]
    /\ opening = NotOpening \/ opening \in [root : Root, rail : Seq(PlanType), counted : BOOLEAN]

(* Nothing is recorded there that the last reading found.                  *)
Free(r, m) == disk[r][m] # NoPlan => disk[r][m].deed \in unread

(* A kingdom is opened while nothing is at work, so that what was read of  *)
(* it is still what is on disk, and its numbers are counted on from there. *)
AssembledInv ==
    opening # NotOpening =>
        /\ turns = {} /\ \A d \in Deed : ~Pending(d)
        /\ \E lost \in SUBSET Recorded(opening.root) :
              /\ opening.rail = Loaded(opening.root, lost)
              /\ \A m \in lost : Free(opening.root, m)
        /\ opening.counted => seq = NextNumber(opening.rail)

(* What is on disk was put there by the plan that says so, under the root  *)
(* and the number it was begun with; and what was saved is there, unless   *)
(* its record was skipped.                                                 *)
DiskInv ==
    /\ \A r \in Root \cup {Nowhere} : \A m \in Numbers :
          disk[r][m] # NoPlan =>
              /\ disk[r][m].hands \subseteq {disk[r][m].deed}
              /\ begin[disk[r][m].deed].at = "begun"
              /\ begin[disk[r][m].deed].root = r /\ begin[disk[r][m].deed].n = m
    /\ \A d \in Deed : begin[d].saved =>
          /\ begin[d].at = "begun"
          /\ disk[begin[d].root][begin[d].n].deed = d \/ d \in unread

(* A plan in memory has its number to itself, and is on disk or says not.  *)
RailedInv ==
    /\ \A i \in DOMAIN rail :
          /\ begin[rail[i].deed].at = "begun"
          /\ begin[rail[i].deed].root = realm /\ begin[rail[i].deed].n = rail[i].n
          /\ rail[i].hands \subseteq {rail[i].deed}
          /\ rail[i].noted \/ Reconciled(disk[realm][rail[i].n]) = Reconciled(rail[i])
    /\ \A i, j \in DOMAIN rail : rail[i].n = rail[j].n => i = j

(* A turn is of a plan in memory, and of no other under its number.        *)
TurnsInv ==
    \A t \in turns : \E i \in DOMAIN rail : rail[i].n = t.n /\ rail[i].deed = t.deed

(* A number taken is nobody else's, in memory or, of what was read, on     *)
(* disk.                                                                   *)
NumberInv ==
    /\ opening = NotOpening =>
        /\ \A i \in DOMAIN rail :
              /\ rail[i].n < seq
              /\ Free(realm, rail[i].n) \/ disk[realm][rail[i].n].deed = rail[i].deed
        /\ \A m \in Numbers : Free(realm, m) \/ m < seq
    /\ \A d \in Deed : Pending(d) =>
        /\ begin[d].n < seq /\ Free(realm, begin[d].n)
        /\ begin[d].at = "cutting" => begin[d].root = realm
        /\ \A i \in DOMAIN rail : rail[i].n # begin[d].n
        /\ \A e \in Deed : Pending(e) /\ begin[e].n = begin[d].n => e = d

SteadyInv == AssembledInv /\ DiskInv /\ RailedInv /\ TurnsInv /\ NumberInv

KingdomsInv == KingdomsTypeInv /\ (~hurried => SteadyInv)


-----------------------------------------------------------------------------
(* The lemmas about the operators.                                         *)

LEMMA NumbersFacts == Cardinality(Deed) \in Nat /\ Numbers \subseteq Nat \ {0}
BY KingdomsAssumption, FS_CardinalityType DEF Numbers

\* A set of numbers with a bound has a highest one.
LEMMA MaxIsHighest ==
    ASSUME NEW K \in Nat, NEW S \in SUBSET (1 .. K), S # {}
    PROVE  Max(S) \in S /\ \A y \in S : y <= Max(S)
<1> DEFINE T == {n \in Nat : K - n \in S}
<1>1. \A y \in S : y \in Nat /\ K - y \in Nat /\ K - (K - y) = y
    OBVIOUS
<1>2. \A y \in S : K - y \in T
    BY <1>1
<1>3. T # {} /\ T \in SUBSET Nat
    BY <1>2
<1>4. PICK x \in T : \A y \in T : x <= y
    BY <1>3, LeastNumber
<1>5. K - x \in S /\ x \in Nat
    OBVIOUS
<1>6. ASSUME NEW y \in S PROVE K - x >= y
  <2>1. x <= K - y
      BY <1>2, <1>4
  <2> QED
      BY <1>1, <1>5, <2>1
<1>7. Max(S) \in S /\ \A y \in S : Max(S) >= y
    BY <1>5, <1>6 DEF Max
<1>8. ASSUME NEW y \in S PROVE y <= Max(S)
  <2>1. Max(S) >= y /\ Max(S) \in 1 .. K /\ y \in 1 .. K
      BY <1>7
  <2> QED
      BY <2>1
<1> QED
    BY <1>7, <1>8

\* The place of a number is one where it is, and there is one if it is there.
LEMMA PlaceOfFacts ==
    ASSUME rail \in Seq(PlanType), NEW n
    PROVE  /\ PlaceOf(n) # 0 <=> \E i \in DOMAIN rail : rail[i].n = n
           /\ PlaceOf(n) # 0 => PlaceOf(n) \in DOMAIN rail /\ rail[PlaceOf(n)].n = n
<1> DEFINE T == {i \in DOMAIN rail : rail[i].n = n}
<1>1. DOMAIN rail = 1 .. Len(rail) /\ Len(rail) \in Nat
    OBVIOUS
<1>2. CASE \E i \in DOMAIN rail : rail[i].n = n
  <2>1. T # {} /\ T \in SUBSET Nat
      BY <1>1, <1>2
  <2>2. PICK x \in T : \A y \in T : x <= y
      BY <2>1, LeastNumber
  <2>3. x \in DOMAIN rail /\ rail[x].n = n
      OBVIOUS
  <2>4. ASSUME NEW j \in DOMAIN rail, j < x PROVE rail[j].n # n
      BY <1>1, <2>2, <2>4
  <2>5. PlaceOf(n) \in DOMAIN rail /\ rail[PlaceOf(n)].n = n
      BY <1>2, <2>3, <2>4 DEF PlaceOf
  <2>6. PlaceOf(n) # 0
      BY <1>1, <2>5
  <2> QED
      BY <1>2, <2>5, <2>6
<1>3. CASE ~ \E i \in DOMAIN rail : rail[i].n = n
    BY <1>3 DEF PlaceOf
<1> QED
    BY <1>2, <1>3

\* The ranks number a set of numbers, each once.
LEMMA RankedFacts ==
    ASSUME NEW K \in Nat, NEW S \in SUBSET (1 .. K)
    PROVE  /\ Cardinality(S) \in Nat
           /\ \A i \in 1 .. Cardinality(S) : Ranked(S, i) \in S
           /\ \A i, j \in 1 .. Cardinality(S) : Ranked(S, i) = Ranked(S, j) => i = j
           /\ \A m \in S : \E i \in 1 .. Cardinality(S) : Ranked(S, i) = m
<1> DEFINE NoHigher(n) == {m \in S : m <= n}
           C == Cardinality(S)
           f == [n \in S |-> Cardinality(NoHigher(n))]
<1>0. \A m \in S : m \in Nat
    OBVIOUS
<1>1. IsFiniteSet(S)
  <2>1. 1 \in Int /\ K \in Int
      OBVIOUS
  <2>2. IsFiniteSet(1 .. K)
      BY <2>1, FS_Interval
  <2> QED
      BY <2>2, FS_Subset
<1>2. C \in Nat
    BY <1>1, FS_CardinalityType
<1>3. \A n \in S : NoHigher(n) \in SUBSET S /\ n \in NoHigher(n)
    OBVIOUS
<1>4. ASSUME NEW n \in S PROVE Cardinality(NoHigher(n)) \in 1 .. C /\ IsFiniteSet(NoHigher(n))
  <2>1. IsFiniteSet(NoHigher(n)) /\ Cardinality(NoHigher(n)) <= C
      BY <1>1, <1>3, FS_Subset
  <2>2. Cardinality(NoHigher(n)) \in Nat /\ Cardinality(NoHigher(n)) # 0
      BY <2>1, <1>3, FS_CardinalityType, FS_EmptySet
  <2> QED
      BY <1>2, <2>1, <2>2
<1>5. f \in [S -> 1 .. C]
    BY <1>4
<1>6. ASSUME NEW a \in S, NEW b \in S, a <= b,
             Cardinality(NoHigher(a)) = Cardinality(NoHigher(b))
      PROVE  a = b
  <2>0. \A m \in S : m <= a => m <= b
      BY <1>0, <1>6
  <2>1. NoHigher(a) \in SUBSET NoHigher(b)
      BY <2>0
  <2>2. NoHigher(b) = NoHigher(a)
      BY <2>1, <1>4, <1>6, FS_Subset
  <2>3. b <= a
      BY <2>2, <1>3
  <2> QED
      BY <1>6, <2>3
<1>7. ASSUME NEW a \in S, NEW b \in S, f[a] = f[b] PROVE a = b
  <2>1. Cardinality(NoHigher(a)) = Cardinality(NoHigher(b))
      BY <1>7
  <2>2. a <= b \/ b <= a
      OBVIOUS
  <2> HIDE DEF NoHigher
  <2> QED
      BY <1>6, <2>1, <2>2
<1>8. f \in Injection(S, 1 .. C)
    BY <1>5, <1>7 DEF Injection, IsInjective
<1>9. IsFiniteSet(1 .. C) /\ Cardinality(1 .. C) = C
    BY <1>2, FS_Interval
<1>10. f \in Surjection(S, 1 .. C)
    BY <1>8, <1>9, FS_Injection
<1>11. \A i \in 1 .. C : \E n \in S : f[n] = i
    BY <1>10 DEF Surjection
<1>12. \A i \in 1 .. C : Ranked(S, i) \in S /\ f[Ranked(S, i)] = i
    BY <1>11 DEF Ranked
<1>13. \A m \in S : f[m] \in 1 .. C
    BY <1>5
<1> HIDE DEF f, C
<1>14. \A i, j \in 1 .. C : Ranked(S, i) = Ranked(S, j) => i = j
    BY <1>12
<1>15. ASSUME NEW m \in S PROVE \E i \in 1 .. C : Ranked(S, i) = m
    BY <1>7, <1>12, <1>13
<1> QED
    BY <1>2, <1>12, <1>14, <1>15 DEF C

\* Where a plan's turn died with the process, the rest of it is as it was.
LEMMA ReconciledFacts ==
    \A p \in PlanType : /\ Reconciled(p) \in PlanType
                      /\ Reconciled(p).n = p.n /\ Reconciled(p).deed = p.deed
                      /\ Reconciled(p).hands = p.hands
                      /\ Reconciled(Reconciled(p)) = Reconciled(p)
BY DEF Reconciled, PlanType

\* A kingdom that is read has every plan recorded under its root, each once,
\* but for the records that were skipped.
LEMMA LoadedFacts ==
    ASSUME KingdomsTypeInv, NEW r \in Root, NEW lost \in SUBSET Recorded(r)
    PROVE  LET L == Loaded(r, lost) IN
           /\ L \in Seq(PlanType)
           /\ \A i \in DOMAIN L :
                 /\ L[i].n \in Numbers
                 /\ disk[r][L[i].n] \in PlanType
                 /\ L[i] = Reconciled(disk[r][L[i].n])
           /\ \A i, j \in DOMAIN L : L[i].n = L[j].n => i = j
           /\ \A m \in Numbers : disk[r][m] # NoPlan =>
                 m \in lost \/ \E i \in DOMAIN L : L[i].n = m
<1> DEFINE L == Loaded(r, lost)
           S == Recorded(r) \ lost
           C == Cardinality(S)
           At(i) == Ranked(S, i)
<1>1. \A m \in S : m \in Numbers /\ disk[r][m] \in PlanType /\ disk[r][m].n = m
    BY DEF KingdomsTypeInv, Recorded
<1>2. Cardinality(Deed) + 1 \in Nat /\ S \in SUBSET (1 .. Cardinality(Deed) + 1)
    BY NumbersFacts DEF Recorded, Numbers
<1>3. /\ C \in Nat /\ \A i \in 1 .. C : At(i) \in S
      /\ \A i, j \in 1 .. C : At(i) = At(j) => i = j
      /\ \A m \in S : \E i \in 1 .. C : At(i) = m
    BY <1>2, RankedFacts
<1>4. L = [i \in 1 .. C |-> Reconciled(disk[r][At(i)])]
    BY DEF Loaded
<1>5. \A m \in Numbers : disk[r][m] # NoPlan => m \in lost \/ m \in S
    BY DEF Recorded
<1> HIDE DEF S, C, At, L
<1>6. \A i \in 1 .. C : L[i] \in PlanType /\ L[i].n = At(i)
                        /\ L[i] = Reconciled(disk[r][At(i)])
    BY <1>1, <1>3, <1>4, ReconciledFacts
<1>7. DOMAIN L = 1 .. C
    BY <1>4
<1>8. L \in Seq(PlanType)
    BY <1>3, <1>4, <1>6
<1> QED
    BY <1>1, <1>3, <1>5, <1>6, <1>7, <1>8 DEF L

\* A reading counts the plans it skipped, and drops from them only what it found.
LEMMA ReadFacts ==
    ASSUME KingdomsTypeInv, NEW r \in Root, NEW lost \in SUBSET Recorded(r),
           ReadRecords(r, lost)
    PROVE  /\ opening'.root = r /\ opening'.rail = Loaded(r, lost)
           /\ opening'.counted = FALSE
           /\ opening' \in [root : Root, rail : Seq(PlanType), counted : BOOLEAN]
           /\ unread' \subseteq Deed
           /\ \A m \in lost : disk[r][m].deed \in unread'
           /\ \A e \in unread : e \in unread' \/
                 \E m \in Numbers : disk[r][m] # NoPlan /\ disk[r][m].deed = e
<1>1. opening' = [root |-> r, rail |-> Loaded(r, lost), counted |-> FALSE]
    BY DEF ReadRecords
<1>2. Loaded(r, lost) \in Seq(PlanType)
    BY LoadedFacts
<1>3. unread' = (unread \ DeedsAt(r, Recorded(r) \ lost)) \cup DeedsAt(r, lost)
    BY DEF ReadRecords
<1>4. \A m \in Recorded(r) : m \in Numbers /\ disk[r][m] # NoPlan /\ disk[r][m].deed \in Deed
  <2>1. \A m \in Recorded(r) : m \in Numbers /\ disk[r][m] \in PlanType \cup {NoPlan}
                               /\ disk[r][m] # NoPlan
      BY DEF Recorded, KingdomsTypeInv
  <2> QED
      BY <2>1 DEF PlanType
<1> QED
    BY <1>1, <1>2, <1>3, <1>4 DEF DeedsAt, KingdomsTypeInv

\* The next number is above that of every plan there is.
LEMMA NextNumberFacts ==
    ASSUME NEW p \in Seq(PlanType)
    PROVE  NextNumber(p) \in Nat \ {0} /\ \A i \in DOMAIN p : p[i].n < NextNumber(p)
<1> DEFINE S == {p[i].n : i \in DOMAIN p}
<1>0. \A i \in DOMAIN p : p[i] \in PlanType
    OBVIOUS
<1>1. \A i \in DOMAIN p : p[i] \in PlanType /\ p[i].n \in Numbers
    BY <1>0 DEF PlanType
<1>2. Cardinality(Deed) + 1 \in Nat /\ S \in SUBSET (1 .. Cardinality(Deed) + 1)
    BY <1>1, NumbersFacts DEF Numbers
<1>3. CASE p = <<>>
    BY <1>3 DEF NextNumber
<1>4. CASE p # <<>>
  <2>0. Len(p) # 0 /\ Len(p) \in Nat /\ DOMAIN p = 1 .. Len(p)
      BY <1>4, EmptySeq
  <2>1. 1 \in DOMAIN p
      BY <2>0
  <2>7. S # {}
      BY <2>1
  <2>2. Max(S) \in S /\ \A y \in S : y <= Max(S)
      BY <1>2, <2>7, MaxIsHighest
  <2>3. Max(S) \in Nat /\ \A y \in S : y \in Nat
      BY <1>2, <2>2
  <2>4. NextNumber(p) = Max(S) + 1
      BY <1>4 DEF NextNumber
  <2>5. \A i \in DOMAIN p : p[i].n \in S
      OBVIOUS
  <2> HIDE DEF S
  <2>6. \A i \in DOMAIN p : p[i].n < Max(S) + 1
      BY <2>2, <2>3, <2>5
  <2> QED
      BY <2>3, <2>4, <2>6
<1> QED
    BY <1>3, <1>4

-----------------------------------------------------------------------------
(* The types.                                                              *)

\* The records are of plans, in memory and on disk.
LEMMA RecordsThere ==
    ASSUME KingdomsTypeInv
    PROVE  /\ DOMAIN rail = 1 .. Len(rail) /\ Len(rail) \in Nat
           /\ \A i \in DOMAIN rail :
                 rail[i] \in PlanType /\ rail[i].n \in Numbers /\ rail[i].deed \in Deed
           /\ \A r \in Root \cup {Nowhere} : \A m \in Numbers : disk[r][m] # NoPlan =>
                 disk[r][m] \in PlanType /\ disk[r][m].n = m /\ disk[r][m].deed \in Deed
<1>1. rail \in Seq(PlanType)
    BY DEF KingdomsTypeInv
<1>2. DOMAIN rail = 1 .. Len(rail) /\ Len(rail) \in Nat /\ \A i \in DOMAIN rail : rail[i] \in PlanType
    BY <1>1
<1>3. ASSUME NEW r \in Root \cup {Nowhere}, NEW m \in Numbers, disk[r][m] # NoPlan
      PROVE  disk[r][m] \in PlanType /\ disk[r][m].n = m
    BY <1>3 DEF KingdomsTypeInv
<1> QED
    BY <1>2, <1>3 DEF PlanType

\* What comes of the plan of a number, in memory and on disk.
PlanUpdated(n, p) ==
    /\ rail' \in Seq(PlanType) /\ DOMAIN rail' = DOMAIN rail
    /\ \A i \in DOMAIN rail : i # PlaceOf(n) => rail'[i] = rail[i]
    /\ /\ rail'[PlaceOf(n)].n = n /\ rail'[PlaceOf(n)].deed = p.deed
       /\ rail'[PlaceOf(n)].hands = p.hands
    /\ disk' \in [Root \cup {Nowhere} -> [Numbers -> PlanType \cup {NoPlan}]]
    /\ begin' \in [Deed -> BeginOf]
    /\ \A d \in Deed : begin'[d].at = begin[d].at /\ begin'[d].n = begin[d].n
                       /\ begin'[d].root = begin[d].root
    /\ \/ /\ \A r \in Root \cup {Nowhere} : \A m \in Numbers :
                disk'[r][m] = IF r = realm /\ m = n THEN p ELSE disk[r][m]
          /\ rail'[PlaceOf(n)] = p
          /\ \A d \in Deed : begin'[d].saved => begin[d].saved \/ d = p.deed
       \/ disk' = disk /\ rail'[PlaceOf(n)].noted /\ begin' = begin

\* What comes of a plan that joins them.
PlanPushed(d) ==
    LET n == begin[d].n
        k == Len(rail) + 1
    IN  /\ begin[d].at = "cutting" /\ n \in Numbers
        /\ rail' \in Seq(PlanType) /\ DOMAIN rail' = DOMAIN rail \cup {k}
        /\ k \notin DOMAIN rail /\ \A i \in DOMAIN rail : rail'[i] = rail[i]
        /\ rail'[k].n = n /\ rail'[k].deed = d /\ rail'[k].hands = {}
        /\ disk' \in [Root \cup {Nowhere} -> [Numbers -> PlanType \cup {NoPlan}]]
        /\ \A e \in Deed : e # d => begin'[e] = begin[e]
        /\ begin' \in [Deed -> BeginOf]
        /\ begin'[d].at = "begun" /\ begin'[d].n = n /\ begin'[d].root = begin[d].root
        /\ \/ \A r \in Root \cup {Nowhere} : \A m \in Numbers :
                 disk'[r][m] = IF r = realm /\ m = n THEN rail'[k] ELSE disk[r][m]
           \/ disk' = disk /\ rail'[k].noted /\ ~begin'[d].saved

\* What is recorded of a plan is what is in memory, or memory notes that it is not.
LEMMA UpdateStep ==
    ASSUME KingdomsTypeInv, NEW n \in Numbers, PlaceOf(n) # 0, NEW p \in PlanType, p.n = n,
           UpdatePlan(n, p)
    PROVE  PlanUpdated(n, p)
<1> DEFINE q == PlaceOf(n)
<1>1. q \in DOMAIN rail /\ rail \in Seq(PlanType)
    BY PlaceOfFacts DEF KingdomsTypeInv
<1>2. PICK kept \in {p, [p EXCEPT !.noted = TRUE]} :
          /\ Remember(p, kept)
          /\ rail' = [rail EXCEPT ![q] = kept]
          /\ begin' = [d \in Deed |->
                 IF disk' # disk /\ d = kept.deed
                 THEN [begin[d] EXCEPT !.saved = TRUE] ELSE begin[d]]
    BY DEF UpdatePlan
<1>3. /\ kept \in PlanType /\ kept.n = n /\ kept.deed = p.deed /\ kept.hands = p.hands
      /\ [p EXCEPT !.noted = TRUE].noted
    BY <1>2 DEF PlanType
<1>4. realm \in Root \cup {Nowhere}
      /\ disk \in [Root \cup {Nowhere} -> [Numbers -> PlanType \cup {NoPlan}]]
      /\ begin \in [Deed -> BeginOf]
    BY DEF KingdomsTypeInv
<1> HIDE DEF q, PlanUpdated
<1>5. /\ rail' \in Seq(PlanType) /\ DOMAIN rail' = DOMAIN rail
      /\ \A i \in DOMAIN rail : i # q => rail'[i] = rail[i]
      /\ rail'[q] = kept
    BY <1>1, <1>2, <1>3
<1>6. /\ begin' \in [Deed -> BeginOf]
      /\ \A d \in Deed : begin'[d].at = begin[d].at /\ begin'[d].n = begin[d].n
                         /\ begin'[d].root = begin[d].root
      /\ \A d \in Deed : begin'[d].saved => begin[d].saved \/ d = p.deed
      /\ disk' = disk => begin' = begin
    BY ZenonT(60), <1>2, <1>3, <1>4 DEF BeginOf
<1>7. \/ disk' = [disk EXCEPT ![realm][n] = p] /\ kept = p
      \/ disk' = disk /\ kept = [p EXCEPT !.noted = TRUE]
    BY <1>2 DEF Remember
<1>8. CASE disk' = [disk EXCEPT ![realm][n] = p] /\ kept = p
  <2>1. disk' \in [Root \cup {Nowhere} -> [Numbers -> PlanType \cup {NoPlan}]]
      BY <1>4, <1>8
  <2>2. \A r \in Root \cup {Nowhere} : \A m \in Numbers :
            disk'[r][m] = IF r = realm /\ m = n THEN p ELSE disk[r][m]
      BY <1>4, <1>8
  <2> QED
      BY <1>3, <1>5, <1>6, <1>8, <2>1, <2>2 DEF q, PlanUpdated
<1>9. CASE disk' = disk /\ kept = [p EXCEPT !.noted = TRUE]
    BY <1>3, <1>4, <1>5, <1>6, <1>9 DEF q, PlanUpdated
<1> QED
    BY <1>7, <1>8, <1>9

\* A new plan, the same.
LEMMA PushStep ==
    ASSUME KingdomsTypeInv, NEW d \in Deed, PushPlan(d)
    PROVE  PlanPushed(d)
<1> DEFINE n == begin[d].n
           k == Len(rail) + 1
           plan == [n |-> n, deed |-> d, status |-> "drafting", hands |-> {}, noted |-> FALSE]
<1>1. PICK kept \in {plan, [plan EXCEPT !.noted = TRUE]} :
          Remember(plan, kept) /\ rail' = Append(rail, kept)
    BY DEF PushPlan
<1>2. /\ begin[d].at = "cutting" /\ n \in Numbers
      /\ begin' = [begin EXCEPT ![d].at = "begun", ![d].saved = (disk' # disk)]
    BY DEF PushPlan, KingdomsTypeInv
<1>3. /\ kept \in PlanType /\ kept.n = n /\ kept.deed = d /\ kept.hands = {}
      /\ plan \in PlanType /\ [plan EXCEPT !.noted = TRUE].noted
  <2>1. plan \in PlanType /\ plan.n = n /\ plan.deed = d /\ plan.hands = {}
      BY <1>2 DEF PlanType
  <2>2. \A x \in PlanType : LET y == [x EXCEPT !.noted = TRUE]
                          IN  /\ y \in PlanType /\ y.n = x.n /\ y.deed = x.deed
                              /\ y.hands = x.hands /\ y.noted
      BY DEF PlanType
  <2> HIDE DEF plan
  <2> QED
      BY <1>1, <2>1, <2>2
<1>4. /\ realm \in Root \cup {Nowhere} /\ rail \in Seq(PlanType)
      /\ disk \in [Root \cup {Nowhere} -> [Numbers -> PlanType \cup {NoPlan}]]
      /\ begin \in [Deed -> BeginOf]
    BY DEF KingdomsTypeInv
<1>5. \/ disk' = [disk EXCEPT ![realm][n] = plan] /\ kept = plan
      \/ disk' = disk /\ kept = [plan EXCEPT !.noted = TRUE]
    BY <1>1 DEF Remember
<1> HIDE DEF plan
<1>6. /\ rail' \in Seq(PlanType) /\ DOMAIN rail' = DOMAIN rail \cup {k}
      /\ k \notin DOMAIN rail /\ \A i \in DOMAIN rail : rail'[i] = rail[i]
      /\ rail'[k] = kept
    BY <1>1, <1>3, <1>4
<1>7. /\ begin' \in [Deed -> BeginOf]
      /\ \A e \in Deed : e # d => begin'[e] = begin[e]
      /\ begin'[d].at = "begun" /\ begin'[d].n = n /\ begin'[d].root = begin[d].root
      /\ disk' = disk => begin'[d].saved = FALSE
    BY ZenonT(60), <1>2, <1>4 DEF BeginOf
<1>8. CASE disk' = [disk EXCEPT ![realm][n] = plan] /\ kept = plan
  <2>1. disk' \in [Root \cup {Nowhere} -> [Numbers -> PlanType \cup {NoPlan}]]
      BY <1>2, <1>3, <1>4, <1>8
  <2>2. \A r \in Root \cup {Nowhere} : \A m \in Numbers :
            disk'[r][m] = IF r = realm /\ m = n THEN plan ELSE disk[r][m]
      BY <1>2, <1>4, <1>8
  <2> QED
      BY <1>2, <1>3, <1>6, <1>7, <1>8, <2>1, <2>2 DEF PlanPushed
<1>9. CASE disk' = disk /\ kept = [plan EXCEPT !.noted = TRUE]
    BY <1>2, <1>3, <1>4, <1>6, <1>7, <1>9 DEF PlanPushed
<1> QED
    BY <1>5, <1>8, <1>9

\* A turn's plan, with its hand on it.
LEMMA HandedPlan ==
    ASSUME KingdomsTypeInv, NEW n, PlaceOf(n) # 0, NEW e \in Deed,
           NEW s \in {"drafting", "settled"}
    PROVE  LET p == [rail[PlaceOf(n)] EXCEPT !.status = s, !.hands = @ \cup {e}]
           IN  /\ n \in Numbers /\ p \in PlanType /\ p.n = n
               /\ p.deed = rail[PlaceOf(n)].deed /\ p.deed \in Deed
               /\ p.hands = rail[PlaceOf(n)].hands \cup {e}
               /\ rail[PlaceOf(n)].n = n /\ PlaceOf(n) \in DOMAIN rail
<1>1. PlaceOf(n) \in DOMAIN rail /\ rail[PlaceOf(n)].n = n
    BY PlaceOfFacts DEF KingdomsTypeInv
<1>2. rail[PlaceOf(n)] \in PlanType /\ rail[PlaceOf(n)].n \in Numbers
    BY <1>1, RecordsThere
<1>3. \A x \in PlanType : LET p == [x EXCEPT !.status = s, !.hands = @ \cup {e}]
                        IN  /\ p \in PlanType /\ p.n = x.n /\ p.deed = x.deed
                            /\ p.deed \in Deed /\ p.hands = x.hands \cup {e}
    BY DEF PlanType
<1> QED
    BY <1>1, <1>2, <1>3

LEMMA KingdomsTypeInvNext ==
    ASSUME KingdomsTypeInv, [KNext]_kvars
    PROVE  KingdomsTypeInv'
<1> DEFINE UpdateTypes ==
        /\ rail' \in Seq(PlanType) /\ begin' \in [Deed -> BeginOf]
        /\ disk' \in [Root \cup {Nowhere} -> [Numbers -> PlanType \cup {NoPlan}]]
        /\ \A d \in Deed : begin'[d].at = begin[d].at /\ begin'[d].n = begin[d].n
                           /\ begin'[d].root = begin[d].root
        /\ \A r \in Root \cup {Nowhere} : \A m \in Numbers :
              disk'[r][m] # NoPlan => disk'[r][m].n = m
<1>0. /\ begin \in [Deed -> BeginOf] /\ realm \in Root \cup {Nowhere}
      /\ seq \in Nat \ {0} /\ hurried \in BOOLEAN
      /\ turns \subseteq [n : Numbers, deed : Deed]
      /\ \A d \in Deed :
            begin[d].at \in {"cutting", "begun"} => begin[d].root \in Root
      /\ \A r \in Root \cup {Nowhere} : \A m \in Numbers :
            disk[r][m] # NoPlan => disk[r][m].n = m
    BY DEF KingdomsTypeInv
<1>a. ASSUME NEW n \in Numbers, NEW p \in PlanType, p.n = n, PlanUpdated(n, p)
      PROVE  UpdateTypes
    BY <1>0, <1>a DEF PlanUpdated
<1>b. ASSUME NEW d \in Deed, NEW b \in BeginOf, begin' = [begin EXCEPT ![d] = b],
             b.at \in {"numbered", "cutting", "begun"} => b.n \in Numbers,
             b.at \in {"cutting", "begun"} => b.root \in Root
      PROVE  /\ begin' \in [Deed -> BeginOf]
             /\ \A e \in Deed :
                   /\ begin'[e].at \in {"numbered", "cutting", "begun"} => begin'[e].n \in Numbers
                   /\ begin'[e].at \in {"cutting", "begun"} => begin'[e].root \in Root
    BY <1>b DEF KingdomsTypeInv
<1>1. ASSUME NEW d \in Deed, TakeNumber(d) PROVE KingdomsTypeInv'
  <2> DEFINE b == [NoBegin EXCEPT !.at = "numbered", !.n = seq]
  <2>0. begin' = [begin EXCEPT ![d] = b] /\ seq \in Numbers
      BY <1>1 DEF TakeNumber
  <2>1. \A x \in BeginOf : LET y == [x EXCEPT !.at = "numbered", !.n = seq]
                           IN  y \in BeginOf /\ y.at = "numbered" /\ y.n = seq
      BY <2>0 DEF BeginOf
  <2>2. b \in BeginOf /\ b.at = "numbered" /\ b.n \in Numbers
      BY <2>0, <2>1 DEF NoBegin, BeginOf
  <2>3. /\ seq' \in Nat \ {0} /\ hurried' \in BOOLEAN
        /\ UNCHANGED <<realm, rail, disk, turns, opening, last, unread>>
      BY <1>0, <1>1 DEF TakeNumber
  <2> HIDE DEF b
  <2> QED
      BY <1>b, <2>0, <2>2, <2>3 DEF KingdomsTypeInv
<1>2. ASSUME NEW d \in Deed, FindCity(d) PROVE KingdomsTypeInv'
  <2> DEFINE s == IF realm = Nowhere THEN "over" ELSE "cutting"
             b == [begin[d] EXCEPT !.at = s, !.root = realm]
  <2>1. begin' = [begin EXCEPT ![d] = b] /\ begin[d].at = "numbered"
      BY <1>0, <1>2 DEF FindCity
  <2>2. \A x \in BeginOf : LET y == [x EXCEPT !.at = s, !.root = realm]
                           IN  y \in BeginOf /\ y.at = s /\ y.n = x.n /\ y.root = realm
      BY <1>0 DEF BeginOf
  <2>3. b \in BeginOf /\ b.at = s /\ b.n = begin[d].n /\ b.root = realm
      BY <1>0, <2>2
  <2>4. s = "cutting" => realm \in Root
      BY <1>0
  <2>5. UNCHANGED <<realm, rail, disk, seq, turns, opening, last, hurried, unread>>
      BY <1>2 DEF FindCity
  <2>6. begin[d].n \in Numbers
      BY <2>1 DEF KingdomsTypeInv
  <2> HIDE DEF b
  <2> QED
      BY <1>b, <2>1, <2>3, <2>4, <2>5, <2>6 DEF KingdomsTypeInv
<1>3. ASSUME NEW d \in Deed, WorkspaceRefused(d) PROVE KingdomsTypeInv'
  <2> DEFINE b == [begin[d] EXCEPT !.at = "over"]
  <2>1. begin' = [begin EXCEPT ![d] = b]
      BY <1>0, <1>3 DEF WorkspaceRefused
  <2>2. \A x \in BeginOf : LET y == [x EXCEPT !.at = "over"]
                           IN  y \in BeginOf /\ y.at = "over"
      BY DEF BeginOf
  <2>3. b \in BeginOf /\ b.at = "over"
      BY <1>0, <2>2
  <2>4. UNCHANGED <<realm, rail, disk, seq, turns, opening, last, hurried, unread>>
      BY <1>3 DEF WorkspaceRefused
  <2> HIDE DEF b
  <2> QED
      BY <1>b, <2>1, <2>3, <2>4 DEF KingdomsTypeInv
<1>4. ASSUME NEW d \in Deed, PushPlan(d) PROVE KingdomsTypeInv'
  <2>0. PlanPushed(d)
      BY <1>4, PushStep
  <2>1. UNCHANGED <<realm, seq, turns, opening, last, hurried, unread, openings>>
      BY <1>4 DEF PushPlan
  <2>2. begin[d].n \in Numbers /\ begin[d].root \in Root
      BY <1>0, <2>0 DEF PlanPushed
  <2>3. /\ rail' \in Seq(PlanType) /\ begin' \in [Deed -> BeginOf]
        /\ disk' \in [Root \cup {Nowhere} -> [Numbers -> PlanType \cup {NoPlan}]]
      BY <2>0 DEF PlanPushed
  <2>4. ASSUME NEW r \in Root \cup {Nowhere}, NEW m \in Numbers, disk'[r][m] # NoPlan
        PROVE  disk'[r][m].n = m
      BY <1>0, <2>0, <2>4 DEF PlanPushed
  <2>5. \A e \in Deed :
            \/ begin'[e] = begin[e]
            \/ begin'[e].n = begin[d].n /\ begin'[e].root = begin[d].root
      BY <2>0 DEF PlanPushed
  <2> QED
      BY <2>1, <2>2, <2>3, <2>4, <2>5 DEF KingdomsTypeInv
<1>5. ASSUME NEW n \in Numbers, BeginTurn(n) PROVE KingdomsTypeInv'
  <2> DEFINE e == rail[PlaceOf(n)].deed
  <2>1. PlaceOf(n) # 0 /\ turns' = turns \cup {[n |-> n, deed |-> e]}
        /\ hurried' \in BOOLEAN /\ UNCHANGED <<realm, seq, opening, last, unread, openings>>
      BY <1>0, <1>5 DEF BeginTurn
  <2>2. PlaceOf(n) \in DOMAIN rail /\ rail \in Seq(PlanType)
      BY <2>1, PlaceOfFacts DEF KingdomsTypeInv
  <2>3. e \in Deed
      BY <2>2, RecordsThere
  <2>4. UpdatePlan(n, [rail[PlaceOf(n)] EXCEPT !.status = "drafting", !.hands = @ \cup {e}])
      BY SMTT(60), <1>5 DEF BeginTurn
  <2> HIDE DEF e
  <2>5. PICK p \in PlanType : p.n = n /\ UpdatePlan(n, p)
      BY <2>1, <2>3, <2>4, HandedPlan
  <2>6. UpdateTypes
      BY <1>a, <2>1, <2>5, UpdateStep
  <2>7. turns' \subseteq [n : Numbers, deed : Deed]
      BY <1>0, <2>1, <2>3
  <2> QED
      BY <2>1, <2>6, <2>7 DEF KingdomsTypeInv
<1>6. ASSUME NEW t \in turns, TurnWrites(t) PROVE KingdomsTypeInv'
  <2>1. PICK s \in {"drafting", "settled"} :
            UpdatePlan(t.n, [rail[PlaceOf(t.n)] EXCEPT !.status = s, !.hands = @ \cup {t.deed}])
      BY <1>6 DEF TurnWrites
  <2>2. /\ PlaceOf(t.n) # 0 /\ turns' \subseteq turns
        /\ UNCHANGED <<realm, seq, opening, last, hurried, unread, openings>>
      BY <1>6 DEF TurnWrites
  <2>3. t.deed \in Deed /\ t.n \in Numbers
      BY <1>0
  <2> DEFINE h == [rail[PlaceOf(t.n)] EXCEPT !.status = s, !.hands = @ \cup {t.deed}]
  <2>6. h \in PlanType /\ h.n = t.n
    <3> DEFINE n == t.n
               e == t.deed
    <3>1. PlaceOf(n) # 0 /\ e \in Deed
        BY SMTT(60), <2>2, <2>3
    <3> HIDE DEF n, e
    <3>2. LET y == [rail[PlaceOf(n)] EXCEPT !.status = s, !.hands = @ \cup {e}]
          IN  y \in PlanType /\ y.n = n
        BY ZenonT(60), <3>1, HandedPlan
    <3> QED
        BY <3>2 DEF n, e
  <2>7. UpdatePlan(t.n, h)
      BY <2>1
  <2> HIDE DEF h
  <2>4. PICK p \in PlanType : p.n = t.n /\ UpdatePlan(t.n, p)
      BY <2>6, <2>7
  <2>5. UpdateTypes
      BY <1>a, <2>2, <2>3, <2>4, UpdateStep
  <2> QED
      BY <2>2, <2>5 DEF KingdomsTypeInv
<1>7. ASSUME NEW t \in turns, TurnLosesPlan(t) PROVE KingdomsTypeInv'
    BY <1>7 DEF TurnLosesPlan, Bounds, KingdomsTypeInv
<1>8. ASSUME NEW r \in Root, LoadKingdom(r) PROVE KingdomsTypeInv'
  <2>1. PICK lost \in SUBSET Recorded(r) : ReadRecords(r, lost)
      BY <1>8 DEF LoadKingdom
  <2>2. /\ hurried' \in BOOLEAN /\ UNCHANGED <<realm, rail, disk, seq, begin, turns, last>>
        /\ opening' \in [root : Root, rail : Seq(PlanType), counted : BOOLEAN]
        /\ unread' \subseteq Deed
      BY <1>0, <1>8, <2>1, ReadFacts DEF LoadKingdom
  <2> QED
      BY <2>2 DEF KingdomsTypeInv
<1>9. CASE CountPlans
  <2>1. opening \in [root : Root, rail : Seq(PlanType), counted : BOOLEAN]
      BY <1>9 DEF CountPlans, KingdomsTypeInv
  <2>2. opening' \in [root : Root, rail : Seq(PlanType), counted : BOOLEAN]
      BY <1>9, <2>1 DEF CountPlans
  <2>3. seq' \in Nat \ {0}
      BY <1>9, <2>1, NextNumberFacts DEF CountPlans
  <2>4. UNCHANGED <<realm, rail, disk, begin, turns, last, hurried, unread>>
      BY <1>9 DEF CountPlans
  <2> QED
      BY <2>2, <2>3, <2>4 DEF KingdomsTypeInv
<1>10. CASE SeatKingdom
    BY <1>10 DEF SeatKingdom, NotOpening, Bounds, KingdomsTypeInv
<1>11. CASE LeaveOpenKingdom
    BY <1>0, <1>11 DEF LeaveOpenKingdom, KingdomsTypeInv
<1>12. CASE Die
  <2>0. \A x \in BeginOf : LET y == [x EXCEPT !.at = "over"]
                           IN  y \in BeginOf /\ y.at = "over"
      BY DEF BeginOf
  <2>1. begin' \in [Deed -> BeginOf]
        /\ \A d \in Deed : begin'[d] = begin[d] \/ begin'[d].at = "over"
      BY <1>0, <1>12, <2>0 DEF Die
  <2>2. CASE last = Nowhere
    <3>1. /\ realm' = Nowhere /\ rail' = <<>> /\ seq' = 1 /\ turns' = {}
          /\ opening' = NotOpening /\ unread' = unread
          /\ UNCHANGED <<disk, last, hurried>>
        BY <1>12, <2>2 DEF Die
    <3> QED
        BY <2>1, <3>1 DEF KingdomsTypeInv
  <2>5. CASE last # Nowhere
    <3>1. last \in Root
        BY <2>5 DEF KingdomsTypeInv
    <3>2. PICK lost \in SUBSET Recorded(last) : ReadRecords(last, lost)
        BY <1>12, <2>5 DEF Die
    <3>3. opening' \in [root : Root, rail : Seq(PlanType), counted : BOOLEAN]
          /\ unread' \subseteq Deed
        BY <3>1, <3>2, ReadFacts
    <3>4. /\ realm' = Nowhere /\ rail' = <<>> /\ seq' = 1 /\ turns' = {}
          /\ UNCHANGED <<disk, last, hurried>>
        BY <1>12 DEF Die
    <3> QED
        BY <2>1, <3>3, <3>4 DEF KingdomsTypeInv
  <2> QED
      BY <2>2, <2>5
<1>13. CASE UNCHANGED kvars
    BY <1>13 DEF kvars, KingdomsTypeInv
<1> QED
    BY <1>1, <1>2, <1>3, <1>4, <1>5, <1>6, <1>7, <1>8, <1>9, <1>10, <1>11, <1>12, <1>13 DEF KNext

-----------------------------------------------------------------------------
(* What is quiet stays so.                                                 *)

\* Nobody records under the root of the kingdom that is not open.
LEMMA NowhereBare ==
    ASSUME KingdomsTypeInv, DiskInv, NEW m \in Numbers
    PROVE  disk[Nowhere][m] = NoPlan
<1>1. SUFFICES ASSUME disk[Nowhere][m] # NoPlan PROVE FALSE
    OBVIOUS
<1> DEFINE e == disk[Nowhere][m].deed
<1>2. e \in Deed
    BY <1>1, RecordsThere
<1>3. begin[e].at = "begun" /\ begin[e].root = Nowhere
    BY <1>1 DEF DiskInv
<1>4. begin[e].root \in Root
    BY <1>2, <1>3 DEF KingdomsTypeInv
<1> QED
    BY <1>3, <1>4, KingdomsAssumption DEF Nowhere

\* While the disk stands, what is on it is right as long as the begun stay so.
LEMMA DiskStays ==
    ASSUME KingdomsTypeInv, DiskInv, disk' = disk,
           \A e \in Deed : begin[e].at = "begun" => begin'[e] = begin[e],
           \A e \in Deed : begin'[e].saved => begin[e].saved,
           \A e \in unread : e \in unread' \/
              \E r \in Root \cup {Nowhere} : \E m \in Numbers :
                 disk[r][m] # NoPlan /\ disk[r][m].deed = e
    PROVE  DiskInv'
<1>1. ASSUME NEW r \in Root \cup {Nowhere}, NEW m \in Numbers, disk[r][m] # NoPlan
      PROVE  /\ disk[r][m].hands \subseteq {disk[r][m].deed}
             /\ begin'[disk[r][m].deed].at = "begun"
             /\ begin'[disk[r][m].deed].root = r /\ begin'[disk[r][m].deed].n = m
  <2>1. disk[r][m].deed \in Deed
      BY <1>1, RecordsThere
  <2>2. /\ disk[r][m].hands \subseteq {disk[r][m].deed}
        /\ begin[disk[r][m].deed].at = "begun"
        /\ begin[disk[r][m].deed].root = r /\ begin[disk[r][m].deed].n = m
      BY <1>1 DEF DiskInv
  <2> QED
      BY <2>1, <2>2
<1>2. ASSUME NEW e \in Deed, begin'[e].saved
      PROVE  /\ begin'[e].at = "begun"
             /\ disk[begin'[e].root][begin'[e].n].deed = e \/ e \in unread'
  <2>1. begin[e].saved
      BY <1>2
  <2>2. /\ begin[e].at = "begun" /\ begin'[e] = begin[e]
        /\ disk[begin[e].root][begin[e].n].deed = e \/ e \in unread
      BY <2>1 DEF DiskInv
  <2>3. ASSUME e \in unread, e \notin unread'
        PROVE  disk[begin[e].root][begin[e].n].deed = e
    <3>1. PICK r \in Root \cup {Nowhere}, m \in Numbers :
              disk[r][m] # NoPlan /\ disk[r][m].deed = e
        BY <2>3
    <3> QED
        BY <3>1 DEF DiskInv
  <2> QED
      BY <2>2, <2>3
<1> QED
    BY <1>1, <1>2 DEF DiskInv

\* The same of the kingdom in memory.
LEMMA RailStays ==
    ASSUME KingdomsTypeInv, RailedInv, realm' = realm, rail' = rail, disk' = disk,
           \A e \in Deed : begin[e].at = "begun" => begin'[e] = begin[e]
    PROVE  RailedInv'
<1>1. ASSUME NEW i \in DOMAIN rail
      PROVE  /\ begin'[rail[i].deed].at = "begun"
             /\ begin'[rail[i].deed].root = realm /\ begin'[rail[i].deed].n = rail[i].n
  <2>1. rail[i].deed \in Deed
      BY RecordsThere
  <2>2. /\ begin[rail[i].deed].at = "begun"
        /\ begin[rail[i].deed].root = realm /\ begin[rail[i].deed].n = rail[i].n
      BY DEF RailedInv
  <2> QED
      BY <2>1, <2>2
<1> QED
    BY <1>1 DEF RailedInv

\* A plan that is changed by its own hand keeps its number and its file.
LEMMA UpdateKeeps ==
    ASSUME KingdomsTypeInv, DiskInv, RailedInv, NumberInv, opening = NotOpening,
           NEW n \in Numbers, NEW p \in PlanType, PlaceOf(n) # 0, p.n = n,
           p.deed = rail[PlaceOf(n)].deed, p.hands \subseteq {p.deed},
           PlanUpdated(n, p), UNCHANGED <<realm, seq, opening, unread>>
    PROVE  /\ DiskInv' /\ RailedInv' /\ NumberInv'
           /\ DOMAIN rail' = DOMAIN rail
           /\ \A i \in DOMAIN rail : rail'[i].n = rail[i].n /\ rail'[i].deed = rail[i].deed
<1> DEFINE q == PlaceOf(n)
<1>1. q \in DOMAIN rail /\ rail[q].n = n
    BY PlaceOfFacts DEF KingdomsTypeInv
<1>2. /\ begin[p.deed].at = "begun" /\ begin[p.deed].root = realm /\ begin[p.deed].n = n
      /\ p.deed \in Deed /\ realm \in Root \cup {Nowhere}
      /\ Free(realm, n) \/ disk[realm][n].deed = p.deed
      /\ \A i \in DOMAIN rail : rail[i].n = n => i = q
    BY <1>1, RecordsThere DEF RailedInv, NumberInv, KingdomsTypeInv
<1>3. /\ \A i \in DOMAIN rail : rail'[i].n = rail[i].n /\ rail'[i].deed = rail[i].deed
      /\ DOMAIN rail' = DOMAIN rail
    BY <1>1 DEF PlanUpdated
<1>4. /\ \A i \in DOMAIN rail : i # q => rail'[i] = rail[i]
      /\ rail'[q].hands = p.hands
      /\ \A d \in Deed : begin'[d].at = begin[d].at /\ begin'[d].n = begin[d].n
                         /\ begin'[d].root = begin[d].root
    BY DEF PlanUpdated
<1>5. p # NoPlan
    BY NumbersFacts DEF PlanType, NoPlan
<1> HIDE DEF q
<1>6. CASE /\ \A r \in Root \cup {Nowhere} : \A m \in Numbers :
                 disk'[r][m] = IF r = realm /\ m = n THEN p ELSE disk[r][m]
           /\ rail'[q] = p
           /\ \A d \in Deed : begin'[d].saved => begin[d].saved \/ d = p.deed
  <2>1. ASSUME NEW r \in Root \cup {Nowhere}, NEW m \in Numbers, disk'[r][m] # NoPlan
        PROVE  /\ disk'[r][m].hands \subseteq {disk'[r][m].deed}
               /\ begin'[disk'[r][m].deed].at = "begun"
               /\ begin'[disk'[r][m].deed].root = r /\ begin'[disk'[r][m].deed].n = m
    <3>1. CASE r = realm /\ m = n
        BY <1>2, <1>4, <1>6, <3>1
    <3>2. CASE ~(r = realm /\ m = n)
      <4>1. disk'[r][m] = disk[r][m]
          BY <1>6, <3>2
      <4>2. disk[r][m].deed \in Deed
          BY <2>1, <4>1, RecordsThere
      <4>3. /\ disk[r][m].hands \subseteq {disk[r][m].deed}
            /\ begin[disk[r][m].deed].at = "begun"
            /\ begin[disk[r][m].deed].root = r /\ begin[disk[r][m].deed].n = m
          BY <2>1, <4>1 DEF DiskInv
      <4> QED
          BY <1>4, <4>1, <4>2, <4>3
    <3> QED
        BY <3>1, <3>2
  <2>2. ASSUME NEW d \in Deed, begin'[d].saved
        PROVE  /\ begin'[d].at = "begun"
               /\ disk'[begin'[d].root][begin'[d].n].deed = d \/ d \in unread
    <3>1. CASE d = p.deed
        BY <1>2, <1>4, <1>6, <3>1
    <3>2. CASE d # p.deed
      <4>1. begin[d].saved
          BY <1>6, <2>2, <3>2
      <4>2. /\ begin[d].at = "begun"
            /\ disk[begin[d].root][begin[d].n].deed = d \/ d \in unread
          BY <4>1 DEF DiskInv
      <4>0. SUFFICES ASSUME d \notin unread
                     PROVE  disk'[begin'[d].root][begin'[d].n].deed = d
          BY <1>4, <4>2
      <4>3. begin[d].root \in Root \cup {Nowhere} /\ begin[d].n \in Numbers
          BY <4>2 DEF KingdomsTypeInv
      <4>4. CASE begin[d].root = realm /\ begin[d].n = n
        <5>1. disk[realm][n] # NoPlan /\ disk[realm][n].deed = d
            BY <4>0, <4>2, <4>4, KingdomsAssumption DEF NoPlan
        <5> QED
            BY <1>2, <3>2, <4>0, <5>1 DEF Free
      <4>5. CASE ~(begin[d].root = realm /\ begin[d].n = n)
          BY <1>4, <1>6, <4>0, <4>2, <4>3, <4>5
      <4> QED
          BY <4>4, <4>5
    <3> QED
        BY <3>1, <3>2
  <2>3. DiskInv'
      BY <2>1, <2>2 DEF DiskInv
  <2>4. ASSUME NEW i \in DOMAIN rail
        PROVE  /\ begin'[rail'[i].deed].at = "begun"
               /\ begin'[rail'[i].deed].root = realm /\ begin'[rail'[i].deed].n = rail'[i].n
               /\ rail'[i].hands \subseteq {rail'[i].deed}
               /\ rail'[i].noted \/
                     Reconciled(disk'[realm][rail'[i].n]) = Reconciled(rail'[i])
    <3>1. CASE i = q
        BY <1>2, <1>4, <1>6, <3>1
    <3>2. CASE i # q
      <4>1. rail'[i] = rail[i] /\ rail[i].n # n /\ rail[i].n \in Numbers /\ rail[i].deed \in Deed
          BY <1>2, <1>4, <3>2, RecordsThere
      <4>2. disk'[realm][rail[i].n] = disk[realm][rail[i].n]
          BY <1>2, <1>6, <4>1
      <4>3. /\ begin[rail[i].deed].at = "begun"
            /\ begin[rail[i].deed].root = realm /\ begin[rail[i].deed].n = rail[i].n
            /\ rail[i].hands \subseteq {rail[i].deed}
            /\ rail[i].noted \/ Reconciled(disk[realm][rail[i].n]) = Reconciled(rail[i])
          BY DEF RailedInv
      <4> QED
          BY <1>4, <4>1, <4>2, <4>3
    <3> QED
        BY <3>1, <3>2
  <2>5. RailedInv'
      BY <1>3, <2>4 DEF RailedInv
  <2>6. NumberInv'
    <3>1. n < seq
        BY <1>1 DEF NumberInv
    <3>2. ASSUME NEW i \in DOMAIN rail
          PROVE  /\ rail'[i].n < seq
                 /\ Free(realm, rail[i].n)' \/ disk'[realm][rail[i].n].deed = rail[i].deed
      <4>1. /\ rail[i].n < seq /\ rail'[i].n = rail[i].n /\ rail[i].n \in Numbers
            /\ Free(realm, rail[i].n) \/ disk[realm][rail[i].n].deed = rail[i].deed
          BY <1>3, RecordsThere DEF NumberInv
      <4>2. CASE rail[i].n = n
          BY <1>1, <1>2, <1>6, <4>1, <4>2 DEF q
      <4>3. CASE rail[i].n # n
          BY <1>2, <1>6, <4>1, <4>3 DEF Free
      <4> QED
          BY <4>2, <4>3
    <3>3. ASSUME NEW m \in Numbers PROVE Free(realm, m)' \/ m < seq
      <4>1. CASE m = n
          BY <3>1, <4>1
      <4>2. CASE m # n
          BY <1>2, <1>6, <4>2 DEF NumberInv, Free
      <4> QED
          BY <4>1, <4>2
    <3>4. ASSUME NEW d \in Deed, Pending(d)' 
          PROVE  /\ Pending(d) /\ begin'[d].n < seq /\ Free(realm, begin[d].n)'
                 /\ begin'[d].at = "cutting" => begin'[d].root = realm
                 /\ \A i \in DOMAIN rail : rail'[i].n # begin'[d].n
      <4>1. Pending(d)
          BY <1>4, <3>4 DEF Pending
      <4>2. /\ begin[d].n < seq /\ Free(realm, begin[d].n)
            /\ begin[d].at = "cutting" => begin[d].root = realm
            /\ \A i \in DOMAIN rail : rail[i].n # begin[d].n
          BY <4>1 DEF NumberInv
      <4>3. begin[d].n \in Numbers
          BY <4>1 DEF Pending, KingdomsTypeInv
      <4>4. begin[d].n # n
          BY <1>1, <4>2
      <4>5. disk'[realm][begin[d].n] = disk[realm][begin[d].n]
          BY <1>2, <1>6, <4>3, <4>4
      <4> QED
          BY <1>3, <1>4, <4>1, <4>2, <4>5 DEF Free
    <3>5. ASSUME NEW d \in Deed, Pending(d)', NEW e \in Deed, Pending(e)',
                 begin'[e].n = begin'[d].n
          PROVE  e = d
        BY <1>4, <3>4, <3>5 DEF NumberInv
    <3> QED
        BY <1>3, <3>2, <3>3, <3>4, <3>5 DEF NumberInv
  <2> QED
      BY <1>3, <2>3, <2>5, <2>6
<1>7. CASE disk' = disk /\ rail'[q].noted /\ begin' = begin
  <2>1. DiskInv'
      BY <1>7, DiskStays
  <2>2. RailedInv'
    <3>1. ASSUME NEW i \in DOMAIN rail
          PROVE  /\ begin[rail'[i].deed].at = "begun"
                 /\ begin[rail'[i].deed].root = realm /\ begin[rail'[i].deed].n = rail'[i].n
                 /\ rail'[i].hands \subseteq {rail'[i].deed}
                 /\ rail'[i].noted \/
                       Reconciled(disk[realm][rail'[i].n]) = Reconciled(rail'[i])
      <4>1. CASE i = q
          BY <1>1, <1>2, <1>3, <1>4, <1>7, <4>1 DEF q
      <4>2. CASE i # q
          BY <1>4, <4>2 DEF RailedInv
      <4> QED
          BY <4>1, <4>2
    <3> QED
        BY <1>3, <1>7, <3>1 DEF RailedInv
  <2>3. NumberInv'
      BY <1>3, <1>7 DEF NumberInv, Pending, Free
  <2> QED
      BY <1>3, <2>1, <2>2, <2>3
<1> QED
    BY <1>6, <1>7 DEF PlanUpdated, q

LEMMA TakeNumberQuiet ==
    ASSUME KingdomsTypeInv, SteadyInv, NEW d \in Deed, TakeNumber(d), ~hurried'
    PROVE  SteadyInv'
<1>1. /\ opening = NotOpening /\ begin[d].at = "idle" /\ seq \in Numbers /\ seq \in Nat
      /\ seq' = seq + 1 /\ UNCHANGED <<realm, rail, disk, turns, opening, unread>>
    BY DEF TakeNumber, KingdomsTypeInv
<1>2. /\ \A e \in Deed : e # d => begin'[e] = begin[e]
      /\ begin'[d].at = "numbered" /\ begin'[d].n = seq /\ begin'[d].saved = FALSE
    BY DEF TakeNumber, NoBegin, KingdomsTypeInv
<1>3. DiskInv'
    BY <1>1, <1>2, DiskStays DEF SteadyInv
<1>4. RailedInv'
    BY <1>1, <1>2, RailStays DEF SteadyInv
<1>5. AssembledInv' /\ TurnsInv'
    BY <1>1 DEF AssembledInv, TurnsInv, SteadyInv
<1>6. NumberInv'
  <2>1. /\ \A i \in DOMAIN rail :
              /\ rail[i].n < seq /\ rail[i].n \in Nat
              /\ Free(realm, rail[i].n) \/ disk[realm][rail[i].n].deed = rail[i].deed
        /\ \A m \in Numbers : Free(realm, m) \/ m < seq
        /\ Numbers \subseteq Nat
        /\ \A m \in Numbers : Free(realm, m)' = Free(realm, m)
      BY <1>1, RecordsThere, NumbersFacts DEF NumberInv, SteadyInv, Free
  <2>2. \A i \in DOMAIN rail : rail[i].n < seq + 1 /\ rail[i].n # seq
      BY <1>1, <2>1
  <2>3. \A m \in Numbers : Free(realm, m) \/ m < seq + 1
      BY <1>1, <2>1
  <2>4. Free(realm, seq)
      BY <1>1, <2>1
  <2>5. ASSUME NEW e \in Deed, e # d, Pending(e)
        PROVE  /\ begin[e].n < seq /\ begin[e].n \in Nat /\ Free(realm, begin[e].n)
               /\ begin[e].at = "cutting" => begin[e].root = realm
               /\ \A i \in DOMAIN rail : rail[i].n # begin[e].n
               /\ \A f \in Deed : Pending(f) /\ begin[f].n = begin[e].n => f = e
    <3>1. begin[e].n \in Numbers
        BY <2>5 DEF Pending, KingdomsTypeInv
    <3> QED
        BY <2>1, <2>5, <3>1 DEF NumberInv, SteadyInv
  <2>6. \A e \in Deed : Pending(e)' => e = d \/ Pending(e)
      BY <1>2 DEF Pending
  <2>7. \A e \in Deed : e # d /\ Pending(e) => begin[e].n < seq + 1 /\ begin[e].n # seq
      BY <1>1, <2>5
  <2>8. ASSUME NEW e \in Deed, Pending(e)'
        PROVE  /\ begin'[e].n < seq' /\ Free(realm, begin[e].n)'
               /\ begin'[e].at = "cutting" => begin'[e].root = realm'
               /\ \A i \in DOMAIN rail' : rail'[i].n # begin'[e].n
               /\ \A f \in Deed : Pending(f)' /\ begin'[f].n = begin'[e].n => f = e
    <3>1. CASE e = d
        BY <1>1, <1>2, <2>2, <2>4, <2>6, <2>7, <3>1 DEF Free
    <3>2. CASE e # d
        BY <1>1, <1>2, <2>5, <2>6, <2>7, <2>8, <3>2 DEF Free
    <3> QED
        BY <3>1, <3>2
  <2> QED
      BY <1>1, <2>1, <2>2, <2>3, <2>8 DEF NumberInv, Free
<1> QED
    BY <1>3, <1>4, <1>5, <1>6 DEF SteadyInv

\* A request that has its number goes on, or gives up.
LEMMA PendingMoves ==
    ASSUME KingdomsTypeInv, SteadyInv, NEW d \in Deed, Pending(d),
           \A e \in Deed : e # d => begin'[e] = begin[e],
           begin'[d].n = begin[d].n, ~begin'[d].saved,
           begin'[d].at = "over" \/ (begin'[d].at = "cutting" /\ begin'[d].root = realm),
           UNCHANGED <<realm, rail, disk, seq, turns, opening, unread>>
    PROVE  SteadyInv'
<1>1. begin[d].at # "begun"
    BY DEF Pending
<1>2. DiskInv'
    BY <1>1, DiskStays DEF SteadyInv
<1>3. RailedInv'
    BY <1>1, RailStays DEF SteadyInv
<1>4. opening = NotOpening
    BY DEF AssembledInv, SteadyInv
<1>5. AssembledInv' /\ TurnsInv'
    BY <1>4 DEF AssembledInv, TurnsInv, SteadyInv
<1>6. \A e \in Deed : Pending(e)' => Pending(e) /\ begin'[e].n = begin[e].n
    BY DEF Pending
<1>7. ASSUME NEW e \in Deed, Pending(e)'
      PROVE  /\ begin'[e].n < seq' /\ Free(realm, begin[e].n)'
             /\ begin'[e].at = "cutting" => begin'[e].root = realm'
             /\ \A i \in DOMAIN rail' : rail'[i].n # begin'[e].n
             /\ \A f \in Deed : Pending(f)' /\ begin'[f].n = begin'[e].n => f = e
  <2>1. /\ begin[e].n < seq /\ Free(realm, begin[e].n)
        /\ begin[e].at = "cutting" => begin[e].root = realm
        /\ \A i \in DOMAIN rail : rail[i].n # begin[e].n
        /\ \A f \in Deed : Pending(f) /\ begin[f].n = begin[e].n => f = e
      BY <1>6, <1>7 DEF NumberInv, SteadyInv
  <2>2. begin'[e].at = "cutting" => begin'[e].root = realm
      BY <2>1
  <2> QED
      BY <1>6, <1>7, <2>1, <2>2 DEF Free
<1>8. NumberInv'
    BY <1>7 DEF NumberInv, SteadyInv, Free
<1> QED
    BY <1>2, <1>3, <1>5, <1>8 DEF SteadyInv

LEMMA FindCityQuiet ==
    ASSUME KingdomsTypeInv, SteadyInv, NEW d \in Deed, FindCity(d)
    PROVE  SteadyInv'
<1>1. begin \in [Deed -> BeginOf] /\ begin[d].at = "numbered"
    BY DEF FindCity, KingdomsTypeInv
<1>2. ~begin[d].saved
    BY <1>1 DEF DiskInv, SteadyInv
<1>3. /\ \A e \in Deed : e # d => begin'[e] = begin[e]
      /\ begin'[d].n = begin[d].n /\ begin'[d].saved = begin[d].saved
      /\ begin'[d].at = "over" \/ (begin'[d].at = "cutting" /\ begin'[d].root = realm)
    BY <1>1 DEF FindCity, BeginOf
<1>4. UNCHANGED <<realm, rail, disk, seq, turns, opening, unread>>
    BY DEF FindCity
<1>5. ~begin'[d].saved
    BY <1>2, <1>3
<1> QED
    BY <1>1, <1>3, <1>4, <1>5, PendingMoves DEF Pending

LEMMA WorkspaceRefusedQuiet ==
    ASSUME KingdomsTypeInv, SteadyInv, NEW d \in Deed, WorkspaceRefused(d)
    PROVE  SteadyInv'
<1>1. begin \in [Deed -> BeginOf] /\ begin[d].at = "cutting"
    BY DEF WorkspaceRefused, KingdomsTypeInv
<1>2. ~begin[d].saved
    BY <1>1 DEF DiskInv, SteadyInv
<1>3. /\ \A e \in Deed : e # d => begin'[e] = begin[e]
      /\ begin'[d].n = begin[d].n /\ begin'[d].saved = begin[d].saved
      /\ begin'[d].at = "over"
    BY <1>1 DEF WorkspaceRefused, BeginOf
<1>4. UNCHANGED <<realm, rail, disk, seq, turns, opening, unread>>
    BY DEF WorkspaceRefused
<1>5. ~begin'[d].saved
    BY <1>2, <1>3
<1> QED
    BY <1>1, <1>3, <1>4, <1>5, PendingMoves DEF Pending

LEMMA PushPlanQuiet ==
    ASSUME KingdomsTypeInv, SteadyInv, NEW d \in Deed, PushPlan(d)
    PROVE  SteadyInv'
<1> DEFINE n == begin[d].n
           k == Len(rail) + 1
<1>0. PlanPushed(d)
    BY PushStep
<1>1. UNCHANGED <<realm, seq, turns, opening, unread>>
    BY DEF PushPlan
<1>2. /\ begin[d].at = "cutting" /\ n \in Numbers
      /\ rail' \in Seq(PlanType) /\ DOMAIN rail' = DOMAIN rail \cup {k}
      /\ k \notin DOMAIN rail /\ \A i \in DOMAIN rail : rail'[i] = rail[i]
      /\ rail'[k].n = n /\ rail'[k].deed = d /\ rail'[k].hands = {}
      /\ \A e \in Deed : e # d => begin'[e] = begin[e]
      /\ begin'[d].at = "begun" /\ begin'[d].n = n /\ begin'[d].root = begin[d].root
      /\ \/ \A r \in Root \cup {Nowhere} : \A m \in Numbers :
               disk'[r][m] = IF r = realm /\ m = n THEN rail'[k] ELSE disk[r][m]
         \/ disk' = disk /\ rail'[k].noted /\ ~begin'[d].saved
    BY <1>0 DEF PlanPushed
<1> HIDE DEF k
<1>3. Pending(d) /\ opening = NotOpening
    BY <1>2 DEF Pending, AssembledInv, SteadyInv
<1>4. /\ n < seq /\ Free(realm, n) /\ begin[d].root = realm
      /\ \A i \in DOMAIN rail : rail[i].n # n
      /\ \A e \in Deed : Pending(e) /\ begin[e].n = n => e = d
    BY <1>2, <1>3 DEF NumberInv, SteadyInv
<1>5. realm \in Root \cup {Nowhere}
    BY DEF KingdomsTypeInv
<1> HIDE DEF n
<1>6. \A r \in Root \cup {Nowhere} : \A m \in Numbers : ~(r = realm /\ m = n) =>
          disk'[r][m] = disk[r][m]
    BY <1>2
<1>8. disk' = disk \/ disk'[realm][n] = rail'[k]
    BY <1>2, <1>5
<1>9. rail'[k].noted \/ disk'[realm][n] = rail'[k]
    BY <1>2, <1>5
<1>10. begin'[d].saved => disk'[realm][n] = rail'[k]
    BY <1>2, <1>5
<1>11. DiskInv'
  <2>1. ASSUME NEW r \in Root \cup {Nowhere}, NEW m \in Numbers, disk'[r][m] # NoPlan
        PROVE  /\ disk'[r][m].hands \subseteq {disk'[r][m].deed}
               /\ begin'[disk'[r][m].deed].at = "begun"
               /\ begin'[disk'[r][m].deed].root = r /\ begin'[disk'[r][m].deed].n = m
    <3>1. CASE r = realm /\ m = n /\ disk'[realm][n] = rail'[k]
        BY <1>2, <1>4, <2>1, <3>1
    <3>2. CASE ~(r = realm /\ m = n) \/ disk' = disk
      <4>1. disk'[r][m] = disk[r][m]
          BY <1>6, <3>2
      <4>2. disk[r][m].deed \in Deed
          BY <2>1, <4>1, RecordsThere
      <4>3. /\ disk[r][m].hands \subseteq {disk[r][m].deed}
            /\ begin[disk[r][m].deed].at = "begun"
            /\ begin[disk[r][m].deed].root = r /\ begin[disk[r][m].deed].n = m
          BY <2>1, <4>1 DEF DiskInv, SteadyInv
      <4>4. disk[r][m].deed # d
          BY <1>2, <4>3
      <4> QED
          BY <1>2, <4>1, <4>2, <4>3, <4>4
    <3> QED
        BY <1>8, <3>1, <3>2
  <2>2. ASSUME NEW e \in Deed, begin'[e].saved
        PROVE  /\ begin'[e].at = "begun"
               /\ disk'[begin'[e].root][begin'[e].n].deed = e \/ e \in unread
    <3>1. CASE e = d
        BY <1>2, <1>4, <1>10, <2>2, <3>1
    <3>2. CASE e # d
      <4>1. begin'[e] = begin[e] /\ begin[e].saved
          BY <1>2, <2>2, <3>2
      <4>2. /\ begin[e].at = "begun"
            /\ disk[begin[e].root][begin[e].n].deed = e \/ e \in unread
          BY <4>1 DEF DiskInv, SteadyInv
      <4>3. begin[e].root \in Root \cup {Nowhere} /\ begin[e].n \in Numbers
          BY <4>2 DEF KingdomsTypeInv
      <4>4. begin[e].root = realm /\ begin[e].n = n => e \in unread
          BY <1>4, <4>2, KingdomsAssumption DEF NoPlan, Free
      <4> QED
          BY <1>6, <4>1, <4>2, <4>3, <4>4
    <3> QED
        BY <3>1, <3>2
  <2> QED
      BY <1>1, <2>1, <2>2 DEF DiskInv
<1>12. RailedInv'
  <2>1. ASSUME NEW i \in DOMAIN rail'
        PROVE  /\ begin'[rail'[i].deed].at = "begun"
               /\ begin'[rail'[i].deed].root = realm /\ begin'[rail'[i].deed].n = rail'[i].n
               /\ rail'[i].hands \subseteq {rail'[i].deed}
               /\ rail'[i].noted \/
                     Reconciled(disk'[realm][rail'[i].n]) = Reconciled(rail'[i])
    <3>1. CASE i = k
        BY <1>2, <1>4, <1>8, <1>9, <3>1
    <3>2. CASE i # k
      <4>1. i \in DOMAIN rail /\ rail'[i] = rail[i] /\ rail[i].n # n
            /\ rail[i].n \in Numbers /\ rail[i].deed \in Deed
          BY <1>2, <1>4, <3>2, RecordsThere
      <4>2. disk'[realm][rail[i].n] = disk[realm][rail[i].n]
          BY <1>5, <1>6, <4>1
      <4>3. /\ begin[rail[i].deed].at = "begun"
            /\ begin[rail[i].deed].root = realm /\ begin[rail[i].deed].n = rail[i].n
            /\ rail[i].hands \subseteq {rail[i].deed}
            /\ rail[i].noted \/ Reconciled(disk[realm][rail[i].n]) = Reconciled(rail[i])
          BY <4>1 DEF RailedInv, SteadyInv
      <4>4. rail[i].deed # d
          BY <1>2, <4>3
      <4> QED
          BY <1>2, <4>1, <4>2, <4>3, <4>4
    <3> QED
        BY <3>1, <3>2
  <2>2. ASSUME NEW i \in DOMAIN rail', NEW j \in DOMAIN rail', rail'[i].n = rail'[j].n
        PROVE  i = j
    <3>1. \A a, b \in DOMAIN rail : rail[a].n = rail[b].n => a = b
        BY DEF RailedInv, SteadyInv
    <3> QED
        BY <1>2, <1>4, <2>2, <3>1
  <2> QED
      BY <1>1, <2>1, <2>2 DEF RailedInv
<1>13. AssembledInv' /\ TurnsInv'
    BY <1>1, <1>2, <1>3 DEF AssembledInv, TurnsInv, SteadyInv
<1>14. NumberInv'
  <2>1. ASSUME NEW i \in DOMAIN rail'
        PROVE  /\ rail'[i].n < seq
               /\ Free(realm, rail[i].n)' \/ disk'[realm][rail'[i].n].deed = rail'[i].deed
    <3>1. CASE i = k
        BY <1>1, <1>2, <1>4, <1>8, <3>1 DEF Free
    <3>2. CASE i # k
      <4>1. /\ i \in DOMAIN rail /\ rail'[i] = rail[i] /\ rail[i].n # n
            /\ rail[i].n \in Numbers
          BY <1>2, <1>4, <3>2, RecordsThere
      <4>2. /\ rail[i].n < seq
            /\ Free(realm, rail[i].n) \/ disk[realm][rail[i].n].deed = rail[i].deed
          BY <1>3, <4>1 DEF NumberInv, SteadyInv
      <4> QED
          BY <1>1, <1>5, <1>6, <4>1, <4>2 DEF Free
    <3> QED
        BY <3>1, <3>2
  <2>2. ASSUME NEW m \in Numbers PROVE Free(realm, m)' \/ m < seq
    <3>1. CASE m = n
        BY <1>4, <3>1
    <3>2. CASE m # n
        BY <1>1, <1>3, <1>5, <1>6, <3>2 DEF NumberInv, SteadyInv, Free
    <3> QED
        BY <3>1, <3>2
  <2>3. ASSUME NEW e \in Deed, Pending(e)'
        PROVE  /\ Pending(e) /\ e # d /\ begin'[e] = begin[e]
               /\ begin'[e].n < seq /\ Free(realm, begin[e].n)'
               /\ begin'[e].at = "cutting" => begin'[e].root = realm
               /\ \A i \in DOMAIN rail' : rail'[i].n # begin'[e].n
    <3>1. e # d
        BY <1>2, <2>3 DEF Pending
    <3>2. begin'[e] = begin[e] /\ Pending(e)
        BY <1>2, <2>3, <3>1 DEF Pending
    <3>3. /\ begin[e].n < seq /\ Free(realm, begin[e].n)
          /\ begin[e].at = "cutting" => begin[e].root = realm
          /\ \A i \in DOMAIN rail : rail[i].n # begin[e].n
        BY <3>2 DEF NumberInv, SteadyInv
    <3>4. begin[e].n \in Numbers /\ begin[e].n # n
        BY <1>4, <3>1, <3>2 DEF Pending, KingdomsTypeInv
    <3> QED
        BY <1>1, <1>2, <1>5, <1>6, <3>1, <3>2, <3>3, <3>4 DEF Free
  <2>4. ASSUME NEW e \in Deed, Pending(e)', NEW f \in Deed, Pending(f)',
               begin'[f].n = begin'[e].n
        PROVE  f = e
    <3>1. Pending(e) /\ Pending(f) /\ begin[f].n = begin[e].n
        BY <2>3, <2>4
    <3> QED
        BY <3>1 DEF NumberInv, SteadyInv
  <2> QED
      BY <1>1, <2>1, <2>2, <2>3, <2>4 DEF NumberInv, Free
<1> QED
    BY <1>11, <1>12, <1>13, <1>14 DEF SteadyInv

LEMMA BeginTurnQuiet ==
    ASSUME KingdomsTypeInv, SteadyInv, NEW n \in Numbers, BeginTurn(n), ~hurried'
    PROVE  SteadyInv'
<1> DEFINE q == PlaceOf(n)
           e == rail[q].deed
           p == [rail[q] EXCEPT !.status = "drafting", !.hands = @ \cup {e}]
<1>1. /\ q # 0 /\ turns' = turns \cup {[n |-> n, deed |-> e]} /\ opening = NotOpening
      /\ UpdatePlan(n, p) /\ UNCHANGED <<realm, seq, opening, unread>>
    BY DEF BeginTurn
<1>2. q \in DOMAIN rail /\ rail[q].n = n
    BY <1>1, PlaceOfFacts DEF KingdomsTypeInv
<1>3. e \in Deed /\ rail[q].hands \subseteq {e}
    BY <1>2, RecordsThere DEF RailedInv, SteadyInv
<1> HIDE DEF q, e
<1>4. p \in PlanType /\ p.n = n /\ p.deed = rail[q].deed /\ p.hands = rail[q].hands \cup {e}
    BY <1>1, <1>3, HandedPlan DEF q
<1> HIDE DEF p
<1>5. PlanUpdated(n, p)
    BY <1>1, <1>4, UpdateStep DEF q
<1>6. /\ DiskInv' /\ RailedInv' /\ NumberInv' /\ DOMAIN rail' = DOMAIN rail
      /\ \A i \in DOMAIN rail : rail'[i].n = rail[i].n /\ rail'[i].deed = rail[i].deed
    BY <1>1, <1>3, <1>4, <1>5, UpdateKeeps DEF SteadyInv, q, e
<1>7. TurnsInv'
  <2>1. ASSUME NEW t \in turns' PROVE \E i \in DOMAIN rail : rail[i].n = t.n /\ rail[i].deed = t.deed
    <3>1. CASE t \in turns
        BY <3>1 DEF TurnsInv, SteadyInv
    <3>2. CASE t = [n |-> n, deed |-> e]
        BY <1>2, <3>2 DEF e
    <3> QED
        BY <1>1, <3>1, <3>2
  <2> QED
      BY <1>6, <2>1 DEF TurnsInv
<1>8. AssembledInv'
    BY <1>1 DEF AssembledInv
<1> QED
    BY <1>6, <1>7, <1>8 DEF SteadyInv

LEMMA TurnWritesQuiet ==
    ASSUME KingdomsTypeInv, SteadyInv, NEW t \in turns, TurnWrites(t)
    PROVE  SteadyInv'
<1> DEFINE n == t.n
           e == t.deed
           q == PlaceOf(n)
<1>1. PICK s \in {"drafting", "settled"} :
          /\ UpdatePlan(n, [rail[q] EXCEPT !.status = s, !.hands = @ \cup {e}])
          /\ turns' \subseteq turns
    BY DEF TurnWrites
<1>2. q # 0 /\ UNCHANGED <<realm, seq, opening, unread>>
    BY DEF TurnWrites
<1>3. opening = NotOpening /\ n \in Numbers /\ e \in Deed
    BY DEF AssembledInv, SteadyInv, KingdomsTypeInv
<1>4. q \in DOMAIN rail /\ rail[q].n = n
    BY <1>2, PlaceOfFacts DEF KingdomsTypeInv
<1>5. PICK i \in DOMAIN rail : rail[i].n = n /\ rail[i].deed = e
    BY DEF TurnsInv, SteadyInv
<1>6. rail[q].deed = e /\ rail[q].hands \subseteq {e}
    BY <1>4, <1>5 DEF RailedInv, SteadyInv
<1> DEFINE p == [rail[q] EXCEPT !.status = s, !.hands = @ \cup {e}]
<1> HIDE DEF n, e, q
<1>7. p \in PlanType /\ p.n = n /\ p.deed = rail[q].deed /\ p.hands = rail[q].hands \cup {e}
  <2>0. PlaceOf(n) # 0 /\ e \in Deed
      BY SMTT(60), <1>2, <1>3 DEF q
  <2>1. LET y == [rail[PlaceOf(n)] EXCEPT !.status = s, !.hands = @ \cup {e}]
        IN  y \in PlanType /\ y.n = n
      BY ZenonT(60), <2>0, HandedPlan
  <2>2. LET y == [rail[PlaceOf(n)] EXCEPT !.status = s, !.hands = @ \cup {e}]
        IN  y.deed = rail[PlaceOf(n)].deed /\ y.hands = rail[PlaceOf(n)].hands \cup {e}
    <3>1. rail[PlaceOf(n)] \in PlanType
        BY <1>4, RecordsThere DEF q
    <3>2. \A x \in PlanType : LET y == [x EXCEPT !.status = s, !.hands = @ \cup {e}]
                            IN  y.deed = x.deed /\ y.hands = x.hands \cup {e}
        BY DEF PlanType
    <3> QED
        BY <3>1, <3>2
  <2> QED
      BY <2>1, <2>2 DEF q
<1>8. UpdatePlan(n, p)
    BY <1>1
<1> HIDE DEF p
<1>9. PlanUpdated(n, p)
    BY <1>2, <1>3, <1>7, <1>8, UpdateStep DEF q
<1>10. /\ DiskInv' /\ RailedInv' /\ NumberInv' /\ DOMAIN rail' = DOMAIN rail
       /\ \A j \in DOMAIN rail : rail'[j].n = rail[j].n /\ rail'[j].deed = rail[j].deed
    BY <1>2, <1>3, <1>6, <1>7, <1>9, UpdateKeeps DEF SteadyInv, q
<1>11. TurnsInv'
    BY <1>1, <1>10 DEF TurnsInv, SteadyInv
<1>12. AssembledInv'
    BY <1>2, <1>3 DEF AssembledInv
<1> QED
    BY <1>10, <1>11, <1>12 DEF SteadyInv

LEMMA TurnLosesPlanQuiet ==
    ASSUME KingdomsTypeInv, SteadyInv, NEW t \in turns, TurnLosesPlan(t)
    PROVE  SteadyInv'
<1>1. turns' \subseteq turns /\ UNCHANGED <<realm, rail, disk, seq, begin, opening, unread>>
    BY DEF TurnLosesPlan
<1>2. DiskInv' /\ RailedInv'
    BY <1>1, DiskStays, RailStays DEF SteadyInv
<1>3. opening = NotOpening
    BY DEF AssembledInv, SteadyInv
<1>4. AssembledInv' /\ TurnsInv' /\ NumberInv'
    BY <1>1, <1>3 DEF AssembledInv, TurnsInv, NumberInv, Pending, Free, SteadyInv
<1> QED
    BY <1>2, <1>4 DEF SteadyInv

LEMMA LoadKingdomQuiet ==
    ASSUME KingdomsTypeInv, SteadyInv, NEW r \in Root, LoadKingdom(r), ~hurried'
    PROVE  SteadyInv'
<1>1. UNCHANGED <<realm, rail, disk, seq, begin, turns>> /\ ~AtWork
    BY DEF LoadKingdom
<1>2. turns = {} /\ \A d \in Deed : ~Pending(d)
    BY <1>1 DEF AtWork, Pending
<1>3. PICK lost \in SUBSET Recorded(r) : ReadRecords(r, lost)
    BY DEF LoadKingdom
<1>4. /\ opening'.root = r /\ opening'.rail = Loaded(r, lost) /\ opening'.counted = FALSE
      /\ \A m \in lost : disk[r][m].deed \in unread'
      /\ \A e \in unread : e \in unread' \/
            \E m \in Numbers : disk[r][m] # NoPlan /\ disk[r][m].deed = e
    BY <1>3, ReadFacts
<1>5. DiskInv' /\ RailedInv'
  <2>1. \A e \in unread : e \in unread' \/
            \E x \in Root \cup {Nowhere} : \E m \in Numbers :
                disk[x][m] # NoPlan /\ disk[x][m].deed = e
      BY <1>4
  <2> QED
      BY <1>1, <2>1, DiskStays, RailStays DEF SteadyInv
<1>6. TurnsInv'
    BY <1>1, <1>2 DEF TurnsInv
<1>7. Recorded(r)' = Recorded(r)
    BY <1>1 DEF Recorded
<1>8. AssembledInv'
  <2>1. (lost \in SUBSET Recorded(opening.root))'
      BY <1>4, <1>7
  <2>2. (opening.rail = Loaded(opening.root, lost))'
      BY <1>1, <1>4 DEF Loaded, Recorded
  <2>3. (\A m \in lost : Free(opening.root, m))'
      BY <1>1, <1>4 DEF Free
  <2> QED
      BY <1>1, <1>2, <1>4, <2>1, <2>2, <2>3 DEF AssembledInv, Pending
<1>9. opening' # NotOpening
    BY <1>4, KingdomsAssumption DEF NotOpening, Nowhere
<1>10. NumberInv'
    BY <1>1, <1>2, <1>9 DEF NumberInv, Pending
<1> QED
    BY <1>5, <1>6, <1>8, <1>10 DEF SteadyInv

LEMMA CountPlansQuiet ==
    ASSUME KingdomsTypeInv, SteadyInv, CountPlans
    PROVE  SteadyInv'
<1>1. /\ opening # NotOpening /\ UNCHANGED <<realm, rail, disk, begin, turns, unread>>
      /\ seq' = NextNumber(opening.rail) /\ opening' = [opening EXCEPT !.counted = TRUE]
    BY DEF CountPlans
<1>2. opening \in [root : Root, rail : Seq(PlanType), counted : BOOLEAN]
    BY <1>1 DEF KingdomsTypeInv
<1>3. opening'.root = opening.root /\ opening'.rail = opening.rail /\ opening.root \in Root
    BY <1>1, <1>2
<1>4. turns = {} /\ \A d \in Deed : ~Pending(d)
    BY <1>1 DEF AssembledInv, SteadyInv
<1>a. PICK lost \in SUBSET Recorded(opening.root) :
          opening.rail = Loaded(opening.root, lost) /\ \A m \in lost : Free(opening.root, m)
    BY <1>1 DEF AssembledInv, SteadyInv
<1>5. DiskInv' /\ RailedInv' /\ TurnsInv'
    BY <1>1, DiskStays, RailStays DEF SteadyInv, TurnsInv
<1>6. (\E x \in SUBSET Recorded(opening.root) :
          opening.rail = Loaded(opening.root, x) /\ \A m \in x : Free(opening.root, m))'
  <2>1. (lost \in SUBSET Recorded(opening.root))'
      BY <1>1, <1>3, <1>a DEF Recorded
  <2>2. (opening.rail = Loaded(opening.root, lost))'
      BY <1>1, <1>3, <1>a DEF Loaded, Recorded
  <2>3. (\A m \in lost : Free(opening.root, m))'
      BY <1>1, <1>3, <1>a DEF Free
  <2> QED
      BY <2>1, <2>2, <2>3
<1>7. seq' = NextNumber(opening'.rail)
    BY <1>1, <1>3
<1>8. AssembledInv'
    BY <1>1, <1>4, <1>6, <1>7 DEF AssembledInv, Pending
<1>9. opening' # NotOpening
    BY <1>3, KingdomsAssumption DEF NotOpening, Nowhere
<1>10. NumberInv'
    BY <1>1, <1>4, <1>9 DEF NumberInv, Pending
<1> QED
    BY <1>5, <1>8, <1>10 DEF SteadyInv

LEMMA SeatKingdomQuiet ==
    ASSUME KingdomsTypeInv, SteadyInv, SeatKingdom
    PROVE  SteadyInv'
<1> DEFINE r == opening.root
<1>1. /\ opening.counted /\ realm' = r /\ rail' = opening.rail /\ opening' = NotOpening
      /\ UNCHANGED <<disk, seq, begin, turns, unread>>
    BY DEF SeatKingdom
<1>2. opening # NotOpening
    BY <1>1 DEF NotOpening
<1>3. r \in Root /\ opening.rail \in Seq(PlanType)
    BY <1>2 DEF KingdomsTypeInv
<1>a. PICK lost \in SUBSET Recorded(r) :
          opening.rail = Loaded(r, lost) /\ \A m \in lost : Free(r, m)
    BY <1>2 DEF AssembledInv, SteadyInv
<1> DEFINE L == Loaded(r, lost)
<1>4. /\ turns = {} /\ \A d \in Deed : ~Pending(d)
      /\ opening.rail = L /\ seq = NextNumber(opening.rail)
    BY <1>1, <1>2, <1>a DEF AssembledInv, SteadyInv
<1>5. /\ \A i \in DOMAIN L : /\ L[i].n \in Numbers /\ disk[r][L[i].n] \in PlanType
                             /\ L[i] = Reconciled(disk[r][L[i].n])
      /\ \A i, j \in DOMAIN L : L[i].n = L[j].n => i = j
      /\ \A m \in Numbers : disk[r][m] # NoPlan => m \in lost \/ \E i \in DOMAIN L : L[i].n = m
    BY <1>3, LoadedFacts
<1>6. rail' = L /\ \A i \in DOMAIN L : L[i].n < seq
  <2>1. \A i \in DOMAIN opening.rail : opening.rail[i].n < NextNumber(opening.rail)
      BY <1>3, NextNumberFacts
  <2>2. \A i \in DOMAIN opening.rail : opening.rail[i].n < seq
      BY <1>4, <2>1
  <2>3. rail' = L /\ opening.rail = L
      BY <1>1, <1>4
  <2> HIDE DEF L
  <2> QED
      BY <2>2, <2>3
<1> HIDE DEF L, r
<1>7. DiskInv'
    BY <1>1, DiskStays DEF SteadyInv
<1>8. ASSUME NEW i \in DOMAIN L
      PROVE  /\ begin[L[i].deed].at = "begun" /\ begin[L[i].deed].root = r
             /\ begin[L[i].deed].n = L[i].n /\ L[i].hands \subseteq {L[i].deed}
             /\ disk[r][L[i].n].deed = L[i].deed
             /\ Reconciled(disk[r][L[i].n]) = Reconciled(L[i])
  <2> DEFINE x == disk[r][L[i].n]
  <2>1. x \in PlanType /\ L[i] = Reconciled(x) /\ L[i].n \in Numbers
      BY <1>5
  <2>2. x # NoPlan
      BY <2>1, KingdomsAssumption DEF PlanType, NoPlan
  <2>3. /\ x.hands \subseteq {x.deed} /\ begin[x.deed].at = "begun"
        /\ begin[x.deed].root = r /\ begin[x.deed].n = L[i].n
      BY <1>3, <2>1, <2>2 DEF DiskInv, SteadyInv
  <2> HIDE DEF x
  <2>4. L[i].deed = x.deed /\ L[i].hands = x.hands /\ Reconciled(L[i]) = Reconciled(x)
      BY <2>1, ReconciledFacts
  <2> QED
      BY <2>3, <2>4 DEF x
<1>9. RailedInv'
    BY <1>1, <1>5, <1>6, <1>8 DEF RailedInv
<1>10. AssembledInv' /\ TurnsInv'
    BY <1>1, <1>4 DEF AssembledInv, TurnsInv
<1>11. NumberInv'
  <2>1. ASSUME NEW m \in Numbers PROVE Free(r, m) \/ m < seq
    <3>1. disk[r][m] # NoPlan => m \in lost \/ \E i \in DOMAIN L : L[i].n = m
        BY <1>5
    <3>2. CASE disk[r][m] = NoPlan \/ m \in lost
        BY <1>a, <3>2 DEF Free
    <3>3. CASE \E i \in DOMAIN L : L[i].n = m
        BY <1>6, <3>3
    <3> QED
        BY <3>1, <3>2, <3>3
  <2>3. \A m \in Numbers : Free(realm, m)' = Free(r, m)
      BY <1>1 DEF Free
  <2> QED
      BY <1>1, <1>4, <1>5, <1>6, <1>8, <2>1, <2>3 DEF NumberInv, Pending
<1> QED
    BY <1>7, <1>9, <1>10, <1>11 DEF SteadyInv

LEMMA LeaveOpenKingdomQuiet ==
    ASSUME KingdomsTypeInv, SteadyInv, LeaveOpenKingdom, ~hurried'
    PROVE  SteadyInv'
<1>1. /\ UNCHANGED <<disk, seq, begin, turns, opening, unread>> /\ ~AtWork /\ opening = NotOpening
      /\ realm' = Nowhere /\ rail' = <<>>
    BY DEF LeaveOpenKingdom
<1>2. turns = {} /\ \A d \in Deed : ~Pending(d)
    BY <1>1 DEF AtWork, Pending
<1>3. DiskInv'
    BY <1>1, DiskStays DEF SteadyInv
<1>4. RailedInv'
    BY <1>1 DEF RailedInv
<1>5. AssembledInv' /\ TurnsInv'
    BY <1>1, <1>2 DEF AssembledInv, TurnsInv
<1>6. \A m \in Numbers : disk[Nowhere][m] = NoPlan
    BY NowhereBare DEF SteadyInv
<1>7. NumberInv'
    BY <1>1, <1>2, <1>6 DEF NumberInv, Pending, Free
<1> QED
    BY <1>3, <1>4, <1>5, <1>7 DEF SteadyInv

LEMMA DieQuiet ==
    ASSUME KingdomsTypeInv, SteadyInv, Die
    PROVE  SteadyInv'
<1>1. realm' = Nowhere /\ rail' = <<>> /\ turns' = {} /\ disk' = disk
    BY DEF Die
<1>2. \A x \in BeginOf : LET y == [x EXCEPT !.at = "over"]
                         IN  y.at = "over" /\ y.saved = x.saved
    BY DEF BeginOf
<1>3. \A d \in Deed : /\ begin[d].at \in {"numbered", "cutting"} =>
                            begin'[d].at = "over" /\ begin'[d].saved = begin[d].saved
                      /\ begin[d].at \notin {"numbered", "cutting"} => begin'[d] = begin[d]
    BY <1>2 DEF Die, KingdomsTypeInv
<1>4. \A d \in Deed : ~Pending(d)'
    BY <1>3 DEF Pending
<1>5. AssembledInv' /\ \A e \in unread : e \in unread' \/
            \E x \in Root \cup {Nowhere} : \E m \in Numbers :
                disk[x][m] # NoPlan /\ disk[x][m].deed = e
  <2>1. CASE last = Nowhere
      BY <2>1 DEF Die, AssembledInv
  <2>2. CASE last # Nowhere
    <3>1. last \in Root
        BY <2>2 DEF KingdomsTypeInv
    <3>2. PICK lost \in SUBSET Recorded(last) : ReadRecords(last, lost)
        BY <2>2 DEF Die
    <3>3. /\ opening'.root = last /\ opening'.rail = Loaded(last, lost)
          /\ opening'.counted = FALSE
          /\ \A m \in lost : disk[last][m].deed \in unread'
          /\ \A e \in unread : e \in unread' \/
                \E m \in Numbers : disk[last][m] # NoPlan /\ disk[last][m].deed = e
        BY <3>1, <3>2, ReadFacts
    <3>5. AssembledInv'
      <4>1. (lost \in SUBSET Recorded(opening.root))'
          BY <1>1, <3>3 DEF Recorded
      <4>2. (opening.rail = Loaded(opening.root, lost))'
          BY <1>1, <3>3 DEF Loaded, Recorded
      <4>3. (\A m \in lost : Free(opening.root, m))'
          BY <1>1, <3>3 DEF Free
      <4> QED
          BY <1>1, <1>4, <3>3, <4>1, <4>2, <4>3 DEF AssembledInv
    <3> QED
        BY <3>1, <3>3, <3>5
  <2> QED
      BY <2>1, <2>2
<1>6. DiskInv'
    BY <1>1, <1>3, <1>5, DiskStays DEF SteadyInv
<1>7. RailedInv' /\ TurnsInv'
    BY <1>1 DEF RailedInv, TurnsInv
<1>8. \A m \in Numbers : disk[Nowhere][m] = NoPlan
    BY NowhereBare DEF SteadyInv
<1>9. NumberInv'
    BY <1>1, <1>4, <1>8 DEF NumberInv, Free
<1> QED
    BY <1>5, <1>6, <1>7, <1>9 DEF SteadyInv

LEMMA KingdomsInvNext ==
    ASSUME KingdomsInv, [KNext]_kvars
    PROVE  KingdomsInv'
<1>0. KingdomsTypeInv' /\ KingdomsTypeInv
    BY KingdomsTypeInvNext DEF KingdomsInv
<1> SUFFICES ASSUME ~hurried' PROVE SteadyInv'
    BY SMTT(60), <1>0 DEF KingdomsInv
<1>a. hurried => hurried'
    BY DEF KNext, TakeNumber, FindCity, WorkspaceRefused, PushPlan, BeginTurn, TurnWrites,
       TurnLosesPlan, LoadKingdom, CountPlans, SeatKingdom, LeaveOpenKingdom, Die, kvars
<1>b. SteadyInv
    BY <1>a DEF KingdomsInv
<1>1. ASSUME NEW d \in Deed, TakeNumber(d) PROVE SteadyInv'
    BY <1>0, <1>b, <1>1, TakeNumberQuiet
<1>2. ASSUME NEW d \in Deed, FindCity(d) PROVE SteadyInv'
    BY <1>0, <1>b, <1>2, FindCityQuiet
<1>3. ASSUME NEW d \in Deed, WorkspaceRefused(d) PROVE SteadyInv'
    BY <1>0, <1>b, <1>3, WorkspaceRefusedQuiet
<1>4. ASSUME NEW d \in Deed, PushPlan(d) PROVE SteadyInv'
    BY <1>0, <1>b, <1>4, PushPlanQuiet
<1>5. ASSUME NEW n \in Numbers, BeginTurn(n) PROVE SteadyInv'
    BY <1>0, <1>b, <1>5, BeginTurnQuiet
<1>6. ASSUME NEW t \in turns, TurnWrites(t) PROVE SteadyInv'
    BY <1>0, <1>b, <1>6, TurnWritesQuiet
<1>7. ASSUME NEW t \in turns, TurnLosesPlan(t) PROVE SteadyInv'
    BY <1>0, <1>b, <1>7, TurnLosesPlanQuiet
<1>8. ASSUME NEW r \in Root, LoadKingdom(r) PROVE SteadyInv'
    BY <1>0, <1>b, <1>8, LoadKingdomQuiet
<1>9. CASE CountPlans
    BY <1>0, <1>b, <1>9, CountPlansQuiet
<1>10. CASE SeatKingdom
    BY <1>0, <1>b, <1>10, SeatKingdomQuiet
<1>11. CASE LeaveOpenKingdom
    BY <1>0, <1>b, <1>11, LeaveOpenKingdomQuiet
<1>12. CASE Die
    BY <1>0, <1>b, <1>12, DieQuiet
<1>13. CASE UNCHANGED kvars
  <2>1. UNCHANGED <<realm, rail, disk, seq, begin, turns, opening, unread>>
      BY <1>13 DEF kvars
  <2>2. DiskInv' /\ RailedInv'
      BY <1>0, <1>b, <2>1, DiskStays, RailStays DEF SteadyInv
  <2>4. AssembledInv'
      BY <1>b, <2>1 DEF AssembledInv, SteadyInv, Pending, Loaded, Recorded, Free
  <2>5. TurnsInv' /\ NumberInv'
      BY <1>b, <2>1 DEF TurnsInv, NumberInv, SteadyInv, Pending, Free
  <2> QED
      BY <2>2, <2>4, <2>5 DEF SteadyInv
<1> QED
    BY <1>1, <1>2, <1>3, <1>4, <1>5, <1>6, <1>7, <1>8, <1>9, <1>10, <1>11, <1>12, <1>13 DEF KNext

LEMMA KingdomsInvInit == KInit => KingdomsInv
<1> SUFFICES ASSUME KInit PROVE KingdomsInv
    OBVIOUS
<1>1. NoBegin \in BeginOf /\ NoBegin.at = "idle" /\ NoBegin.saved = FALSE
    BY DEF NoBegin, BeginOf
<1>2. /\ realm = Nowhere /\ rail = <<>> /\ seq = 1 /\ turns = {} /\ opening = NotOpening
      /\ last = Nowhere /\ hurried \in BOOLEAN /\ unread = {}
      /\ \A r \in Root \cup {Nowhere} : \A m \in Numbers : disk[r][m] = NoPlan
      /\ disk \in [Root \cup {Nowhere} -> [Numbers -> PlanType \cup {NoPlan}]]
      /\ begin \in [Deed -> BeginOf] /\ \A d \in Deed : begin[d] = NoBegin
    BY <1>1 DEF KInit
<1>3. KingdomsTypeInv
  <2>0. rail \in Seq(PlanType)
      BY <1>2, EmptySeq
  <2>1. /\ rail \in Seq(PlanType) /\ seq \in Nat \ {0} /\ hurried \in BOOLEAN
        /\ unread \subseteq Deed
        /\ realm \in Root \cup {Nowhere} /\ last \in Root \cup {Nowhere}
      BY <1>2, <2>0
  <2>2. \A d \in Deed : begin[d].at \notin {"numbered", "cutting", "begun"}
      BY <1>1, <1>2
  <2> QED
      BY <1>2, <2>1, <2>2 DEF KingdomsTypeInv
<1>4. DiskInv /\ RailedInv /\ TurnsInv /\ AssembledInv
    BY <1>1, <1>2 DEF DiskInv, RailedInv, TurnsInv, AssembledInv
<1>5. NumberInv
    BY <1>1, <1>2 DEF NumberInv, Pending, Free
<1> QED
    BY <1>3, <1>4, <1>5 DEF KingdomsInv, SteadyInv

LEMMA KingdomsInductive == KSpec => []KingdomsInv
<1>1. KInit => KingdomsInv
    BY KingdomsInvInit
<1>2. KingdomsInv /\ [KNext]_kvars => KingdomsInv'
    BY KingdomsInvNext
<1> QED
    BY <1>1, <1>2, PTL DEF KSpec

\* As long as kingdoms change only while nothing is at work, no plan is ever
\* written over by another unless the reading that opened its kingdom skipped
\* its record, a plan in memory is on disk as it stands or says that it is not, a
\* turn writes into its own plan alone, and no two plans of a kingdom go by one
\* number (api.rs, assemble, remember and update; store.rs, load).
THEOREM NoPlanIsOverwritten == KSpec => []EveryPlanIsKept
<1>1. KingdomsInv => EveryPlanIsKept
    BY DEF KingdomsInv, SteadyInv, DiskInv, RailedInv, EveryPlanIsKept
<1> QED
    BY <1>1, KingdomsInductive, PTL

-----------------------------------------------------------------------------
(* The types.                                                              *)

(* The variables of an ending keep to the values the code gives them, for  *)
(* any number of requests and faults.                                      *)
THEOREM EndingsTypeCorrect == NSpec => []NTypeOK
BY EndingsInductive, PTL

(* What the wells' invariant leaves out of their types.                    *)
WellsBounds ==
    /\ granted \subseteq alive /\ users \in [Services -> SUBSET Drawer]
    /\ daemon \in BOOLEAN /\ overtaken \in BOOLEAN /\ excused \subseteq Services
    /\ count \in 0 .. MaxPasses /\ mishaps \in 0 .. MaxMishaps

LEMMA WellsBoundsNext ==
    ASSUME WellsInv, WellsBounds, [LNext]_lvars
    PROVE  WellsBounds'
<1>0. /\ alive \subseteq Drawer
      /\ pass = <<>> \/ (pass \in PassType /\ pass.people \subseteq Drawer)
      /\ container \in [Services -> {"absent", "starting", "ready", "stopped", "dead"}]
      /\ count \in Nat /\ mishaps \in Nat /\ MaxPasses \in Nat /\ MaxMishaps \in Nat
    BY WellsAssumption DEF WellsInv, WellsTypeInv, PassType
<1> USE DEF WellsBounds
<1>2. ASSUME NEW a \in Drawer, OpenPlan(a) PROVE WellsBounds'
    BY <1>0, <1>2 DEF OpenPlan, Spawn
<1>3. ASSUME NEW a \in Drawer, FinishPlan(a) PROVE WellsBounds'
    BY <1>0, <1>3 DEF FinishPlan, Spawn
<1>4. ASSUME NEW a \in Drawer, Require(a) PROVE WellsBounds'
    BY <1>0, <1>4 DEF Require
<1>5. CASE LeaveKingdom
    BY <1>0, <1>5 DEF LeaveKingdom, Spawn
<1>6. ASSUME NEW p \in spawned, Begin(p) PROVE WellsBounds'
    BY <1>6 DEF Begin
<1>7. CASE RaiseScope \/ EndPass \/ DaemonReturns
    BY <1>7 DEF RaiseScope, EndPass, DaemonReturns
<1>8. CASE StandByHand
    BY <1>8 DEF StandByHand
<1>9. CASE EnsureOne
    BY <1>9 DEF EnsureOne
<1>10. CASE Answered
    BY <1>10 DEF Answered
<1>11. CASE NotAnswered
  <2>1. Head(pass.todo) \in Services
    <3>1. pass \in PassType /\ pass.todo # <<>>
        BY <1>0, <1>11 DEF NotAnswered, In, WellsInv, StageInv
    <3>2. pass.todo \in Seq(Services)
        BY <3>1 DEF PassType
    <3> QED
        BY <3>1, <3>2
  <2> QED
      BY <1>11, <2>1 DEF NotAnswered
<1>12. CASE RecordRaised
  <2>1. DrawersOf(pass.people, Scope) \subseteq Drawer
      BY <1>0, <1>12 DEF RecordRaised, ScopeDone, In, DrawersOf
  <2> QED
      BY <1>12, <2>1 DEF RecordRaised
<1>13. CASE Orphan
    BY <1>13 DEF Orphan
<1>14. CASE DaemonGoes
  <2>1. mishaps' \in 0 .. MaxMishaps
      BY <1>0, <1>14 DEF DaemonGoes, Mishap
  <2>2. /\ granted' = granted /\ alive' = alive /\ users' = users /\ daemon' = FALSE
        /\ overtaken' = overtaken /\ excused' = excused /\ count' = count
      BY <1>14 DEF DaemonGoes
  <2> QED
      BY <2>1, <2>2
<1>18. ASSUME NEW s \in Services, Dies(s) PROVE WellsBounds'
    BY <1>0, <1>18 DEF Dies, Mishap
<1>15. CASE RestartCourt
    BY <1>0, <1>15 DEF RestartCourt, Mishap
<1>16. ASSUME NEW s \in Services, ComeUp(s) \/ StopOne(s) PROVE WellsBounds'
    BY <1>16 DEF ComeUp, StopOne
<1>17. CASE UNCHANGED lvars
    BY <1>17 DEF lvars
<1> QED
    BY <1>2, <1>3, <1>4, <1>5, <1>6, <1>7, <1>8, <1>9, <1>10, <1>11, <1>12, <1>13, <1>14, <1>15,
       <1>16, <1>17, <1>18 DEF LNext

(* The variables of the wells keep to the values the code gives them, for  *)
(* any number of passes and mishaps.                                       *)
THEOREM WellsTypeCorrect == LSpec => []LTypeOK
<1>1. LInit => WellsBounds
  <2> SUFFICES ASSUME LInit PROVE WellsBounds
      OBVIOUS
  <2>1. 0 \in 0 .. MaxPasses /\ 0 \in 0 .. MaxMishaps
      BY WellsAssumption
  <2> QED
      BY <2>1 DEF LInit, WellsBounds
<1>2. WellsInv /\ WellsBounds /\ [LNext]_lvars => WellsBounds'
    BY WellsBoundsNext
<1>3. WellsInv /\ WellsBounds => LTypeOK
  <2> SUFFICES ASSUME WellsInv, WellsBounds PROVE LTypeOK
      OBVIOUS
  <2>1. spawned \subseteq [people : SUBSET Drawer, no : 1 .. MaxPasses]
    <3>1. \A p \in spawned : p \in [people : SUBSET Drawer, no : Nat] /\ p.no \in 1 .. count
        BY DEF WellsInv, WellsTypeInv, NewestInv
    <3>2. \A k \in 1 .. count : k \in 1 .. MaxPasses
        BY WellsAssumption DEF WellsBounds
    <3> QED
        BY <3>1, <3>2
  <2>2. ran \in 0 .. MaxPasses
      BY WellsAssumption DEF WellsInv, WellsTypeInv, NewestInv, WellsBounds
  <2> QED
      BY <2>1, <2>2 DEF WellsInv, WellsTypeInv, PassType, WellsBounds, LTypeOK
<1> QED
    BY <1>1, <1>2, <1>3, WellsInductive, PTL DEF LSpec

(* The variables of the kingdoms keep to the values the code gives them,   *)
(* for any number of plans, openings and failures.                         *)
THEOREM KingdomsTypeCorrect == KSpec => []KTypeOK
<1> DEFINE Inv == seq \in 1 .. Cardinality(Deed) + 2
<1>1. KInit => Inv
    BY SMTT(60), NumbersFacts DEF KInit
<1>2. KingdomsInv /\ Inv /\ [KNext]_kvars => Inv'
  <2> SUFFICES ASSUME KingdomsInv, Inv, [KNext]_kvars PROVE Inv'
      OBVIOUS
  <2>0. KingdomsTypeInv /\ Cardinality(Deed) \in Nat
      BY NumbersFacts DEF KingdomsInv
  <2>1. ASSUME NEW d \in Deed, TakeNumber(d) PROVE Inv'
      BY <2>0, <2>1 DEF TakeNumber, Numbers
  <2>2. CASE CountPlans
    <3> DEFINE plans == opening.rail
    <3>1. plans \in Seq(PlanType) /\ seq' = NextNumber(plans)
        BY <2>0, <2>2 DEF CountPlans, KingdomsTypeInv
    <3> HIDE DEF plans
    <3>2. \A i \in DOMAIN plans : plans[i].n \in Numbers
      <4>1. \A i \in DOMAIN plans : plans[i] \in PlanType
          BY <3>1
      <4> QED
          BY <4>1 DEF PlanType
    <3>3. CASE plans = <<>>
        BY <2>0, <3>1, <3>3 DEF NextNumber
    <3>4. CASE plans # <<>>
      <4> DEFINE S == {plans[i].n : i \in DOMAIN plans}
                 K == Cardinality(Deed) + 1
      <4>1. S \in SUBSET (1 .. K) /\ S # {} /\ K \in Nat
          BY <2>0, <3>1, <3>2, <3>4 DEF Numbers
      <4> HIDE DEF S, K
      <4>2. Max(S) \in 1 .. K
          BY <4>1, MaxIsHighest
      <4>3. seq' = Max(S) + 1
          BY <3>1, <3>4 DEF NextNumber, S
      <4> QED
          BY <2>0, <4>2, <4>3 DEF K
    <3> QED
        BY <3>3, <3>4
  <2>3. CASE Die
      BY <2>0, <2>3 DEF Die
  <2>4. CASE UNCHANGED seq
      BY <2>4
  <2> QED
      BY <2>1, <2>2, <2>3, <2>4
         DEF KNext, kvars, FindCity, WorkspaceRefused, PushPlan, BeginTurn, TurnWrites,
             TurnLosesPlan, LoadKingdom, SeatKingdom, LeaveOpenKingdom
<1>3. KingdomsInv /\ Inv => KTypeOK
  <2> SUFFICES ASSUME KingdomsInv, Inv PROVE KTypeOK
      OBVIOUS
  <2>1. PlanType \subseteq PlanRecords /\ NoPlan \in PlanRecords
      BY DEF PlanType, PlanRecords, NoPlan
  <2>2. rail \in Seq(PlanRecords)
      BY <2>1 DEF KingdomsInv, KingdomsTypeInv
  <2>3. disk \in [Root \cup {Nowhere} -> [Numbers -> PlanRecords]]
      BY <2>1 DEF KingdomsInv, KingdomsTypeInv
  <2> QED
      BY <2>2, <2>3 DEF KingdomsInv, KingdomsTypeInv, BeginOf, KTypeOK
<1> HIDE DEF Inv
<1> QED
    BY <1>1, <1>2, <1>3, KingdomsInductive, PTL DEF KSpec
=============================================================================
