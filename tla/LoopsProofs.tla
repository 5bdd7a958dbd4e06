----------------------------- MODULE LoopsProofs -----------------------------
(***************************************************************************)
(* What is proved where the code loops over lists.  A plan's fence is what *)
(* the King ticked and what its court is told, for every manifest and any  *)
(* number of ticks; a request leaves out only what it must, and is asked   *)
(* again only so often and never larger, for every conversation, budget    *)
(* and limit.  What a loop computes is proved of the recursive function it *)
(* is modelled by, by induction over a set of numbers.                     *)
(***************************************************************************)
EXTENDS Fences, Requests, Recursions, FiniteSetTheorems, TLAPS

-----------------------------------------------------------------------------
(* Lists of folders.                                                       *)

LEMMA SeqFacts ==
    ASSUME NEW list \in Seq(Mount)
    PROVE  /\ Len(list) \in Nat /\ DOMAIN list = 1 .. Len(list)
           /\ \A i \in DOMAIN list : list[i] \in Mount
           /\ ToSet(list) \subseteq Mount /\ Folders(list) \subseteq Folder
           /\ \A m : m \in ToSet(list) <=> \E i \in DOMAIN list : m = list[i]
           /\ \A f : f \in Folders(list) <=> \E i \in DOMAIN list : f = list[i].folder
<1>1. /\ Len(list) \in Nat /\ DOMAIN list = 1 .. Len(list)
      /\ \A i \in DOMAIN list : list[i] \in Mount
    BY LenProperties, ElementOfSeq
<1>2. \A m : m \in ToSet(list) <=> \E i \in DOMAIN list : m = list[i]
    BY DEF ToSet
<1>3. ToSet(list) \subseteq Mount
    BY <1>1, <1>2
<1>4. \A f : f \in Folders(list) <=> \E i \in DOMAIN list : f = list[i].folder
    BY <1>2 DEF Folders
<1>5. Folders(list) \subseteq Folder
    BY <1>1, <1>4 DEF Mount
<1> QED
    BY <1>1, <1>2, <1>3, <1>4, <1>5

LEMMA AppendFacts ==
    ASSUME NEW list \in Seq(Mount), NEW m \in Mount
    PROVE  /\ Append(list, m) \in Seq(Mount)
           /\ ToSet(Append(list, m)) = ToSet(list) \cup {m}
<1> DEFINE long == Append(list, m)
           n == Len(list) + 1
<1>1. /\ long \in Seq(Mount) /\ Len(list) \in Nat /\ DOMAIN list = 1 .. Len(list)
      /\ DOMAIN long = 1 .. n /\ long[n] = m
      /\ \A i \in 1 .. Len(list) : long[i] = list[i]
    OBVIOUS
<1>2. /\ n \in 1 .. n /\ \A i \in 1 .. n : i = n \/ i \in 1 .. Len(list)
      /\ \A i \in 1 .. Len(list) : i \in 1 .. n
    BY <1>1
<1> HIDE DEF long, n
<1>3. ToSet(long) = ToSet(list) \cup {m}
    BY <1>1, <1>2 DEF ToSet
<1> QED
    BY <1>1, <1>3 DEF long

LEMMA ConcatFacts ==
    ASSUME NEW s \in Seq(Mount), NEW t \in Seq(Mount)
    PROVE  s \o t \in Seq(Mount) /\ ToSet(s \o t) = ToSet(s) \cup ToSet(t)
<1> DEFINE long == s \o t
           k == Len(s)
           n == Len(t)
<1>1. /\ long \in Seq(Mount) /\ k \in Nat /\ n \in Nat
      /\ DOMAIN s = 1 .. k /\ DOMAIN t = 1 .. n /\ DOMAIN long = 1 .. k + n
      /\ \A i \in 1 .. k + n : long[i] = IF i <= k THEN s[i] ELSE t[i - k]
    BY ConcatProperties
<1> HIDE DEF long, k, n
<1>2. /\ \A i \in 1 .. k : i \in 1 .. k + n /\ long[i] = s[i]
      /\ \A i \in 1 .. n : k + i \in 1 .. k + n /\ long[k + i] = t[i]
      /\ \A i \in 1 .. k + n : \/ i \in 1 .. k /\ long[i] = s[i]
                               \/ i - k \in 1 .. n /\ long[i] = t[i - k]
  <2>1. ASSUME NEW i \in 1 .. k PROVE i \in 1 .. k + n /\ long[i] = s[i]
      BY <1>1
  <2>2. ASSUME NEW i \in 1 .. n PROVE k + i \in 1 .. k + n /\ long[k + i] = t[i]
    <3> DEFINE j == k + i
    <3>1. j \in 1 .. k + n /\ ~(j <= k) /\ j - k = i
        BY <1>1
    <3> HIDE DEF j
    <3>2. long[j] = t[i]
        BY <1>1, <3>1
    <3> QED
        BY <3>1, <3>2 DEF j
  <2>3. ASSUME NEW i \in 1 .. k + n
        PROVE  \/ i \in 1 .. k /\ long[i] = s[i]
               \/ i - k \in 1 .. n /\ long[i] = t[i - k]
      BY <1>1
  <2> QED
      BY <2>1, <2>2, <2>3
<1>3. ASSUME NEW m PROVE m \in ToSet(long) <=> m \in ToSet(s) \cup ToSet(t)
  <2>1. ASSUME NEW i \in 1 .. k + n, m = long[i] PROVE m \in ToSet(s) \cup ToSet(t)
      BY <1>1, <1>2, <2>1 DEF ToSet
  <2>2. ASSUME NEW i \in 1 .. k, m = s[i] PROVE m \in ToSet(long)
      BY <1>1, <1>2, <2>2 DEF ToSet
  <2>3. ASSUME NEW i \in 1 .. n, m = t[i] PROVE m \in ToSet(long)
      BY <1>1, <1>2, <2>3 DEF ToSet
  <2> QED
      BY <1>1, <2>1, <2>2, <2>3 DEF ToSet
<1> QED
    BY <1>1, <1>3 DEF long

LEMMA NamedTwiceFacts ==
    ASSUME NEW list \in Seq(Mount), NEW m \in Mount
    PROVE  /\ NamedTwice(list, m) \in Seq(Mount)
           /\ Folders(NamedTwice(list, m)) = Folders(list) \cup {m.folder}
<1>1. CASE \E i \in DOMAIN list : SamePath(list[i], m)
  <2> DEFINE t == [i \in DOMAIN list |->
                      IF SamePath(list[i], m) /\ m.mode = "rw" THEN m ELSE list[i]]
  <2>1. NamedTwice(list, m) = t
      BY <1>1 DEF NamedTwice
  <2>2. \A i \in DOMAIN list : t[i] \in Mount /\ t[i].folder = list[i].folder
      BY SeqFacts DEF SamePath
  <2>3. DOMAIN t = 1 .. Len(list) /\ Len(list) \in Nat
      BY SeqFacts
  <2> HIDE DEF t
  <2>4. t \in Seq(Mount)
    <3>1. t \in [1 .. Len(list) -> Mount]
      BY <2>1, <2>2, <2>3, SeqFacts DEF t
    <3> QED
      BY <2>3, <3>1, SeqDef
  <2>5. Folders(t) = Folders(list)
    <3>1. \A f : f \in Folders(t) <=> \E i \in 1 .. Len(list) : f = t[i].folder
        BY <2>3, <2>4, SeqFacts
    <3>2. \A f : f \in Folders(list) <=> \E i \in 1 .. Len(list) : f = list[i].folder
        BY SeqFacts
    <3>3. \A i \in 1 .. Len(list) : t[i].folder = list[i].folder
        BY <2>2, SeqFacts
    <3> QED
        BY ZenonT(60), <3>1, <3>2, <3>3
  <2>6. m.folder \in Folders(list)
      BY <1>1, SeqFacts DEF SamePath
  <2> QED
      BY <2>1, <2>4, <2>5, <2>6
<1>2. CASE ~\E i \in DOMAIN list : SamePath(list[i], m)
  <2>1. NamedTwice(list, m) = Append(list, m)
      BY <1>2 DEF NamedTwice
  <2> QED
      BY <2>1, AppendFacts DEF Folders
<1> QED
    BY <1>1, <1>2

(* A list merged with itself names the folders it named.                   *)
LEMMA MergedFacts ==
    ASSUME NEW list \in Seq(Mount)
    PROVE  /\ MergedMounts(list) \in Seq(Mount)
           /\ Folders(MergedMounts(list)) = Folders(list)
<1> DEFINE N == Len(list)
           V == Seq(Mount)
           step == [p \in (1 .. N) \X V |-> NamedTwice(p[2], list[p[1]])]
           Named(k) == {list[i].folder : i \in 1 .. k}
<1>1. N \in Nat /\ DOMAIN list = 1 .. N /\ \A i \in 1 .. N : list[i] \in Mount
    BY SeqFacts
<1>2. Named(N) = Folders(list)
    BY <1>1, SeqFacts
<1> HIDE DEF N
<1>3. \A n \in 1 .. N, v \in V : step[<<n, v>>] \in V
    BY <1>1, NamedTwiceFacts
<1> DEFINE none == <<>>
<1>4. none \in V
    BY EmptySeq
<1>5. /\ \A n \in 1 .. N, v \in V : step[<<n, v>>] = NamedTwice(v, list[n])
    OBVIOUS
<1> HIDE DEF V, step, none
<1>6. PICK g : GoesOn(g, N, V, none, step)
    BY <1>1, <1>3, <1>4, Recursion
<1>7. \A n \in 1 .. N : n - 1 \in 0 .. N /\ g[n] = NamedTwice(g[n - 1], list[n])
  <2>1. \A n \in 1 .. N : n - 1 \in 0 .. N
      BY <1>1
  <2>2. \A n \in 1 .. N : g[n - 1] \in V /\ g[n] = step[<<n, g[n - 1]>>]
      BY <1>6, <2>1 DEF GoesOn
  <2> QED
      BY <1>5, <2>1, <2>2
<1>8. g = [n \in 0 .. N |-> IF n = 0 THEN <<>> ELSE NamedTwice(g[n - 1], list[n])]
    BY <1>1, <1>6, <1>7 DEF none, GoesOn
<1>9. PICK f : /\ f = [n \in 0 .. N |-> IF n = 0 THEN <<>> ELSE NamedTwice(f[n - 1], list[n])]
               /\ MergedMounts(list) = f[N]
    BY <1>8, Zenon DEF MergedMounts, N
<1> DEFINE S == {n \in 0 .. N : f[n] = g[n] /\ Folders(f[n]) = Named(n)}
<1>10. 0 \in S
  <2>1. Folders(<<>>) = {} /\ Named(0) = {}
      BY DEF Folders, ToSet
  <2>2. 0 \in 0 .. N
      BY <1>1
  <2>3. f[0] = <<>> /\ g[0] = <<>>
      BY <1>6, <1>9, <2>2 DEF none, GoesOn
  <2> HIDE DEF Named
  <2> QED
      BY <2>1, <2>2, <2>3
<1>11. ASSUME NEW n \in 0 .. N - 1, n \in S PROVE n + 1 \in S
  <2> DEFINE k == n + 1
  <2>1. k \in 1 .. N /\ k \in 0 .. N /\ k # 0 /\ k - 1 = n /\ n \in 0 .. N
      BY <1>1
  <2>2. Named(k) = Named(n) \cup {list[k].folder}
      BY <2>1
  <2> HIDE DEF k, Named
  <2>3. f[k] = NamedTwice(f[k - 1], list[k]) /\ g[k] = NamedTwice(g[k - 1], list[k])
      BY <1>7, <1>9, <2>1
  <2>4. g[n] \in Seq(Mount) /\ list[k] \in Mount
      BY <1>1, <1>6, <2>1 DEF V, GoesOn
  <2>5. f[n] = g[n] /\ Folders(g[n]) = Named(n)
      BY <1>11
  <2>6. f[k] = g[k] /\ Folders(g[k]) = Named(k)
      BY <2>1, <2>2, <2>3, <2>4, <2>5, NamedTwiceFacts
  <2> QED
      BY <2>1, <2>6 DEF k
<1>12. N \in S
  <2> HIDE DEF S
  <2> QED
      BY <1>1, <1>10, <1>11, UpTo
<1>13. N \in 0 .. N
    BY <1>1
<1> HIDE DEF Named
<1> QED
    BY <1>2, <1>6, <1>9, <1>12, <1>13 DEF V, GoesOn

(* What of a list is among some.                                           *)
LEMMA OnlyFacts ==
    ASSUME NEW list \in Seq(Mount), NEW some
    PROVE  /\ Only(list, some) \in Seq(Mount)
           /\ ToSet(Only(list, some)) = ToSet(list) \cap some
<1> DEFINE N == Len(list)
           V == Seq(Mount)
           Kept(v, m) == IF m \in some THEN Append(v, m) ELSE v
           step == [p \in (1 .. N) \X V |-> Kept(p[2], list[p[1]])]
           Named(k) == {list[i] : i \in 1 .. k} \cap some
<1>1. N \in Nat /\ DOMAIN list = 1 .. N /\ \A i \in 1 .. N : list[i] \in Mount
    BY SeqFacts
<1>2. Named(N) = ToSet(list) \cap some
    BY <1>1, SeqFacts
<1> HIDE DEF N
<1>3. \A n \in 1 .. N, v \in V : step[<<n, v>>] \in V
    BY <1>1, AppendFacts
<1> DEFINE none == <<>>
<1>4. none \in V
    BY EmptySeq
<1>5. /\ \A n \in 1 .. N, v \in V : step[<<n, v>>] = Kept(v, list[n])
    OBVIOUS
<1> HIDE DEF V, step, none
<1>6. PICK g : GoesOn(g, N, V, none, step)
    BY <1>1, <1>3, <1>4, Recursion
<1>7. \A n \in 1 .. N : n - 1 \in 0 .. N /\ g[n] = Kept(g[n - 1], list[n])
  <2>1. \A n \in 1 .. N : n - 1 \in 0 .. N
      BY <1>1
  <2>2. \A n \in 1 .. N : g[n - 1] \in V /\ g[n] = step[<<n, g[n - 1]>>]
      BY <1>6, <2>1 DEF GoesOn
  <2> HIDE DEF Kept
  <2> QED
      BY <1>5, <2>1, <2>2
<1>8. g = [n \in 0 .. N |-> IF n = 0 THEN <<>> ELSE Kept(g[n - 1], list[n])]
  <2>1. \A n \in 0 .. N : n = 0 \/ n \in 1 .. N
      BY <1>1
  <2>2. \A n \in 0 .. N : g[n] = IF n = 0 THEN <<>> ELSE Kept(g[n - 1], list[n])
    <3> HIDE DEF Kept
    <3> QED
      BY <1>6, <1>7, <2>1 DEF none, GoesOn
  <2> HIDE DEF Kept
  <2> QED
      BY <1>6, <2>2 DEF GoesOn
<1>9. PICK f : /\ f = [n \in 0 .. N |-> IF n = 0 THEN <<>> ELSE Kept(f[n - 1], list[n])]
               /\ Only(list, some) = f[N]
    BY <1>8, Zenon DEF Only, N
<1> DEFINE S == {n \in 0 .. N : f[n] = g[n] /\ ToSet(f[n]) = Named(n)}
<1>10. 0 \in S
  <2>1. ToSet(<<>>) = {} /\ Named(0) = {}
      BY DEF ToSet
  <2>2. 0 \in 0 .. N
      BY <1>1
  <2>3. f[0] = <<>> /\ g[0] = <<>>
      BY <1>6, <1>9, <2>2 DEF none, GoesOn
  <2> HIDE DEF Named
  <2> QED
      BY <2>1, <2>2, <2>3
<1>11. ASSUME NEW n \in 0 .. N - 1, n \in S PROVE n + 1 \in S
  <2> DEFINE k == n + 1
  <2>1. k \in 1 .. N /\ k \in 0 .. N /\ k # 0 /\ k - 1 = n /\ n \in 0 .. N
      BY <1>1
  <2>2. Named(k) = Named(n) \cup ({list[k]} \cap some)
      BY <2>1
  <2> HIDE DEF k, Named
  <2>3. f[k] = Kept(f[k - 1], list[k]) /\ g[k] = Kept(g[k - 1], list[k])
      BY <1>7, <1>9, <2>1
  <2>4. g[n] \in Seq(Mount) /\ list[k] \in Mount
      BY <1>1, <1>6, <2>1 DEF V, GoesOn
  <2>5. f[n] = g[n] /\ ToSet(g[n]) = Named(n)
      BY <1>11
  <2>6. ToSet(Kept(g[n], list[k])) = Named(k)
      BY <2>2, <2>4, <2>5, AppendFacts
  <2>7. f[k] = g[k] /\ ToSet(g[k]) = Named(k)
      BY <2>1, <2>3, <2>5, <2>6
  <2> QED
      BY <2>1, <2>7 DEF k
<1>12. N \in S
  <2> HIDE DEF S
  <2> QED
      BY <1>1, <1>10, <1>11, UpTo
<1>13. N \in 0 .. N
    BY <1>1
<1>14. g[N] \in Seq(Mount) /\ f[N] = g[N] /\ ToSet(f[N]) = Named(N)
    BY <1>6, <1>12, <1>13 DEF V, GoesOn
<1> HIDE DEF Named
<1> QED
    BY <1>2, <1>9, <1>14

-----------------------------------------------------------------------------
(* What is in the fence, and what was on the screen.                       *)

(* Of the places that name a folder one is the first.                      *)
LEMMA NamedFirst ==
    ASSUME NEW list \in Seq(Mount), NEW f \in Folders(list)
    PROVE  \E i \in DOMAIN list :
              list[i].folder = f /\ \A j \in 1 .. i - 1 : list[j].folder # f
<1> DEFINE T == {i \in DOMAIN list : list[i].folder = f}
<1>1. DOMAIN list = 1 .. Len(list) /\ Len(list) \in Nat /\ T # {}
    BY SeqFacts
<1>2. T \in SUBSET Nat
    BY <1>1
<1>3. PICK i \in T : \A j \in T : i <= j
    BY <1>1, <1>2, LeastNumber
<1>4. ASSUME NEW j \in 1 .. i - 1 PROVE list[j].folder # f
  <2>1. j \in DOMAIN list /\ ~(i <= j)
      BY <1>1, <1>3
  <2> QED
      BY <1>3, <2>1
<1> QED
    BY <1>3, <1>4

LEMMA AllowedFacts ==
    ASSUME NEW list \in Seq(Mount)
    PROVE  {m.folder : m \in WithAllowed(list)} = Folders(list) \cap present
<1>1. ASSUME NEW m \in WithAllowed(list) PROVE m.folder \in Folders(list) \cap present
    BY SeqFacts DEF WithAllowed
<1>2. ASSUME NEW f \in Folders(list) \cap present
      PROVE  \E m \in WithAllowed(list) : m.folder = f
  <2>1. PICK i \in DOMAIN list :
            list[i].folder = f /\ \A j \in 1 .. i - 1 : list[j].folder # f
      BY NamedFirst
  <2>2. list[i] \in WithAllowed(list)
      BY <2>1 DEF WithAllowed
  <2> QED
      BY <2>1, <2>2
<1> QED
    BY <1>1, <1>2

(* A row that is offered is of folders that are there, or of one; and the  *)
(* project's folders that are there are all offered.                       *)
LEMMA CandidateFacts ==
    ASSUME manifest.host \in Seq(Mount), manifest.city \in Seq(Mount)
    PROVE  /\ \A row \in MountCandidates :
                 /\ row.folders \in Seq(Mount) /\ row = Row(row.folders)
                 /\ \/ Folders(row.folders) \subseteq present
                    \/ \E f : Folders(row.folders) = {f}
           /\ \A f \in Folders(manifest.city) :
                 \E row \in MountCandidates : f \in Folders(row.folders)
<1> DEFINE there == {m \in Mount : m.folder \in present}
           found == {known \in KnownPaths : known[1].folder \in present}
           live == {Only(known, there) : known \in found}
           covered == UNION {Folders(list) : list \in live}
           declared == manifest.city \o manifest.host
           rest == {i \in DOMAIN declared :
                      /\ declared[i].folder \notin covered
                      /\ \A j \in 1 .. i - 1 : declared[j].folder # declared[i].folder}
           lists == live \cup {<<declared[i]>> : i \in rest}
<1>1. MountCandidates = {Row(list) : list \in lists}
    BY DEF MountCandidates
<1>2. declared \in Seq(Mount) /\ Folders(manifest.city) \subseteq Folders(declared)
    BY ConcatFacts DEF Folders
<1>3. \A i \in DOMAIN declared : declared[i] \in Mount
    BY <1>2, SeqFacts
<1>4. ASSUME NEW list \in live
      PROVE  list \in Seq(Mount) /\ Folders(list) \subseteq present
  <2>1. PICK known \in found : list = Only(known, there)
      OBVIOUS
  <2>2. known \in Seq(Mount)
    <3>1. Tilde(Cargo, "rw") \in Mount /\ Tilde(Rustup, "rw") \in Mount /\ Tilde(Secret, "ro") \in Mount
        BY DEF Tilde, Mount, Folder
    <3> DEFINE c == Tilde(Cargo, "rw")
               r == Tilde(Rustup, "rw")
               s == Tilde(Secret, "ro")
    <3>2. known = <<c, r>> \/ known = <<s>>
        BY DEF KnownPaths
    <3> HIDE DEF c, r, s
    <3>3. <<c, r>> \in Seq(Mount) /\ <<s>> \in Seq(Mount)
        BY <3>1 DEF c, r, s
    <3> QED
        BY <3>2, <3>3
  <2> HIDE DEF there
  <2>3. list \in Seq(Mount) /\ ToSet(list) \subseteq there
      BY <2>1, <2>2, OnlyFacts
  <2> QED
      BY <2>3 DEF Folders, there
<1>5. ASSUME NEW i \in rest
      PROVE  <<declared[i]>> \in Seq(Mount) /\ Folders(<<declared[i]>>) = {declared[i].folder}
  <2> DEFINE m == declared[i]
  <2>1. m \in Mount
      BY <1>3
  <2> HIDE DEF m
  <2>2. <<m>> \in Seq(Mount) /\ ToSet(<<m>>) = {m}
      BY <2>1 DEF ToSet
  <2>3. <<m>> \in Seq(Mount) /\ Folders(<<m>>) = {m.folder}
      BY <2>2 DEF Folders
  <2> QED
      BY <2>3 DEF m
<1>6. \A list : Row(list).folders = list
    BY DEF Row
<1>7. ASSUME NEW f \in Folders(manifest.city)
      PROVE  \E list \in lists : f \in Folders(list)
  <2>1. CASE f \in covered
      BY <2>1
  <2>2. CASE f \notin covered
    <3>1. PICK i \in DOMAIN declared :
              declared[i].folder = f /\ \A j \in 1 .. i - 1 : declared[j].folder # f
        BY <1>2, NamedFirst
    <3>2. i \in rest
        BY <2>2, <3>1
    <3> QED
        BY <1>5, <3>1, <3>2
  <2> QED
      BY <2>1, <2>2
<1>8. ASSUME NEW list \in lists
      PROVE  list \in Seq(Mount) /\ (Folders(list) \subseteq present \/ \E f : Folders(list) = {f})
  <2>1. CASE list \in live
      BY <1>4, <2>1
  <2>2. CASE \E i \in rest : list = <<declared[i]>>
    <3>1. PICK i \in rest : list = <<declared[i]>>
        BY ZenonT(60), <2>2
    <3> HIDE DEF declared, rest
    <3> QED
        BY ZenonT(60), <1>5, <3>1
  <2> QED
      BY <2>1, <2>2
<1> HIDE DEF lists
<1>9. ASSUME NEW row \in MountCandidates
      PROVE  /\ row.folders \in Seq(Mount) /\ row = Row(row.folders)
             /\ Folders(row.folders) \subseteq present \/ \E f : Folders(row.folders) = {f}
  <2>1. PICK list \in lists : row = Row(list)
      BY <1>1
  <2>2. row.folders = list
      BY <1>6, <2>1
  <2> QED
      BY <1>8, <2>1, <2>2
<1>10. ASSUME NEW f \in Folders(manifest.city)
       PROVE  \E row \in MountCandidates : f \in Folders(row.folders)
  <2>1. PICK list \in lists : f \in Folders(list)
      BY <1>7
  <2>2. Row(list) \in MountCandidates /\ Row(list).folders = list
      BY <1>1, <1>6
  <2> QED
      BY <2>1, <2>2
<1> QED
    BY <1>9, <1>10

\* What a plan is let in to that chose a list.
Given(list) == (Folders(list) \cup Folders(manifest.city)) \cap present

\* It is what was shown when the plan was started.
AsTicked(inside) ==
    /\ inside \subseteq opened.mine \cup
          UNION {row.folders : row \in {row \in opened.rows : row.on \/ row.partly}}
    /\ \A row \in opened.rows :
          row.on => row.folders \cap inside # {} \/ row.folders \cap present = {}
    /\ opened.mine \cap present \subseteq inside

\* A row as a plan remembers it.
Remembered(row) ==
    [folders |-> Folders(row.folders), on |-> IsTicked(row), partly |-> PartlyTheProjects(row)]

LEMMA RowFacts ==
    ASSUME manifest.host \in Seq(Mount), manifest.city \in Seq(Mount),
           choice.list \in Seq(Mount), NEW row \in MountCandidates
    PROVE  /\ \A f \in Folders(row.folders) \cap Folders(manifest.city) :
                 IsTicked(row) \/ PartlyTheProjects(row)
           /\ IsTicked(row) => \/ Folders(row.folders) \cap Given(choice.list) # {}
                              \/ Folders(row.folders) \cap present = {}
<1> DEFINE list == row.folders
           scopes == {DeclaredAt(f) : f \in Folders(list)}
<1>1. /\ list \in Seq(Mount) /\ row = Row(list)
      /\ Folders(list) \subseteq present \/ \E f : Folders(list) = {f}
    BY CandidateFacts
<1>2. \A f : DeclaredAt(f) = "city" <=> f \in Folders(manifest.city)
    BY DEF DeclaredAt
<1>3. row.declared = IF "nowhere" \in scopes THEN "nowhere"
                      ELSE IF "city" \in scopes THEN "city"
                      ELSE "host"
    BY <1>1 DEF Row
<1> HIDE DEF list
<1>4. Fixed(row) => "city" \in scopes
    BY <1>3 DEF Fixed
<1>5. "city" \in scopes => Fixed(row) \/ PartlyTheProjects(row)
    BY DEF PartlyTheProjects, list
<1>6. ASSUME NEW f \in Folders(list) \cap Folders(manifest.city)
      PROVE  IsTicked(row) \/ PartlyTheProjects(row)
    BY <1>2, <1>5 DEF IsTicked
<1>7. IsTicked(row) =>
          \E f \in Folders(list) : f \in Folders(choice.list) \cup Folders(manifest.city)
  <2>1. CASE Fixed(row)
      BY <1>2, <1>4, <2>1
  <2>2. CASE Paths(list) \cap Paths(choice.list) # {}
    <3>1. PICK p \in Paths(list) : p \in Paths(choice.list)
        BY <2>2
    <3>2. PICK m \in ToSet(list) : p = <<m.folder, m.tilde>>
        BY DEF Paths
    <3>3. PICK n \in ToSet(choice.list) : p = <<n.folder, n.tilde>>
        BY <3>1 DEF Paths
    <3>4. m.folder = n.folder
        BY <3>2, <3>3
    <3> QED
        BY <3>4 DEF Folders
  <2> QED
      BY <2>1, <2>2 DEF IsTicked, list
<1> QED
    BY <1>1, <1>6, <1>7 DEF Given, list

LEMMA TickedFacts ==
    ASSUME manifest.host \in Seq(Mount), manifest.city \in Seq(Mount),
           choice.list \in Seq(Mount), picker.rows = MountCandidates,
           UNCHANGED <<manifest, present>>,
           opened'.rows = {Remembered(row) : row \in picker.rows},
           opened'.mine = {m.folder : m \in Mine}, opened'.choice = choice
    PROVE  AsTicked(Given(opened.choice.list))'
<1> DEFINE inside == Given(choice.list)
<1>1. Given(opened.choice.list)' = inside
    BY DEF Given
<1>2. ASSUME NEW f \in inside
      PROVE  \/ f \in opened'.mine
             \/ \E row \in picker.rows : /\ f \in Folders(row.folders)
                                         /\ IsTicked(row) \/ PartlyTheProjects(row)
  <2>1. CASE f \in Folders(manifest.city)
    <3>1. PICK row \in picker.rows : f \in Folders(row.folders)
        BY <2>1, CandidateFacts
    <3> QED
        BY <2>1, <3>1, RowFacts
  <2>2. CASE f \in Folders(choice.list)
    <3>1. PICK m \in ToSet(choice.list) : f = m.folder
        BY <2>2 DEF Folders
    <3>2. m \in Mount
        BY SeqFacts
    <3>3. CASE m \in Mine
        BY <3>1, <3>3
    <3>4. CASE m \notin Mine
      <4>1. PICK row \in picker.rows : <<m.folder, m.tilde>> \in Paths(row.folders)
          BY <3>2, <3>4 DEF Mine, Apart
      <4>2. IsTicked(row)
          BY <4>1 DEF IsTicked, Paths
      <4>3. f \in Folders(row.folders)
          BY <3>1, <4>1 DEF Paths, Folders
      <4> QED
          BY <4>1, <4>2, <4>3
    <3> QED
        BY <3>3, <3>4
  <2> QED
      BY <2>1, <2>2 DEF Given
<1>3. ASSUME NEW row \in picker.rows, IsTicked(row)
      PROVE  Folders(row.folders) \cap inside # {} \/ Folders(row.folders) \cap present = {}
    BY <1>3, RowFacts
<1>4. opened'.mine \cap present \subseteq inside
    BY DEF Mine, Given, Folders
<1>5. \A row : /\ Remembered(row).folders = Folders(row.folders)
               /\ Remembered(row).on = IsTicked(row)
               /\ Remembered(row).partly = PartlyTheProjects(row)
    BY DEF Remembered
<1> HIDE DEF inside
<1>6. inside \subseteq opened'.mine \cup
          UNION {row.folders : row \in {row \in opened'.rows : row.on \/ row.partly}}
  <2> SUFFICES ASSUME NEW f \in inside, f \notin opened'.mine
               PROVE  \E row \in opened'.rows : (row.on \/ row.partly) /\ f \in row.folders
      OBVIOUS
  <2>1. \/ f \in opened'.mine
        \/ \E row \in picker.rows : /\ f \in Folders(row.folders)
                                    /\ IsTicked(row) \/ PartlyTheProjects(row)
      BY <1>2
  <2>3. PICK row \in picker.rows : /\ f \in Folders(row.folders)
                                   /\ IsTicked(row) \/ PartlyTheProjects(row)
      BY <2>1
  <2>2. Remembered(row) \in opened'.rows
      OBVIOUS
  <2> QED
      BY <1>5, <2>2, <2>3
<1>7. ASSUME NEW old \in opened'.rows, old.on
      PROVE  old.folders \cap inside # {} \/ old.folders \cap present = {}
  <2>1. PICK row \in picker.rows : old = Remembered(row)
      OBVIOUS
  <2> QED
      BY <1>3, <1>5, <1>7, <2>1
<1>8. present' = present
    OBVIOUS
<1> QED
    BY <1>1, <1>4, <1>6, <1>7, <1>8 DEF AsTicked

-----------------------------------------------------------------------------
(* What is offered first.                                                  *)

LEMMA MountsAreFinite == IsFiniteSet(Mount)
<1> DEFINE Mode == {"ro", "rw"}
           D == (Folder \X BOOLEAN) \X Mode
           f == [d \in D |-> [folder |-> d[1][1], tilde |-> d[1][2], mode |-> d[2]]]
<1>1. IsFiniteSet(Folder) /\ IsFiniteSet(BOOLEAN) /\ IsFiniteSet(Mode)
  <2>1. \A a, b : {a, b} = {a} \cup {b}
      OBVIOUS
  <2>2. ASSUME NEW a, NEW b PROVE IsFiniteSet({a, b})
    <3>1. IsFiniteSet({a}) /\ IsFiniteSet({b})
        BY FS_Singleton
    <3>2. IsFiniteSet({a} \cup {b})
        BY <3>1, FS_Union
    <3> QED
        BY <2>1, <3>2
  <2>3. Folder = {Cargo, Rustup} \cup {Secret} /\ BOOLEAN = {TRUE, FALSE}
      BY DEF Folder
  <2>4. IsFiniteSet({Cargo, Rustup} \cup {Secret})
      BY <2>2, FS_Singleton, FS_Union
  <2> QED
      BY <2>2, <2>3, <2>4
<1>2. IsFiniteSet(Folder \X BOOLEAN)
    BY <1>1, FS_Product
<1>3. IsFiniteSet(D)
    BY <1>1, <1>2, FS_Product
<1>4. f \in [D -> Mount]
    BY DEF Mount
<1>5. ASSUME NEW m \in Mount PROVE \E d \in D : f[d] = m
  <2> DEFINE d == <<<<m.folder, m.tilde>>, m.mode>>
  <2>1. d \in D /\ m = [folder |-> m.folder, tilde |-> m.tilde, mode |-> m.mode]
      BY DEF Mount
  <2>2. f[d] = m
      BY <2>1
  <2> QED
      BY <2>1, <2>2
<1> HIDE DEF D, f
<1>6. f \in Surjection(D, Mount)
    BY <1>4, <1>5 DEF Surjection
<1> QED
    BY <1>3, <1>6, FS_Surjection

LEMMA SelectionFacts ==
    ASSUME NEW rows, \A row \in rows : row.folders \in Seq(Mount)
    PROVE  DefaultSelection(rows) \in Seq(Mount)
<1> DEFINE chosen == {m \in UNION {ToSet(row.folders) : row \in rows} :
                ~OffByDefault(m) \/ \E row \in rows : Fixed(row) /\ m \in ToSet(row.folders)}
           n == Cardinality(chosen)
<1>1. chosen \subseteq Mount
  <2>1. \A row \in rows : ToSet(row.folders) \subseteq Mount
      BY SeqFacts
  <2> QED
      BY <2>1
<1>2. DefaultSelection(rows) = SetToSeq(chosen)
    BY DEF DefaultSelection
<1> HIDE DEF chosen
<1>3. IsFiniteSet(chosen)
    BY <1>1, MountsAreFinite, FS_Subset
<1>4. n \in Nat /\ ExistsBijection(1 .. n, chosen)
    BY <1>3, FS_CardinalityType
<1>5. PICK f : f \in [1 .. n -> chosen] /\ IsInjective(f)
    BY <1>4 DEF ExistsBijection, Bijection, Injection
<1>6. SetToSeq(chosen) \in [1 .. n -> chosen]
    BY <1>5 DEF SetToSeq
<1> QED
    BY <1>1, <1>2, <1>4, <1>6, SeqDef

-----------------------------------------------------------------------------
(* What is shown, chosen and given.                                        *)

RecordedMounts == [made : BOOLEAN, list : Seq(Mount)]

\* The types that say what is ticked.
PickerTypes ==
    /\ manifest \in [host : Seq(Mount), city : Seq(Mount)]
    /\ choice \in RecordedMounts /\ opened.choice \in RecordedMounts
    /\ picker = [open |-> picker.open, landed |-> picker.landed,
                 rows |-> picker.rows, current |-> picker.current]
    /\ \A row \in picker.rows : row.folders \in Seq(Mount)
    /\ picker.rows # {} => picker.landed
    /\ opened.begun \in BOOLEAN /\ picker.current \in BOOLEAN

\* The panel is there until the plan is started, and knows what is ticked from
\* its offers on.
Stages ==
    /\ picker.landed => picker.open /\ choice.made
    /\ picker.open => ~opened.begun
    /\ opened.shown => opened.begun

\* While the machine is as the panel read it, the panel says what it is, and
\* what a plan was started with is what it showed.
OffersHold == picker.landed /\ picker.current => picker.rows = MountCandidates
StartedAsTicked ==
    opened.shown /\ picker.current => opened.choice.made /\ AsTicked(Given(opened.choice.list))
FencedAsTicked ==
    fence.up /\ fence.current /\ fence.asShown /\ opened.shown => AsTicked(Inside)

PickerInv == PickerTypes /\ Stages /\ OffersHold /\ StartedAsTicked /\ FencedAsTicked

LEMMA PickerTypesNext ==
    ASSUME PickerTypes, FNext
    PROVE  PickerTypes'
<1>1. ASSUME manifest.host \in Seq(Mount), manifest.city \in Seq(Mount)
      PROVE  \A row \in MountCandidates : row.folders \in Seq(Mount)
    BY <1>1, CandidateFacts
<1>2. /\ manifest.host \in Seq(Mount) /\ manifest.city \in Seq(Mount)
      /\ choice.list \in Seq(Mount) /\ choice.made \in BOOLEAN
    BY DEF PickerTypes, RecordedMounts
<1>3. Manifests \subseteq Seq(Mount) /\ NoChoice \in RecordedMounts
  <2> DEFINE none == <<>>
  <2>1. none \in Seq(Mount)
      BY EmptySeq
  <2>2. Manifests \subseteq Seq(Mount)
      BY SeqDef DEF Manifests
  <2> HIDE DEF none
  <2>3. [made |-> FALSE, list |-> none] \in RecordedMounts
      BY <2>1 DEF RecordedMounts
  <2> QED
      BY <2>2, <2>3 DEF NoChoice, none
<1>4. \A list \in Seq(Mount) : [made |-> TRUE, list |-> list] \in RecordedMounts
    BY DEF RecordedMounts
<1>5. CASE OpensPanel
    BY <1>5 DEF OpensPanel, PickerTypes, NoPanel
<1>6. CASE OffersLand
  <2>1. DefaultSelection(MountCandidates) \in Seq(Mount)
      BY <1>1, <1>2, SelectionFacts
  <2>2. Seeded(MountCandidates) \in RecordedMounts
      BY <1>4, <2>1 DEF Seeded, PickerTypes
  <2>3. UNCHANGED <<manifest, opened>> /\ choice' \in RecordedMounts
      BY <1>6, <2>2 DEF OffersLand
  <2>4. /\ picker' = [open |-> picker'.open, landed |-> picker'.landed,
                      rows |-> picker'.rows, current |-> picker'.current]
        /\ picker'.landed /\ picker'.rows = MountCandidates /\ picker'.current
    <3> HIDE DEF MountCandidates
    <3> QED
        BY <1>6 DEF OffersLand, PickerTypes
  <2>5. \A row \in picker'.rows : row.folders \in Seq(Mount)
      BY <1>1, <1>2, <2>4
  <2> QED
      BY <2>3, <2>4, <2>5 DEF PickerTypes
<1>7. CASE ClosesPanel
    BY <1>7 DEF ClosesPanel, PickerTypes, NoPanel
<1>8. ASSUME NEW row \in picker.rows, Toggles(row) PROVE PickerTypes'
  <2>1. row.folders \in Seq(Mount)
      BY DEF PickerTypes
  <2> DEFINE both == choice.list \o row.folders
  <2>2. both \in Seq(Mount)
      BY <1>2, <2>1, ConcatFacts
  <2> HIDE DEF both
  <2>3. MergedMounts(both) \in Seq(Mount) /\ Only(choice.list, Apart(row.folders)) \in Seq(Mount)
      BY <1>2, <2>2, MergedFacts, OnlyFacts
  <2>4. Ticked(row) \in Seq(Mount)
      BY <2>3 DEF Ticked, both
  <2>5. UNCHANGED <<manifest, opened, picker>> /\ choice' \in RecordedMounts
      BY <1>4, <1>8, <2>4 DEF Toggles
  <2> QED
      BY <2>5 DEF PickerTypes
<1>9. ASSUME NEW m \in Mount, AddsMount(m) PROVE PickerTypes'
  <2> DEFINE named == [i \in DOMAIN choice.list |->
                          IF SamePath(m, choice.list[i]) THEN m ELSE choice.list[i]]
             long == Append(choice.list, m)
  <2>1. named \in Seq(Mount)
    <3>1. /\ DOMAIN choice.list = 1 .. Len(choice.list) /\ Len(choice.list) \in Nat
          /\ \A i \in DOMAIN choice.list : choice.list[i] \in Mount
        BY <1>2, SeqFacts
    <3> DEFINE n == Len(choice.list)
    <3>2. named \in [1 .. n -> Mount]
        BY <3>1
    <3> HIDE DEF n, named
    <3>3. n \in Nat
        BY <3>1 DEF n
    <3> QED
        BY <3>2, <3>3, SeqDef
  <2>2. long \in Seq(Mount)
      BY <1>2, AppendFacts
  <2>3. UNCHANGED <<manifest, opened, picker>>
      BY <1>9 DEF AddsMount
  <2>4. choice' = [made |-> TRUE, list |-> named] \/ choice' = [made |-> TRUE, list |-> long]
      BY <1>9 DEF AddsMount
  <2> HIDE DEF named, long
  <2>5. choice' \in RecordedMounts
      BY <1>4, <2>1, <2>2, <2>4
  <2> QED
      BY <2>3, <2>5 DEF PickerTypes
<1>10. ASSUME NEW m \in Mount, DropsMount(m) PROVE PickerTypes'
  <2> DEFINE left == Only(choice.list, Apart(<<m>>))
  <2>1. left \in Seq(Mount)
      BY <1>2, OnlyFacts
  <2>2. UNCHANGED <<manifest, opened, picker>> /\ choice' = [choice EXCEPT !.list = left]
      BY <1>10 DEF DropsMount
  <2> HIDE DEF left
  <2>3. choice' \in RecordedMounts
      BY <2>1, <2>2 DEF PickerTypes, RecordedMounts
  <2> QED
      BY <2>2, <2>3 DEF PickerTypes
<1>11. CASE BeginsPlan
  <2>1. UNCHANGED <<manifest, choice>> /\ opened'.choice = choice /\ opened'.begun
      BY <1>11 DEF BeginsPlan
  <2>2. /\ picker' = [open |-> FALSE, landed |-> FALSE, rows |-> {}, current |-> picker.current]
      BY <1>11 DEF BeginsPlan, NoPanel
  <2>3. opened'.begun = TRUE
      BY <1>11 DEF BeginsPlan
  <2> QED
      BY <2>1, <2>2, <2>3 DEF PickerTypes
<1>12. CASE BuildsFence \/ BriefsCourt \/ LosesFence
  <2>1. UNCHANGED <<manifest, choice, opened, picker>>
      BY <1>12 DEF BuildsFence, BriefsCourt, LosesFence
  <2> QED
      BY <2>1 DEF PickerTypes
<1>13. ASSUME NEW list \in Manifests, EditsHost(list) \/ EditsCity(list) PROVE PickerTypes'
  <2>1. UNCHANGED <<choice, opened>>
      BY <1>13 DEF EditsHost, EditsCity, Outdates
  <2>2. list \in Seq(Mount)
      BY <1>3
  <2>3. manifest' \in [host : Seq(Mount), city : Seq(Mount)]
      BY <1>13, <2>2 DEF EditsHost, EditsCity, PickerTypes
  <2>4. \E b \in BOOLEAN : picker' = [picker EXCEPT !.current = b]
      BY <1>13 DEF EditsHost, EditsCity, Outdates, PickerTypes
  <2> QED
      BY <2>1, <2>3, <2>4 DEF PickerTypes
<1>14. ASSUME NEW f \in Folder, FolderComesOrGoes(f) PROVE PickerTypes'
    BY <1>14 DEF FolderComesOrGoes, Outdates, PickerTypes
<1> QED
    BY <1>5, <1>6, <1>7, <1>8, <1>9, <1>10, <1>11, <1>12, <1>13, <1>14 DEF FNext

-----------------------------------------------------------------------------
(* What the court is told, and what was ticked.                            *)

(* While nothing it was built from has changed, the fence is what the plan *)
(* would be given now, and so is what the court was last told of it.       *)
FenceInv ==
    /\ manifest = [host |-> manifest.host, city |-> manifest.city]
    /\ fence = [up |-> fence.up, binds |-> fence.binds, current |-> fence.current,
                asShown |-> fence.asShown]
    /\ fence.up => opened.begun
    /\ fence.up /\ fence.current => fence.binds = WithAllowed(MountsForPlan(opened.choice))
    /\ fence.up /\ fence.current /\ briefed.told =>
          briefed.mounts = MountsForPlan(opened.choice)

LEMMA SameMounts ==
    ASSUME UNCHANGED <<manifest, opened>>
    PROVE  MountsForPlan(opened.choice)' = MountsForPlan(opened.choice)
BY DEF MountsForPlan, MountsFor

LEMMA SameAllowed ==
    ASSUME NEW list, UNCHANGED present
    PROVE  WithAllowed(list)' = WithAllowed(list)
BY DEF WithAllowed

LEMMA FenceNext == FenceInv /\ [FNext]_fvars => FenceInv'
<1> SUFFICES ASSUME FenceInv, [FNext]_fvars
             PROVE  FenceInv'
    OBVIOUS
<1> USE DEF FenceInv
<1>1. CASE OpensPanel
  <2>1. UNCHANGED <<manifest, present, opened, fence, briefed>>
      BY <1>1 DEF OpensPanel
  <2> QED
      BY <2>1, SameMounts, SameAllowed
<1>2. CASE OffersLand
  <2>1. UNCHANGED <<manifest, present, opened, fence, briefed>>
      BY <1>2 DEF OffersLand
  <2> QED
      BY <2>1, SameMounts, SameAllowed
<1>3. CASE ClosesPanel
  <2>1. UNCHANGED <<manifest, present, opened, fence, briefed>>
      BY <1>3 DEF ClosesPanel
  <2> QED
      BY <2>1, SameMounts, SameAllowed
<1>4. ASSUME NEW row \in picker.rows, Toggles(row) PROVE FenceInv'
  <2>1. UNCHANGED <<manifest, present, opened, fence, briefed>>
      BY <1>4 DEF Toggles
  <2> QED
      BY <2>1, SameMounts, SameAllowed
<1>5. ASSUME NEW m \in Mount, AddsMount(m) PROVE FenceInv'
  <2>1. UNCHANGED <<manifest, present, opened, fence, briefed>>
      BY <1>5 DEF AddsMount
  <2> QED
      BY <2>1, SameMounts, SameAllowed
<1>6. ASSUME NEW m \in Mount, DropsMount(m) PROVE FenceInv'
  <2>1. UNCHANGED <<manifest, present, opened, fence, briefed>>
      BY <1>6 DEF DropsMount
  <2> QED
      BY <2>1, SameMounts, SameAllowed
<1>7. CASE BeginsPlan
    BY <1>7 DEF BeginsPlan
<1>8. CASE BuildsFence
  <2>1. UNCHANGED <<manifest, present, opened>>
      BY <1>8 DEF BuildsFence
  <2>2. MountsForPlan(opened.choice)' = MountsForPlan(opened.choice)
      BY <2>1, SameMounts
  <2>3. \A list : WithAllowed(list)' = WithAllowed(list)
      BY <2>1, SameAllowed
  <2> QED
      BY <1>8, <2>1, <2>2, <2>3 DEF BuildsFence, NotBriefed
<1>9. CASE BriefsCourt
  <2>1. UNCHANGED <<manifest, present, opened>>
      BY <1>9 DEF BriefsCourt
  <2>2. MountsForPlan(opened.choice)' = MountsForPlan(opened.choice)
      BY <2>1, SameMounts
  <2>3. \A list : WithAllowed(list)' = WithAllowed(list)
      BY <2>1, SameAllowed
  <2> QED
      BY <1>9, <2>1, <2>2, <2>3 DEF BriefsCourt, NotBriefed
<1>10. CASE LosesFence
    BY <1>10 DEF LosesFence, NoFence, NotBriefed
<1>11. ASSUME NEW list \in Manifests, EditsHost(list) PROVE FenceInv'
  <2>1. UNCHANGED <<manifest.city, present, opened, briefed>>
      BY <1>11 DEF EditsHost
  <2>2. opened.choice.made => MountsForPlan(opened.choice)' = MountsForPlan(opened.choice)
      BY <2>1 DEF MountsForPlan
  <2>3. ASSUME NEW other PROVE WithAllowed(other)' = WithAllowed(other)
      BY <2>1, SameAllowed
  <2> QED
      BY <1>11, <2>1, <2>2, <2>3 DEF EditsHost
<1>12. ASSUME NEW list \in Manifests, EditsCity(list) PROVE FenceInv'
    BY <1>12 DEF EditsCity, Outdates
<1>13. ASSUME NEW f \in Folder, FolderComesOrGoes(f) PROVE FenceInv'
    BY <1>13 DEF FolderComesOrGoes, Outdates
<1>14. CASE UNCHANGED fvars
  <2>1. UNCHANGED <<manifest, present, opened, fence, briefed>>
      BY <1>14 DEF fvars
  <2> QED
      BY <2>1, SameMounts, SameAllowed
<1> QED
    BY <1>1, <1>2, <1>3, <1>4, <1>5, <1>6, <1>7, <1>8, <1>9, <1>10, <1>11,
       <1>12, <1>13, <1>14 DEF FNext

(* What the court is told of its fence is the fence it stands behind       *)
(* (turn.rs:362-370; services/mod.rs mounts_for_plan and its callers):     *)
(* whatever is ticked, edited, created or removed, and whoever built it.   *)
THEOREM TheCourtIsToldTrue == FSpec => []FenceIsAsTold
<1>1. FInit => FenceInv
    BY DEF FInit, FenceInv, NoFence, NotBriefed
<1>2. FenceInv /\ [FNext]_fvars => FenceInv'
    BY FenceNext
<1>3. FenceInv => FenceIsAsTold
    BY DEF FenceInv, FenceIsAsTold
<1> QED
    BY <1>1, <1>2, <1>3, PTL DEF FSpec

\* What a plan is given that recorded a choice.
LEMMA GivenFacts ==
    ASSUME manifest.city \in Seq(Mount), opened.choice.list \in Seq(Mount), opened.choice.made
    PROVE  {m.folder : m \in WithAllowed(MountsForPlan(opened.choice))} =
              Given(opened.choice.list)
<1> DEFINE both == opened.choice.list \o manifest.city
<1>1. both \in Seq(Mount) /\ Folders(both) = Folders(opened.choice.list) \cup Folders(manifest.city)
    BY ConcatFacts DEF Folders
<1>2. MountsForPlan(opened.choice) = MergedMounts(both)
    BY DEF MountsForPlan
<1> HIDE DEF both
<1>3. MergedMounts(both) \in Seq(Mount) /\ Folders(MergedMounts(both)) = Folders(both)
    BY <1>1, MergedFacts
<1>4. {m.folder : m \in WithAllowed(MergedMounts(both))} = Folders(MergedMounts(both)) \cap present
    BY <1>3, AllowedFacts
<1> QED
    BY <1>1, <1>2, <1>3, <1>4 DEF Given

\* While nothing is read anew, the offers are what they were.
LEMMA SameOffers ==
    ASSUME UNCHANGED <<manifest, present>>
    PROVE  MountCandidates' = MountCandidates
BY DEF MountCandidates, Row, DeclaredAt, Folders

LEMMA PickerNext == PickerInv /\ FenceInv /\ [FNext]_fvars => PickerInv'
<1> SUFFICES ASSUME PickerInv, FenceInv, [FNext]_fvars
             PROVE  PickerInv'
    OBVIOUS
<1>1. /\ PickerTypes
      /\ Stages
      /\ OffersHold
      /\ StartedAsTicked
      /\ FencedAsTicked
      /\ fence.up => opened.begun
    BY DEF PickerInv, FenceInv
<1>2. /\ manifest.host \in Seq(Mount) /\ manifest.city \in Seq(Mount)
      /\ choice.list \in Seq(Mount) /\ opened.choice.list \in Seq(Mount)
      /\ picker.current \in BOOLEAN
      /\ opened.begun \in BOOLEAN
    BY <1>1 DEF PickerTypes, RecordedMounts
<1>3. ASSUME UNCHANGED <<opened, fence>>, ~opened.begun
      PROVE  StartedAsTicked' /\ FencedAsTicked'
    BY <1>1, <1>3 DEF Stages, StartedAsTicked, FencedAsTicked
<1>4. ASSUME UNCHANGED <<opened, present>>, manifest'.city = manifest.city,
             picker'.current => picker.current
      PROVE  StartedAsTicked'
  <2>1. Given(opened.choice.list)' = Given(opened.choice.list)
      BY <1>4 DEF Given, Folders
  <2>2. AsTicked(Given(opened.choice.list))' <=> AsTicked(Given(opened.choice.list))
      BY <1>4, <2>1 DEF AsTicked
  <2> QED
      BY <1>1, <1>4, <2>2 DEF StartedAsTicked
<1>5. ASSUME UNCHANGED <<opened, present>>, fence'.binds = fence.binds,
             fence'.up => fence.up, fence'.current => fence.current,
             fence'.asShown => fence.asShown
      PROVE  FencedAsTicked'
  <2>1. AsTicked(Inside)' <=> AsTicked(Inside)
      BY <1>5 DEF AsTicked, Inside
  <2> QED
      BY <1>1, <1>5, <2>1 DEF FencedAsTicked
<1>6. ASSUME UNCHANGED <<manifest, present, picker>> PROVE OffersHold'
  <2>1. MountCandidates' = MountCandidates
      BY <1>6, SameOffers
  <2> QED
      BY <1>1, <1>6, <2>1 DEF OffersHold
<1>7. CASE UNCHANGED fvars
  <2>1. UNCHANGED <<manifest, present, picker, choice, opened, fence>>
      BY <1>7 DEF fvars
  <2>2. StartedAsTicked' /\ FencedAsTicked' /\ OffersHold'
      BY <1>4, <1>5, <1>6, <2>1
  <2>3. PickerTypes' /\ Stages'
      BY <1>1, <2>1 DEF PickerTypes, Stages
  <2> QED
      BY <2>2, <2>3 DEF PickerInv
<1> SUFFICES ASSUME FNext PROVE PickerInv'
    BY <1>7
<1>8. PickerTypes'
    BY <1>1, PickerTypesNext
<1>9. CASE OpensPanel
  <2>1. UNCHANGED <<opened, fence>> /\ ~opened.begun
      BY <1>9 DEF OpensPanel
  <2>2. Stages' /\ OffersHold'
      BY <1>1, <1>9 DEF OpensPanel, NoPanel, Stages, OffersHold
  <2> QED
      BY <1>3, <1>8, <2>1, <2>2 DEF PickerInv
<1>10. CASE OffersLand
  <2>1. UNCHANGED <<manifest, present, opened, fence>> /\ ~opened.begun
      BY <1>1, <1>10 DEF OffersLand, Stages
  <2>2. /\ picker'.landed /\ picker'.open /\ picker'.rows = MountCandidates
        /\ choice'.made
    <3>1. Seeded(MountCandidates).made
        BY DEF Seeded
    <3> HIDE DEF MountCandidates
    <3> QED
        BY <1>1, <1>10, <3>1 DEF OffersLand, PickerTypes
  <2>3. MountCandidates' = MountCandidates
      BY <2>1, SameOffers
  <2>4. Stages' /\ OffersHold'
      BY <1>1, <2>1, <2>2, <2>3 DEF Stages, OffersHold
  <2> QED
      BY <1>3, <1>8, <2>1, <2>4 DEF PickerInv
<1>11. CASE ClosesPanel
  <2>1. UNCHANGED <<opened, fence>> /\ ~opened.begun
      BY <1>11 DEF ClosesPanel
  <2>2. Stages' /\ OffersHold'
      BY <1>1, <1>11 DEF ClosesPanel, NoPanel, Stages, OffersHold
  <2> QED
      BY <1>3, <1>8, <2>1, <2>2 DEF PickerInv
<1>12. ASSUME UNCHANGED <<manifest, present, picker, opened, fence>>, ~opened.begun,
              choice'.made \/ ~picker.landed
       PROVE  PickerInv'
  <2>1. Stages'
      BY <1>1, <1>12 DEF Stages
  <2> QED
      BY <1>3, <1>6, <1>8, <1>12, <2>1 DEF PickerInv
<1>13. ASSUME NEW row \in picker.rows, Toggles(row) PROVE PickerInv'
    BY <1>12, <1>13 DEF Toggles
<1>14. ASSUME NEW m \in Mount, AddsMount(m) PROVE PickerInv'
    BY <1>12, <1>14 DEF AddsMount
<1>15. ASSUME NEW m \in Mount, DropsMount(m) PROVE PickerInv'
  <2>1. choice'.made = choice.made
      BY <1>1, <1>15 DEF DropsMount, PickerTypes, RecordedMounts
  <2> QED
      BY <1>1, <1>12, <1>15, <2>1 DEF DropsMount, Stages
<1>16. CASE BeginsPlan
  <2>1. /\ UNCHANGED <<manifest, present, choice, fence>> /\ ~opened.begun
        /\ picker' = [open |-> FALSE, landed |-> FALSE, rows |-> {}, current |-> picker.current]
        /\ opened'.begun /\ opened'.choice = choice /\ opened'.shown = picker.landed
        /\ opened'.rows = {Remembered(row) : row \in picker.rows}
        /\ opened'.mine = {m.folder : m \in Mine}
    BY <1>16 DEF BeginsPlan, NoPanel, Remembered
  <2>2. Stages' /\ OffersHold' /\ FencedAsTicked'
      BY <1>1, <2>1 DEF Stages, OffersHold, FencedAsTicked
  <2>3. ASSUME picker.landed, picker.current
        PROVE  opened'.choice.made /\ AsTicked(Given(opened.choice.list))'
    <3>1. picker.rows = MountCandidates /\ choice.made
        BY <1>1, <2>3 DEF OffersHold, Stages
    <3> HIDE DEF MountCandidates
    <3> QED
        BY <1>2, <2>1, <3>1, TickedFacts
  <2>4. StartedAsTicked'
      BY <2>1, <2>3 DEF StartedAsTicked
  <2> QED
      BY <1>8, <2>2, <2>4 DEF PickerInv
<1>17. CASE BuildsFence
  <2>1. /\ UNCHANGED <<manifest, present, picker, choice, opened>>
        /\ fence'.binds = WithAllowed(MountsForPlan(opened.choice))
        /\ fence'.asShown = picker.current
      BY <1>17 DEF BuildsFence
  <2>2. Stages' /\ OffersHold' /\ StartedAsTicked'
      BY <1>1, <1>4, <1>6, <2>1 DEF Stages
  <2>3. ASSUME opened.shown, picker.current
        PROVE  AsTicked(Inside)'
    <3>1. opened.choice.made /\ AsTicked(Given(opened.choice.list))
        BY <1>1, <2>3 DEF StartedAsTicked
    <3>2. Inside' = Given(opened.choice.list)
        BY <1>2, <2>1, <3>1, GivenFacts DEF Inside
    <3> QED
        BY <2>1, <3>1, <3>2 DEF AsTicked
  <2>4. FencedAsTicked'
      BY <2>1, <2>3 DEF FencedAsTicked
  <2> QED
      BY <1>8, <2>2, <2>4 DEF PickerInv
<1>18. CASE BriefsCourt \/ LosesFence
  <2>1. UNCHANGED <<manifest, present, picker, choice, opened>>
      BY <1>18 DEF BriefsCourt, LosesFence
  <2>2. Stages' /\ OffersHold' /\ StartedAsTicked'
      BY <1>1, <1>4, <1>6, <2>1 DEF Stages
  <2>3. FencedAsTicked'
    <3>1. CASE BriefsCourt
        BY <1>5, <2>1, <3>1 DEF BriefsCourt
    <3>2. CASE LosesFence
        BY <3>2 DEF LosesFence, NoFence, FencedAsTicked
    <3> QED
        BY <1>18, <3>1, <3>2
  <2> QED
      BY <1>8, <2>2, <2>3 DEF PickerInv
<1>19. ASSUME NEW list \in Manifests, EditsHost(list) PROVE PickerInv'
  <2>1. /\ UNCHANGED <<present, choice, opened>> /\ manifest'.city = manifest.city
        /\ picker' = [picker EXCEPT !.current = @ /\ opened.begun]
        /\ fence' = [fence EXCEPT !.current = @ /\ opened.choice.made]
      BY <1>1, <1>19 DEF EditsHost, PickerTypes
  <2>2. /\ picker'.open = picker.open /\ picker'.landed = picker.landed
        /\ picker'.current => picker.current /\ opened.begun
      BY <1>1, <2>1 DEF PickerTypes
  <2>3. /\ fence'.up = fence.up /\ fence'.binds = fence.binds /\ fence'.asShown = fence.asShown
        /\ fence'.current => fence.current
      BY <2>1 DEF FenceInv
  <2>4. Stages' /\ OffersHold'
      BY <1>1, <2>1, <2>2 DEF Stages, OffersHold
  <2> QED
      BY <1>4, <1>5, <1>8, <2>1, <2>2, <2>3, <2>4 DEF PickerInv
<1>20. ASSUME Outdates, UNCHANGED <<choice, opened>> PROVE PickerInv'
  <2>1. /\ picker'.open = picker.open /\ picker'.landed = picker.landed
        /\ ~picker'.current /\ ~fence'.current
      BY <1>1, <1>20 DEF Outdates, PickerTypes, FenceInv
  <2>2. Stages' /\ OffersHold' /\ StartedAsTicked' /\ FencedAsTicked'
      BY <1>1, <1>20, <2>1 DEF Stages, OffersHold, StartedAsTicked, FencedAsTicked
  <2> QED
      BY <1>8, <2>2 DEF PickerInv
<1>21. ASSUME NEW list \in Manifests, EditsCity(list) PROVE PickerInv'
    BY <1>20, <1>21 DEF EditsCity, Outdates
<1>22. ASSUME NEW f \in Folder, FolderComesOrGoes(f) PROVE PickerInv'
    BY <1>20, <1>22 DEF FolderComesOrGoes, Outdates
<1> QED
    BY <1>9, <1>10, <1>11, <1>13, <1>14, <1>15, <1>16, <1>17, <1>18, <1>19, <1>21, <1>22
    DEF FNext

LEMMA PickerHolds == FSpec => [](PickerInv /\ FenceInv)
<1>1. FInit => FenceInv
    BY DEF FInit, FenceInv, NoFence, NotBriefed
<1>2. FenceInv /\ [FNext]_fvars => FenceInv'
    BY FenceNext
<1>3. FInit => PickerInv
  <2> DEFINE none == <<>>
  <2>1. none \in Seq(Mount)
      BY EmptySeq
  <2>2. [host |-> none, city |-> none] \in [host : Seq(Mount), city : Seq(Mount)]
      BY <2>1
  <2>3. [made |-> FALSE, list |-> none] \in RecordedMounts
      BY <2>1 DEF RecordedMounts
  <2> HIDE DEF none
  <2>4. FInit => PickerTypes
      BY <2>2, <2>3 DEF FInit, PickerTypes, NoPanel, NoChoice, Unopened, none
  <2> QED
      BY <2>4 DEF FInit, PickerInv, Stages, OffersHold, StartedAsTicked, FencedAsTicked,
         NoPanel, NoChoice, Unopened, NoFence
<1>4. PickerInv /\ FenceInv /\ [FNext]_fvars => PickerInv'
    BY PickerNext
<1> QED
    BY <1>1, <1>2, <1>3, <1>4, PTL DEF FSpec

(* What the panel showed when the plan was started is what the plan has,   *)
(* while the machine is as the panel read it                               *)
(* (services/mod.rs:1300-1306, 1372-1384; prompt_bar.rs:1019-1036):        *)
(* whatever the manifests declare, however many folders he ticks, adds and *)
(* drops, and however often the fence is built again.                      *)
THEOREM TheFenceIsWhatWasTicked == FSpec => []FenceIsAsTicked
<1>1. PickerInv => FenceIsAsTicked
    BY DEF PickerInv, FencedAsTicked, FenceIsAsTicked, AsTicked
<1> QED
    BY <1>1, PickerHolds, PTL

-----------------------------------------------------------------------------
(* Sums, and sizes that are halved.                                        *)

\* The sums of the first numbers.
Sums(f, a, n) ==
    /\ f \in [0 .. n -> Nat] /\ f[0] = 0
    /\ \A k \in 1 .. n : f[k] = f[k - 1] + a[k]

LEMMA TotalIsSum ==
    ASSUME NEW n \in Nat, NEW a \in [1 .. n -> Nat]
    PROVE  \E f : Sums(f, a, n) /\ Total(a) = f[n]
<1> DEFINE N == Len(a)
           step == [p \in (1 .. n) \X Nat |-> p[2] + a[p[1]]]
<1>1. a \in Seq(Nat) /\ N = n
    BY LenProperties, SeqDef
<1> HIDE DEF N
<1>2. \A k \in 1 .. n, v \in Nat : step[<<k, v>>] = v + a[k] /\ step[<<k, v>>] \in Nat
    OBVIOUS
<1> HIDE DEF step
<1>3. PICK g : GoesOn(g, n, Nat, 0, step)
    BY <1>2, Recursion
<1>4. Sums(g, a, n)
  <2>1. \A k \in 1 .. n : k - 1 \in 0 .. n
      OBVIOUS
  <2> QED
      BY <1>2, <1>3, <2>1 DEF GoesOn, Sums
<1>5. g = [k \in 0 .. N |-> IF k = 0 THEN 0 ELSE g[k - 1] + a[k]]
    BY <1>1, <1>4 DEF Sums
<1>6. PICK f : /\ f = [k \in 0 .. N |-> IF k = 0 THEN 0 ELSE f[k - 1] + a[k]]
               /\ Total(a) = f[N]
    BY <1>5, Zenon DEF Total, N
<1> DEFINE S == {k \in 0 .. n : f[k] = g[k]}
<1>7. 0 \in S
    BY <1>1, <1>4, <1>6 DEF Sums
<1>8. ASSUME NEW k \in 0 .. n - 1, k \in S PROVE k + 1 \in S
  <2>1. k + 1 \in 1 .. n /\ k + 1 \in 0 .. n /\ k + 1 # 0 /\ k + 1 - 1 = k
      OBVIOUS
  <2> DEFINE m == k + 1
  <2> HIDE DEF m
  <2>2. m \in 1 .. n /\ m \in 0 .. n /\ m # 0 /\ m - 1 = k
      BY <2>1 DEF m
  <2>3. f[m] = f[k] + a[m] /\ g[m] = g[k] + a[m]
      BY <1>1, <1>4, <1>6, <2>2 DEF Sums
  <2> QED
      BY <1>8, <2>2, <2>3 DEF m
<1>9. n \in S
  <2> HIDE DEF S
  <2>1. \A k \in 0 .. n : k \in S
      BY <1>7, <1>8, UpTo
  <2> QED
      BY <2>1
<1> QED
    BY <1>1, <1>4, <1>6, <1>9

(* What is larger everywhere adds up to more.                              *)
LEMMA TotalFacts ==
    ASSUME NEW n \in Nat, NEW a \in [1 .. n -> Nat], NEW b \in [1 .. n -> Nat],
           \A i \in 1 .. n : a[i] <= b[i]
    PROVE  Total(a) \in Nat /\ Total(b) \in Nat /\ Total(a) <= Total(b)
<1>1. PICK f : Sums(f, a, n) /\ Total(a) = f[n]
    BY TotalIsSum
<1>2. PICK g : Sums(g, b, n) /\ Total(b) = g[n]
    BY TotalIsSum
<1>3. f \in [0 .. n -> Nat] /\ g \in [0 .. n -> Nat] /\ f[0] = 0 /\ g[0] = 0
    BY <1>1, <1>2 DEF Sums
<1> DEFINE S == {k \in 0 .. n : f[k] <= g[k]}
<1>4. 0 \in S
    BY <1>3
<1>5. ASSUME NEW k \in 0 .. n - 1, k \in S PROVE k + 1 \in S
  <2> DEFINE m == k + 1
  <2>1. m \in 1 .. n /\ m \in 0 .. n /\ m - 1 = k /\ k \in 0 .. n
      OBVIOUS
  <2> HIDE DEF m
  <2>2. f[m] = f[k] + a[m] /\ g[m] = g[k] + b[m]
      BY <1>1, <1>2, <2>1 DEF Sums
  <2>3. f[k] \in Nat /\ g[k] \in Nat /\ a[m] \in Nat /\ b[m] \in Nat /\ a[m] <= b[m]
      BY <1>3, <2>1
  <2> QED
      BY <1>5, <2>1, <2>2, <2>3 DEF m
<1>6. n \in S
  <2> HIDE DEF S
  <2>1. \A k \in 0 .. n : k \in S
      BY <1>4, <1>5, UpTo
  <2> QED
      BY <2>1
<1> QED
    BY <1>1, <1>2, <1>3, <1>6

LEMMA HalvedFacts ==
    ASSUME NEW top \in Nat
    PROVE  /\ Halved(top) \in [0 .. top -> Nat] /\ Halved(top)[0] = top
           /\ \A k \in 1 .. top : Halved(top)[k] = Halved(top)[k - 1] \div 2
           /\ \A k \in 0 .. top : Halved(top)[k] <= top - k
<1> DEFINE step == [p \in (1 .. top) \X Nat |-> p[2] \div 2]
<1>1. \A k \in 1 .. top, v \in Nat : step[<<k, v>>] = v \div 2 /\ step[<<k, v>>] \in Nat
    OBVIOUS
<1> HIDE DEF step
<1>2. PICK g : GoesOn(g, top, Nat, top, step)
    BY <1>1, Recursion
<1>3. /\ g \in [0 .. top -> Nat] /\ g[0] = top
      /\ \A k \in 1 .. top : g[k] = g[k - 1] \div 2
  <2>1. g \in [0 .. top -> Nat] /\ g[0] = top
      BY <1>2 DEF GoesOn
  <2>2. ASSUME NEW k \in 1 .. top PROVE g[k] = g[k - 1] \div 2
    <3>1. k - 1 \in 0 .. top
        OBVIOUS
    <3>2. g[k - 1] \in Nat
        BY <2>1, <3>1
    <3>3. g[k] = step[<<k, g[k - 1]>>]
        BY <1>2 DEF GoesOn
    <3> QED
        BY <1>1, <3>2, <3>3
  <2> QED
      BY <2>1, <2>2
<1>4. g = [k \in 0 .. top |-> IF k = 0 THEN top ELSE g[k - 1] \div 2]
    BY <1>3
<1>5. PICK f : /\ f = [k \in 0 .. top |-> IF k = 0 THEN top ELSE f[k - 1] \div 2]
               /\ Halved(top) = f
    BY <1>4, Zenon DEF Halved
<1> DEFINE S == {k \in 0 .. top : f[k] = g[k] /\ g[k] <= top - k}
<1>6. 0 \in S
    BY <1>3, <1>5
<1>7. ASSUME NEW k \in 0 .. top - 1, k \in S PROVE k + 1 \in S
  <2> DEFINE m == k + 1
  <2>1. m \in 1 .. top /\ m \in 0 .. top /\ m # 0 /\ m - 1 = k /\ k \in 0 .. top
      OBVIOUS
  <2>2. top - m = top - k - 1
      OBVIOUS
  <2> HIDE DEF m
  <2>3. f[m] = f[k] \div 2 /\ g[m] = g[k] \div 2
      BY <1>3, <1>5, <2>1
  <2>4. g[k] \in Nat /\ g[k] <= top - k /\ f[k] = g[k] /\ top - k >= 1
      BY <1>3, <1>7, <2>1
  <2>5. g[k] \div 2 <= top - k - 1
      BY <2>4
  <2> QED
      BY <2>1, <2>2, <2>3, <2>4, <2>5 DEF m
<1>8. \A k \in 0 .. top : k \in S
  <2> HIDE DEF S
  <2> QED
      BY <1>6, <1>7, UpTo
<1>9. DOMAIN f = 0 .. top /\ \A k \in 0 .. top : f[k] = g[k]
    BY <1>5, <1>8
<1>10. f = g
    BY <1>3, <1>5, <1>9
<1> QED
    BY <1>3, <1>5, <1>8, <1>10

(* How often a size can be halved that is still above a floor.             *)
LEMMA HalvingsFacts ==
    ASSUME NEW top \in Nat \ {0}, NEW floor \in Nat \ {0},
           NEW n, n = Cardinality({k \in 0 .. top : Halved(top)[k] > floor})
    PROVE  /\ n \in 0 .. top /\ Halved(top)[n] <= floor
           /\ \A k \in 0 .. n : Halved(top)[k] \in Nat \ {0} /\ Halved(top)[n] <= Halved(top)[k]
<1> DEFINE h == Halved(top)
           above == {k \in 0 .. top : h[k] > floor}
           T == {k \in 0 .. top : ~(h[k] > floor)}
<1>1. /\ h \in [0 .. top -> Nat] /\ h[0] = top
      /\ \A k \in 1 .. top : h[k] = h[k - 1] \div 2
      /\ \A k \in 0 .. top : h[k] <= top - k
    BY HalvedFacts
<1> HIDE DEF h
<1>2. top \in T
  <2>1. h[top] \in Nat /\ h[top] <= top - top
      BY <1>1
  <2> QED
      BY <2>1
<1>3. PICK m \in T : \A k \in T : m <= k
  <2>1. T \in SUBSET Nat
      OBVIOUS
  <2> HIDE DEF T
  <2> QED
      BY <1>2, <2>1, LeastNumber
<1>4. ASSUME NEW k \in 1 .. top PROVE k - 1 \in 0 .. top /\ h[k] <= h[k - 1]
  <2>1. k - 1 \in 0 .. top
      OBVIOUS
  <2>2. h[k - 1] \in Nat /\ h[k] = h[k - 1] \div 2
      BY <1>1, <2>1
  <2> QED
      BY <2>1, <2>2
<1> DEFINE S == {k \in 0 .. top : k >= m => h[k] <= h[m]}
<1>5. 0 \in S
    BY <1>1, <1>3
<1>6. ASSUME NEW k \in 0 .. top - 1, k \in S PROVE k + 1 \in S
  <2> DEFINE l == k + 1
  <2>1. l \in 1 .. top /\ l \in 0 .. top /\ l - 1 = k /\ (l >= m => l = m \/ k >= m)
      BY <1>3
  <2> HIDE DEF l
  <2>2. h[l] \in Nat /\ h[k] \in Nat /\ h[m] \in Nat /\ h[l] <= h[k]
      BY <1>1, <1>3, <1>4, <2>1
  <2> QED
      BY <1>6, <2>1, <2>2 DEF l
<1>7. \A k \in 0 .. top : k \in S
  <2> HIDE DEF S
  <2> QED
      BY <1>5, <1>6, UpTo
<1>8. above = 0 .. m - 1
  <2>1. ASSUME NEW k \in above PROVE k \in 0 .. m - 1
    <3>1. h[k] \in Nat /\ h[m] \in Nat /\ ~(h[m] > floor) /\ h[k] > floor /\ m \in Nat /\ k \in Nat
        BY <1>1, <1>3
    <3>2. ~(k >= m)
        BY <1>7, <3>1
    <3> QED
        BY <3>1, <3>2
  <2>2. ASSUME NEW k \in 0 .. m - 1 PROVE k \in above
    <3>1. k \in 0 .. top /\ ~(m <= k)
        BY <1>3
    <3> QED
        BY <1>3, <3>1
  <2> QED
      BY <2>1, <2>2
<1>9. n = m
  <2>1. m \in Nat
      BY <1>3
  <2>2. Cardinality(0 .. m - 1) = m
      BY <2>1, FS_Interval
  <2> QED
      BY <1>8, <2>2 DEF h
<1>10. ASSUME NEW k \in 0 .. m PROVE h[k] \in Nat \ {0} /\ h[m] <= h[k]
  <2>1. CASE k \in 0 .. m - 1
    <3>1. k \in 0 .. top /\ h[k] > floor /\ h[k] \in Nat /\ h[m] \in Nat /\ ~(h[m] > floor)
        BY <1>1, <1>3, <1>8, <2>1
    <3> QED
        BY <3>1
  <2>2. CASE k = m /\ m = 0
      BY <1>1, <1>3, <2>2
  <2>3. CASE k = m /\ m # 0
    <3>1. m - 1 \in 0 .. m - 1 /\ m \in 1 .. top
        BY <1>3, <2>3
    <3>2. h[m - 1] > floor /\ h[m - 1] \in Nat /\ h[m] = h[m - 1] \div 2 /\ h[m] \in Nat
        BY <1>1, <1>8, <3>1
    <3> QED
        BY <2>3, <3>2
  <2> QED
      BY <1>3, <2>1, <2>2, <2>3
<1>11. m \in 0 .. top /\ h[m] \in Nat /\ h[m] <= floor
    BY <1>1, <1>3
<1> QED
    BY <1>9, <1>10, <1>11 DEF h

-----------------------------------------------------------------------------
(* What a request weighs.                                                  *)

Call == {Text, Look}
ReplyType == [calls : Seq(Call), opaque : {0, Signature}]
ShedType == [images : Nat, opaque : Nat, cap : Nat]

\* It leaves out what the other leaves out.
ShedsMore(shed, other) ==
    shed.images >= other.images /\ shed.opaque >= other.opaque /\ shed.cap <= other.cap

LEMMA CallPieces ==
    ASSUME NEW call \in Call
    PROVE  /\ call.raw \in Nat \ {0} /\ call.escaped \in Nat /\ call.picture \in Nat
           /\ \/ call.raw = 8 /\ call.escaped = 10
              \/ call.raw = 1 /\ call.escaped = 1
<1>1. CASE call = Text
    BY <1>1 DEF Text
<1>2. CASE call = Look
    BY <1>2 DEF Look
<1> QED
    BY <1>1, <1>2 DEF Call

LEMMA ResultFacts ==
    ASSUME NEW call \in Call, NEW cap \in Nat, NEW more \in Nat, cap <= more
    PROVE  /\ WeightOfResult(call, cap) \in Nat /\ WeightOfResult(call, more) \in Nat
           /\ WeightOfResult(call, cap) <= WeightOfResult(call, more)
<1>1. CASE call.raw = 8 /\ call.escaped = 10
  <2>1. \A c \in Nat : WeightOfResult(call, c) = IF 8 <= c THEN 10 ELSE (10 * c) \div 8
      BY <1>1 DEF WeightOfResult
  <2> QED
      BY <2>1
<1>2. CASE call.raw = 1 /\ call.escaped = 1
  <2>1. \A c \in Nat : WeightOfResult(call, c) = IF 1 <= c THEN 1 ELSE (1 * c) \div 1
      BY <1>2 DEF WeightOfResult
  <2> QED
      BY <2>1
<1> QED
    BY <1>1, <1>2, CallPieces

LEMMA ReplyFacts ==
    ASSUME NEW reply \in ReplyType, NEW i \in Nat, NEW shed \in ShedType, NEW other \in ShedType,
           ShedsMore(shed, other)
    PROVE  /\ WeightOfReply(reply, i, shed) \in Nat /\ WeightOfReply(reply, i, other) \in Nat
           /\ WeightOfReply(reply, i, shed) <= WeightOfReply(reply, i, other)
<1> DEFINE calls == reply.calls
           n == Len(calls)
           results(s) == [c \in DOMAIN calls |-> WeightOfResult(calls[c], s.cap)]
           pictures == [c \in DOMAIN calls |-> calls[c].picture]
           thinking(s) == IF i > s.opaque THEN reply.opaque ELSE 0
           seen(s) == IF i > s.images /\ sees THEN Total(pictures) ELSE 0
<1>1. /\ n \in Nat /\ DOMAIN calls = 1 .. n /\ \A c \in 1 .. n : calls[c] \in Call
      /\ reply.opaque \in Nat
  <2>1. calls \in Seq(Call) /\ reply.opaque \in Nat
      BY DEF ReplyType, Signature
  <2> HIDE DEF calls
  <2> QED
      BY <2>1, LenProperties, ElementOfSeq
<1>2. \A s \in {shed, other} :
         WeightOfReply(reply, i, s) = Words + Total(results(s)) + thinking(s) + seen(s)
    BY DEF WeightOfReply
<1> HIDE DEF n, calls
<1>3. /\ shed.cap \in Nat /\ shed.images \in Nat /\ shed.opaque \in Nat
      /\ other.cap \in Nat /\ other.images \in Nat /\ other.opaque \in Nat
      /\ shed.images >= other.images /\ shed.opaque >= other.opaque /\ shed.cap <= other.cap
    BY DEF ShedType, ShedsMore
<1>4. /\ Total(results(shed)) \in Nat /\ Total(results(other)) \in Nat
      /\ Total(results(shed)) <= Total(results(other))
  <2> DEFINE a == results(shed)
             b == results(other)
  <2>1. \A c \in 1 .. n : a[c] \in Nat /\ b[c] \in Nat /\ a[c] <= b[c]
      BY <1>1, <1>3, ResultFacts
  <2>2. a \in [1 .. n -> Nat] /\ b \in [1 .. n -> Nat]
      BY <1>1, <2>1
  <2> HIDE DEF a, b
  <2>3. Total(a) \in Nat /\ Total(b) \in Nat /\ Total(a) <= Total(b)
      BY <1>1, <2>1, <2>2, TotalFacts
  <2> QED
      BY <2>3 DEF a, b
<1>5. Total(pictures) \in Nat
  <2>1. \A c \in 1 .. n : pictures[c] \in Nat
      BY <1>1, CallPieces
  <2>2. pictures \in [1 .. n -> Nat] /\ \A c \in 1 .. n : pictures[c] <= pictures[c]
      BY <1>1, <2>1
  <2> HIDE DEF pictures
  <2> QED
      BY <1>1, <2>2, TotalFacts
<1> HIDE DEF results, pictures
<1>6. /\ thinking(shed) \in Nat /\ thinking(other) \in Nat /\ thinking(shed) <= thinking(other)
      /\ seen(shed) \in Nat /\ seen(other) \in Nat /\ seen(shed) <= seen(other)
    BY <1>1, <1>3, <1>5
<1> DEFINE rs == Total(results(shed))
           ro == Total(results(other))
<1> HIDE DEF thinking, seen, rs, ro
<1>7. /\ WeightOfReply(reply, i, shed) = 1 + rs + thinking(shed) + seen(shed)
      /\ WeightOfReply(reply, i, other) = 1 + ro + thinking(other) + seen(other)
    BY <1>2 DEF rs, ro, Words
<1>8. rs \in Nat /\ ro \in Nat /\ rs <= ro
    BY <1>4 DEF rs, ro
<1> QED
    BY <1>6, <1>7, <1>8

\* The conversation.
Talked ==
    replies \in Seq(ReplyType) /\ said \in Nat

LEMMA WeightFacts ==
    ASSUME Talked, NEW shed \in ShedType, NEW other \in ShedType, ShedsMore(shed, other)
    PROVE  Weight(shed) \in Nat /\ Weight(other) \in Nat /\ Weight(shed) <= Weight(other)
<1> DEFINE n == Len(replies)
           a == [i \in DOMAIN replies |-> WeightOfReply(replies[i], i, shed)]
           b == [i \in DOMAIN replies |-> WeightOfReply(replies[i], i, other)]
<1>1. n \in Nat /\ DOMAIN replies = 1 .. n /\ \A i \in 1 .. n : replies[i] \in ReplyType
    BY LenProperties, ElementOfSeq DEF Talked
<1> HIDE DEF n
<1>2. \A i \in 1 .. n : a[i] \in Nat /\ b[i] \in Nat /\ a[i] <= b[i]
    BY <1>1, ReplyFacts
<1>3. a \in [1 .. n -> Nat] /\ b \in [1 .. n -> Nat]
    BY <1>1, <1>2
<1>4. Weight(shed) = Words * said + Total(a) /\ Weight(other) = Words * said + Total(b)
    BY DEF Weight
<1> HIDE DEF a, b
<1>5. Total(a) \in Nat /\ Total(b) \in Nat /\ Total(a) <= Total(b)
    BY <1>1, <1>2, <1>3, TotalFacts
<1> QED
    BY <1>4, <1>5 DEF Talked, Words

-----------------------------------------------------------------------------
(* What is left out, step by step.                                         *)

LEMMA OutsetFacts ==
    ASSUME Talked
    PROVE  /\ Len(replies) \in Nat
           /\ Outset \in ShedType /\ Outset.cap = MostReplayed
           /\ Outset.images <= Len(replies) /\ Outset.opaque <= Len(replies)
           /\ Outset.images = AllBut(RecentReplies) /\ Outset.opaque = AllBut(LiveReplies)
           /\ Blind \in ShedType /\ Blind.cap = MostReplayed
           /\ Blind.images = Len(replies) /\ Blind.opaque = Outset.opaque
<1>1. /\ Len(replies) \in Nat /\ MostReplayed \in Nat
      /\ RecentReplies \in Nat /\ LiveReplies \in Nat
    BY RequestsAssumption, LenProperties DEF Talked
<1>2. \A n \in Nat : AllBut(n) \in Nat /\ AllBut(n) <= Len(replies)
    BY <1>1 DEF AllBut
<1> HIDE DEF AllBut
<1>3. Outset \in ShedType
    BY <1>1, <1>2 DEF Outset, ShedType
<1>4. /\ Outset.cap = MostReplayed /\ Outset.images = AllBut(RecentReplies)
      /\ Outset.opaque = AllBut(LiveReplies)
    BY DEF Outset
<1>5. Blind = [images |-> Len(replies), opaque |-> Outset.opaque, cap |-> MostReplayed]
    BY DEF Blind, Outset
<1>6. Blind \in ShedType
    BY <1>1, <1>3, <1>5 DEF ShedType
<1> QED
    BY <1>1, <1>2, <1>3, <1>4, <1>5, <1>6

LEMMA JoinFacts ==
    ASSUME NEW V, NEW s \in Seq(V), NEW t \in Seq(V), NEW m \in Nat, NEW n \in Nat,
           Len(s) = m, Len(t) = n
    PROVE  /\ s \o t \in Seq(V) /\ Len(s \o t) = m + n
           /\ \A i \in 1 .. m : (s \o t)[i] = s[i]
           /\ \A i \in 1 .. n : (s \o t)[m + i] = t[i]
<1> DEFINE u == s \o t
<1>1. /\ u \in Seq(V) /\ Len(u) = m + n
      /\ \A i \in 1 .. m + n : u[i] = IF i <= m THEN s[i] ELSE t[i - m]
    BY ConcatProperties
<1> HIDE DEF u
<1>2. \A i \in 1 .. m : i \in 1 .. m + n /\ i <= m
    OBVIOUS
<1>3. \A i \in 1 .. n : m + i \in 1 .. m + n /\ ~(m + i <= m) /\ m + i - m = i
    OBVIOUS
<1>4. \A i \in 1 .. m : u[i] = s[i]
    BY <1>1, <1>2
<1>5. ASSUME NEW i \in 1 .. n PROVE u[m + i] = t[i]
  <2> DEFINE j == m + i
  <2>1. j \in 1 .. m + n /\ ~(j <= m) /\ j - m = i
      BY <1>3
  <2> HIDE DEF j
  <2>2. u[j] = t[j - m]
      BY <1>1, <2>1
  <2> QED
      BY <2>1, <2>2 DEF j
<1> QED
    BY <1>1, <1>4, <1>5 DEF u

\* How many steps take a picture, and how many a part of the results.
NPictures == Outset.images + 1
NResults == Cardinality({k \in 0 .. MostReplayed : Halved(MostReplayed)[k] > ResultFloor})

LEMMA StepsAre ==
    ASSUME Talked
    PROVE  /\ NPictures \in Nat /\ NResults \in Nat
           /\ Steps \in Seq(ShedType) /\ Len(Steps) = NPictures + 2 + NResults
           /\ Steps[1] = Outset
           /\ \A k \in 1 .. NPictures :
                 Steps[k + 1] = [Outset EXCEPT !.images = NPictures - k]
           /\ Steps[NPictures + 2] = Blind
           /\ \A k \in 1 .. NResults :
                 Steps[NPictures + 2 + k] = [Blind EXCEPT !.cap = Halved(MostReplayed)[k]]
<1> DEFINE P == NPictures
           R == NResults
           first == <<Outset>>
           pictures == PictureSteps
           blind == <<Blind>>
           results == ResultSteps
           a == first \o pictures
           b == a \o blind
           c == b \o results
<1>1. P \in Nat /\ R \in Nat
  <2>1. P \in Nat
      BY OutsetFacts DEF NPictures, ShedType
  <2>2. R \in Nat
      BY RequestsAssumption, HalvingsFacts DEF NResults
  <2> QED
      BY <2>1, <2>2
<1>2. /\ pictures \in Seq(ShedType) /\ Len(pictures) = P
      /\ \A k \in 1 .. P : pictures[k] = [Outset EXCEPT !.images = P - k]
  <2>1. pictures = [k \in 1 .. P |-> [Outset EXCEPT !.images = P - k]]
    <3>1. Outset.images \in Nat
        BY OutsetFacts DEF ShedType
    <3> DEFINE most == Outset.images
               Out(k) == [Outset EXCEPT !.images = k]
    <3>2. \A k \in 1 .. most + 1 : most + 1 - k = P - k
        BY <3>1 DEF NPictures
    <3>3. pictures = [k \in 1 .. most + 1 |-> Out(most + 1 - k)]
        BY DEF PictureSteps
    <3>4. P = most + 1
        BY DEF NPictures
    <3> HIDE DEF most, Out, P, pictures
    <3>5. pictures = [k \in 1 .. P |-> Out(P - k)]
        BY <3>2, <3>3, <3>4
    <3> QED
        BY <3>5 DEF Out
  <2>2. \A k \in 1 .. P : [Outset EXCEPT !.images = P - k] \in ShedType
      BY <1>1, OutsetFacts DEF ShedType
  <2> HIDE DEF pictures, P
  <2>3. pictures \in [1 .. P -> ShedType]
      BY <2>1, <2>2
  <2> QED
      BY <1>1, <2>1, <2>3, SeqDef, LenProperties
<1>3. /\ results \in Seq(ShedType) /\ Len(results) = R
      /\ \A k \in 1 .. R : results[k] = [Blind EXCEPT !.cap = Halved(MostReplayed)[k]]
  <2>1. results = [k \in 1 .. R |-> [Blind EXCEPT !.cap = Halved(MostReplayed)[k]]]
      BY DEF ResultSteps, NResults
  <2>2. R \in 0 .. MostReplayed /\ \A k \in 0 .. R : Halved(MostReplayed)[k] \in Nat
      BY RequestsAssumption, HalvingsFacts DEF NResults
  <2>3. \A k \in 1 .. R : [Blind EXCEPT !.cap = Halved(MostReplayed)[k]] \in ShedType
    <3>1. \A k \in 1 .. R : Halved(MostReplayed)[k] \in Nat
        BY <1>1, <2>2
    <3> HIDE DEF R
    <3> QED
        BY <3>1, OutsetFacts DEF ShedType
  <2> HIDE DEF results, R
  <2>4. results \in [1 .. R -> ShedType]
      BY <2>1, <2>3
  <2> QED
      BY <1>1, <2>1, <2>4, SeqDef, LenProperties
<1>4. first \in Seq(ShedType) /\ Len(first) = 1 /\ first[1] = Outset
    BY OutsetFacts
<1>5. blind \in Seq(ShedType) /\ Len(blind) = 1 /\ blind[1] = Blind
    BY OutsetFacts
<1>6. Steps = c
    BY DEF Steps
<1> HIDE DEF P, R, first, pictures, blind, results
<1>7. /\ a \in Seq(ShedType) /\ Len(a) = 1 + P /\ a[1] = Outset
      /\ \A k \in 1 .. P : a[1 + k] = pictures[k]
  <2> DEFINE one == 1
  <2>1. one \in Nat /\ one \in 1 .. one /\ Len(first) = one /\ first[one] = Outset
      BY <1>4
  <2> HIDE DEF one
  <2>2. /\ a \in Seq(ShedType) /\ Len(a) = one + P /\ a[one] = Outset
        /\ \A k \in 1 .. P : a[one + k] = pictures[k]
      BY <1>1, <1>2, <1>4, <2>1, JoinFacts
  <2> QED
      BY <2>2 DEF one
<1> HIDE DEF a
<1>8. /\ b \in Seq(ShedType) /\ Len(b) = 1 + P + 1 /\ b[1 + P + 1] = Blind
      /\ \A i \in 1 .. 1 + P : b[i] = a[i]
  <2> DEFINE one == 1
             p == 1 + P
  <2>1. /\ one \in Nat /\ one \in 1 .. one /\ Len(blind) = one /\ blind[one] = Blind
        /\ p \in Nat /\ Len(a) = p
      BY <1>1, <1>5, <1>7
  <2> HIDE DEF one, p
  <2>2. /\ b \in Seq(ShedType) /\ Len(b) = p + one /\ b[p + one] = Blind
        /\ \A i \in 1 .. p : b[i] = a[i]
      BY SMTT(60), <1>5, <1>7, <2>1, JoinFacts
  <2> QED
      BY <2>2 DEF one, p
<1> HIDE DEF b
<1>9. /\ c \in Seq(ShedType) /\ Len(c) = 1 + P + 1 + R
      /\ \A i \in 1 .. 1 + P + 1 : c[i] = b[i]
      /\ \A k \in 1 .. R : c[1 + P + 1 + k] = results[k]
  <2>1. 1 + P + 1 \in Nat
      BY <1>1
  <2> QED
      BY SMTT(60), <1>1, <1>3, <1>8, <2>1, JoinFacts
<1> HIDE DEF c
<1>10. /\ 1 \in 1 .. 1 + P /\ 1 \in 1 .. 1 + P + 1
       /\ 1 + P + 1 \in 1 .. 1 + P + 1 /\ 1 + P + 1 = P + 2
       /\ \A k \in 1 .. P : 1 + k = k + 1 /\ 1 + k \in 1 .. 1 + P /\ 1 + k \in 1 .. 1 + P + 1
    BY <1>1
<1>11. c[1] = Outset /\ c[P + 2] = Blind
    BY <1>7, <1>8, <1>9, <1>10
<1>12. \A k \in 1 .. P : c[k + 1] = [Outset EXCEPT !.images = P - k]
  <2> TAKE k \in 1 .. P
  <2> DEFINE j == 1 + k
  <2>1. j \in 1 .. 1 + P /\ j \in 1 .. 1 + P + 1 /\ j = k + 1
      BY <1>10
  <2>2. a[j] = pictures[k]
      BY <1>7
  <2> HIDE DEF j
  <2>3. c[j] = pictures[k]
      BY <1>8, <1>9, <2>1, <2>2
  <2> QED
      BY <1>2, <2>1, <2>3
<1>13. \A k \in 1 .. R : c[P + 2 + k] = [Blind EXCEPT !.cap = Halved(MostReplayed)[k]]
  <2> DEFINE m == P + 2
  <2>1. \A k \in 1 .. R : c[m + k] = results[k]
      BY <1>9, <1>10
  <2> HIDE DEF m
  <2> QED
      BY <1>3, <2>1 DEF m
<1> QED
    BY <1>1, <1>6, <1>9, <1>10, <1>11, <1>12, <1>13 DEF P, R

\* Every step leaves out what the last one does, and results are cut only when
\* no picture is left.
LEMMA StepFacts ==
    ASSUME Talked, NEW i \in 1 .. Len(Steps)
    PROVE  /\ Steps[i] \in ShedType /\ Steps[i].opaque = Outset.opaque
           /\ Steps[i].cap # 0 /\ Steps[i].images <= Len(replies)
           /\ Halved(MostReplayed)[NResults] <= Steps[i].cap
           /\ Steps[i].cap # MostReplayed =>
                 Steps[i].images = Len(replies) /\ NPictures + 2 \in 1 .. i - 1
<1> DEFINE h == Halved(MostReplayed)
<1>1. /\ h[0] = MostReplayed
      /\ \A k \in 0 .. NResults : h[k] \in Nat \ {0} /\ h[NResults] <= h[k]
  <2>1. MostReplayed \in Nat \ {0} /\ ResultFloor \in Nat \ {0}
      BY RequestsAssumption
  <2> QED
      BY <2>1, HalvedFacts, HalvingsFacts DEF NResults
<1>2. /\ Len(replies) \in Nat /\ Outset.images \in Nat
      /\ Outset \in ShedType /\ Outset.cap = MostReplayed /\ Outset.images <= Len(replies)
      /\ Blind \in ShedType /\ Blind.cap = MostReplayed
      /\ Blind.images = Len(replies) /\ Blind.opaque = Outset.opaque
      /\ NPictures \in Nat /\ NPictures = Outset.images + 1
    BY OutsetFacts DEF NPictures, ShedType
<1>3. /\ NResults \in Nat /\ Len(Steps) = NPictures + 2 + NResults /\ Steps[1] = Outset
      /\ \A k \in 1 .. NPictures : Steps[k + 1] = [Outset EXCEPT !.images = NPictures - k]
      /\ Steps[NPictures + 2] = Blind
      /\ \A k \in 1 .. NResults : Steps[NPictures + 2 + k] = [Blind EXCEPT !.cap = h[k]]
    BY StepsAre
<1>4. Steps[i] \in ShedType
    BY StepsAre, ElementOfSeq
<1> HIDE DEF h
<1>5. 0 \in 0 .. NResults /\ \A k \in 1 .. NResults : k \in 0 .. NResults
    BY <1>3
<1>6. h[NResults] <= MostReplayed /\ MostReplayed # 0
    BY <1>1, <1>5
<1>7. \/ i = 1
      \/ i - 1 \in 1 .. NPictures /\ i - 1 + 1 = i
      \/ i = NPictures + 2
      \/ i - (NPictures + 2) \in 1 .. NResults /\ NPictures + 2 + (i - (NPictures + 2)) = i
  <2> DEFINE p == NPictures
             q == NResults
  <2>1. p \in Nat /\ q \in Nat /\ i \in 1 .. p + 2 + q
      BY <1>2, <1>3
  <2> HIDE DEF p, q
  <2>2. \/ i = 1
        \/ i - 1 \in 1 .. p /\ i - 1 + 1 = i
        \/ i = p + 2
        \/ i - (p + 2) \in 1 .. q /\ p + 2 + (i - (p + 2)) = i
      BY <2>1
  <2> QED
      BY <2>2 DEF p, q
<1>8. CASE i = 1
    BY <1>2, <1>3, <1>4, <1>6, <1>8 DEF h
<1>9. CASE i - 1 \in 1 .. NPictures /\ i - 1 + 1 = i
  <2> DEFINE k == i - 1
  <2>1. k \in 1 .. NPictures /\ k + 1 = i
      BY <1>9
  <2> HIDE DEF k
  <2>2. Steps[i] = [Outset EXCEPT !.images = NPictures - k]
      BY <1>3, <2>1
  <2>3. Steps[i].opaque = Outset.opaque /\ Steps[i].cap = Outset.cap /\ Steps[i].images = NPictures - k
      BY <1>2, <2>2 DEF ShedType
  <2> QED
      BY <1>2, <1>4, <1>6, <2>1, <2>3 DEF h
<1>10. CASE i = NPictures + 2
  <2>1. Steps[i] = Blind
      BY <1>3, <1>10
  <2> QED
      BY <1>2, <1>4, <1>6, <2>1 DEF h
<1>11. CASE i - (NPictures + 2) \in 1 .. NResults /\ NPictures + 2 + (i - (NPictures + 2)) = i
  <2> DEFINE k == i - (NPictures + 2)
  <2>1. k \in 1 .. NResults /\ NPictures + 2 + k = i
      BY <1>11
  <2> HIDE DEF k
  <2>2. Steps[i] = [Blind EXCEPT !.cap = h[k]]
      BY <1>3, <2>1
  <2>3. Steps[i].opaque = Outset.opaque /\ Steps[i].cap = h[k] /\ Steps[i].images = Len(replies)
      BY <1>2, <2>2 DEF ShedType
  <2>4. h[k] \in Nat \ {0} /\ h[NResults] <= h[k]
      BY <1>1, <1>5, <2>1
  <2>5. NPictures + 2 \in 1 .. i - 1
    <3> DEFINE p == NPictures
    <3>0. p \in Nat /\ NResults \in Nat
        BY <1>2, <1>3
    <3>1. p \in Nat /\ k \in Nat \ {0} /\ p + 2 + k = i
        BY <2>1, <3>0
    <3> HIDE DEF p
    <3>2. p + 2 \in 1 .. i - 1
        BY <3>1
    <3> QED
        BY <3>2 DEF p
  <2> QED
      BY <1>2, <1>4, <2>3, <2>4, <2>5 DEF h
<1> QED
    BY <1>7, <1>8, <1>9, <1>10, <1>11

LEMMA LastStep ==
    ASSUME Talked
    PROVE  /\ Len(Steps) \in Nat \ {0} /\ Last(Steps) = Steps[Len(Steps)]
           /\ Last(Steps).images = Len(replies)
           /\ Last(Steps).cap = Halved(MostReplayed)[NResults]
           /\ Last(Steps).cap <= ResultFloor
<1> DEFINE h == Halved(MostReplayed)
<1>1. /\ h[0] = MostReplayed /\ h[NResults] <= ResultFloor
  <2>1. MostReplayed \in Nat \ {0} /\ ResultFloor \in Nat \ {0}
      BY RequestsAssumption
  <2> QED
      BY <2>1, HalvedFacts, HalvingsFacts DEF NResults
<1>2. /\ Blind \in ShedType /\ Blind.cap = MostReplayed /\ Blind.images = Len(replies)
    BY OutsetFacts
<1>3. /\ NPictures \in Nat /\ NResults \in Nat /\ Len(Steps) = NPictures + 2 + NResults
      /\ Steps[NPictures + 2] = Blind
      /\ \A k \in 1 .. NResults : Steps[NPictures + 2 + k] = [Blind EXCEPT !.cap = h[k]]
    BY StepsAre
<1> HIDE DEF h
<1>4. CASE NResults = 0
  <2>1. Steps[Len(Steps)] = Blind
      BY <1>3, <1>4
  <2> QED
      BY <1>1, <1>2, <1>3, <1>4, <2>1 DEF h, Last
<1>5. CASE NResults # 0
  <2>1. NResults \in 1 .. NResults
      BY <1>3, <1>5
  <2>2. Steps[Len(Steps)] = [Blind EXCEPT !.cap = h[NResults]]
      BY <1>3, <2>1
  <2>3. Steps[Len(Steps)].images = Len(replies) /\ Steps[Len(Steps)].cap = h[NResults]
      BY <1>2, <2>2 DEF ShedType
  <2> QED
      BY <1>1, <1>3, <2>3 DEF h, Last
<1> QED
    BY <1>4, <1>5

\* What a budget makes the request leave out.
Fitted(i, budget) ==
    /\ Shedding(budget) = Steps[i]
    /\ \A j \in 1 .. i - 1 : ~(Weight(Steps[j]) <= budget)
    /\ \/ Weight(Steps[i]) <= budget
       \/ i = Len(Steps) /\ ~(Weight(Steps[i]) <= budget)

LEMMA SheddingFits ==
    ASSUME Talked, NEW budget \in Nat
    PROVE  \E i \in 1 .. Len(Steps) : Fitted(i, budget)
<1> DEFINE n == Len(Steps)
           fit == {i \in 1 .. n : Weight(Steps[i]) <= budget}
<1>1. n \in Nat \ {0} /\ Last(Steps) = Steps[n]
    BY LastStep
<1>2. Shedding(budget) =
         LET i == IF fit # {} THEN Min(fit) ELSE 0
         IN  IF i = 0 THEN Last(Steps) ELSE Steps[i]
    BY DEF Shedding, FirstToFit, SelectInSeq
<1>3. fit \in SUBSET Nat /\ 0 \notin fit /\ \A i \in fit : i \in 1 .. n
    BY <1>1
<1>4. CASE fit = {}
  <2>1. \A j \in 1 .. n : ~(Weight(Steps[j]) <= budget)
      BY <1>4
  <2>2. Shedding(budget) = Steps[n]
      BY <1>1, <1>2, <1>4
  <2>3. n \in 1 .. n /\ \A j \in 1 .. n - 1 : j \in 1 .. n
      BY <1>1
  <2>4. Fitted(n, budget)
      BY <2>1, <2>2, <2>3 DEF Fitted
  <2> QED
      BY <2>3, <2>4
<1>5. CASE fit # {}
  <2> HIDE DEF fit
  <2>1. \E x \in fit : \A y \in fit : x <= y
      BY <1>3, <1>5, LeastNumber
  <2> DEFINE i == Min(fit)
  <2>2. i \in fit /\ \A y \in fit : i <= y
      BY <2>1 DEF Min
  <2> HIDE DEF i
  <2>3. i \in 1 .. n /\ i # 0
      BY <1>3, <2>2
  <2>4. Shedding(budget) = Steps[i]
      BY <1>2, <1>5, <2>3 DEF i
  <2>5. ASSUME NEW j \in 1 .. i - 1 PROVE ~(Weight(Steps[j]) <= budget)
    <3>1. j \in 1 .. n /\ ~(i <= j)
        BY <1>1, <2>3
    <3>2. j \notin fit
        BY <2>2, <3>1
    <3> QED
        BY <3>1, <3>2 DEF fit
  <2>6. Weight(Steps[i]) <= budget
      BY <2>2 DEF fit
  <2> QED
      BY <2>3, <2>4, <2>5, <2>6 DEF Fitted
<1> QED
    BY <1>4, <1>5

LEMMA StepWeight ==
    ASSUME Talked, NEW i \in 1 .. Len(Steps)
    PROVE  /\ Weight(Steps[i]) \in Nat /\ Weight(Steps[Len(Steps)]) \in Nat
           /\ Weight(Steps[Len(Steps)]) <= Weight(Steps[i])
<1> DEFINE n == Len(Steps)
<1>1. n \in 1 .. n /\ Steps[n].images = Len(replies) /\ Steps[n].cap = Halved(MostReplayed)[NResults]
    BY LastStep
<1>2. /\ Steps[i] \in ShedType /\ Steps[i].opaque = Outset.opaque
      /\ Steps[i].images <= Len(replies) /\ Halved(MostReplayed)[NResults] <= Steps[i].cap
    BY StepFacts
<1>3. Steps[n] \in ShedType /\ Steps[n].opaque = Outset.opaque
    BY <1>1, StepFacts
<1>4. ShedsMore(Steps[n], Steps[i])
    BY <1>1, <1>2, <1>3 DEF ShedsMore, ShedType
<1> QED
    BY <1>2, <1>3, <1>4, WeightFacts

(* A smaller budget never makes a larger request.                          *)
LEMMA LessBudgetLessWeight ==
    ASSUME Talked, NEW less \in Nat, NEW budget \in Nat, less <= budget
    PROVE  Weight(Shedding(less)) <= Weight(Shedding(budget))
<1>1. PICK i \in 1 .. Len(Steps) : Fitted(i, less)
    BY SheddingFits
<1>2. PICK k \in 1 .. Len(Steps) : Fitted(k, budget)
    BY SheddingFits
<1> DEFINE wi == Weight(Steps[i])
           wk == Weight(Steps[k])
<1>3. /\ wi \in Nat /\ wk \in Nat /\ Weight(Steps[Len(Steps)]) <= wk
      /\ Weight(Shedding(less)) = wi /\ Weight(Shedding(budget)) = wk
    BY <1>1, <1>2, StepWeight DEF Fitted
<1>4. CASE wi <= less
  <2>1. CASE wk <= less
    <3>1. \A j \in 1 .. i - 1 : j # k
        BY <1>1, <2>1 DEF Fitted
    <3>2. \A j \in 1 .. k - 1 : j # i
      <4>1. wi <= budget
          BY <1>3, <1>4
      <4> QED
          BY <1>2, <4>1 DEF Fitted
    <3>3. i = k
      <4>1. ~(i < k) /\ ~(k < i)
          BY <3>1, <3>2
      <4> QED
          BY <4>1
    <3> QED
        BY <1>3, <3>3
  <2>2. CASE ~(wk <= less)
      BY <1>3, <1>4, <2>2
  <2> QED
      BY <2>1, <2>2
<1>5. CASE i = Len(Steps)
    BY <1>3, <1>5
<1> QED
    BY <1>1, <1>4, <1>5 DEF Fitted

-----------------------------------------------------------------------------
(* What a reply says.                                                      *)

LEMMA AnswerFacts ==
    ASSUME NEW answer \in Answers
    PROVE  answer.reply \in ReplyType
<1>1. PICK choices \in SeqOf(ReplyChoices, 2) : answer = AnswerFrom(choices)
    BY DEF Answers
<1>2. PICK n \in 0 .. 2 : choices \in [1 .. n -> ReplyChoices]
    BY DEF SeqOf
<1> DEFINE calls == [i \in DOMAIN choices |-> choices[i].calls]
           all == FlattenSeq(calls)
           thought == IF Some(choices, LAMBDA c : c.thinks) THEN Signature ELSE 0
<1>3. \A c \in ReplyChoices : c.calls \in Seq(Call)
  <2> DEFINE none == <<>>
             text == <<Text>>
             look == <<Look>>
  <2>1. \A c \in ReplyChoices : c.calls = none \/ c.calls = text \/ c.calls = look
      BY DEF ReplyChoices, Choice
  <2>2. none \in Seq(Call)
      BY EmptySeq
  <2>3. Text \in Call /\ Look \in Call
      BY DEF Call
  <2>4. text \in Seq(Call) /\ look \in Seq(Call)
      BY <2>3
  <2> HIDE DEF none, text, look
  <2> QED
      BY <2>1, <2>2, <2>4
<1>4. calls \in [1 .. n -> Seq(Call)]
    BY <1>2, <1>3
<1> HIDE DEF calls
<1>5. all \in Seq(Call)
    BY <1>4, FlattenFacts
<1>6. thought \in {0, Signature}
    OBVIOUS
<1> HIDE DEF all, thought
<1>7. answer.reply = [calls |-> all, opaque |-> thought]
    BY <1>1 DEF AnswerFrom, all, calls, thought
<1> QED
    BY <1>5, <1>6, <1>7 DEF ReplyType

-----------------------------------------------------------------------------
(* What a request carries.                                                 *)

LEMMA SheddingFacts ==
    ASSUME Talked, NEW budget \in Nat, NEW shed, shed = Shedding(budget)
    PROVE  /\ shed \in ShedType /\ shed.cap # 0 /\ shed.opaque = AllBut(LiveReplies)
           /\ Weight(shed) \in Nat /\ Weight(Blind) \in Nat
           /\ Weight(shed) > budget => shed.images = Len(replies) /\ shed.cap <= ResultFloor
           /\ shed.cap # MostReplayed => shed.images = Len(replies) /\ Weight(Blind) > budget
           /\ Weight(Outset) <= budget => shed = Outset
<1>1. PICK i \in 1 .. Len(Steps) : Fitted(i, budget)
    BY SheddingFits
<1>2. shed = Steps[i]
    BY <1>1 DEF Fitted
<1>3. /\ shed \in ShedType /\ shed.cap # 0 /\ shed.opaque = AllBut(LiveReplies)
      /\ shed.cap # MostReplayed =>
            shed.images = Len(replies) /\ NPictures + 2 \in 1 .. i - 1
    BY <1>2, StepFacts, OutsetFacts
<1>4. Weight(shed) \in Nat /\ Weight(Blind) \in Nat
  <2>1. \A s \in ShedType : ShedsMore(s, s)
      BY DEF ShedsMore, ShedType
  <2>2. Blind \in ShedType
      BY OutsetFacts
  <2> QED
      BY <1>3, <2>1, <2>2, WeightFacts
<1>5. ASSUME Weight(shed) > budget PROVE shed.images = Len(replies) /\ shed.cap <= ResultFloor
  <2>1. i = Len(Steps)
      BY <1>1, <1>2, <1>4, <1>5 DEF Fitted
  <2> QED
      BY <1>2, <2>1, LastStep
<1>6. ASSUME shed.cap # MostReplayed PROVE shed.images = Len(replies) /\ Weight(Blind) > budget
  <2>1. Steps[NPictures + 2] = Blind
      BY StepsAre
  <2>2. ~(Weight(Blind) <= budget)
      BY <1>1, <1>3, <1>6, <2>1 DEF Fitted
  <2> QED
      BY <1>3, <1>4, <1>6, <2>2
<1>7. ASSUME Weight(Outset) <= budget PROVE shed = Outset
  <2>1. Steps[1] = Outset /\ Len(Steps) \in Nat
      BY StepsAre, LastStep
  <2>2. 1 \notin 1 .. i - 1
      BY <1>1, <1>7, <2>1 DEF Fitted
  <2>3. i = 1
      BY <2>1, <2>2
  <2> QED
      BY <1>2, <2>1, <2>3
<1> QED
    BY <1>3, <1>4, <1>5, <1>6, <1>7

LEMMA MessageFacts ==
    ASSUME Talked, NEW shed, NEW i \in DOMAIN replies, NEW c \in DOMAIN replies[i].calls
    PROVE  LET result == Messages(shed)[i].results[c]
               call == replies[i].calls[c]
               shown == sees /\ call.picture > 0 /\ i > shed.images
           IN  /\ result.kept = Replayed(call, shed.cap) /\ (result.cut <=> call.raw > shed.cap)
               /\ result.shown <=> shown
               /\ result.unseen <=> sees /\ call.picture > 0 /\ ~shown
               /\ call \in Call
<1> DEFINE calls == replies[i].calls
           call == calls[c]
<1>1. Messages(shed)[i].results = [d \in DOMAIN calls |-> ResultMessage(calls[d], i, shed)]
    BY DEF Messages, ReplyMessages
<1>2. Messages(shed)[i].results[c] = ResultMessage(call, i, shed)
    BY <1>1
<1>3. call \in Call
  <2>1. replies[i] \in ReplyType
      BY ElementOfSeq DEF Talked
  <2>2. calls \in Seq(Call)
      BY <2>1 DEF ReplyType
  <2>3. c \in DOMAIN calls
      OBVIOUS
  <2> HIDE DEF calls
  <2>4. DOMAIN calls = 1 .. Len(calls)
      BY <2>2, LenProperties
  <2>5. c \in 1 .. Len(calls)
      BY <2>3, <2>4
  <2>6. calls[c] \in Call
      BY <2>2, <2>5, ElementOfSeq
  <2> QED
      BY <2>6
<1> HIDE DEF call
<1>4. LET result == ResultMessage(call, i, shed)
          shown == sees /\ call.picture > 0 /\ i > shed.images
      IN  /\ result.kept = Replayed(call, shed.cap) /\ (result.cut <=> call.raw > shed.cap)
          /\ result.shown <=> shown
          /\ result.unseen <=> sees /\ call.picture > 0 /\ ~shown
    BY Zenon DEF ResultMessage
<1> QED
    BY <1>2, <1>3, <1>4 DEF call

\* The request sent is what its budget makes of the conversation.
AsAssembled == sent = Assemble(sent.budget) /\ sent.budget \in Nat

LEMMA AssembledSheds ==
    ASSUME Talked, AsAssembled
    PROVE  ShedsOnlyWhatItMust
<1> DEFINE budget == sent.budget
           shed == Shedding(budget)
<1>1. budget \in Nat /\ sent.messages = Messages(shed) /\ sent.weight = Weight(shed)
  <2>1. sent = [messages |-> Messages(shed), weight |-> Weight(shed), budget |-> budget]
      BY DEF AsAssembled, Assemble
  <2>2. /\ sent.messages = [messages |-> Messages(shed), weight |-> Weight(shed), budget |-> budget].messages
        /\ sent.weight = [messages |-> Messages(shed), weight |-> Weight(shed), budget |-> budget].weight
      BY <2>1
  <2> QED
      BY <2>2 DEF AsAssembled
<1> HIDE DEF shed
<1>2. /\ shed \in ShedType /\ shed.cap # 0 /\ shed.opaque = AllBut(LiveReplies)
      /\ Weight(shed) \in Nat /\ Weight(Blind) \in Nat
      /\ Weight(shed) > budget => shed.images = Len(replies) /\ shed.cap <= ResultFloor
      /\ shed.cap # MostReplayed => shed.images = Len(replies) /\ Weight(Blind) > budget
      /\ Weight(Outset) <= budget => shed = Outset
    BY <1>1, SheddingFacts DEF shed
<1> HIDE DEF budget
<1>3. Len(replies) \in Nat /\ DOMAIN replies = 1 .. Len(replies) /\ shed.cap \in Nat \ {0}
  <2>1. shed.cap \in Nat
      BY <1>2 DEF ShedType
  <2> QED
      BY <1>2, <2>1, LenProperties DEF Talked
<1>4. DOMAIN sent.messages = DOMAIN replies
    BY <1>1 DEF Messages
<1>5. ASSUME NEW i \in DOMAIN replies
      PROVE  /\ Len(replies) - i < LiveReplies => sent.messages[i].signed
             /\ DOMAIN sent.messages[i].results = DOMAIN replies[i].calls
  <2>1. sent.messages[i] = ReplyMessages(i, shed)
      BY <1>1 DEF Messages
  <2>2. sent.messages[i].signed = (i > shed.opaque)
      BY <2>1 DEF ReplyMessages
  <2>3. DOMAIN sent.messages[i].results = DOMAIN replies[i].calls
      BY <2>1 DEF ReplyMessages
  <2>4. Len(replies) - i < LiveReplies => i > shed.opaque
      BY <1>2, <1>3, RequestsAssumption DEF AllBut
  <2> QED
      BY <2>2, <2>3, <2>4
<1>6. ASSUME NEW i \in DOMAIN replies, NEW c \in DOMAIN replies[i].calls
      PROVE  LET result == sent.messages[i].results[c]
                 call == replies[i].calls[c]
                 shown == sees /\ call.picture > 0 /\ i > shed.images
             IN  /\ result.kept = Replayed(call, shed.cap) /\ (result.cut <=> call.raw > shed.cap)
                 /\ result.shown <=> shown
                 /\ result.unseen <=> sees /\ call.picture > 0 /\ ~shown
                 /\ call.raw \in Nat \ {0}
    BY <1>1, MessageFacts, CallPieces
<1>7. \A call, cap : Replayed(call, cap) = IF call.raw <= cap THEN call.raw ELSE cap
    BY DEF Replayed
<1>8. ASSUME NEW i \in DOMAIN replies, NEW c \in DOMAIN replies[i].calls
      PROVE  LET result == sent.messages[i].results[c]
                 call == replies[i].calls[c]
             IN  /\ result.kept > 0 /\ result.kept <= shed.cap
                 /\ result.kept < call.raw => result.cut
                 /\ call.picture > 0 /\ sees => result.shown \/ result.unseen
                 /\ shed.images = Len(replies) => ~result.shown
                 /\ shed.cap = MostReplayed => result.kept = Usual(call)
                 /\ result.unseen /\ shed = Outset => ~(i > Outset.images)
  <2> DEFINE result == sent.messages[i].results[c]
             call == replies[i].calls[c]
             shown == sees /\ call.picture > 0 /\ i > shed.images
  <2>1. /\ result.kept = Replayed(call, shed.cap) /\ (result.cut <=> call.raw > shed.cap)
        /\ result.shown <=> shown
        /\ result.unseen <=> sees /\ call.picture > 0 /\ ~shown
        /\ call.raw \in Nat \ {0}
      BY <1>6
  <2>2. i \in Nat /\ i <= Len(replies)
      BY <1>3
  <2> HIDE DEF result, call
  <2>3. result.kept > 0 /\ result.kept <= shed.cap /\ (result.kept < call.raw => result.cut)
      BY <1>3, <1>7, <2>1
  <2>4. call.picture > 0 /\ sees => result.shown \/ result.unseen
      BY <2>1
  <2>5. shed.images = Len(replies) => ~result.shown
      BY <1>3, <2>1, <2>2
  <2>6. shed.cap = MostReplayed => result.kept = Usual(call)
      BY <2>1 DEF Usual
  <2>7. result.unseen /\ shed = Outset => ~(i > Outset.images)
      BY <2>1
  <2> QED
      BY <2>3, <2>4, <2>5, <2>6, <2>7 DEF result, call
<1>9. NothingLiveIsShed
    BY <1>4, <1>5, <1>8 DEF NothingLiveIsShed
<1>10. ASSUME shed.images = Len(replies) PROVE Bare
    BY <1>8, <1>10 DEF Bare
<1>11. ASSUME NEW i \in DOMAIN replies, NEW c \in DOMAIN replies[i].calls
       PROVE  LET result == sent.messages[i].results[c]
                  whole == Usual(replies[i].calls[c])
              IN  /\ sent.weight > sent.budget => Bare /\ result.kept <= ResultFloor
                  /\ result.kept < whole => Bare /\ Weight(Blind) > sent.budget
                  /\ Weight(Outset) <= sent.budget =>
                        /\ result.kept = whole
                        /\ result.unseen => Len(replies) - i >= RecentReplies
  <2> DEFINE result == sent.messages[i].results[c]
             call == replies[i].calls[c]
             whole == Usual(call)
  <2>1. /\ result.kept <= shed.cap
        /\ shed.cap = MostReplayed => result.kept = whole
        /\ result.unseen /\ shed = Outset => ~(i > Outset.images)
      BY <1>8
  <2>2. result.kept \in Nat /\ whole \in Nat
    <3>1. result.kept = Replayed(call, shed.cap) /\ call.raw \in Nat
        BY <1>6
    <3>2. MostReplayed \in Nat
        BY RequestsAssumption
    <3> HIDE DEF result, call
    <3> QED
        BY <1>3, <1>7, <3>1, <3>2 DEF Usual
  <2>3. i \in Nat /\ i <= Len(replies)
      BY <1>3
  <2> HIDE DEF result, call, whole
  <2>4. sent.weight > sent.budget => Bare /\ result.kept <= ResultFloor
    <3>1. ASSUME sent.weight > sent.budget PROVE shed.images = Len(replies) /\ shed.cap <= ResultFloor
        BY <1>1, <1>2, <3>1 DEF budget
    <3>2. ResultFloor \in Nat
        BY RequestsAssumption
    <3> QED
        BY <1>3, <1>10, <2>1, <2>2, <3>1, <3>2
  <2>5. result.kept < whole => Bare /\ Weight(Blind) > sent.budget
    <3>1. result.kept < whole => shed.cap # MostReplayed
        BY <2>1, <2>2
    <3> QED
        BY <1>2, <1>10, <3>1 DEF budget
  <2>6. ASSUME Weight(Outset) <= sent.budget
        PROVE  /\ result.kept = whole
               /\ result.unseen => Len(replies) - i >= RecentReplies
    <3>1. shed = Outset /\ Outset.cap = MostReplayed /\ Outset.images = AllBut(RecentReplies)
        BY <1>2, <2>6, OutsetFacts DEF budget
    <3>2. ~(i > AllBut(RecentReplies)) => Len(replies) - i >= RecentReplies
        BY <1>3, <2>3, RequestsAssumption DEF AllBut
    <3> QED
        BY <2>1, <3>1, <3>2
  <2> QED
      BY <2>4, <2>5, <2>6 DEF result, call, whole
<1>12. LossesAreInOrder
    BY <1>11 DEF LossesAreInOrder
<1> QED
    BY <1>9, <1>12 DEF ShedsOnlyWhatItMust

-----------------------------------------------------------------------------
(* The rounds of a turn.                                                   *)

\* A budget that was halved j times, as often as it may be.
HalvedTimes(j) == j \in 0 .. FullBudget /\ j <= Halvings /\ asking.budget = Halved(FullBudget)[j]

RequestTypes ==
    /\ Talked
    /\ sees \in BOOLEAN /\ limit \in Limits \cup {0}
    /\ asking \in [at : {"idle", "round", "again", "asked"},
                   budget : BudgetFloor .. FullBudget,
                   attempt : 0 .. MostAttempts - 1, asks : Nat]

\* Between rounds nothing is sent; in one, the request is what its budget makes it.
SentHolds ==
    IF asking.at \in {"idle", "round"} THEN sent = NotSent /\ asking = [Idle EXCEPT !.at = asking.at]
    ELSE /\ AsAssembled /\ sent.budget \in BudgetFloor .. FullBudget
         /\ IF asking.at = "asked" THEN sent.budget = asking.budget
            ELSE asking.budget <= sent.budget

\* Every request but the first is one attempt more, or one halving.
AsksCounted ==
    \E j \in 0 .. FullBudget :
        /\ HalvedTimes(j)
        /\ asking.asks <= asking.attempt + j + (IF asking.at = "asked" THEN 1 ELSE 0)

RequestInv == RequestTypes /\ SentHolds /\ AsksCounted

LEMMA HalvingStep ==
    ASSUME NEW j \in 0 .. FullBudget, Halved(FullBudget)[j] \div 2 >= BudgetFloor
    PROVE  j + 1 \in 0 .. FullBudget /\ j + 1 <= Halvings
           /\ Halved(FullBudget)[j + 1] = Halved(FullBudget)[j] \div 2
<1> DEFINE h == Halved(FullBudget)
           m == j + 1
           T == {k \in 1 .. FullBudget : h[k] >= BudgetFloor}
<1>0. FullBudget \in Nat \ {0} /\ BudgetFloor \in Nat \ {0}
    BY RequestsAssumption
<1>1. /\ h \in [0 .. FullBudget -> Nat]
      /\ \A k \in 1 .. FullBudget : h[k] = h[k - 1] \div 2
      /\ \A k \in 0 .. FullBudget : h[k] <= FullBudget - k
      /\ h[j] \div 2 >= BudgetFloor
    BY <1>0, HalvedFacts
<1> HIDE DEF h
<1>2. j # FullBudget
  <2>1. ASSUME j = FullBudget PROVE FALSE
    <3>1. h[j] \in Nat /\ h[j] <= 0
        BY <1>0, <1>1, <2>1
    <3> QED
        BY <1>0, <1>1, <3>1
  <2> QED
      BY <2>1
<1>3. m \in 1 .. FullBudget /\ m \in Nat /\ m - 1 = j
    BY <1>0, <1>2
<1> HIDE DEF m
<1>4. h[m] = h[j] \div 2 /\ h[m] >= BudgetFloor /\ h[m] \in Nat
    BY <1>1, <1>3
<1> DEFINE S == {n \in 0 .. m : \A k \in 0 .. n : h[n] <= h[k]}
<1>5. 0 \in S
  <2>1. h[0] \in Nat /\ h[0] <= h[0] /\ 0 \in 0 .. m
      BY <1>0, <1>1, <1>3
  <2>2. \A k \in 0 .. 0 : k = 0
      OBVIOUS
  <2> QED
      BY <2>1, <2>2
<1>6. ASSUME NEW n \in 0 .. m - 1, n \in S PROVE n + 1 \in S
  <2> DEFINE l == n + 1
  <2>1. l \in 1 .. FullBudget /\ l \in 0 .. m /\ l - 1 = n /\ \A k \in 0 .. l : k = l \/ k \in 0 .. n
      BY <1>0, <1>3
  <2> HIDE DEF l
  <2>2. h[l] \in Nat /\ h[n] \in Nat /\ h[l] = h[n] \div 2
    <3>1. l \in 0 .. FullBudget /\ n \in 0 .. FullBudget
        BY <1>0, <1>3, <2>1
    <3> QED
        BY <1>1, <2>1, <3>1
  <2>3. h[l] <= h[n]
      BY <2>2
  <2>4. ASSUME NEW k \in 0 .. l PROVE h[l] <= h[k]
    <3>1. h[k] \in Nat
      <4>1. k \in 0 .. FullBudget
          BY <1>0, <1>3, <2>1
      <4> QED
          BY <1>1, <4>1
    <3>2. k = l \/ h[n] <= h[k]
        BY <1>6, <2>1
    <3> QED
        BY <2>2, <2>3, <3>1, <3>2
  <2>5. l \in S
      BY <2>1, <2>4
  <2> QED
      BY <2>5 DEF l
<1>7. \A n \in 0 .. m : n \in S
  <2> HIDE DEF S
  <2> QED
      BY <1>3, <1>5, <1>6, UpTo
<1>8. 1 .. m \subseteq T
  <2>1. ASSUME NEW k \in 1 .. m PROVE k \in T
    <3>1. k \in 0 .. m /\ m \in 0 .. m /\ k \in 1 .. FullBudget
        BY <1>0, <1>3
    <3>2. h[k] \in Nat /\ h[m] <= h[k]
        BY <1>1, <1>7, <3>1
    <3> QED
        BY <1>0, <1>4, <3>1, <3>2
  <2> QED
      BY <2>1
<1>9. IsFiniteSet(T) /\ Cardinality(1 .. m) = m
  <2>1. IsFiniteSet(1 .. FullBudget)
      BY <1>0, FS_Interval
  <2>2. Cardinality(1 .. m) = m
    <3> DEFINE one == 1
    <3>1. one \in Int /\ m \in Int /\ one <= m /\ m - one + 1 = m
        BY <1>3
    <3> HIDE DEF one
    <3>2. Cardinality(one .. m) = m
        BY <3>1, FS_Interval
    <3> QED
        BY <3>2 DEF one
  <2> QED
      BY <2>1, <2>2, FS_Subset
<1>10. m <= Cardinality(T)
  <2> DEFINE U == 1 .. m
  <2>1. U \in SUBSET T /\ Cardinality(U) = m
      BY <1>8, <1>9
  <2> HIDE DEF T, U
  <2>2. Cardinality(U) <= Cardinality(T)
      BY <1>9, <2>1, FS_Subset
  <2> QED
      BY <2>1, <2>2
<1> QED
    BY <1>3, <1>4, <1>10 DEF Halvings, h, m

LEMMA SameWeight ==
    ASSUME UNCHANGED <<replies, said, sees>>
    PROVE  \A shed : Weight(shed)' = Weight(shed)
BY DEF Weight, WeightOfReply

LEMMA SameShedding ==
    ASSUME UNCHANGED <<replies, said, sees>>
    PROVE  \A b : Shedding(b)' = Shedding(b)
<1>1. Outset' = Outset /\ Blind' = Blind
    BY DEF Outset, Blind, AllBut
<1>2. Steps' = Steps
    BY <1>1 DEF Steps, PictureSteps, ResultSteps
<1> QED
    BY <1>2, SameWeight DEF Shedding, FirstToFit, SelectInSeq

LEMMA SameRequest ==
    ASSUME UNCHANGED <<replies, said, sees>>
    PROVE  /\ sent' = Assemble(asking.budget) /\ asking.budget \in Nat => AsAssembled'
           /\ AsAssembled /\ sent' = sent => AsAssembled'
<1>1. \A b : Assemble(b)' = Assemble(b)
  <2>1. \A shed : Messages(shed)' = Messages(shed)
      BY DEF Messages, ReplyMessages, ResultMessage
  <2> QED
      BY <2>1, SameWeight, SameShedding DEF Assemble
<1>2. ASSUME sent' = Assemble(asking.budget), asking.budget \in Nat PROVE AsAssembled'
  <2> DEFINE b == asking.budget
  <2>1. Assemble(b).budget = b
      BY DEF Assemble
  <2>2. sent'.budget = b
      BY <1>2, <2>1
  <2> DEFINE c == sent'.budget
  <2>3. sent' = Assemble(c) /\ c \in Nat
      BY <1>2, <2>2
  <2> QED
      BY <1>1, <2>3 DEF AsAssembled
<1>3. ASSUME AsAssembled, sent' = sent PROVE AsAssembled'
    BY <1>1, <1>3 DEF AsAssembled
<1> QED
    BY <1>2, <1>3

LEMMA HalvingsIsNumber == Halvings \in Nat
<1> DEFINE T == {k \in 1 .. FullBudget : Halved(FullBudget)[k] >= BudgetFloor}
<1>1. IsFiniteSet(1 .. FullBudget) /\ T \in SUBSET (1 .. FullBudget)
    BY RequestsAssumption, FS_Interval
<1> HIDE DEF T
<1>2. IsFiniteSet(T)
    BY <1>1, FS_Subset
<1>3. Cardinality(T) \in Nat
    BY <1>2, FS_CardinalityType
<1> QED
    BY <1>3 DEF Halvings, T

\* Between the rounds everything starts over.
LEMMA RestHolds ==
    ASSUME Talked', sees' \in BOOLEAN, limit' \in Limits \cup {0},
           asking'.at \in {"idle", "round"}, asking' = [Idle EXCEPT !.at = asking'.at],
           sent' = NotSent
    PROVE  RequestInv'
<1>0. /\ FullBudget \in Nat \ {0} /\ BudgetFloor \in Nat \ {0} /\ MostAttempts \in Nat \ {0}
      /\ BudgetFloor <= FullBudget
    BY RequestsAssumption
<1>1. /\ asking' = [at |-> asking'.at, budget |-> FullBudget, attempt |-> 0, asks |-> 0]
      /\ asking'.budget = FullBudget /\ asking'.attempt = 0 /\ asking'.asks = 0
    BY DEF Idle
<1>2. RequestTypes'
  <2>1. asking' \in [at : {"idle", "round", "again", "asked"},
                     budget : BudgetFloor .. FullBudget,
                     attempt : 0 .. MostAttempts - 1, asks : Nat]
      BY <1>0, <1>1
  <2> QED
      BY <2>1 DEF RequestTypes
<1>3. SentHolds'
    BY DEF SentHolds
<1>4. AsksCounted'
  <2>1. FullBudget = Halved(FullBudget)[0] /\ 0 \in 0 .. FullBudget /\ 0 <= Halvings
      BY <1>0, HalvedFacts, HalvingsIsNumber
  <2>2. HalvedTimes(0)'
      BY <1>1, <2>1 DEF HalvedTimes
  <2>3. asking'.asks <= asking'.attempt + 0 + (IF asking'.at = "asked" THEN 1 ELSE 0)
      BY <1>1
  <2> QED
      BY <2>1, <2>2, <2>3 DEF AsksCounted
<1> QED
    BY <1>2, <1>3, <1>4 DEF RequestInv

LEMMA SettleHolds ==
    ASSUME RequestInv, Settle
    PROVE  RequestInv'
<1>1. /\ asking'.at = "idle" /\ asking' = [Idle EXCEPT !.at = asking'.at] /\ sent' = NotSent
      /\ UNCHANGED <<replies, said, sees, limit>>
    BY DEF Settle, Idle
<1>2. Talked' /\ sees' \in BOOLEAN /\ limit' \in Limits \cup {0}
    BY <1>1 DEF RequestInv, RequestTypes, Talked
<1> QED
    BY <1>1, <1>2, RestHolds

LEMMA AskHolds ==
    ASSUME RequestInv, Ask
    PROVE  RequestInv'
<1>1. /\ asking.at \in {"round", "again"} /\ sent' = Assemble(asking.budget)
      /\ asking' = [asking EXCEPT !.at = "asked", !.asks = @ + 1]
      /\ UNCHANGED <<replies, said, sees, limit>>
    BY DEF Ask
<1>2. /\ asking.budget \in BudgetFloor .. FullBudget /\ asking.budget \in Nat
      /\ asking.asks \in Nat /\ asking.attempt \in Nat
    BY RequestsAssumption DEF RequestInv, RequestTypes
<1>3. /\ asking'.at = "asked" /\ asking'.budget = asking.budget
      /\ asking'.attempt = asking.attempt /\ asking'.asks = asking.asks + 1
    BY <1>1 DEF RequestInv, RequestTypes
<1>4. RequestTypes'
  <2>1. asking.asks + 1 \in Nat
      BY <1>2
  <2>2. asking' \in [at : {"idle", "round", "again", "asked"},
                     budget : BudgetFloor .. FullBudget,
                     attempt : 0 .. MostAttempts - 1, asks : Nat]
      BY <1>1, <2>1 DEF RequestInv, RequestTypes
  <2> QED
      BY <1>1, <2>2 DEF RequestInv, RequestTypes, Talked
<1>5. SentHolds'
  <2>1. AsAssembled'
      BY <1>1, <1>2, SameRequest
  <2>2. sent'.budget = asking.budget
      BY <1>1 DEF Assemble
  <2> QED
      BY <1>2, <1>3, <2>1, <2>2 DEF SentHolds
<1>6. AsksCounted'
  <2>1. PICK j \in 0 .. FullBudget :
           HalvedTimes(j) /\ asking.asks <= asking.attempt + j + (IF asking.at = "asked" THEN 1 ELSE 0)
      BY DEF RequestInv, AsksCounted
  <2>2. HalvedTimes(j)'
      BY <1>3, <2>1 DEF HalvedTimes
  <2>3. asking'.asks <= asking'.attempt + j + (IF asking'.at = "asked" THEN 1 ELSE 0)
      BY <1>1, <1>2, <1>3, <2>1, RequestsAssumption
  <2> QED
      BY <2>2, <2>3 DEF AsksCounted
<1> QED
    BY <1>4, <1>5, <1>6 DEF RequestInv

LEMMA TooLargeHolds ==
    ASSUME RequestInv, TooLarge
    PROVE  RequestInv'
<1>1. CASE CanTighten(asking.budget)
  <2>1. /\ asking.at = "asked" /\ asking' = [asking EXCEPT !.at = "again", !.budget = Tighter(@)]
        /\ UNCHANGED <<replies, said, sees, limit, sent>>
      BY <1>1 DEF TooLarge, TooLargeAgain
  <2>2. /\ asking.budget \in BudgetFloor .. FullBudget /\ asking.budget \in Nat
        /\ asking.asks \in Nat /\ asking.attempt \in Nat
        /\ FullBudget \in Nat /\ BudgetFloor \in Nat
      BY RequestsAssumption DEF RequestInv, RequestTypes
  <2>3. /\ asking'.at = "again" /\ asking'.budget = asking.budget \div 2
        /\ asking'.attempt = asking.attempt /\ asking'.asks = asking.asks
      BY <2>1 DEF RequestInv, RequestTypes, Tighter
  <2>4. asking.budget \div 2 >= BudgetFloor /\ asking.budget \div 2 \in BudgetFloor .. FullBudget
      BY <1>1, <2>2 DEF CanTighten, Tighter
  <2>5. RequestTypes'
    <3>1. Tighter(asking.budget) \in BudgetFloor .. FullBudget
        BY <2>4 DEF Tighter
    <3> QED
        BY <2>1, <3>1 DEF RequestInv, RequestTypes, Talked
  <2>6. SentHolds'
    <3>1. AsAssembled /\ sent.budget = asking.budget
        BY <2>1 DEF RequestInv, SentHolds
    <3>2. AsAssembled'
        BY <2>1, <3>1, SameRequest
    <3>3. asking'.budget <= sent'.budget /\ sent'.budget \in BudgetFloor .. FullBudget
        BY <2>1, <2>2, <2>3, <3>1
    <3> QED
        BY <2>3, <3>2, <3>3 DEF SentHolds
  <2>7. AsksCounted'
    <3>1. PICK j \in 0 .. FullBudget :
             HalvedTimes(j) /\ asking.asks <= asking.attempt + j + (IF asking.at = "asked" THEN 1 ELSE 0)
        BY DEF RequestInv, AsksCounted
    <3> DEFINE m == j + 1
    <3>2. m \in 0 .. FullBudget /\ m <= Halvings /\ Halved(FullBudget)[m] = asking.budget \div 2
        BY <2>4, <3>1, HalvingStep DEF HalvedTimes
    <3> HIDE DEF m
    <3>3. HalvedTimes(m)'
        BY <2>3, <3>2 DEF HalvedTimes
    <3>4. asking.asks <= asking.attempt + j + 1
        BY <2>1, <3>1
    <3>5. asking'.asks <= asking'.attempt + m + (IF asking'.at = "asked" THEN 1 ELSE 0)
        BY <2>2, <2>3, <3>1, <3>4 DEF m
    <3> QED
        BY <3>2, <3>3, <3>5 DEF AsksCounted
  <2> QED
      BY <2>5, <2>6, <2>7 DEF RequestInv
<1>2. CASE ~CanTighten(asking.budget)
    BY <1>2, SettleHolds DEF TooLarge
<1> QED
    BY <1>1, <1>2

LEMMA TransientHolds ==
    ASSUME RequestInv, asking.at = "asked", Transient
    PROVE  RequestInv'
<1>1. CASE WorthAskingAgain
  <2>1. /\ asking' = [asking EXCEPT !.at = "again", !.attempt = @ + 1]
        /\ UNCHANGED <<replies, said, sees, limit, sent>>
      BY <1>1 DEF Transient, AskAsItWas
  <2>2. /\ asking.budget \in BudgetFloor .. FullBudget /\ asking.budget \in Nat
        /\ asking.asks \in Nat /\ asking.attempt \in 0 .. MostAttempts - 1
        /\ MostAttempts \in Nat
      BY RequestsAssumption DEF RequestInv, RequestTypes
  <2>3. /\ asking'.at = "again" /\ asking'.budget = asking.budget
        /\ asking'.attempt = asking.attempt + 1 /\ asking'.asks = asking.asks
      BY <2>1 DEF RequestInv, RequestTypes
  <2>4. RequestTypes'
    <3>1. asking.attempt + 1 \in 0 .. MostAttempts - 1
        BY <1>1, <2>2 DEF WorthAskingAgain
    <3> QED
        BY <2>1, <3>1 DEF RequestInv, RequestTypes, Talked
  <2>5. SentHolds'
    <3>1. AsAssembled /\ sent.budget = asking.budget
        BY DEF RequestInv, SentHolds
    <3>2. AsAssembled'
        BY <2>1, <3>1, SameRequest
    <3>3. asking'.budget <= sent'.budget /\ sent'.budget \in BudgetFloor .. FullBudget
        BY <2>1, <2>2, <2>3, <3>1
    <3> QED
        BY <2>3, <3>2, <3>3 DEF SentHolds
  <2>6. AsksCounted'
    <3>1. PICK j \in 0 .. FullBudget :
             HalvedTimes(j) /\ asking.asks <= asking.attempt + j + (IF asking.at = "asked" THEN 1 ELSE 0)
        BY DEF RequestInv, AsksCounted
    <3>2. HalvedTimes(j)'
        BY <2>3, <3>1 DEF HalvedTimes
    <3>3. asking'.asks <= asking'.attempt + j + (IF asking'.at = "asked" THEN 1 ELSE 0)
        BY <2>2, <2>3, <3>1
    <3> QED
        BY <3>2, <3>3 DEF AsksCounted
  <2> QED
      BY <2>4, <2>5, <2>6 DEF RequestInv
<1>2. CASE ~WorthAskingAgain
    BY <1>2, SettleHolds DEF Transient
<1> QED
    BY <1>1, <1>2

LEMMA HearHolds ==
    ASSUME RequestInv, NEW answer \in Answers, Hear(answer)
    PROVE  RequestInv'
<1>1. CASE answer.kind = "acts"
  <2>1. /\ replies' = Append(replies, answer.reply) /\ asking' = [Idle EXCEPT !.at = "round"]
        /\ sent' = NotSent /\ UNCHANGED <<said, sees, limit>>
      BY <1>1 DEF Hear
  <2>2. replies \in Seq(ReplyType) /\ said \in Nat /\ answer.reply \in ReplyType
      BY AnswerFacts DEF RequestInv, RequestTypes, Talked
  <2> DEFINE reply == answer.reply
  <2>3. replies' = Append(replies, reply) /\ reply \in ReplyType
      BY <2>1, <2>2
  <2> HIDE DEF reply
  <2>4. Append(replies, reply) \in Seq(ReplyType)
      BY <2>2, <2>3, AppendProperties
  <2>5. Talked'
      BY <2>1, <2>2, <2>3, <2>4 DEF Talked
  <2>6. asking'.at = "round" /\ asking' = [Idle EXCEPT !.at = asking'.at]
      BY <2>1 DEF Idle
  <2>7. sees' \in BOOLEAN /\ limit' \in Limits \cup {0}
      BY <2>1 DEF RequestInv, RequestTypes
  <2> QED
      BY <2>1, <2>5, <2>6, <2>7, RestHolds
<1>2. CASE answer.kind = "spoke"
  <2>1. /\ said' = said + 1 /\ asking' = Idle
        /\ sent' = NotSent /\ UNCHANGED <<replies, sees, limit>>
      BY <1>2 DEF Hear
  <2>2. /\ asking'.at = "idle" /\ asking' = [Idle EXCEPT !.at = asking'.at]
        /\ Talked' /\ sees' \in BOOLEAN /\ limit' \in Limits \cup {0}
      BY <2>1 DEF Idle, RequestInv, RequestTypes, Talked
  <2> QED
      BY <2>1, <2>2, RestHolds
<1>3. CASE answer.kind = "empty"
    BY <1>3, TransientHolds DEF Hear
<1>4. CASE answer.kind = "refused"
    BY <1>4, SettleHolds DEF Hear
<1> QED
    BY <1>1, <1>2, <1>3, <1>4 DEF Hear

LEMMA TalkHolds ==
    ASSUME RequestInv, Talk
    PROVE  RequestInv'
<1>1. /\ said' = said + 1 /\ sees' \in BOOLEAN /\ limit' \in Limits
      /\ asking' = [Idle EXCEPT !.at = "round"] /\ UNCHANGED <<replies, sent>>
      /\ asking.at = "idle"
    BY DEF Talk
<1>2. /\ asking'.at = "round" /\ asking' = [Idle EXCEPT !.at = asking'.at]
      /\ Talked' /\ limit' \in Limits \cup {0} /\ sent' = NotSent
    BY <1>1 DEF Idle, RequestInv, RequestTypes, Talked, SentHolds
<1> QED
    BY <1>1, <1>2, RestHolds

LEMMA RequestInductive ==
    ASSUME RequestInv, [RNext]_rvars
    PROVE  RequestInv'
<1>1. CASE Talk
    BY <1>1, TalkHolds
<1>2. CASE Ask
    BY <1>2, AskHolds
<1>3. CASE TooLarge
    BY <1>3, TooLargeHolds
<1>4. CASE Unwell
    BY <1>4, TransientHolds DEF Unwell
<1>5. CASE Refuse \/ StopAsking
    BY <1>5, SettleHolds DEF Refuse, StopAsking
<1>6. CASE \E answer \in Answers : Hear(answer)
    BY <1>6, HearHolds
<1>7. CASE UNCHANGED rvars
  <2>1. UNCHANGED <<replies, said, sees, limit, asking, sent>>
      BY <1>7 DEF rvars
  <2>2. AsAssembled => AsAssembled'
      BY <2>1, SameRequest
  <2>3. RequestTypes' /\ SentHolds'
      BY <2>1, <2>2 DEF RequestInv, RequestTypes, Talked, SentHolds
  <2>4. AsksCounted'
      BY <2>1 DEF RequestInv, AsksCounted, HalvedTimes
  <2> QED
      BY <2>3, <2>4 DEF RequestInv
<1> QED
    BY <1>1, <1>2, <1>3, <1>4, <1>5, <1>6, <1>7 DEF RNext

LEMMA RequestInit == RInit => RequestInv
<1> SUFFICES ASSUME RInit PROVE RequestInv
    OBVIOUS
<1>0. /\ FullBudget \in Nat \ {0} /\ BudgetFloor \in Nat \ {0} /\ MostAttempts \in Nat \ {0}
      /\ BudgetFloor <= FullBudget
    BY RequestsAssumption
<1>1. /\ asking = [at |-> "idle", budget |-> FullBudget, attempt |-> 0, asks |-> 0]
      /\ replies = <<>> /\ said = 0 /\ sees = FALSE /\ limit = 0 /\ sent = NotSent
    BY DEF RInit, Idle
<1>2. RequestTypes
  <2> DEFINE none == <<>>
  <2>1. none \in Seq(ReplyType)
      BY EmptySeq
  <2> HIDE DEF none
  <2>2. replies = none
      BY <1>1 DEF none
  <2>3. asking \in [at : {"idle", "round", "again", "asked"},
                    budget : BudgetFloor .. FullBudget,
                    attempt : 0 .. MostAttempts - 1, asks : Nat]
      BY <1>0, <1>1
  <2> QED
      BY <1>1, <2>1, <2>2, <2>3 DEF RequestTypes, Talked
<1>3. SentHolds
    BY <1>1 DEF SentHolds, Idle
<1>4. AsksCounted
  <2>1. FullBudget = Halved(FullBudget)[0] /\ 0 \in 0 .. FullBudget /\ 0 <= Halvings
    <3>1. FullBudget \in Nat
        BY <1>0
    <3> QED
        BY <3>1, HalvedFacts, HalvingsIsNumber
  <2>2. HalvedTimes(0)
      BY <1>1, <2>1 DEF HalvedTimes
  <2>3. asking.asks <= asking.attempt + 0 + (IF asking.at = "asked" THEN 1 ELSE 0)
      BY <1>1
  <2> QED
      BY <2>1, <2>2, <2>3 DEF AsksCounted
<1> QED
    BY <1>2, <1>3, <1>4 DEF RequestInv

LEMMA RequestsHold == RSpec => []RequestInv
<1>1. RequestInv /\ [RNext]_rvars => RequestInv'
    BY RequestInductive
<1> QED
    BY <1>1, RequestInit, PTL DEF RSpec

(* For every conversation, every budget and every limit a gateway may      *)
(* have: a request answers every call, signs the replies the model may     *)
(* still be thinking from, says of each result what is missing from it,    *)
(* and leaves nothing out that need not be (copilot.rs:701-777).           *)
THEOREM NothingNeededIsShed == RSpec => []ShedsOnlyWhatItMust
<1>1. RequestInv => ShedsOnlyWhatItMust
  <2> SUFFICES ASSUME RequestInv PROVE ShedsOnlyWhatItMust
      OBVIOUS
  <2>1. CASE asking.at = "asked"
    <3>1. Talked /\ AsAssembled
        BY <2>1 DEF RequestInv, RequestTypes, SentHolds
    <3> QED
        BY <3>1, AssembledSheds
  <2>2. CASE asking.at # "asked"
      BY <2>2 DEF ShedsOnlyWhatItMust, NothingLiveIsShed, LossesAreInOrder
  <2> QED
      BY <2>1, <2>2
<1> QED
    BY <1>1, RequestsHold, PTL

(* For every number of attempts and every budget: a round asks at most     *)
(* once for every attempt and every halving, and what it asks again is     *)
(* never larger than what the gateway has had from it (turn.rs:401-446).   *)
THEOREM AskingShrinks == RSpec => AskedAgainNoLarger
<1> DEFINE A == /\ asking'.asks <= MostAttempts + Halvings
                /\ asking'.asks > asking.asks /\ asking.asks > 0 => sent'.weight <= sent.weight
<1>1. RequestInv /\ RequestInv' /\ [RNext]_rvars => [A]_rvars
  <2> SUFFICES ASSUME RequestInv, RequestInv', [RNext]_rvars PROVE A
      OBVIOUS
  <2>0. asking.asks \in Nat /\ asking'.asks \in Nat
      BY DEF RequestInv, RequestTypes
  <2>1. asking'.asks <= MostAttempts + Halvings
    <3>1. PICK j \in 0 .. FullBudget :
             /\ HalvedTimes(j)'
             /\ asking'.asks <= asking'.attempt + j + (IF asking'.at = "asked" THEN 1 ELSE 0)
        BY DEF RequestInv, AsksCounted
    <3>2. j \in Nat /\ j <= Halvings /\ Halvings \in Nat /\ MostAttempts \in Nat
        BY <3>1, HalvingsIsNumber, RequestsAssumption DEF HalvedTimes
    <3>3. asking'.attempt \in 0 .. MostAttempts - 1
        BY DEF RequestInv, RequestTypes
    <3> QED
        BY <2>0, <3>1, <3>2, <3>3
  <2>2. ASSUME asking'.asks > asking.asks, asking.asks > 0 PROVE sent'.weight <= sent.weight
    <3>1. Ask
      <4>1. CASE asking' = Idle \/ asking' = [Idle EXCEPT !.at = "round"]
        <5>1. asking'.asks = 0
            BY <4>1 DEF Idle
        <5> QED
            BY <2>0, <2>2, <5>1
      <4>2. CASE TooLargeAgain \/ AskAsItWas \/ UNCHANGED rvars
        <5>1. asking'.asks = asking.asks
            BY <4>2 DEF TooLargeAgain, AskAsItWas, rvars, RequestInv, RequestTypes
        <5> QED
            BY <2>0, <2>2, <5>1
      <4> QED
          BY <4>1, <4>2 DEF RNext, Talk, TooLarge, Unwell, Transient, Hear, Refuse, StopAsking, Settle
    <3>2. asking.at = "again"
      <4>1. CASE asking.at = "round"
        <5>1. asking = [Idle EXCEPT !.at = asking.at]
            BY <4>1 DEF RequestInv, SentHolds
        <5>2. asking.asks = 0
            BY <5>1 DEF Idle
        <5> QED
            BY <2>2, <5>2
      <4> QED
          BY <3>1, <4>1 DEF Ask
    <3> DEFINE less == asking.budget
               budget == sent.budget
    <3>3. Talked /\ AsAssembled /\ less <= budget /\ less \in Nat /\ budget \in Nat
        BY <3>2, RequestsAssumption DEF RequestInv, RequestTypes, SentHolds, AsAssembled
    <3>4. sent'.weight = Weight(Shedding(less))
      <4>1. sent' = Assemble(less)
          BY <3>1 DEF Ask
      <4> HIDE DEF less
      <4> QED
          BY <4>1 DEF Assemble
    <3>5. sent.weight = Weight(Shedding(budget))
      <4>1. sent = Assemble(budget)
          BY <3>3 DEF AsAssembled
      <4>2. Assemble(budget).weight = Weight(Shedding(budget))
          BY DEF Assemble
      <4> QED
          BY <4>1, <4>2
    <3> HIDE DEF less, budget
    <3>6. Weight(Shedding(less)) <= Weight(Shedding(budget))
        BY <3>3, LessBudgetLessWeight
    <3> QED
        BY <3>4, <3>5, <3>6
  <2> QED
      BY <2>1, <2>2
<1> QED
    BY <1>1, RequestsHold, PTL DEF RSpec, AskedAgainNoLarger

-----------------------------------------------------------------------------
(* The types.                                                              *)

(* Every variable keeps to its values, for every budget and every number   *)
(* of attempts; the weights and budgets of what is sent come from the      *)
(* invariant (copilot.rs, turn.rs).                                        *)
THEOREM RequestsTypeCorrect == RSpec => []RTypeOK
<1>1. RequestInv => RTypeOK
  <2> SUFFICES ASSUME RequestInv PROVE RTypeOK
      OBVIOUS
  <2>1. /\ Talked /\ sees \in BOOLEAN /\ limit \in Limits \cup {0}
        /\ asking \in [at : {"idle", "round", "again", "asked"},
                       budget : BudgetFloor .. FullBudget,
                       attempt : 0 .. MostAttempts - 1, asks : Nat]
        /\ SentHolds
      BY DEF RequestInv, RequestTypes
  <2>2. ASSUME NEW i \in DOMAIN replies
        PROVE  /\ replies[i].opaque \in {0, Signature}
               /\ \A c \in DOMAIN replies[i].calls : replies[i].calls[c] \in {Text, Look}
    <3> DEFINE calls == replies[i].calls
    <3>1. replies[i] \in ReplyType
        BY <2>1, ElementOfSeq DEF Talked
    <3>2. calls \in Seq(Call) /\ replies[i].opaque \in {0, Signature}
        BY <3>1 DEF ReplyType
    <3> HIDE DEF calls
    <3>3. \A c \in DOMAIN calls : calls[c] \in {Text, Look}
        BY <3>2, ElementOfSeq DEF Call
    <3> QED
        BY <3>2, <3>3 DEF calls
  <2>3. sent.weight \in Nat /\ sent.budget \in BudgetFloor .. FullBudget
    <3>1. CASE asking.at \in {"idle", "round"}
      <4>1. sent.weight = 0 /\ sent.budget = FullBudget
          BY <2>1, <3>1 DEF SentHolds, NotSent
      <4> QED
          BY <4>1, RequestsAssumption
    <3>2. CASE asking.at \notin {"idle", "round"}
      <4> DEFINE b == sent.budget
      <4>1. sent = Assemble(b) /\ b \in Nat /\ b \in BudgetFloor .. FullBudget
          BY <2>1, <3>2 DEF SentHolds, AsAssembled
      <4>2. sent.weight = Weight(Shedding(b))
        <5>1. Assemble(b).weight = Weight(Shedding(b))
          <6> HIDE DEF b
          <6> QED
              BY DEF Assemble
        <5> QED
            BY <4>1, <5>1
      <4> HIDE DEF b
      <4>3. Weight(Shedding(b)) \in Nat
          BY <2>1, <4>1, SheddingFacts
      <4> QED
          BY <4>1, <4>2, <4>3 DEF b
    <3> QED
        BY <3>1, <3>2
  <2> QED
      BY <2>1, <2>2, <2>3 DEF RTypeOK, Talked
<1> QED
    BY <1>1, RequestsHold, PTL

\* What the types of the picker leave out.
FenceBounds ==
    /\ manifest \in [host : Manifests, city : Manifests]
    /\ present \subseteq Folder /\ edits \in 0 .. MaxEdits /\ ticks \in 0 .. MaxTicks
    /\ picker.open \in BOOLEAN
    /\ choice.list # <<>> => choice.made
    /\ opened.choice.list # <<>> => opened.choice.made
    /\ fence.binds \subseteq Mount
    /\ ToSet(briefed.mounts) \subseteq Mount

\* What a plan is given is a list of folders.
LEMMA GivenMounts ==
    ASSUME PickerTypes
    PROVE  /\ MountsForPlan(opened.choice) \in Seq(Mount)
           /\ WithAllowed(MountsForPlan(opened.choice)) \subseteq Mount
           /\ ToSet(MountsForPlan(opened.choice)) \subseteq Mount
<1> DEFINE list == opened.choice.list
           own == list \o manifest.city
           all == manifest.host \o manifest.city
<1>1. /\ manifest.host \in Seq(Mount) /\ manifest.city \in Seq(Mount) /\ list \in Seq(Mount)
    BY DEF PickerTypes, RecordedMounts
<1>2. own \in Seq(Mount) /\ all \in Seq(Mount)
    BY <1>1, ConcatFacts
<1>3. MountsForPlan(opened.choice) = MergedMounts(own) \/ MountsForPlan(opened.choice) = MergedMounts(all)
    BY DEF MountsForPlan, MountsFor
<1> HIDE DEF own, all
<1>4. MountsForPlan(opened.choice) \in Seq(Mount)
    BY <1>2, <1>3, MergedFacts
<1>5. \A given \in Seq(Mount) : ToSet(given) \subseteq Mount /\ WithAllowed(given) \subseteq Mount
    BY SeqFacts DEF WithAllowed
<1> QED
    BY <1>4, <1>5

\* A step changes one of the two counters by one, or none.
LEMMA FenceBoundsNext == FenceBounds /\ PickerInv /\ FenceInv /\ FNext => FenceBounds'
<1> SUFFICES ASSUME FenceBounds, PickerInv, FenceInv, FNext PROVE FenceBounds'
    OBVIOUS
<1>1. /\ edits \in Nat /\ ticks \in Nat /\ MaxEdits \in Nat /\ MaxTicks \in Nat
      /\ picker = [open |-> picker.open, landed |-> picker.landed,
                   rows |-> picker.rows, current |-> picker.current]
      /\ choice \in RecordedMounts
      /\ fence = [up |-> fence.up, binds |-> fence.binds, current |-> fence.current,
                  asShown |-> fence.asShown]
      /\ PickerTypes
    BY FencesAssumption DEF FenceBounds, PickerInv, PickerTypes, FenceInv
<1>2. ToSet(<<>>) \subseteq Mount
    BY DEF ToSet
<1>3. CASE OpensPanel
    BY <1>3 DEF OpensPanel, NoPanel, FenceBounds
<1>4. CASE OffersLand
  <2>1. choice' = choice \/ choice'.made
      BY <1>4 DEF OffersLand, Seeded
  <2>2. picker'.open = picker.open
    <3> HIDE DEF MountCandidates
    <3> QED
        BY <1>1, <1>4 DEF OffersLand
  <2> QED
      BY <1>4, <2>1, <2>2 DEF OffersLand, FenceBounds
<1>5. CASE ClosesPanel
    BY <1>5 DEF ClosesPanel, NoPanel, FenceBounds
<1>6. ASSUME NEW row \in picker.rows, Toggles(row) PROVE FenceBounds'
  <2>1. choice'.made /\ ticks' \in 0 .. MaxTicks
      BY <1>1, <1>6 DEF Toggles, MayTick
  <2> QED
      BY <1>6, <2>1 DEF Toggles, FenceBounds
<1>7. ASSUME NEW m \in Mount, AddsMount(m) PROVE FenceBounds'
  <2>1. choice'.made /\ ticks' \in 0 .. MaxTicks
      BY <1>1, <1>7 DEF AddsMount, MayTick
  <2> QED
      BY <1>7, <2>1 DEF AddsMount, FenceBounds
<1>8. ASSUME NEW m \in Mount, DropsMount(m) PROVE FenceBounds'
  <2>1. ticks' \in 0 .. MaxTicks
      BY <1>1, <1>8 DEF DropsMount, MayTick
  <2>2. choice.list # <<>>
      BY <1>8 DEF DropsMount, Mine, ToSet
  <2>3. choice'.made
      BY <1>1, <1>8, <2>2 DEF DropsMount, FenceBounds, RecordedMounts
  <2> QED
      BY <1>8, <2>1, <2>3 DEF DropsMount, FenceBounds
<1>9. CASE BeginsPlan
    BY <1>9 DEF BeginsPlan, NoPanel, FenceBounds
<1>10. CASE BuildsFence
  <2>1. fence'.binds \subseteq Mount
      BY <1>1, <1>10, GivenMounts DEF BuildsFence
  <2> QED
      BY <1>2, <1>10, <2>1 DEF BuildsFence, NotBriefed, FenceBounds
<1>11. CASE BriefsCourt
  <2>1. ToSet(briefed'.mounts) \subseteq Mount
      BY <1>1, <1>11, GivenMounts DEF BriefsCourt
  <2> QED
      BY <1>11, <2>1 DEF BriefsCourt, FenceBounds
<1>12. CASE LosesFence
    BY <1>2, <1>12 DEF LosesFence, NoFence, NotBriefed, FenceBounds
<1>13. ASSUME MayEdit, Outdates PROVE
           /\ edits' \in 0 .. MaxEdits /\ picker'.open = picker.open
           /\ fence'.binds = fence.binds /\ UNCHANGED <<ticks, choice, opened, briefed>>
    BY <1>1, <1>13 DEF MayEdit, Outdates
<1>14. ASSUME NEW list \in Manifests, EditsHost(list) PROVE FenceBounds'
  <2>1. /\ edits' \in 0 .. MaxEdits /\ picker'.open = picker.open /\ fence'.binds = fence.binds
        /\ UNCHANGED <<present, ticks, choice, opened, briefed>>
      BY <1>1, <1>14 DEF MayEdit, EditsHost
  <2>2. manifest' \in [host : Manifests, city : Manifests]
      BY <1>14 DEF EditsHost, FenceBounds
  <2> QED
      BY <2>1, <2>2 DEF FenceBounds
<1>15. ASSUME NEW list \in Manifests, EditsCity(list) PROVE FenceBounds'
  <2>1. manifest' \in [host : Manifests, city : Manifests] /\ present' = present
      BY <1>15 DEF EditsCity, FenceBounds
  <2> QED
      BY <1>13, <1>15, <2>1 DEF EditsCity, FenceBounds
<1>16. ASSUME NEW f \in Folder, FolderComesOrGoes(f) PROVE FenceBounds'
  <2>1. present' \subseteq Folder /\ manifest' = manifest
      BY <1>16 DEF FolderComesOrGoes, FenceBounds
  <2> QED
      BY <1>13, <1>16, <2>1 DEF FolderComesOrGoes, FenceBounds
<1> QED
    BY <1>3, <1>4, <1>5, <1>6, <1>7, <1>8, <1>9, <1>10, <1>11, <1>12, <1>14, <1>15, <1>16
    DEF FNext

(* Every variable keeps to its values, for every number of folders a       *)
(* manifest may declare and of edits and ticks; of a list that has         *)
(* something in it the panel has been filled in (services/mod.rs,          *)
(* prompt_bar.rs).                                                         *)
THEOREM FencesTypeCorrect == FSpec => []FTypeOK
<1>1. FInit => FenceBounds
  <2>1. <<>> \in Manifests
    <3> DEFINE none == <<>>
    <3>1. none \in [1 .. 0 -> Mount] /\ 0 \in 0 .. MaxDeclared
        BY FencesAssumption
    <3> QED
        BY <3>1 DEF Manifests
  <2>2. ToSet(<<>>) = {}
      BY DEF ToSet
  <2> QED
      BY <2>1, <2>2, FencesAssumption
      DEF FInit, FenceBounds, NoPanel, NoChoice, Unopened, NoFence, NotBriefed
<1>2. FenceBounds /\ PickerInv /\ FenceInv /\ [FNext]_fvars => FenceBounds'
    BY FenceBoundsNext DEF fvars, FenceBounds
<1>3. FenceBounds /\ PickerInv => FTypeOK
  <2> SUFFICES ASSUME FenceBounds, PickerInv PROVE FTypeOK
      OBVIOUS
  <2>1. ToSet(choice.list) \subseteq Mount /\ ToSet(opened.choice.list) \subseteq Mount
    <3>1. choice.list \in Seq(Mount) /\ opened.choice.list \in Seq(Mount)
        BY DEF PickerInv, PickerTypes, RecordedMounts
    <3> QED
        BY <3>1, SeqFacts
  <2>2. picker.landed => picker.open
      BY DEF PickerInv, Stages
  <2> QED
      BY <2>1, <2>2 DEF FTypeOK, FenceBounds
<1> QED
    BY <1>1, <1>2, <1>3, PickerHolds, PTL DEF FSpec
=============================================================================
