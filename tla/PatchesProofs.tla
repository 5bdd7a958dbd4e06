--------------------------- MODULE PatchesProofs ----------------------------
(***************************************************************************)
(* What is proved of the court's patches: that the edits of a call are     *)
(* made as if all at once, each where the file the call met says, for      *)
(* every file and every list of edits.  A list of edits has one order in   *)
(* which they are made; making one is splicing one more text into what     *)
(* stands; and a call is refused when one of its edits does not fit.       *)
(***************************************************************************)
EXTENDS Patches, Recursions, FiniteSetTheorems, TLAPS

-----------------------------------------------------------------------------
(* Lists put together, end to end.                                         *)

\* One more list, before all that are not empty.
Precedes(r, s, n, q, new, V) ==
    /\ n \in Nat /\ q \in 1 .. n /\ new \in Seq(V)
    /\ s \in [1 .. n -> Seq(V)] /\ r \in [1 .. n -> Seq(V)]
    /\ \A k \in 1 .. n : k < q => s[k] = <<>> /\ r[k] = <<>>
    /\ s[q] = <<>> /\ r[q] = new
    /\ \A k \in 1 .. n : k > q => r[k] = s[k]

LEMMA PutBefore ==
    ASSUME NEW V, NEW n, NEW s, NEW r, NEW q, NEW new, Precedes(r, s, n, q, new, V)
    PROVE  FlattenSeq(r) = new \o FlattenSeq(s)
<1>00. /\ n \in Nat /\ q \in 1 .. n /\ new \in Seq(V)
       /\ s \in [1 .. n -> Seq(V)] /\ r \in [1 .. n -> Seq(V)]
       /\ \A k \in 1 .. n : k < q => s[k] = <<>> /\ r[k] = <<>>
       /\ s[q] = <<>> /\ r[q] = new
       /\ \A k \in 1 .. n : k > q => r[k] = s[k]
    BY DEF Precedes
<1> USE <1>00
<1>1. PICK f : Joined(f, s, n, V) /\ FlattenSeq(s) = f[n]
    BY FlattenIsJoined
<1>2. PICK g : Joined(g, r, n, V) /\ FlattenSeq(r) = g[n]
    BY FlattenIsJoined
<1>3. /\ f \in [0 .. n -> Seq(V)] /\ f[0] = <<>> /\ \A k \in 1 .. n : f[k] = f[k - 1] \o s[k]
      /\ g \in [0 .. n -> Seq(V)] /\ g[0] = <<>> /\ \A k \in 1 .. n : g[k] = g[k - 1] \o r[k]
    BY <1>1, <1>2 DEF Joined
<1> DEFINE none == <<>>
<1>4. none \in Seq(V) /\ \A a \in Seq(V) : none \o a = a /\ a \o none = a
    BY EmptySeq, ConcatEmptySeq
<1> DEFINE S == {k \in 0 .. n : IF k < q THEN f[k] = none /\ g[k] = none
                                ELSE g[k] = new \o f[k]}
<1>5. 0 \in S
    BY <1>3
<1>6. ASSUME NEW k \in 0 .. n - 1, k \in S PROVE k + 1 \in S
  <2> DEFINE j == k + 1
  <2>1. j \in 1 .. n /\ j \in 0 .. n /\ j - 1 = k /\ k \in 0 .. n /\ j > k /\ j \in Nat
        /\ (j < q \/ j = q \/ j > q) /\ (j <= q => k < q) /\ (j > q => ~(k < q))
        /\ (j > q => ~(j < q)) /\ (j = q => ~(j < q))
      BY SMTT(60)
  <2> HIDE DEF j
  <2>2. /\ f[j] = f[k] \o s[j] /\ g[j] = g[k] \o r[j]
        /\ f[k] \in Seq(V) /\ g[k] \in Seq(V) /\ s[j] \in Seq(V) /\ r[j] \in Seq(V)
      BY <1>3, <2>1
  <2>0. (k < q => f[k] = none /\ g[k] = none) /\ (~(k < q) => g[k] = new \o f[k])
      BY <1>6
  <2>3. CASE j < q
    <3>1. k < q /\ s[j] = <<>> /\ r[j] = <<>>
        BY SMTT(60), <2>1, <2>3
    <3>4. f[k] = none /\ g[k] = none /\ s[j] = none /\ r[j] = none
        BY <2>0, <3>1
    <3>2. f[j] = none /\ g[j] = none
        BY <1>4, <2>2, <3>4
    <3> QED
        BY <2>1, <2>3, <3>2 DEF j
  <2>4. CASE j = q
    <3>1. f[k] = none /\ g[k] = none /\ s[j] = none /\ r[j] = new
        BY <1>6, <2>1, <2>4
    <3>2. f[j] = none /\ g[j] = new
        BY <1>4, <2>2, <3>1
    <3>3. g[j] = new \o f[j]
        BY <1>4, <3>2
    <3> QED
        BY <2>1, <2>4, <3>3 DEF j
  <2>5. CASE j > q
    <3>1. g[k] = new \o f[k] /\ r[j] = s[j]
        BY <1>6, <2>1, <2>5
    <3> DEFINE a == f[k]
               b == s[j]
    <3>4. a \in Seq(V) /\ b \in Seq(V)
        BY <2>2
    <3> HIDE DEF a, b
    <3>5. (new \o a) \o b = new \o (a \o b)
        <4>1. Regroups(V)
            BY Regrouped
        <4>2. new \in Seq(V)
            OBVIOUS
        <4> QED
            BY <3>4, <4>1, <4>2 DEF Regroups
    <3>2. (new \o f[k]) \o s[j] = new \o (f[k] \o s[j])
        BY <3>5 DEF a, b
    <3>3. g[j] = new \o f[j]
        BY <2>2, <3>1, <3>2
    <3> QED
        BY <2>1, <2>5, <3>3 DEF j
  <2> QED
      BY <2>1, <2>3, <2>4, <2>5
<1>7. \A k \in 0 .. n : k \in S
  <2> HIDE DEF S
  <2> QED
      BY <1>5, <1>6, UpTo
<1>8. n \in S /\ ~(n < q)
    BY SMTT(60), <1>7
<1>9. g[n] = new \o f[n]
    BY <1>8
<1> QED
    BY <1>1, <1>2, <1>9

-----------------------------------------------------------------------------
(* Pieces of a text.                                                       *)

\* A prefix grows by the next letter.
LEMMA Grow ==
    ASSUME NEW V, NEW t \in Seq(V), NEW k \in 1 .. Len(t)
    PROVE  SubSeq(t, 1, k - 1) \o <<t[k]>> = SubSeq(t, 1, k)
<1>1. Len(t) \in Nat /\ 1 \in 1 .. Len(t) /\ k \in 1 .. Len(t)
    BY LenProperties
<1>2. SubSeq(t, 1, k) = SubSeq(t, 1, k - 1) \o <<t[k]>>
    BY <1>1, SubSeqRecursiveSecond
<1> QED
    BY <1>2

\* Any piece of a text is one.
LEMMA PieceType ==
    ASSUME NEW V, NEW t \in Seq(V), NEW a \in Nat, NEW b \in 0 .. Len(t)
    PROVE  /\ SubSeq(t, a + 1, b) \in Seq(V)
           /\ Len(SubSeq(t, a + 1, b)) = IF a < b THEN b - a ELSE 0
           /\ \A i \in 1 .. b - a : SubSeq(t, a + 1, b)[i] = t[a + i]
<1> DEFINE m == a + 1
<1>1. m \in Int /\ b \in Int /\ \A i \in m .. b : t[i] \in V
    BY LenProperties, ElementOfSeq
<1>2. b - m + 1 = b - a /\ (m <= b <=> a < b) /\ \A i \in 1 .. b - a : m + i - 1 = a + i
    BY LenProperties
<1> HIDE DEF m
<1>3. /\ SubSeq(t, m, b) \in Seq(V)
      /\ Len(SubSeq(t, m, b)) = IF m <= b THEN b - m + 1 ELSE 0
      /\ \A i \in 1 .. b - m + 1 : SubSeq(t, m, b)[i] = t[m + i - 1]
    BY <1>1, SubSeqProperties
<1>4. \A i \in 1 .. b - a : SubSeq(t, m, b)[i] = t[a + i]
    BY <1>2, <1>3
<1> QED
    BY <1>2, <1>3, <1>4 DEF m

\* The two parts of two texts put together.
LEMMA PartsOfRequest ==
    ASSUME NEW V, NEW s \in Seq(V), NEW r \in Seq(V), NEW o \in 0 .. Len(s)
    PROVE  /\ SubSeq(s \o r, 1, o) = SubSeq(s, 1, o)
           /\ SubSeq(s \o r, Len(s) + 1, Len(s \o r)) = r
<1> DEFINE w == s \o r
           n == Len(s)
           m == Len(r)
           zero == 0
<1>1. w \in Seq(V) /\ Len(w) = n + m /\ n \in Nat /\ m \in Nat
      /\ \A i \in 1 .. n + m : w[i] = IF i <= n THEN s[i] ELSE r[i - n]
    BY ConcatProperties, LenProperties
<1>2. zero \in Nat /\ zero + 1 = 1 /\ o \in 0 .. Len(w) /\ o \in 0 .. n /\ o - zero = o
    BY <1>1
<1> HIDE DEF w, n, m, zero
<1>3. /\ SubSeq(w, zero + 1, o) \in Seq(V)
      /\ Len(SubSeq(w, zero + 1, o)) = IF zero < o THEN o - zero ELSE 0
      /\ \A i \in 1 .. o - zero : SubSeq(w, zero + 1, o)[i] = w[zero + i]
    BY <1>1, <1>2, PieceType
<1>4. /\ SubSeq(s, zero + 1, o) \in Seq(V)
      /\ Len(SubSeq(s, zero + 1, o)) = IF zero < o THEN o - zero ELSE 0
      /\ \A i \in 1 .. o - zero : SubSeq(s, zero + 1, o)[i] = s[zero + i]
    BY <1>2, PieceType DEF n
<1>5. \A i \in 1 .. o : i \in 1 .. o - zero /\ i \in 1 .. n + m /\ i <= n /\ zero + i = i
    BY <1>1, <1>2
<1>6. \A i \in 1 .. o : SubSeq(w, zero + 1, o)[i] = SubSeq(s, zero + 1, o)[i]
    BY <1>1, <1>3, <1>4, <1>5
<1>7. Len(SubSeq(w, zero + 1, o)) = o
    BY <1>1, <1>2, <1>3 DEF zero
<1>8. Len(SubSeq(w, zero + 1, o)) = Len(SubSeq(s, zero + 1, o))
    BY <1>3, <1>4
<1>9. SubSeq(w, zero + 1, o) = SubSeq(s, zero + 1, o)
    BY <1>3, <1>4, <1>6, <1>7, <1>8, SeqEqual
<1> DEFINE e == n + m
<1>10. e \in 0 .. Len(w) /\ n \in Nat /\ e - n = m /\ (n < e => m > 0) /\ (~(n < e) => m = 0)
    BY <1>1
<1> HIDE DEF e
<1>11. /\ SubSeq(w, n + 1, e) \in Seq(V)
       /\ Len(SubSeq(w, n + 1, e)) = IF n < e THEN e - n ELSE 0
       /\ \A i \in 1 .. e - n : SubSeq(w, n + 1, e)[i] = w[n + i]
    BY <1>1, <1>10, PieceType
<1>12. Len(SubSeq(w, n + 1, e)) = m
    BY <1>10, <1>11
<1>13. \A i \in 1 .. m : n + i \in 1 .. n + m /\ ~(n + i <= n) /\ n + i - n = i
    BY <1>1
<1>14. \A i \in 1 .. m : SubSeq(w, n + 1, e)[i] = r[i]
    BY <1>1, <1>10, <1>11, <1>13
<1>15. SubSeq(w, n + 1, e) = r
    BY <1>11, <1>12, <1>14, SeqEqual DEF m
<1> QED
    BY <1>1, <1>2, <1>9, <1>15 DEF w, n, e

\* A list that has put together only the letters of a text.
LetterByLetter(s, t, b) == \A k \in 1 .. b : s[k] = <<t[k]>>

Copies(f, s, t, b, n, V) ==
    /\ t \in Seq(V) /\ n \in Nat /\ s \in [1 .. n -> Seq(V)] /\ Joined(f, s, n, V)
    /\ b \in 0 .. n /\ b <= Len(t) /\ LetterByLetter(s, t, b)

LEMMA SameSoFar ==
    ASSUME NEW V, NEW t, NEW n, NEW s, NEW f, NEW b, Copies(f, s, t, b, n, V)
    PROVE  f[b] = SubSeq(t, 1, b)
<1>00. /\ t \in Seq(V) /\ n \in Nat /\ s \in [1 .. n -> Seq(V)] /\ Joined(f, s, n, V)
       /\ b \in 0 .. n /\ b <= Len(t) /\ LetterByLetter(s, t, b)
    BY DEF Copies
<1> USE <1>00
<1>0. f[0] = <<>> /\ \A k \in 1 .. n : f[k] = f[k - 1] \o s[k]
    BY DEF Joined
<1> DEFINE S == {k \in 0 .. b : f[k] = SubSeq(t, 1, k)}
<1>1. 0 \in S
  <2> DEFINE one == 1
             zero == 0
  <2>1. one \in Int /\ zero \in Int /\ zero < one
      OBVIOUS
  <2> HIDE DEF one, zero
  <2>2. SubSeq(t, one, zero) = <<>>
      BY <2>1, SubSeqEmpty
  <2>3. f[0] = SubSeq(t, 1, 0)
      BY <1>0, <2>2 DEF one, zero
  <2>4. 0 \in 0 .. b
      BY <2>1
  <2> QED
      BY <2>3, <2>4
<1>2. ASSUME NEW k \in 0 .. b - 1, k \in S PROVE k + 1 \in S
  <2> DEFINE j == k + 1
  <2>1. j \in 1 .. n /\ j \in 1 .. Len(t) /\ j \in 1 .. b /\ j \in 0 .. b /\ j - 1 = k
      BY LenProperties
  <2> HIDE DEF j
  <2>2. f[j] = SubSeq(t, 1, j - 1) \o <<t[j]>>
      BY <1>0, <1>2, <2>1 DEF LetterByLetter
  <2>3. f[j] = SubSeq(t, 1, j)
      BY <2>1, <2>2, Grow
  <2> QED
      BY <2>1, <2>3 DEF j
<1> HIDE DEF S
<1>3. b \in S
  <2>0. b \in Nat
      OBVIOUS
  <2>1. \A k \in 0 .. b : k \in S
      BY <1>1, <1>2, <2>0, UpTo
  <2> QED
      BY <2>0, <2>1
<1> QED
    BY <1>3 DEF S

\* Two lists of lists that go on alike put the same after what they had.
ContinueAlike(a, b, x, y, V) == \E w \in Seq(V) : a = x \o w /\ b = y \o w

Alike(f, g, s, r, b, n, x, y, z, V) ==
    /\ n \in Nat /\ s \in [1 .. n -> Seq(V)] /\ r \in [1 .. n -> Seq(V)]
    /\ Joined(f, s, n, V) /\ Joined(g, r, n, V)
    /\ b \in 0 .. n /\ x \in Seq(V) /\ y \in Seq(V) /\ z \in Seq(V)
    /\ f[b] = x \o z /\ g[b] = y \o z
    /\ \A k \in b + 1 .. n : s[k] = r[k]

LEMMA GoOnAlike ==
    ASSUME NEW V, NEW n, NEW s, NEW r, NEW f, NEW g, NEW b, NEW x, NEW y, NEW z,
           Alike(f, g, s, r, b, n, x, y, z, V)
    PROVE  ContinueAlike(f[n], g[n], x, y, V)
<1>00. /\ n \in Nat /\ s \in [1 .. n -> Seq(V)] /\ r \in [1 .. n -> Seq(V)]
       /\ Joined(f, s, n, V) /\ Joined(g, r, n, V)
       /\ b \in 0 .. n /\ x \in Seq(V) /\ y \in Seq(V) /\ z \in Seq(V)
       /\ f[b] = x \o z /\ g[b] = y \o z
       /\ \A k \in b + 1 .. n : s[k] = r[k]
    BY DEF Alike
<1> USE <1>00
<1>1. /\ \A k \in 1 .. n : f[k] = f[k - 1] \o s[k]
      /\ \A k \in 1 .. n : g[k] = g[k - 1] \o r[k]
    BY DEF Joined
<1> DEFINE d == n - b
           S == {k \in 0 .. d : \E w \in Seq(V) : f[b + k] = x \o w /\ g[b + k] = y \o w}
<1>2. d \in Nat /\ b + d = n /\ b + 0 = b
    OBVIOUS
<1>3. 0 \in S
  <2>1. f[b + 0] = x \o z /\ g[b + 0] = y \o z
      BY <1>2
  <2>2. \E w \in Seq(V) : f[b + 0] = x \o w /\ g[b + 0] = y \o w
      BY <2>1
  <2>3. 0 \in 0 .. d
      BY <1>2
  <2> QED
      BY <2>2, <2>3
<1>4. ASSUME NEW k \in 0 .. d - 1, k \in S PROVE k + 1 \in S
  <2> DEFINE j == b + (k + 1)
  <2>1. j \in 1 .. n /\ j \in b + 1 .. n /\ j - 1 = b + k /\ k + 1 \in 0 .. d
      BY <1>2
  <2> HIDE DEF j
  <2>2. PICK w \in Seq(V) : f[b + k] = x \o w /\ g[b + k] = y \o w
      BY <1>4
  <2>3. s[j] \in Seq(V) /\ f[j] = (x \o w) \o s[j] /\ g[j] = (y \o w) \o s[j]
      BY <1>1, <2>1, <2>2
  <2> DEFINE v == s[j]
  <2>4. v \in Seq(V)
      BY <2>3
  <2> HIDE DEF v
  <2>5. (x \o w) \o v = x \o (w \o v) /\ (y \o w) \o v = y \o (w \o v)
    <3>1. Regroups(V)
        BY Regrouped
    <3> QED
        BY ZenonT(60), <2>4, <3>1 DEF Regroups
  <2>6. w \o v \in Seq(V)
      BY <2>4, ConcatProperties
  <2>7. f[j] = x \o (w \o v) /\ g[j] = y \o (w \o v)
      BY <2>3, <2>5 DEF v
  <2> QED
      BY <2>1, <2>6, <2>7 DEF j
<1> HIDE DEF S
<1>5. d \in S
  <2> HIDE DEF d
  <2>1. \A k \in 0 .. d : k \in S
      BY <1>2, <1>3, <1>4, UpTo
  <2> QED
      BY <1>2, <2>1
<1> QED
    BY <1>2, <1>5 DEF S, ContinueAlike

-----------------------------------------------------------------------------
(* Edits of a text, all at once.                                           *)

Spans(t) == {s \in [offset : Nat, length : Nat] : s.offset + s.length <= Len(t)}
EditOf(t) == [span : Spans(t), new : Seq(Letters)]
NoEdit == [span |-> Span(0, 0), new |-> <<>>]

\* The edits of a call that have been made.
OnlyThose(edits, M) == [k \in DOMAIN edits |-> IF k \in M THEN edits[k] ELSE NoEdit]

LEMMA EditFacts ==
    ASSUME NEW t \in Seq(Letters), NEW e \in EditOf(t)
    PROVE  /\ e.new \in Seq(Letters) /\ e.span \in Spans(t)
           /\ e.span.offset \in Nat /\ e.span.length \in Nat
           /\ e.span.offset + e.span.length <= Len(t)
BY DEF EditOf, Spans

LEMMA IdleFacts ==
    ASSUME NEW t \in Seq(Letters)
    PROVE  /\ NoEdit \in EditOf(t)
           /\ NoEdit.span.offset = 0 /\ NoEdit.span.length = 0 /\ NoEdit.new = <<>>
<1>1. Len(t) \in Nat /\ <<>> \in Seq(Letters)
    BY LenProperties, EmptySeq
<1>2. Span(0, 0) \in Spans(t)
    BY <1>1 DEF Spans, Span
<1> QED
    BY <1>1, <1>2 DEF NoEdit, EditOf, Span

LEMMA PutFacts ==
    ASSUME NEW t \in Seq(Letters), NEW n \in Nat, NEW edits \in [1 .. n -> EditOf(t)],
           NEW chosen
    PROVE  /\ Put(edits, chosen) \in Seq(Letters)
           /\ (\A k \in 1 .. n : k \in chosen => edits[k].new = <<>>) => Put(edits, chosen) = <<>>
<1> DEFINE s == [k \in DOMAIN edits |-> IF k \in chosen THEN edits[k].new ELSE <<>>]
<1>1. DOMAIN edits = 1 .. n /\ \A k \in 1 .. n : edits[k].new \in Seq(Letters)
    BY EditFacts
<1>2. s \in [1 .. n -> Seq(Letters)]
    BY <1>1, EmptySeq
<1>3. \A k \in 1 .. n : s[k] = IF k \in chosen THEN edits[k].new ELSE <<>>
    BY <1>1
<1> HIDE DEF s
<1>4. /\ FlattenSeq(s) \in Seq(Letters)
      /\ (\A k \in 1 .. n : s[k] = <<>>) => FlattenSeq(s) = <<>>
    BY <1>2, FlattenFacts
<1>5. (\A k \in 1 .. n : k \in chosen => edits[k].new = <<>>) => \A k \in 1 .. n : s[k] = <<>>
    BY <1>3
<1> QED
    BY <1>4, <1>5 DEF Put, s

\* What stands or is put at a place.
LEMMA PlaceAtFacts ==
    ASSUME NEW t \in Seq(Letters), NEW n \in Nat, NEW edits \in [1 .. n -> EditOf(t)],
           NEW i \in 1 .. Len(t) + 1
    PROVE  /\ AtPlace(t, edits, i) \in Seq(Letters)
           /\ (/\ \A k \in 1 .. n : edits[k].span.offset = i - 1 => edits[k].new = <<>>
               /\ ~Covered(edits, i - 1) /\ i <= Len(t))
              => AtPlace(t, edits, i) = <<t[i]>>
<1> DEFINE p == Put(edits, InsertsAt(edits, i - 1))
           q == Put(edits, ReplacesAt(edits, i - 1))
           r == IF i > Len(t) \/ Covered(edits, i - 1) THEN <<>> ELSE <<t[i]>>
           none == <<>>
<1>0. i \in Nat /\ Len(t) \in Nat
    BY LenProperties
<1>1. p \in Seq(Letters) /\ q \in Seq(Letters)
    BY PutFacts
<1>2. r \in Seq(Letters)
  <2>1. CASE i > Len(t) \/ Covered(edits, i - 1)
      BY <2>1, EmptySeq
  <2>2. CASE ~(i > Len(t) \/ Covered(edits, i - 1))
    <3>1. t[i] \in Letters
        BY <1>0, <2>2, ElementOfSeq
    <3>2. <<t[i]>> \in Seq(Letters)
        BY <3>1
    <3> QED
        BY <2>2, <3>2
  <2> QED
      BY <2>1, <2>2
<1>3. ASSUME \A k \in 1 .. n : edits[k].span.offset = i - 1 => edits[k].new = <<>>,
             ~Covered(edits, i - 1), i <= Len(t)
      PROVE  p = none /\ q = none /\ r = <<t[i]>>
  <2>1. \A k \in 1 .. n : k \in InsertsAt(edits, i - 1) => edits[k].new = <<>>
      BY <1>3 DEF InsertsAt
  <2>2. \A k \in 1 .. n : k \in ReplacesAt(edits, i - 1) => edits[k].new = <<>>
      BY <1>3 DEF ReplacesAt
  <2>3. p = none
      BY <2>1, PutFacts
  <2>4. q = none
      BY <2>2, PutFacts
  <2> QED
      BY <1>0, <1>3, <2>3, <2>4
<1>4. AtPlace(t, edits, i) = (p \o q) \o r
    BY DEF AtPlace
<1> HIDE DEF p, q, r, none
<1>5. (p \o q) \o r \in Seq(Letters)
    BY <1>1, <1>2, ConcatProperties
<1>6. none \o none = none /\ \A a \in Seq(Letters) : none \o a = a
    BY EmptySeq, ConcatEmptySeq DEF none
<1>7. p = none /\ q = none => (p \o q) \o r = r
    BY <1>2, <1>6
<1> QED
    BY <1>3, <1>4, <1>5, <1>7

LEMMA AtOnceIsJoined ==
    ASSUME NEW t \in Seq(Letters), NEW n \in Nat, NEW edits \in [1 .. n -> EditOf(t)]
    PROVE  \E s, f :
               /\ s \in [1 .. Len(t) + 1 -> Seq(Letters)]
               /\ s = [i \in 1 .. Len(t) + 1 |-> AtPlace(t, edits, i)]
               /\ Joined(f, s, Len(t) + 1, Letters)
               /\ AtOnce(t, edits) = f[Len(t) + 1]
<1> DEFINE N == Len(t) + 1
           s == [i \in 1 .. N |-> AtPlace(t, edits, i)]
<1>1. s \in [1 .. N -> Seq(Letters)] /\ N \in Nat
    BY PlaceAtFacts, LenProperties
<1>2. AtOnce(t, edits) = FlattenSeq(s)
    BY DEF AtOnce
<1>3. s = [i \in 1 .. Len(t) + 1 |-> AtPlace(t, edits, i)]
    OBVIOUS
<1> HIDE DEF s
<1>4. PICK f : Joined(f, s, N, Letters) /\ FlattenSeq(s) = f[N]
    BY <1>1, FlattenIsJoined
<1> QED
    BY <1>1, <1>2, <1>3, <1>4

\* No edits leave the text as it is.
LEMMA NothingMade ==
    ASSUME NEW t \in Seq(Letters), NEW n \in Nat, NEW edits \in [1 .. n -> EditOf(t)],
           \A k \in 1 .. n : edits[k] = NoEdit
    PROVE  AtOnce(t, edits) = t
<1> DEFINE N == Len(t) + 1
           none == <<>>
<1>0. N \in Nat /\ Len(t) \in Nat /\ Len(t) \in 0 .. N /\ N - 1 = Len(t) /\ N \in 1 .. N
    BY LenProperties
<1>1. PICK s, f :
               /\ s \in [1 .. N -> Seq(Letters)]
               /\ s = [i \in 1 .. N |-> AtPlace(t, edits, i)]
               /\ Joined(f, s, N, Letters)
               /\ AtOnce(t, edits) = f[N]
    BY AtOnceIsJoined
<1>20. s \in [1 .. N -> Seq(Letters)]
    BY <1>1
<1> USE <1>20
<1>2. \A k \in 1 .. n : edits[k].new = <<>> /\ edits[k].span.length = 0 /\ edits[k].span.offset = 0
    BY IdleFacts
<1>3. \A o : ~Covered(edits, o)
    BY <1>2 DEF Covered
<1>4. ASSUME NEW i \in 1 .. Len(t) PROVE s[i] = <<t[i]>>
  <2>1. i \in 1 .. Len(t) + 1 /\ i <= Len(t) /\ s[i] = AtPlace(t, edits, i)
      BY <1>0, <1>1
  <2>2. ~Covered(edits, i - 1)
      BY <1>3
  <2>3. AtPlace(t, edits, i) = <<t[i]>>
      BY <1>2, <2>1, <2>2, PlaceAtFacts
  <2> QED
      BY <2>1, <2>3
<1>5. s[N] = none
  <2> DEFINE p == Put(edits, InsertsAt(edits, N - 1))
             q == Put(edits, ReplacesAt(edits, N - 1))
  <2>0. N > Len(t)
      BY <1>0
  <2>4. s[N] = AtPlace(t, edits, N)
      BY <1>0, <1>1
  <2> HIDE DEF N
  <2>1. s[N] = (p \o q) \o none
      BY <2>0, <2>4 DEF AtPlace
  <2>2. p = none /\ q = none
      BY <1>2, PutFacts
  <2> HIDE DEF p, q, none
  <2>3. none \o none = none
      BY EmptySeq, ConcatEmptySeq DEF none
  <2> QED
      BY <2>1, <2>2, <2>3
<1>6. f[Len(t)] = SubSeq(t, 1, Len(t))
  <2> DEFINE b == Len(t)
  <2>1. b \in 0 .. N /\ b <= Len(t) /\ LetterByLetter(s, t, b)
      BY <1>0, <1>4 DEF LetterByLetter
  <2>2. Joined(f, s, N, Letters) /\ N \in Nat
      BY <1>0, <1>1
  <2> HIDE DEF b, N
  <2>4. Copies(f, s, t, b, N, Letters)
      BY <2>1, <2>2 DEF Copies
  <2>3. f[b] = SubSeq(t, 1, b)
      BY <2>4, SameSoFar
  <2> QED
      BY <2>3 DEF b
<1>7. f[Len(t)] = t
    BY <1>6, SubSeqFull
<1>8. f[N] = f[N - 1] \o s[N]
    BY <1>0, <1>1 DEF Joined
<1> HIDE DEF none
<1>9. f[N] = t \o none
    BY <1>0, <1>5, <1>7, <1>8
<1>10. t \o none = t
    BY ConcatEmptySeq DEF none
<1> QED
    BY <1>1, <1>9, <1>10

\* What one edit puts among those chosen.
Piece(edits, chosen, k) == IF k \in chosen THEN edits[k].new ELSE <<>>

OnePieceMore(t, edits, more, c, d, n, q) ==
    /\ t \in Seq(Letters) /\ n \in Nat /\ q \in 1 .. n
    /\ edits \in [1 .. n -> EditOf(t)] /\ more \in [1 .. n -> EditOf(t)]
    /\ \A k \in 1 .. n : k < q => Piece(more, d, k) = <<>>
    /\ \A k \in 1 .. n : k # q => Piece(more, d, k) = Piece(edits, c, k)
    /\ Piece(edits, c, q) = <<>>

PutPieces(edits, c, n, s) ==
    /\ s \in [1 .. n -> Seq(Letters)]
    /\ s = [k \in 1 .. n |-> Piece(edits, c, k)]
    /\ Put(edits, c) = FlattenSeq(s)

LEMMA PutsOfPieces ==
    ASSUME NEW t \in Seq(Letters), NEW n \in Nat, NEW edits \in [1 .. n -> EditOf(t)], NEW c
    PROVE  PutPieces(edits, c, n, [k \in 1 .. n |-> Piece(edits, c, k)])
<1> DEFINE s == [k \in 1 .. n |-> Piece(edits, c, k)]
<1>1. \A k \in 1 .. n : edits[k].new \in Seq(Letters)
    BY EditFacts
<1>2. \A k \in 1 .. n : Piece(edits, c, k) \in Seq(Letters)
    BY <1>1, EmptySeq DEF Piece
<1>3. s \in [1 .. n -> Seq(Letters)]
    BY <1>2
<1>4. DOMAIN edits = 1 .. n
    OBVIOUS
<1>5. Put(edits, c) = FlattenSeq(s)
    BY <1>4 DEF Put, Piece
<1> QED
    BY <1>3, <1>5 DEF PutPieces

\* Two lists of edits of which the chosen ones put the same.
SamePieces(t, edits, more, c, d, n) ==
    /\ t \in Seq(Letters) /\ n \in Nat
    /\ edits \in [1 .. n -> EditOf(t)] /\ more \in [1 .. n -> EditOf(t)]
    /\ \A k \in 1 .. n : Piece(more, d, k) = Piece(edits, c, k)

LEMMA PutTheSame ==
    ASSUME NEW t, NEW n, NEW edits, NEW more, NEW c, NEW d, SamePieces(t, edits, more, c, d, n)
    PROVE  Put(more, d) = Put(edits, c)
<1>1. /\ t \in Seq(Letters) /\ n \in Nat
      /\ edits \in [1 .. n -> EditOf(t)] /\ more \in [1 .. n -> EditOf(t)]
      /\ \A k \in 1 .. n : Piece(more, d, k) = Piece(edits, c, k)
    BY DEF SamePieces
<1> DEFINE s == [k \in 1 .. n |-> Piece(edits, c, k)]
           r == [k \in 1 .. n |-> Piece(more, d, k)]
<1>2. PutPieces(edits, c, n, s) /\ PutPieces(more, d, n, r)
    BY <1>1, PutsOfPieces
<1>3. r = s
    BY <1>1
<1> HIDE DEF r, s
<1> QED
    BY <1>2, <1>3 DEF PutPieces

LEMMA PutOneMore ==
    ASSUME NEW t, NEW n, NEW edits, NEW more, NEW c, NEW d, NEW q,
           OnePieceMore(t, edits, more, c, d, n, q)
    PROVE  Put(more, d) = Piece(more, d, q) \o Put(edits, c)
<1>1. /\ t \in Seq(Letters) /\ n \in Nat /\ q \in 1 .. n
      /\ edits \in [1 .. n -> EditOf(t)] /\ more \in [1 .. n -> EditOf(t)]
      /\ \A k \in 1 .. n : k < q => Piece(more, d, k) = <<>>
      /\ \A k \in 1 .. n : k # q => Piece(more, d, k) = Piece(edits, c, k)
      /\ Piece(edits, c, q) = <<>>
    BY DEF OnePieceMore
<1> DEFINE s == [k \in 1 .. n |-> Piece(edits, c, k)]
           r == [k \in 1 .. n |-> Piece(more, d, k)]
<1>0. PutPieces(edits, c, n, s) /\ PutPieces(more, d, n, r)
    BY <1>1, PutsOfPieces
<1>2. /\ s \in [1 .. n -> Seq(Letters)]
      /\ \A k \in 1 .. n : s[k] = Piece(edits, c, k)
      /\ Put(edits, c) = FlattenSeq(s)
    BY <1>0 DEF PutPieces
<1>3. /\ r \in [1 .. n -> Seq(Letters)]
      /\ \A k \in 1 .. n : r[k] = Piece(more, d, k)
      /\ Put(more, d) = FlattenSeq(r)
    BY <1>0 DEF PutPieces
<1> HIDE DEF r, s
<1> DEFINE new == Piece(more, d, q)
<1>4. new \in Seq(Letters) /\ r[q] = new /\ s[q] = <<>>
    BY <1>1, <1>2, <1>3
<1> HIDE DEF new
<1>5. \A k \in 1 .. n : k < q => s[k] = <<>> /\ r[k] = <<>>
  <2> SUFFICES ASSUME NEW k \in 1 .. n, k < q PROVE s[k] = <<>> /\ r[k] = <<>>
      OBVIOUS
  <2>1. k # q
      BY <1>1
  <2>2. Piece(more, d, k) = <<>> /\ Piece(more, d, k) = Piece(edits, c, k)
      BY <1>1, <2>1
  <2> QED
      BY <1>2, <1>3, <2>2
<1>6. \A k \in 1 .. n : k > q => r[k] = s[k]
  <2> SUFFICES ASSUME NEW k \in 1 .. n, k > q PROVE r[k] = s[k]
      OBVIOUS
  <2>1. k # q
      BY <1>1
  <2> QED
      BY <1>1, <1>2, <1>3, <2>1
<1>8. Precedes(r, s, n, q, new, Letters)
    BY <1>1, <1>2, <1>3, <1>4, <1>5, <1>6 DEF Precedes
<1>7. FlattenSeq(r) = new \o FlattenSeq(s)
    BY <1>8, PutBefore
<1> QED
    BY <1>2, <1>3, <1>7 DEF new

(* One more edit, before all those made.                                   *)
OneMore(t, n, edits, more, q) ==
    LET span == more[q].span
    IN  /\ edits[q] = NoEdit
        /\ \A k \in 1 .. n : k # q =>
              /\ more[k] = edits[k]
              /\ \/ edits[k] = NoEdit
                 \/ /\ edits[k].span.offset >= span.offset + span.length
                    /\ edits[k].span = Span(span.offset, 0) => k > q

OneMoreMeans(t, n, edits, more, q, o, e) ==
    /\ o \in Nat /\ e \in Nat /\ o <= e /\ e <= Len(t) /\ Len(t) \in Nat
    /\ more[q].span.length = 0 <=> o = e
    /\ edits[q].new = <<>> /\ edits[q].span.length = 0 /\ edits[q].span.offset = 0
    /\ \A k \in 1 .. n :
          /\ edits[k].span.offset \in Nat /\ edits[k].span.length \in Nat
          /\ edits[k].new \in Seq(Letters)
          /\ k # q =>
                /\ more[k] = edits[k]
                /\ edits[k].span.offset < e =>
                      edits[k].new = <<>> /\ edits[k].span.length = 0
                /\ (k < q /\ edits[k].span.length = 0 /\ edits[k].span.offset = o)
                   => edits[k].new = <<>>

\* Where it begins and ends.
OneMoreAt(t, n, edits, more, q, o, e) ==
    /\ t \in Seq(Letters) /\ n \in Nat /\ q \in 1 .. n
    /\ edits \in [1 .. n -> EditOf(t)] /\ more \in [1 .. n -> EditOf(t)]
    /\ OneMore(t, n, edits, more, q)
    /\ o = more[q].span.offset /\ e = o + more[q].span.length

LEMMA OneMoreFacts ==
    ASSUME NEW t, NEW n, NEW edits, NEW more, NEW q, NEW o, NEW e,
           OneMoreAt(t, n, edits, more, q, o, e)
    PROVE  OneMoreMeans(t, n, edits, more, q, o, e)
<1>00. /\ t \in Seq(Letters) /\ n \in Nat /\ q \in 1 .. n
       /\ edits \in [1 .. n -> EditOf(t)] /\ more \in [1 .. n -> EditOf(t)]
       /\ OneMore(t, n, edits, more, q)
       /\ o = more[q].span.offset /\ e = o + more[q].span.length
    BY DEF OneMoreAt
<1> USE <1>00
<1>1. /\ Len(t) \in Nat /\ o \in Nat /\ more[q].span.length \in Nat
      /\ o + more[q].span.length <= Len(t)
    BY <1>00, EditFacts, LenProperties
<1>2. edits[q].new = <<>> /\ edits[q].span.length = 0 /\ edits[q].span.offset = 0
    BY <1>00, IdleFacts DEF OneMore
<1>3. ASSUME NEW k \in 1 .. n
      PROVE  /\ edits[k].span.offset \in Nat /\ edits[k].span.length \in Nat
             /\ edits[k].new \in Seq(Letters)
    BY EditFacts
<1>4. ASSUME NEW k \in 1 .. n, k # q
      PROVE  /\ more[k] = edits[k]
             /\ edits[k].span.offset < e =>
                   edits[k].new = <<>> /\ edits[k].span.length = 0
             /\ (k < q /\ edits[k].span.length = 0 /\ edits[k].span.offset = o)
                => edits[k].new = <<>>
  <2>1. /\ more[k] = edits[k]
        /\ \/ edits[k] = NoEdit
           \/ edits[k].span.offset >= e /\ (edits[k].span = Span(o, 0) => k > q)
      BY <1>00, <1>4 DEF OneMore
  <2>2. CASE edits[k] = NoEdit
      BY <2>1, <2>2, IdleFacts
  <2>3. CASE edits[k].span.offset >= e /\ (edits[k].span = Span(o, 0) => k > q)
    <3>1. ~(edits[k].span.offset < e)
        BY <1>1, <1>3, <2>3
    <3>2. ASSUME edits[k].span.length = 0, edits[k].span.offset = o
          PROVE  edits[k].span = Span(o, 0)
      <4>1. edits[k].span \in [offset : Nat, length : Nat]
          BY EditFacts DEF Spans
      <4> QED
          BY <3>2, <4>1 DEF Span
    <3>3. k > q => ~(k < q)
        OBVIOUS
    <3> QED
        BY <2>1, <2>3, <3>1, <3>2, <3>3
  <2> QED
      BY <2>1, <2>2, <2>3
<1>5. e = o + more[q].span.length
    BY <1>00
<1>6. o \in Nat /\ e \in Nat /\ o <= e /\ e <= Len(t) /\ Len(t) \in Nat
      /\ (more[q].span.length = 0 <=> o = e)
    BY SMTT(60), <1>1, <1>5
<1> QED
    BY <1>2, <1>3, <1>4, <1>6 DEF OneMoreMeans

\* Before the place of one more edit nothing changes, and nothing was put before its end.
LEMMA PlacesBefore ==
    ASSUME NEW t, NEW n, NEW edits, NEW more, NEW q, NEW o, NEW e,
           OneMoreAt(t, n, edits, more, q, o, e)
    PROVE  /\ \A i \in 1 .. e : AtPlace(t, edits, i) = <<t[i]>>
           /\ \A i \in 1 .. o : AtPlace(t, more, i) = <<t[i]>>
<1>00. /\ t \in Seq(Letters) /\ n \in Nat /\ q \in 1 .. n
       /\ edits \in [1 .. n -> EditOf(t)] /\ more \in [1 .. n -> EditOf(t)]
       /\ o = more[q].span.offset /\ e = o + more[q].span.length
    BY DEF OneMoreAt
<1> USE <1>00
<1>0. OneMoreMeans(t, n, edits, more, q, o, e)
    BY OneMoreFacts
<1>1. /\ o \in Nat /\ e \in Nat /\ o <= e /\ e <= Len(t) /\ Len(t) \in Nat
      /\ edits[q].new = <<>> /\ edits[q].span.length = 0 /\ edits[q].span.offset = 0
      /\ \A k \in 1 .. n :
            /\ edits[k].span.offset \in Nat /\ edits[k].span.length \in Nat
            /\ k # q =>
                  /\ more[k] = edits[k]
                  /\ edits[k].span.offset < e =>
                        edits[k].new = <<>> /\ edits[k].span.length = 0
    BY <1>0 DEF OneMoreMeans
<1>2. DOMAIN edits = 1 .. n /\ DOMAIN more = 1 .. n
    OBVIOUS
<1>3. ASSUME NEW i \in 1 .. e PROVE AtPlace(t, edits, i) = <<t[i]>>
  <2>1. i \in 1 .. Len(t) + 1 /\ i <= Len(t) /\ i - 1 \in Nat /\ i - 1 < e
      BY <1>1
  <2> DEFINE p == i - 1
  <2>2. ASSUME NEW k \in 1 .. n PROVE edits[k].span.offset = p => edits[k].new = <<>>
      BY <1>1, <2>1
  <2>3. ~Covered(edits, p)
    <3> SUFFICES ASSUME NEW k \in 1 .. n,
                        p \in edits[k].span.offset .. edits[k].span.offset + edits[k].span.length - 1
                 PROVE  FALSE
        BY <1>2 DEF Covered
    <3>1. edits[k].span.offset < e
        BY SMTT(60), <1>1, <2>1
    <3>2. edits[k].span.length = 0
        BY <1>1, <3>1
    <3> QED
        BY <1>1, <2>1, <3>2
  <2> QED
      BY <2>1, <2>2, <2>3, PlaceAtFacts
<1>4. ASSUME NEW i \in 1 .. o PROVE AtPlace(t, more, i) = <<t[i]>>
  <2>1. i \in 1 .. Len(t) + 1 /\ i <= Len(t) /\ i - 1 \in Nat /\ i - 1 < e /\ i - 1 < o
      BY <1>1
  <2> DEFINE p == i - 1
  <2>2. ASSUME NEW k \in 1 .. n PROVE more[k].span.offset = p => more[k].new = <<>>
    <3>1. CASE k = q
        BY <1>1, <2>1, <3>1
    <3>2. CASE k # q
        BY <1>1, <2>1, <3>2
    <3> QED
        BY <3>1, <3>2
  <2>3. ~Covered(more, p)
    <3> SUFFICES ASSUME NEW k \in 1 .. n,
                        p \in more[k].span.offset .. more[k].span.offset + more[k].span.length - 1
                 PROVE  FALSE
        BY <1>2 DEF Covered
    <3>1. CASE k = q
      <4>1. more[k].span.offset = o
          BY <3>1
      <4> QED
          BY <1>1, <2>1, <4>1
    <3>2. CASE k # q
      <4>1. edits[k].span.offset < e /\ more[k] = edits[k]
          BY SMTT(60), <1>1, <2>1, <3>2
      <4>2. edits[k].span.length = 0
          BY <1>1, <3>2, <4>1
      <4> QED
          BY <1>1, <2>1, <4>1, <4>2
    <3> QED
        BY <3>1, <3>2
  <2> QED
      BY <2>1, <2>2, <2>3, PlaceAtFacts
<1> QED
    BY <1>3, <1>4

\* After its end nothing changes.
LeavesAfter(t, edits, new, more, o, e, i) ==
    /\ i > o + 1 => AtPlace(t, more, i) = AtPlace(t, edits, i)
    /\ (o = e /\ i = o + 1) => AtPlace(t, more, i) = new \o AtPlace(t, edits, i)

LEMMA PlacesAfter ==
    ASSUME NEW t, NEW n, NEW edits, NEW more, NEW q, NEW o, NEW e,
           OneMoreAt(t, n, edits, more, q, o, e),
           NEW i \in 1 .. Len(t) + 1, i > e
    PROVE  LeavesAfter(t, edits, more[q].new, more, o, e, i)
<1>00. /\ t \in Seq(Letters) /\ n \in Nat /\ q \in 1 .. n
       /\ edits \in [1 .. n -> EditOf(t)] /\ more \in [1 .. n -> EditOf(t)]
       /\ o = more[q].span.offset /\ e = o + more[q].span.length
    BY DEF OneMoreAt
<1> USE <1>00
<1>0. OneMoreMeans(t, n, edits, more, q, o, e)
    BY OneMoreFacts
<1>1. /\ o \in Nat /\ e \in Nat /\ o <= e /\ e <= Len(t) /\ Len(t) \in Nat
      /\ more[q].span.length = 0 <=> o = e
      /\ edits[q].new = <<>> /\ edits[q].span.length = 0 /\ edits[q].span.offset = 0
      /\ \A k \in 1 .. n :
            /\ edits[k].span.offset \in Nat /\ edits[k].span.length \in Nat
            /\ k # q =>
                  /\ more[k] = edits[k]
                  /\ (k < q /\ edits[k].span.length = 0 /\ edits[k].span.offset = o)
                     => edits[k].new = <<>>
    BY <1>0 DEF OneMoreMeans
<1>2. DOMAIN edits = 1 .. n /\ DOMAIN more = 1 .. n
    OBVIOUS
<1> DEFINE p == i - 1
<1>3. p \in Nat /\ p >= e /\ (i > o + 1 => p # o) /\ (i = o + 1 => p = o)
    BY <1>1
<1>4. \A k \in 1 .. n : k # q =>
          /\ k \in ReplacesAt(more, p) <=> k \in ReplacesAt(edits, p)
          /\ k \in InsertsAt(more, p) <=> k \in InsertsAt(edits, p)
    BY <1>1, <1>2 DEF ReplacesAt, InsertsAt
<1> DEFINE inP == p \in more[q].span.offset .. more[q].span.offset + more[q].span.length - 1
<1>5. Covered(more, p) <=> Covered(edits, p)
  <2>1. ~(p \in more[q].span.offset .. more[q].span.offset + more[q].span.length - 1)
    <3> DEFINE l == more[q].span.length
    <3>1. l \in Nat /\ more[q].span.offset = o /\ e = o + l
        BY EditFacts
    <3> HIDE DEF l
    <3>2. ~(p \in o .. o + l - 1)
        BY SMTT(60), <1>1, <1>3, <3>1
    <3> QED
        BY <3>1, <3>2 DEF l
  <2>2. ~(p \in edits[q].span.offset .. edits[q].span.offset + edits[q].span.length - 1)
      BY <1>1, <1>3
  <2>3. \A k \in 1 .. n : k # q => more[k] = edits[k]
      BY <1>1
  <2> HIDE DEF p
  <2> QED
      BY <1>2, <2>1, <2>2, <2>3 DEF Covered
<1>6. Put(more, ReplacesAt(more, p)) = Put(edits, ReplacesAt(edits, p))
  <2> DEFINE c == ReplacesAt(edits, p)
             d == ReplacesAt(more, p)
  <2>1. ASSUME NEW k \in 1 .. n PROVE Piece(more, d, k) = Piece(edits, c, k)
    <3>1. CASE k = q
      <4>1. k \notin d
        <5>1. more[q].span.offset = p => ~(more[q].span.length > 0)
            BY <1>1, <1>3
        <5> QED
            BY <3>1, <5>1 DEF ReplacesAt
      <4>2. edits[k].new = <<>>
          BY <1>1, <3>1
      <4> QED
          BY <4>1, <4>2 DEF Piece
    <3>2. CASE k # q
        BY <1>1, <1>4, <3>2 DEF Piece
    <3> QED
        BY <3>1, <3>2
  <2> HIDE DEF c, d
  <2>2. SamePieces(t, edits, more, c, d, n)
      BY <2>1 DEF SamePieces
  <2>3. Put(more, d) = Put(edits, c)
      BY <2>2, PutTheSame
  <2> QED
      BY <2>3 DEF c, d
<1> DEFINE r == IF i > Len(t) \/ Covered(edits, p) THEN <<>> ELSE <<t[i]>>
           b == Put(edits, ReplacesAt(edits, p))
           a == Put(edits, InsertsAt(edits, p))
           x == Put(more, InsertsAt(more, p))
<1>7. AtPlace(t, more, i) = (x \o b) \o r /\ AtPlace(t, edits, i) = (a \o b) \o r
    BY <1>5, <1>6 DEF AtPlace
<1>8. ASSUME i > o + 1 PROVE x = a
  <2> DEFINE c == InsertsAt(edits, p)
             d == InsertsAt(more, p)
  <2>1. ASSUME NEW k \in 1 .. n PROVE Piece(more, d, k) = Piece(edits, c, k)
    <3>1. CASE k = q
      <4>1. k \notin d
          BY <1>3, <1>8, <3>1 DEF InsertsAt
      <4>2. edits[k].new = <<>>
          BY <1>1, <3>1
      <4> QED
          BY <4>1, <4>2 DEF Piece
    <3>2. CASE k # q
        BY <1>1, <1>4, <3>2 DEF Piece
    <3> QED
        BY <3>1, <3>2
  <2> HIDE DEF c, d
  <2>2. SamePieces(t, edits, more, c, d, n)
      BY <2>1 DEF SamePieces
  <2>3. Put(more, d) = Put(edits, c)
      BY <2>2, PutTheSame
  <2> QED
      BY <2>3 DEF c, d
<1>9. ASSUME o = e, i = o + 1 PROVE x = more[q].new \o a
  <2> DEFINE c == InsertsAt(edits, p)
             d == InsertsAt(more, p)
  <2>1. q \in d
      BY <1>1, <1>2, <1>3, <1>9 DEF InsertsAt
  <2>2. ASSUME NEW k \in 1 .. n, k < q PROVE Piece(more, d, k) = <<>>
    <3>1. k # q
        BY <2>2
    <3>2. k \in d => edits[k].span.length = 0 /\ edits[k].span.offset = o
        BY <1>1, <1>3, <1>9, <3>1 DEF InsertsAt
    <3> QED
        BY <1>1, <2>2, <3>1, <3>2 DEF Piece
  <2>3. ASSUME NEW k \in 1 .. n, k # q PROVE Piece(more, d, k) = Piece(edits, c, k)
      BY <1>1, <1>4, <2>3 DEF Piece
  <2>4. Piece(edits, c, q) = <<>>
      BY <1>1 DEF Piece
  <2>5. Piece(more, d, q) = more[q].new
      BY <2>1 DEF Piece
  <2> HIDE DEF c, d
  <2>6. Put(more, d) = Piece(more, d, q) \o Put(edits, c)
    <3>1. \A k \in 1 .. n : k < q => Piece(more, d, k) = <<>>
        BY <2>2
    <3>2. \A k \in 1 .. n : k # q => Piece(more, d, k) = Piece(edits, c, k)
        BY <2>3
    <3>3. OnePieceMore(t, edits, more, c, d, n, q)
        BY <2>4, <3>1, <3>2 DEF OnePieceMore
    <3> QED
        BY <3>3, PutOneMore
  <2> QED
      BY <2>5, <2>6 DEF c, d
<1>10. AtPlace(t, edits, i) \in Seq(Letters) /\ a \in Seq(Letters) /\ b \in Seq(Letters)
    BY PlaceAtFacts, PutFacts
<1>11. r \in Seq(Letters)
  <2>1. CASE i > Len(t) \/ Covered(edits, p)
      BY <2>1, EmptySeq
  <2>2. CASE ~(i > Len(t) \/ Covered(edits, p))
    <3>1. t[i] \in Letters
        BY <1>1, <2>2, ElementOfSeq
    <3>2. <<t[i]>> \in Seq(Letters)
        BY <3>1
    <3> QED
        BY <2>2, <3>2
  <2> QED
      BY <2>1, <2>2
<1>12. more[q].new \in Seq(Letters)
    BY EditFacts
<1> DEFINE new == more[q].new
<1> HIDE DEF a, b, r, x, new
<1>13. ((new \o a) \o b) \o r = new \o ((a \o b) \o r)
  <2>1. Regroups(Letters)
      BY Regrouped
  <2>2. a \o b \in Seq(Letters) /\ new \in Seq(Letters)
      BY <1>10, <1>12, ConcatProperties DEF new
  <2>3. (new \o a) \o b = new \o (a \o b)
      BY ZenonT(60), <1>10, <2>1, <2>2 DEF Regroups
  <2>4. (new \o (a \o b)) \o r = new \o ((a \o b) \o r)
      BY ZenonT(60), <1>11, <2>1, <2>2 DEF Regroups
  <2> QED
      BY <2>3, <2>4
<1>14. ASSUME o = e, i = o + 1 PROVE AtPlace(t, more, i) = new \o AtPlace(t, edits, i)
    BY <1>7, <1>9, <1>13, <1>14 DEF new
<1>15. ASSUME i > o + 1 PROVE AtPlace(t, more, i) = AtPlace(t, edits, i)
    BY <1>7, <1>8, <1>15
<1> QED
    BY <1>14, <1>15 DEF new, LeavesAfter

\* What an edit replaces goes, and what it puts there comes.
LEMMA PlacesWithin ==
    ASSUME NEW t, NEW n, NEW edits, NEW more, NEW q, NEW o, NEW e,
           OneMoreAt(t, n, edits, more, q, o, e), o < e,
           NEW i \in o + 1 .. e
    PROVE  AtPlace(t, more, i) = IF i = o + 1 THEN more[q].new ELSE <<>>
<1>00. /\ t \in Seq(Letters) /\ n \in Nat /\ q \in 1 .. n
       /\ edits \in [1 .. n -> EditOf(t)] /\ more \in [1 .. n -> EditOf(t)]
       /\ o = more[q].span.offset /\ e = o + more[q].span.length
    BY DEF OneMoreAt
<1> USE <1>00
<1>0. OneMoreMeans(t, n, edits, more, q, o, e)
    BY OneMoreFacts
<1>1. /\ o \in Nat /\ e \in Nat /\ o <= e /\ e <= Len(t) /\ Len(t) \in Nat
      /\ more[q].span.length = 0 <=> o = e
      /\ \A k \in 1 .. n :
            /\ edits[k].span.offset \in Nat /\ edits[k].span.length \in Nat
            /\ k # q =>
                  /\ more[k] = edits[k]
                  /\ edits[k].span.offset < e => edits[k].new = <<>>
    BY <1>0 DEF OneMoreMeans
<1>2. DOMAIN edits = 1 .. n /\ DOMAIN more = 1 .. n
    OBVIOUS
<1> DEFINE p == i - 1
           none == <<>>
           new == more[q].new
<1>3. p \in Nat /\ p < e /\ p >= o /\ (i = o + 1 <=> p = o)
    BY <1>1
<1>4. Covered(more, p)
  <2> DEFINE l == more[q].span.length
  <2>1. l \in Nat /\ more[q].span.offset = o /\ e = o + l
      BY EditFacts
  <2> HIDE DEF l
  <2>2. p \in o .. o + l - 1
      BY SMTT(60), <1>1, <1>3, <2>1
  <2>3. p \in more[q].span.offset .. more[q].span.offset + more[q].span.length - 1
      BY <2>1, <2>2 DEF l
  <2> HIDE DEF p
  <2> QED
      BY <1>2, <2>3 DEF Covered
<1>5. \A k \in 1 .. n : k # q /\ more[k].span.offset = p => more[k].new = <<>>
    BY <1>1, <1>3
<1>6. more[q].span.offset = o /\ more[q].span.length > 0 /\ more[q].span.length # 0
    BY <1>1, EditFacts
<1>7. Put(more, InsertsAt(more, p)) = none
  <2>1. \A k \in 1 .. n : k \in InsertsAt(more, p) => more[k].new = <<>>
      BY <1>5, <1>6 DEF InsertsAt
  <2> QED
      BY <2>1, PutFacts
<1>8. new \in Seq(Letters)
    BY EditFacts
<1>9. Put(more, ReplacesAt(more, p)) = IF i = o + 1 THEN new ELSE none
  <2>1. CASE i = o + 1
    <3> DEFINE d == ReplacesAt(more, p)
               c == {}
    <3>1. q \in d
        BY <1>2, <1>3, <1>6, <2>1 DEF ReplacesAt
    <3>2. \A k \in 1 .. n : k # q /\ k \in d => more[k].new = <<>>
        BY <1>5 DEF ReplacesAt
    <3> HIDE DEF d
    <3>3. \A k \in 1 .. n : Piece(edits, c, k) = <<>>
        BY DEF Piece
    <3>4. \A k \in 1 .. n : k # q => Piece(more, d, k) = <<>>
        BY <3>2 DEF Piece
    <3> HIDE DEF c
    <3>5. OnePieceMore(t, edits, more, c, d, n, q)
        BY <3>3, <3>4 DEF OnePieceMore
    <3>6. Put(more, d) = Piece(more, d, q) \o Put(edits, c)
        BY <3>5, PutOneMore
    <3>7. Put(edits, c) = none
        BY PutFacts DEF c
    <3>8. Piece(more, d, q) = new
        BY <3>1 DEF Piece
    <3> HIDE DEF new, none
    <3>9. new \o none = new
        BY <1>8, ConcatEmptySeq DEF none
    <3> QED
        BY <2>1, <3>6, <3>7, <3>8, <3>9 DEF d
  <2>2. CASE i # o + 1
    <3>1. \A k \in 1 .. n : k \in ReplacesAt(more, p) => more[k].new = <<>>
        BY <1>3, <1>5, <1>6, <2>2 DEF ReplacesAt
    <3>2. Put(more, ReplacesAt(more, p)) = none
        BY <3>1, PutFacts
    <3> QED
        BY <2>2, <3>2
  <2> QED
      BY <2>1, <2>2
<1>10. AtPlace(t, more, i) = (none \o IF i = o + 1 THEN new ELSE none) \o none
    BY <1>4, <1>7, <1>9 DEF AtPlace
<1> HIDE DEF new, none
<1>11. none \o none = none /\ none \o new = new /\ new \o none = new
    BY <1>8, EmptySeq, ConcatEmptySeq DEF none
<1>12. AtPlace(t, more, i) = IF i = o + 1 THEN new ELSE none
    BY <1>10, <1>11
<1> QED
    BY <1>12 DEF new, none

(* The last edit made splices what the others made.                        *)
LEMMA OneMoreSplices ==
    ASSUME NEW t \in Seq(Letters), NEW n \in Nat,
           NEW edits \in [1 .. n -> EditOf(t)], NEW more \in [1 .. n -> EditOf(t)],
           NEW q \in 1 .. n, OneMore(t, n, edits, more, q)
    PROVE  AtOnce(t, more) = Splice(AtOnce(t, edits), more[q].span, more[q].new)
<1> DEFINE o == more[q].span.offset
           e == o + more[q].span.length
           N == Len(t) + 1
           new == more[q].new
           V == Letters
<1>00. o = more[q].span.offset /\ e = o + more[q].span.length
    OBVIOUS
<1>000. OneMoreAt(t, n, edits, more, q, o, e)
    BY DEF OneMoreAt
<1> HIDE DEF o, e
<1>0. OneMoreMeans(t, n, edits, more, q, o, e)
    BY <1>000, OneMoreFacts
<1>1. o \in Nat /\ e \in Nat /\ o <= e /\ e <= Len(t) /\ Len(t) \in Nat /\ N \in Nat
      /\ new \in Seq(V)
    BY <1>0, <1>00, EditFacts DEF OneMoreMeans
<1>2. PICK s, f :
               /\ s \in [1 .. N -> Seq(V)]
               /\ s = [i \in 1 .. N |-> AtPlace(t, edits, i)]
               /\ Joined(f, s, N, V)
               /\ AtOnce(t, edits) = f[N]
    BY AtOnceIsJoined
<1>3. PICK r, g :
               /\ r \in [1 .. N -> Seq(V)]
               /\ r = [i \in 1 .. N |-> AtPlace(t, more, i)]
               /\ Joined(g, r, N, V)
               /\ AtOnce(t, more) = g[N]
    BY AtOnceIsJoined
<1>30. s \in [1 .. N -> Seq(V)] /\ r \in [1 .. N -> Seq(V)]
    BY <1>2, <1>3
<1> USE <1>30
<1>4. \A i \in 1 .. N : s[i] = AtPlace(t, edits, i) /\ r[i] = AtPlace(t, more, i)
    BY <1>2, <1>3
<1>5. /\ \A i \in 1 .. e : i \in 1 .. N /\ s[i] = <<t[i]>>
      /\ \A i \in 1 .. o : i \in 1 .. N /\ r[i] = <<t[i]>>
  <2>1. /\ \A i \in 1 .. e : AtPlace(t, edits, i) = <<t[i]>>
        /\ \A i \in 1 .. o : AtPlace(t, more, i) = <<t[i]>>
      BY <1>000, PlacesBefore
  <2>2. (\A i \in 1 .. e : i \in 1 .. N) /\ (\A i \in 1 .. o : i \in 1 .. N)
      BY <1>1
  <2> QED
      BY <1>4, <2>1, <2>2
<1>6. ASSUME NEW i \in 1 .. N, i > e, i > o + 1 PROVE s[i] = r[i]
  <2>1. LeavesAfter(t, edits, more[q].new, more, o, e, i)
      BY <1>000, <1>6, PlacesAfter
  <2> QED
      BY <1>4, <1>6, <2>1 DEF LeavesAfter
<1>7. o = e => r[o + 1] = new \o s[o + 1]
  <2> DEFINE j == o + 1
  <2> SUFFICES ASSUME o = e PROVE r[j] = new \o s[j]
      OBVIOUS
  <2>1. j \in 1 .. N /\ j > e /\ j = o + 1
      BY <1>1
  <2> HIDE DEF j
  <2>3. j \in 1 .. Len(t) + 1
      BY <2>1
  <2> HIDE DEF new, N
  <2>5. LeavesAfter(t, edits, more[q].new, more, o, e, j)
      BY <1>000, <2>1, <2>3, PlacesAfter
  <2>4. (o = e /\ j = o + 1) => AtPlace(t, more, j) = more[q].new \o AtPlace(t, edits, j)
      BY <2>5 DEF LeavesAfter
  <2>2. AtPlace(t, more, j) = new \o AtPlace(t, edits, j)
      BY <2>1, <2>4 DEF new
  <2> QED
      BY <1>4, <2>1, <2>2
<1>8. o < e => \A i \in o + 1 .. e : i \in 1 .. N /\ r[i] = IF i = o + 1 THEN new ELSE <<>>
  <2>1. \A i \in o + 1 .. e : i \in 1 .. N
      BY <1>1
  <2> QED
      BY <1>000, <1>4, <2>1, PlacesWithin
<1>9. /\ f \in [0 .. N -> Seq(V)] /\ f[0] = <<>> /\ \A k \in 1 .. N : f[k] = f[k - 1] \o s[k]
      /\ g \in [0 .. N -> Seq(V)] /\ g[0] = <<>> /\ \A k \in 1 .. N : g[k] = g[k - 1] \o r[k]
    BY <1>2, <1>3 DEF Joined
<1>10. Joined(f, s, N, V) /\ Joined(g, r, N, V)
    BY <1>2, <1>3
<1>11. AtOnce(t, edits) = f[N] /\ AtOnce(t, more) = g[N]
    BY <1>2, <1>3
<1>12. more[q].span \in [offset : Nat, length : Nat]
    BY EditFacts DEF Spans
<1>13. Splice(f[N], more[q].span, new) = (SubSeq(f[N], 1, o) \o new) \o SubSeq(f[N], e + 1, Len(f[N]))
    BY <1>00 DEF Splice
<1> HIDE DEF N, new, V
<1> DEFINE T == SubSeq(t, 1, e)
           O == SubSeq(t, 1, o)
           none == <<>>
<1>14. f[e] = T /\ g[o] = O /\ f[o] = O
  <2>0. \A k \in 1 .. o : k \in 1 .. e
      BY <1>1
  <2>1. LetterByLetter(s, t, e) /\ LetterByLetter(r, t, o) /\ LetterByLetter(s, t, o)
    <3>1. LetterByLetter(s, t, e)
        BY <1>5 DEF LetterByLetter
    <3>2. LetterByLetter(r, t, o)
        BY <1>5 DEF LetterByLetter
    <3>3. LetterByLetter(s, t, o)
        BY <1>5, <2>0 DEF LetterByLetter
    <3> QED
        BY <3>1, <3>2, <3>3
  <2>2. e \in 0 .. N /\ o \in 0 .. N /\ e <= Len(t) /\ o <= Len(t)
      BY <1>1 DEF N
  <2>3. t \in Seq(V) /\ N \in Nat
      BY <1>1 DEF V
  <2> HIDE DEF T, O
  <2>4. f[e] = T
    <3>1. Copies(f, s, t, e, N, V)
        BY <1>10, <2>1, <2>2, <2>3 DEF Copies
    <3>2. f[e] = SubSeq(t, 1, e)
        BY <3>1, SameSoFar
    <3> QED
        BY <3>2 DEF T
  <2>5. g[o] = O
    <3>1. Copies(g, r, t, o, N, V)
        BY <1>10, <2>1, <2>2, <2>3 DEF Copies
    <3>2. g[o] = SubSeq(t, 1, o)
        BY <3>1, SameSoFar
    <3> QED
        BY <3>2 DEF O
  <2>6. f[o] = O
    <3>1. Copies(f, s, t, o, N, V)
        BY <1>10, <2>1, <2>2, <2>3 DEF Copies
    <3>2. f[o] = SubSeq(t, 1, o)
        BY <3>1, SameSoFar
    <3> QED
        BY <3>2 DEF O
  <2> QED
      BY <2>4, <2>5, <2>6
<1>15. T \in Seq(V) /\ O \in Seq(V) /\ Len(T) = e /\ SubSeq(T, 1, o) = O
  <2> DEFINE zero == 0
  <2>1. zero \in Nat /\ e \in 0 .. Len(t) /\ o \in 0 .. Len(t) /\ t \in Seq(V)
        /\ (zero < e => e - zero = e) /\ (~(zero < e) => e = 0) /\ zero + 1 = 1
        /\ (zero < o => o - zero = o) /\ (~(zero < o) => o = 0)
      BY <1>1 DEF V
  <2> HIDE DEF zero
  <2>2. /\ SubSeq(t, zero + 1, e) \in Seq(V)
        /\ Len(SubSeq(t, zero + 1, e)) = IF zero < e THEN e - zero ELSE 0
        /\ \A i \in 1 .. e - zero : SubSeq(t, zero + 1, e)[i] = t[zero + i]
      BY <2>1, PieceType
  <2>3. /\ SubSeq(t, zero + 1, o) \in Seq(V)
        /\ Len(SubSeq(t, zero + 1, o)) = IF zero < o THEN o - zero ELSE 0
        /\ \A i \in 1 .. o - zero : SubSeq(t, zero + 1, o)[i] = t[zero + i]
      BY <2>1, PieceType
  <2>4. T \in Seq(V) /\ O \in Seq(V) /\ Len(T) = e /\ Len(O) = o
      BY <2>1, <2>2, <2>3
  <2> DEFINE x == SubSeq(t, o + 1, e)
  <2>5. x \in Seq(V)
      BY <1>1, <2>1, PieceType
  <2>6. O \o x = T
    <3> DEFINE one == 1
    <3>1. one \in 1 .. Len(t) + 1 /\ o \in one - 1 .. Len(t) /\ e \in o .. Len(t)
        BY <1>1
    <3> HIDE DEF one
    <3>2. SubSeq(t, one, o) \o SubSeq(t, o + 1, e) = SubSeq(t, one, e)
        BY <2>1, <3>1, ConcatAdjacentSubSeq
    <3> QED
        BY <3>2 DEF one
  <2> HIDE DEF T, O, x
  <2>7. o \in 0 .. Len(O)
      BY <1>1, <2>4
  <2>8. SubSeq(O \o x, 1, o) = SubSeq(O, 1, o)
      BY <2>4, <2>5, <2>7, PartsOfRequest
  <2>9. SubSeq(O, 1, o) = O
      BY <2>4, SubSeqFull
  <2> QED
      BY <2>4, <2>6, <2>8, <2>9
<1> HIDE DEF T, O
<1>16. none \in Seq(V) /\ \A a \in Seq(V) : none \o a = a /\ a \o none = a
    BY EmptySeq, ConcatEmptySeq
<1> HIDE DEF none
<1> DEFINE y == O \o new
<1>17. y \in Seq(V)
    BY <1>1, <1>15, ConcatProperties
<1>18. ContinueAlike(f[N], g[N], T, y, V)
  <2>1. CASE o = e
    <3> DEFINE b == o + 1
               z == s[b]
    <3>1. b \in 0 .. N /\ b \in 1 .. N /\ b - 1 = o /\ N \in Nat
        BY <1>1, <2>1 DEF N
    <3>2. z \in Seq(V)
        BY <3>1
    <3>3. f[b] = T \o z
        BY <1>9, <1>14, <2>1, <3>1
    <3>4. g[b] = O \o (new \o z)
        BY <1>7, <1>9, <1>14, <2>1, <3>1
    <3> HIDE DEF z
    <3>5. O \o (new \o z) = y \o z
      <4>1. Regroups(V)
          BY Regrouped
      <4> QED
          BY ZenonT(60), <1>1, <1>15, <3>2, <4>1 DEF Regroups
    <3>6. \A k \in b + 1 .. N : s[k] = r[k]
      <4> TAKE k \in b + 1 .. N
      <4>1. k \in 1 .. N /\ k > e /\ k > o + 1
          BY <1>1, <2>1, <3>1
      <4> QED
          BY <1>6, <4>1
    <3>7. g[b] = y \o z
        BY <3>4, <3>5
    <3> HIDE DEF b, y
    <3>8. Alike(f, g, s, r, b, N, T, y, z, V)
        BY <1>10, <1>15, <1>17, <3>1, <3>2, <3>3, <3>6, <3>7 DEF Alike
    <3> QED
        BY <3>8, GoOnAlike
  <2>2. CASE o < e
    <3> DEFINE d == e - o - 1
               S == {k \in 0 .. d : g[o + 1 + k] = y}
    <3>1. d \in Nat /\ o + 1 + d = e /\ o + 1 \in 1 .. N /\ o + 1 - 1 = o /\ o + 1 + 0 = o + 1
          /\ o + 1 \in o + 1 .. e
        BY <1>1, <2>2 DEF N
    <3>2. g[o + 1] = g[o] \o r[o + 1]
      <4> DEFINE j == o + 1
      <4>1. j \in 1 .. N /\ j - 1 = o
          BY <1>1, <3>1
      <4> HIDE DEF j
      <4>2. g[j] = g[o] \o r[j]
          BY <1>9, <4>1
      <4> QED
          BY <4>2 DEF j
    <3>3. r[o + 1] = new
        BY <1>8, <2>2, <3>1
    <3>4. 0 \in S
      <4>1. g[o + 1 + 0] = y
          BY <1>14, <3>1, <3>2, <3>3
      <4> QED
          BY <3>1, <4>1
    <3>5. ASSUME NEW k \in 0 .. d - 1, k \in S PROVE k + 1 \in S
      <4> DEFINE j == o + 1 + (k + 1)
      <4>1. j \in o + 1 .. e /\ j # o + 1 /\ j \in 1 .. N /\ j - 1 = o + 1 + k /\ k + 1 \in 0 .. d
          BY <1>1, <3>1 DEF N
      <4> HIDE DEF j
      <4>2. g[j] = g[o + 1 + k] \o r[j] /\ r[j] = none
          BY <1>8, <1>9, <2>2, <4>1 DEF none
      <4>3. g[o + 1 + k] = y
          BY <3>5
      <4>4. g[j] = y
          BY <1>16, <1>17, <4>2, <4>3
      <4> QED
          BY <4>1, <4>4 DEF j
    <3> HIDE DEF S
    <3>6. d \in S
      <4> HIDE DEF d
      <4>1. \A k \in 0 .. d : k \in S
          BY <3>1, <3>4, <3>5, UpTo
      <4> QED
          BY <3>1, <4>1
    <3>7. g[e] = y
        BY <3>1, <3>6 DEF S
    <3>8. f[e] = T \o none /\ g[e] = y \o none
        BY <1>14, <1>15, <1>16, <1>17, <3>7
    <3>9. \A k \in e + 1 .. N : s[k] = r[k]
      <4> TAKE k \in e + 1 .. N
      <4>1. k \in 1 .. N /\ k > e /\ k > o + 1
          BY <1>1, <2>2
      <4> QED
          BY <1>6, <4>1
    <3>10. e \in 0 .. N /\ N \in Nat
        BY <1>1 DEF N
    <3> HIDE DEF y
    <3>11. Alike(f, g, s, r, e, N, T, y, none, V)
        BY <1>10, <1>15, <1>16, <1>17, <3>8, <3>9, <3>10 DEF Alike
    <3> QED
        BY <3>11, GoOnAlike
  <2> QED
      BY <1>1, <2>1, <2>2
<1>19. PICK w \in Seq(V) : f[N] = T \o w /\ g[N] = y \o w
    BY <1>18 DEF ContinueAlike
<1>20. SubSeq(f[N], 1, o) = O /\ SubSeq(f[N], e + 1, Len(f[N])) = w
  <2>1. o \in 0 .. Len(T)
      BY <1>1, <1>15
  <2>2. SubSeq(T \o w, 1, o) = SubSeq(T, 1, o) /\ SubSeq(T \o w, Len(T) + 1, Len(T \o w)) = w
      BY <1>15, <2>1, PartsOfRequest
  <2> QED
      BY <1>15, <1>19, <2>2
<1>21. Splice(f[N], more[q].span, new) = y \o w
    BY <1>13, <1>20
<1> QED
    BY <1>11, <1>19, <1>21 DEF new

-----------------------------------------------------------------------------
(* The order in which edits are made.                                      *)

Sorted(p, m, B) ==
    /\ p \in [1 .. m -> 1 .. m]
    /\ \A i, j \in 1 .. m : i < j => <<p[i], p[j]>> \in B

\* A transitive, total relation of the numbers up to n.
Orders(B, n) ==
    /\ \A a, b, c \in 1 .. n : <<a, b>> \in B /\ <<b, c>> \in B => <<a, c>> \in B
    /\ \A a, b \in 1 .. n : a # b => <<a, b>> \in B \/ <<b, a>> \in B

\* The next number goes before the first that it precedes.
LEMMA Inserted ==
    ASSUME NEW n \in Nat, NEW B, Orders(B, n), NEW m \in 0 .. n - 1, NEW p, Sorted(p, m, B)
    PROVE  \E r : Sorted(r, m + 1, B)
<1> DEFINE l == m + 1
           T == {i \in 1 .. m : <<l, p[i]>> \in B} \cup {l}
<1>0. /\ p \in [1 .. m -> 1 .. m]
      /\ \A i, j \in 1 .. m : i < j => <<p[i], p[j]>> \in B
    BY DEF Sorted
<1>1. m \in Nat /\ l \in 1 .. n /\ l > m /\ T \in SUBSET Nat /\ l \in T
    OBVIOUS
<1>2. PICK x \in T : \A y \in T : x <= y
    BY <1>1, LeastNumber
<1>3. x \in 1 .. l
    BY <1>1, <1>2
<1>4. ASSUME NEW i \in 1 .. m, i < x PROVE <<p[i], l>> \in B
  <2>1. i \notin T
      BY <1>1, <1>2, <1>3, <1>4
  <2>2. ~(<<l, p[i]>> \in B)
      BY <2>1
  <2>3. p[i] \in 1 .. n /\ p[i] # l
      BY <1>0, <1>1
  <2> HIDE DEF l
  <2> QED
      BY <1>1, <2>2, <2>3 DEF Orders
<1>5. ASSUME NEW i \in 1 .. m, x <= i PROVE <<l, p[i]>> \in B
  <2>1. x \in 1 .. m
      BY <1>1, <1>3, <1>5
  <2>2. <<l, p[x]>> \in B
      BY <1>1, <1>2, <2>1
  <2>3. p[x] \in 1 .. n /\ p[i] \in 1 .. n
      BY <1>0, <1>1, <2>1
  <2>4. i # x => <<p[x], p[i]>> \in B
      BY <1>0, <1>5, <2>1
  <2> HIDE DEF l
  <2> QED
      BY <1>1, <2>2, <2>3, <2>4 DEF Orders
<1> DEFINE r == [i \in 1 .. l |-> IF i < x THEN p[i] ELSE IF i = x THEN l ELSE p[i - 1]]
<1> HIDE DEF T
<1>6. ASSUME NEW i \in 1 .. l PROVE r[i] \in 1 .. l
  <2>1. CASE i < x
    <3>1. i \in 1 .. m
        BY <1>1, <1>3, <2>1
    <3>2. p[i] \in 1 .. m
        BY <1>0, <3>1
    <3> QED
        BY <1>1, <2>1, <3>2
  <2>2. CASE i = x
      BY <1>1, <2>2
  <2>3. CASE i > x
    <3>1. i - 1 \in 1 .. m
        BY <1>1, <1>3, <2>3
    <3>2. p[i - 1] \in 1 .. m
        BY <1>0, <3>1
    <3>3. ~(i < x) /\ i # x
        BY <1>3, <2>3
    <3> QED
        BY <1>1, <3>2, <3>3
  <2> QED
      BY <1>3, <2>1, <2>2, <2>3
<1>7. \A i \in 1 .. l : r[i] = IF i < x THEN p[i] ELSE IF i = x THEN l ELSE p[i - 1]
    OBVIOUS
<1>8. r \in [1 .. l -> 1 .. l]
    BY <1>6
<1> HIDE DEF r, l
<1>9. ASSUME NEW i \in 1 .. l, NEW j \in 1 .. l, i < j PROVE <<r[i], r[j]>> \in B
  <2>0. x \in Nat /\ l \in Nat /\ m \in Nat /\ i \in Nat /\ j \in Nat /\ l = m + 1
      BY <1>1, <1>3 DEF l
  <2>1. CASE j < x
    <3>1. i \in 1 .. m /\ j \in 1 .. m /\ i < x
        BY <1>3, <1>9, <2>0, <2>1
    <3>2. r[i] = p[i] /\ r[j] = p[j]
        BY <1>7, <2>1, <3>1
    <3> QED
        BY <1>0, <1>9, <3>1, <3>2
  <2>2. CASE j = x
    <3>1. i \in 1 .. m /\ i < x /\ ~(j < x)
        BY <1>3, <1>9, <2>0, <2>2
    <3>2. r[i] = p[i] /\ r[j] = l
        BY <1>7, <2>2, <3>1
    <3> QED
        BY <1>4, <3>1, <3>2
  <2>3. CASE j > x /\ i < x
    <3>1. i \in 1 .. m /\ j - 1 \in 1 .. m /\ i < j - 1 /\ ~(j < x) /\ j # x
        BY <1>3, <1>9, <2>0, <2>3
    <3>2. r[i] = p[i] /\ r[j] = p[j - 1]
        BY <1>7, <2>3, <3>1
    <3> QED
        BY <1>0, <3>1, <3>2
  <2>4. CASE j > x /\ i = x
    <3>1. j - 1 \in 1 .. m /\ x <= j - 1 /\ ~(j < x) /\ j # x /\ ~(i < x)
        BY <1>3, <1>9, <2>0, <2>4
    <3>2. r[i] = l /\ r[j] = p[j - 1]
        BY <1>7, <2>4, <3>1
    <3> QED
        BY <1>5, <3>1, <3>2
  <2>5. CASE i > x
    <3>1. i - 1 \in 1 .. m /\ j - 1 \in 1 .. m /\ i - 1 < j - 1
          /\ ~(j < x) /\ j # x /\ ~(i < x) /\ i # x
        BY <1>3, <1>9, <2>0, <2>5
    <3>2. r[i] = p[i - 1] /\ r[j] = p[j - 1]
        BY <1>7, <3>1
    <3> QED
        BY <1>0, <3>1, <3>2
  <2> QED
      BY <1>9, <2>0, <2>1, <2>2, <2>3, <2>4, <2>5
<1>10. Sorted(r, l, B)
    BY <1>8, <1>9 DEF Sorted
<1> QED
    BY <1>10 DEF l

LEMMA OrderExists ==
    ASSUME NEW n \in Nat, NEW B, Orders(B, n)
    PROVE  \E p : Sorted(p, n, B)
<1> DEFINE S == {m \in 0 .. n : \E p : Sorted(p, m, B)}
<1>1. 0 \in S
  <2> DEFINE p == [i \in 1 .. 0 |-> i]
  <2>1. p \in [1 .. 0 -> 1 .. 0] /\ \A i \in 1 .. 0 : FALSE
      OBVIOUS
  <2> HIDE DEF p
  <2>2. Sorted(p, 0, B)
      BY <2>1 DEF Sorted
  <2> QED
      BY <2>2
<1>2. ASSUME NEW m \in 0 .. n - 1, m \in S PROVE m + 1 \in S
  <2>1. \E r : Sorted(r, m + 1, B)
      BY <1>2, Inserted
  <2> QED
      BY <2>1
<1> HIDE DEF S
<1>3. n \in S
  <2>1. \A m \in 0 .. n : m \in S
      BY <1>1, <1>2, UpTo
  <2> QED
      BY <2>1
<1> QED
    BY <1>3 DEF S

\* None comes twice, and so each comes.
LEMMA OrderIsOnto ==
    ASSUME NEW n \in Nat, NEW p, NEW B, Sorted(p, n, B), \A a \in 1 .. n : <<a, a>> \notin B
    PROVE  /\ \A i, j \in 1 .. n : p[i] = p[j] => i = j
           /\ \A k \in 1 .. n : \E i \in 1 .. n : p[i] = k
<1>0. p \in [1 .. n -> 1 .. n] /\ \A i, j \in 1 .. n : i < j => <<p[i], p[j]>> \in B
    BY DEF Sorted
<1>1. ASSUME NEW i \in 1 .. n, NEW j \in 1 .. n, p[i] = p[j] PROVE i = j
  <2>1. p[i] \in 1 .. n /\ p[j] \in 1 .. n
      BY <1>0
  <2>2. ~(i < j)
      BY <1>0, <1>1, <2>1
  <2>3. ~(j < i)
      BY <1>0, <1>1, <2>1
  <2> QED
      BY <2>2, <2>3
<1> DEFINE D == 1 .. n
<1>2. IsFiniteSet(D)
  <2>1. 1 \in Int /\ n \in Int
      OBVIOUS
  <2> QED
      BY <2>1, FS_Interval
<1>3. p \in Injection(D, D)
    BY <1>0, <1>1 DEF Injection, IsInjective
<1> HIDE DEF D
<1>4. p \in Surjection(D, D)
    BY <1>2, <1>3, FS_Injection
<1>5. \A k \in D : \E i \in D : p[i] = k
    BY <1>4 DEF Surjection
<1> QED
    BY <1>1, <1>5 DEF D

\* An edit with its place in the list.
Indexed(edits, n) == [n |-> n, span |-> edits[n].span, new |-> edits[n].new]

InOrderOf(t, n, edits, order) ==
    /\ t \in Seq(Letters) /\ n \in Nat /\ edits \in [1 .. n -> EditOf(t)]
    /\ order \in [1 .. n -> 1 .. n]
    /\ \A i, j \in 1 .. n :
          i < j => MadeFirst(Indexed(edits, order[i]), Indexed(edits, order[j]))
    /\ \A i, j \in 1 .. n : order[i] = order[j] => i = j
    /\ \A k \in 1 .. n : \E i \in 1 .. n : order[i] = k

(* Every list of edits has an order in which they are made.                *)
LEMMA InOrderFacts ==
    ASSUME NEW t \in Seq(Letters), NEW n \in Nat, NEW edits \in [1 .. n -> EditOf(t)]
    PROVE  \E order : /\ InOrderOf(t, n, edits, order)
                      /\ InOrder(edits) = [i \in 1 .. n |-> Indexed(edits, order[i])]
<1> DEFINE D == 1 .. n
           B == {d \in D \X D : MadeFirst(Indexed(edits, d[1]), Indexed(edits, d[2]))}
           C(o) == /\ o \in [D -> D]
                   /\ \A i, j \in D :
                         i < j => MadeFirst(Indexed(edits, o[i]), Indexed(edits, o[j]))
<1>1. \A k \in D : /\ Indexed(edits, k).n = k /\ Indexed(edits, k).span = edits[k].span
                   /\ edits[k].span.offset \in Nat /\ edits[k].span.length \in Nat
    BY EditFacts DEF Indexed
<1>2. \A a, b \in D : <<a, b>> \in B <=> MadeFirst(Indexed(edits, a), Indexed(edits, b))
    OBVIOUS
<1>3. \A a, b \in D :
         MadeFirst(Indexed(edits, a), Indexed(edits, b)) <=>
            \/ edits[a].span.offset > edits[b].span.offset
            \/ /\ edits[a].span.offset = edits[b].span.offset
               /\ edits[a].span.length > edits[b].span.length
            \/ edits[a].span = edits[b].span /\ a > b
    BY <1>1 DEF MadeFirst
<1>4. \A a, b \in D : /\ edits[a].span.offset = edits[b].span.offset
                      /\ edits[a].span.length = edits[b].span.length
                      => edits[a].span = edits[b].span
  <2>1. \A a \in D : edits[a].span \in [offset : Nat, length : Nat]
      BY EditFacts DEF Spans
  <2> QED
      BY SMTT(60), <2>1
<1>5. \A a \in D : <<a, a>> \notin B
    BY SMTT(60), <1>1, <1>2, <1>3
<1>6. Orders(B, n)
  <2>1. ASSUME NEW a \in 1 .. n, NEW b \in 1 .. n, NEW c \in 1 .. n,
               <<a, b>> \in B, <<b, c>> \in B
        PROVE  <<a, c>> \in B
    <3> DEFINE x == edits[a].span
               y == edits[b].span
               z == edits[c].span
    <3>1. /\ x.offset \in Nat /\ x.length \in Nat /\ y.offset \in Nat /\ y.length \in Nat
          /\ z.offset \in Nat /\ z.length \in Nat
        BY <1>1
    <3>2. /\ \/ x.offset > y.offset
             \/ x.offset = y.offset /\ x.length > y.length
             \/ x = y /\ a > b
          /\ \/ y.offset > z.offset
             \/ y.offset = z.offset /\ y.length > z.length
             \/ y = z /\ b > c
      <4> HIDE DEF B
      <4> QED
          BY <1>2, <1>3, <2>1
    <3>3. \/ x.offset > z.offset
          \/ x.offset = z.offset /\ x.length > z.length
          \/ x = z /\ a > c
      <4> HIDE DEF x, y, z
      <4> QED
          BY <3>1, <3>2
    <3> HIDE DEF B
    <3> QED
        BY <1>2, <1>3, <3>3
  <2>2. ASSUME NEW a \in 1 .. n, NEW b \in 1 .. n, a # b
        PROVE  <<a, b>> \in B \/ <<b, a>> \in B
    <3> DEFINE x == edits[a].span
               y == edits[b].span
    <3>1. /\ x.offset \in Nat /\ x.length \in Nat /\ y.offset \in Nat /\ y.length \in Nat
          /\ (x.offset = y.offset /\ x.length = y.length => x = y)
        BY <1>1, <1>4
    <3>2. \/ x.offset > y.offset
          \/ x.offset = y.offset /\ x.length > y.length
          \/ x = y /\ a > b
          \/ y.offset > x.offset
          \/ y.offset = x.offset /\ y.length > x.length
          \/ y = x /\ b > a
      <4> HIDE DEF x, y
      <4> QED
          BY <2>2, <3>1
    <3> HIDE DEF B
    <3> QED
        BY <1>2, <1>3, <3>2
  <2> QED
      BY <2>1, <2>2 DEF Orders
<1>7. PICK p : Sorted(p, n, B)
    BY <1>6, OrderExists
<1>8. C(p)
    BY <1>2, <1>7 DEF Sorted
<1> DEFINE order == CHOOSE o \in [D -> D] :
                       \A i, j \in D :
                          i < j => MadeFirst(Indexed(edits, o[i]), Indexed(edits, o[j]))
<1>9. C(order)
    BY <1>8
<1> HIDE DEF order
<1>10. Sorted(order, n, B)
    BY <1>2, <1>9 DEF Sorted
<1>11. /\ \A i, j \in 1 .. n : order[i] = order[j] => i = j
       /\ \A k \in 1 .. n : \E i \in 1 .. n : order[i] = k
  <2> HIDE DEF B
  <2> QED
      BY <1>5, <1>10, OrderIsOnto
<1>12. InOrderOf(t, n, edits, order)
    BY <1>9, <1>11 DEF InOrderOf
<1>13. InOrder(edits) = [i \in 1 .. n |-> Indexed(edits, order[i])]
  <2>1. DOMAIN edits = D
      OBVIOUS
  <2> DEFINE indexed == [k \in DOMAIN edits |-> [n |-> k, span |-> edits[k].span,
                                                 new |-> edits[k].new]]
  <2>2. \A k \in D : indexed[k] = Indexed(edits, k)
      BY <2>1 DEF Indexed
  <2> DEFINE other == CHOOSE o \in [DOMAIN edits -> DOMAIN edits] :
                         \A i, j \in DOMAIN edits :
                            i < j => MadeFirst(indexed[o[i]], indexed[o[j]])
  <2>3. InOrder(edits) = [i \in DOMAIN edits |-> indexed[other[i]]]
      BY DEF InOrder
  <2> HIDE DEF indexed
  <2>4. \A o \in [D -> D] :
           (\A i, j \in D : i < j => MadeFirst(indexed[o[i]], indexed[o[j]])) <=>
           (\A i, j \in D : i < j => MadeFirst(Indexed(edits, o[i]), Indexed(edits, o[j])))
    <3> TAKE o \in [D -> D]
    <3>1. \A i \in D : indexed[o[i]] = Indexed(edits, o[i])
        BY <2>2
    <3> QED
        BY <3>1
  <2>5. other = order
      BY <2>1, <2>4 DEF order
  <2> HIDE DEF other
  <2>6. \A i \in D : order[i] \in D
      BY <1>9
  <2>7. [i \in D |-> indexed[other[i]]] = [i \in D |-> Indexed(edits, order[i])]
      BY <2>2, <2>5, <2>6
  <2> QED
      BY <2>1, <2>3, <2>7
<1> QED
    BY <1>12, <1>13

-----------------------------------------------------------------------------
(* Making them.                                                            *)

MadeOf(order, m) == {order[i] : i \in 1 .. m}
StartOf(t, edits, order, m) == IF m = 0 THEN Len(t) ELSE edits[order[m]].span.offset
Fits(t, edits, order, m) ==
    LET span == edits[order[m]].span
    IN  span.offset + span.length <= StartOf(t, edits, order, m - 1)

\* What has been made of the first edits.
GoodMade(t, edits, order, made, m) ==
    /\ made \in [fine : BOOLEAN, text : Seq(Letters), start : Nat]
    /\ made.fine <=> \A i \in 1 .. m : Fits(t, edits, order, i)
    /\ made.fine => /\ made.text = AtOnce(t, OnlyThose(edits, MadeOf(order, m)))
                    /\ made.start = StartOf(t, edits, order, m)

LEMMA AtOnceType ==
    ASSUME NEW t \in Seq(Letters), NEW n \in Nat, NEW edits \in [1 .. n -> EditOf(t)]
    PROVE  AtOnce(t, edits) \in Seq(Letters)
<1>1. PICK s, f :
               /\ s \in [1 .. Len(t) + 1 -> Seq(Letters)]
               /\ Joined(f, s, Len(t) + 1, Letters)
               /\ AtOnce(t, edits) = f[Len(t) + 1]
    BY AtOnceIsJoined
<1>2. Len(t) + 1 \in 0 .. Len(t) + 1
    BY LenProperties
<1> QED
    BY <1>1, <1>2 DEF Joined

LEMMA KeptType ==
    ASSUME NEW t \in Seq(Letters), NEW n \in Nat, NEW edits \in [1 .. n -> EditOf(t)], NEW M
    PROVE  /\ OnlyThose(edits, M) \in [1 .. n -> EditOf(t)]
           /\ \A k \in 1 .. n : OnlyThose(edits, M)[k] = IF k \in M THEN edits[k] ELSE NoEdit
BY IdleFacts DEF OnlyThose

\* The next edit that fits is one more, before all those made.
LEMMA NextIsOneMore ==
    ASSUME NEW t, NEW n, NEW edits, NEW order, InOrderOf(t, n, edits, order),
           NEW m \in 1 .. n, Fits(t, edits, order, m)
    PROVE  OneMore(t, n, OnlyThose(edits, MadeOf(order, m - 1)), OnlyThose(edits, MadeOf(order, m)),
                   order[m])
<1>1. /\ t \in Seq(Letters) /\ n \in Nat /\ edits \in [1 .. n -> EditOf(t)]
      /\ order \in [1 .. n -> 1 .. n]
      /\ \A i, j \in 1 .. n :
            i < j => MadeFirst(Indexed(edits, order[i]), Indexed(edits, order[j]))
      /\ \A i, j \in 1 .. n : order[i] = order[j] => i = j
    BY DEF InOrderOf
<1> DEFINE q == order[m]
           less == OnlyThose(edits, MadeOf(order, m - 1))
           more == OnlyThose(edits, MadeOf(order, m))
<1>2. m \in Nat /\ q \in 1 .. n /\ q \in MadeOf(order, m)
    BY <1>1 DEF MadeOf
<1>3. ASSUME NEW i \in 1 .. m - 1 PROVE i \in 1 .. n /\ order[i] # q /\ i < m
    BY <1>1
<1>4. q \notin MadeOf(order, m - 1)
    BY <1>3 DEF MadeOf
<1>5. \A k \in 1 .. n : k # q => (k \in MadeOf(order, m) <=> k \in MadeOf(order, m - 1))
  <2>1. 1 .. m = (1 .. m - 1) \cup {m}
      BY <1>2
  <2> QED
      BY <2>1 DEF MadeOf
<1>6. \A k \in 1 .. n : /\ less[k] = IF k \in MadeOf(order, m - 1) THEN edits[k] ELSE NoEdit
                        /\ more[k] = IF k \in MadeOf(order, m) THEN edits[k] ELSE NoEdit
  <2> DEFINE L == MadeOf(order, m - 1)
             M == MadeOf(order, m)
  <2> HIDE DEF L, M
  <2>1. \A k \in 1 .. n : OnlyThose(edits, L)[k] = IF k \in L THEN edits[k] ELSE NoEdit
      BY SMTT(60), <1>1, KeptType
  <2>2. \A k \in 1 .. n : OnlyThose(edits, M)[k] = IF k \in M THEN edits[k] ELSE NoEdit
      BY SMTT(60), <1>1, KeptType
  <2> QED
      BY <2>1, <2>2 DEF L, M
<1> HIDE DEF less, more
<1>7. less[q] = NoEdit /\ more[q] = edits[q]
    BY <1>2, <1>4, <1>6
<1> DEFINE span == edits[q].span
           e == span.offset + span.length
<1>8. span.offset \in Nat /\ span.length \in Nat /\ e \in Nat
      /\ e <= StartOf(t, edits, order, m - 1)
    BY <1>1, <1>2, EditFacts DEF Fits
<1>9. ASSUME NEW k \in 1 .. n, k # q, less[k] # NoEdit
      PROVE  /\ edits[k].span.offset >= e
             /\ edits[k].span = Span(span.offset, 0) => k > q
  <2>1. PICK i \in 1 .. m - 1 : k = order[i]
      BY <1>6, <1>9 DEF MadeOf
  <2>2. i \in 1 .. n /\ i < m /\ m - 1 \in 1 .. n /\ i <= m - 1 /\ m - 1 # 0
      BY <1>1, <2>1
  <2> DEFINE j == order[m - 1]
  <2>3. j \in 1 .. n /\ StartOf(t, edits, order, m - 1) = edits[j].span.offset
      BY <1>1, <2>2 DEF StartOf
  <2>4. MadeFirst(Indexed(edits, k), Indexed(edits, q))
      BY <1>1, <2>1, <2>2
  <2>5. k = j \/ MadeFirst(Indexed(edits, k), Indexed(edits, j))
    <3>1. i = m - 1 \/ i < m - 1
        BY <1>2, <2>2
    <3> QED
        BY <1>1, <2>1, <2>2, <3>1
  <2>6. /\ edits[k].span.offset \in Nat /\ edits[k].span.length \in Nat
        /\ edits[j].span.offset \in Nat
      BY <1>1, <2>3, EditFacts
  <2> HIDE DEF j
  <2>7. edits[k].span.offset >= edits[j].span.offset
      BY <2>5, <2>6 DEF MadeFirst, Indexed
  <2>8. edits[k].span.offset >= e
      BY <1>8, <2>3, <2>6, <2>7
  <2>9. ASSUME edits[k].span = Span(span.offset, 0) PROVE k > q
    <3>1. edits[k].span.offset = span.offset /\ edits[k].span.length = 0
        BY <2>9 DEF Span
    <3> QED
        BY <1>8, <2>4, <2>6, <3>1 DEF MadeFirst, Indexed
  <2> QED
      BY <2>8, <2>9
<1>10. \A k \in 1 .. n : k # q =>
          /\ more[k] = less[k]
          /\ less[k] # NoEdit => less[k] = edits[k]
    BY <1>5, <1>6
<1>11. OneMore(t, n, less, more, q)
    BY <1>7, <1>9, <1>10 DEF OneMore
<1> QED
    BY <1>11 DEF less, more

\* Each edit in its turn.
LEMMA MakesOne ==
    ASSUME NEW t, NEW n, NEW edits, NEW order, InOrderOf(t, n, edits, order),
           NEW m \in 1 .. n, NEW made, GoodMade(t, edits, order, made, m - 1)
    PROVE  GoodMade(t, edits, order, MakeEdit(made, Indexed(edits, order[m])), m)
<1>1. /\ t \in Seq(Letters) /\ n \in Nat /\ edits \in [1 .. n -> EditOf(t)]
      /\ order \in [1 .. n -> 1 .. n]
    BY DEF InOrderOf
<1>2. /\ made \in [fine : BOOLEAN, text : Seq(Letters), start : Nat]
      /\ made.fine <=> \A i \in 1 .. m - 1 : Fits(t, edits, order, i)
      /\ made.fine => /\ made.text = AtOnce(t, OnlyThose(edits, MadeOf(order, m - 1)))
                      /\ made.start = StartOf(t, edits, order, m - 1)
    BY DEF GoodMade
<1> DEFINE q == order[m]
           edit == Indexed(edits, q)
           next == MakeEdit(made, edit)
<1>3. q \in 1 .. n /\ edit.span = edits[q].span /\ edit.new = edits[q].new
      /\ edits[q].span.offset \in Nat /\ edits[q].span.length \in Nat /\ m \in Nat
  <2>1. q \in 1 .. n
      BY <1>1
  <2> QED
      BY <1>1, <2>1, EditFacts DEF Indexed
<1>4. (\A i \in 1 .. m : Fits(t, edits, order, i)) <=>
      Fits(t, edits, order, m) /\ \A i \in 1 .. m - 1 : Fits(t, edits, order, i)
  <2>1. \A i \in 1 .. m : i \in 1 .. m - 1 \/ i = m
      BY <1>3
  <2>2. m \in 1 .. m /\ \A i \in 1 .. m - 1 : i \in 1 .. m
      BY <1>3
  <2> QED
      BY <2>1, <2>2
<1> HIDE DEF edit
<1>5. CASE made.fine /\ Fits(t, edits, order, m)
  <2> DEFINE less == OnlyThose(edits, MadeOf(order, m - 1))
             more == OnlyThose(edits, MadeOf(order, m))
  <2>1. less \in [1 .. n -> EditOf(t)] /\ more \in [1 .. n -> EditOf(t)] /\ more[q] = edits[q]
    <3> DEFINE L == MadeOf(order, m - 1)
               M == MadeOf(order, m)
    <3>1. q \in M
        BY <1>3 DEF MadeOf
    <3> HIDE DEF L, M, q
    <3>2. OnlyThose(edits, L) \in [1 .. n -> EditOf(t)]
        BY <1>1, KeptType
    <3>3. OnlyThose(edits, M) \in [1 .. n -> EditOf(t)]
        BY <1>1, KeptType
    <3>4. \A k \in 1 .. n : OnlyThose(edits, M)[k] = IF k \in M THEN edits[k] ELSE NoEdit
        BY SMTT(60), <1>1, KeptType
    <3>5. OnlyThose(edits, M)[q] = edits[q]
        BY <1>3, <3>1, <3>4
    <3> QED
        BY <3>2, <3>3, <3>5 DEF L, M
  <2>2. OneMore(t, n, less, more, q)
      BY <1>5, NextIsOneMore
  <2> HIDE DEF less, more
  <2>3. AtOnce(t, more) = Splice(AtOnce(t, less), more[q].span, more[q].new)
    <3> HIDE DEF q
    <3> QED
        BY ZenonT(60), <1>1, <1>3, <2>1, <2>2, OneMoreSplices
  <2>4. made.text = AtOnce(t, less)
      BY <1>2, <1>5 DEF less
  <2>5. ~(edit.span.offset + edit.span.length > made.start)
    <3>1. edits[q].span.offset + edits[q].span.length <= made.start
        BY <1>2, <1>5 DEF Fits
    <3> QED
        BY <1>2, <1>3, <3>1
  <2>6. next = [made EXCEPT !.text = Splice(@, edit.span, edit.new), !.start = edit.span.offset]
      BY <1>5, <2>5 DEF MakeEdit
  <2>7. Splice(made.text, edit.span, edit.new) = AtOnce(t, more)
      BY <1>3, <2>1, <2>3, <2>4
  <2>8. AtOnce(t, more) \in Seq(Letters)
      BY <1>1, <2>1, AtOnceType
  <2>9. next.text = AtOnce(t, more) /\ next.start = edits[q].span.offset /\ next.fine = made.fine
      BY <1>2, <1>3, <2>6, <2>7
  <2>10. next \in [fine : BOOLEAN, text : Seq(Letters), start : Nat]
      BY <1>2, <1>3, <2>6, <2>7, <2>8
  <2>11. StartOf(t, edits, order, m) = edits[q].span.offset
      BY <1>3 DEF StartOf
  <2> HIDE DEF next
  <2> QED
      BY <1>2, <1>4, <1>5, <2>9, <2>10, <2>11 DEF GoodMade, more, next, edit
<1>6. CASE ~(made.fine /\ Fits(t, edits, order, m))
  <2>1. ~made.fine \/ edit.span.offset + edit.span.length > made.start
    <3> SUFFICES ASSUME made.fine
                 PROVE  edit.span.offset + edit.span.length > made.start
        OBVIOUS
    <3>1. ~(edits[q].span.offset + edits[q].span.length <= made.start)
        BY <1>2, <1>6 DEF Fits
    <3> QED
        BY SMTT(60), <1>2, <1>3, <3>1
  <2>2. next = [made EXCEPT !.fine = FALSE]
      BY <2>1 DEF MakeEdit
  <2>3. next \in [fine : BOOLEAN, text : Seq(Letters), start : Nat] /\ ~next.fine
      BY <1>2, <2>2
  <2>4. ~ \A i \in 1 .. m : Fits(t, edits, order, i)
      BY <1>2, <1>4, <1>6
  <2> HIDE DEF next
  <2> QED
      BY <2>3, <2>4 DEF GoodMade, next, edit
<1> QED
    BY <1>5, <1>6

MadeRecords == [fine : BOOLEAN, text : Seq(Letters), start : Nat]

\* All of them in order.
LEMMA MakesAll ==
    ASSUME NEW t, NEW n, NEW edits, NEW order, InOrderOf(t, n, edits, order),
           InOrder(edits) = [i \in 1 .. n |-> Indexed(edits, order[i])]
    PROVE  GoodMade(t, edits, order, Apply(t, edits), n)
<1>1. /\ t \in Seq(Letters) /\ n \in Nat /\ edits \in [1 .. n -> EditOf(t)]
      /\ order \in [1 .. n -> 1 .. n]
    BY DEF InOrderOf
<1> DEFINE I == InOrder(edits)
           first == [fine |-> TRUE, text |-> t, start |-> Len(t)]
           step == [p \in (1 .. n) \X MadeRecords |->
                       IF MakeEdit(p[2], I[p[1]]) \in MadeRecords
                       THEN MakeEdit(p[2], I[p[1]]) ELSE p[2]]
<1>2. Len(edits) = n /\ \A m \in 1 .. n : I[m] = Indexed(edits, order[m])
  <2>1. edits \in Seq(EditOf(t))
      BY <1>1, SeqDef
  <2> QED
      BY <1>1, <2>1, LenProperties
<1>3. first \in MadeRecords
    BY <1>1, LenProperties DEF MadeRecords
<1> HIDE DEF I
<1>4. \A m \in 1 .. n, v \in MadeRecords :
         /\ step[<<m, v>>] \in MadeRecords
         /\ MakeEdit(v, I[m]) \in MadeRecords => step[<<m, v>>] = MakeEdit(v, I[m])
    OBVIOUS
<1> HIDE DEF step
<1>5. PICK g : GoesOn(g, n, MadeRecords, first, step)
  <2> HIDE DEF first
  <2> QED
      BY <1>1, <1>3, <1>4, Recursion
<1>6. /\ g \in [0 .. n -> MadeRecords] /\ g[0] = first
      /\ \A k \in 1 .. n : g[k] = step[<<k, g[k - 1]>>]
    BY <1>5 DEF GoesOn
<1> DEFINE S == {m \in 0 .. n : GoodMade(t, edits, order, g[m], m)}
<1>7. 0 \in S
  <2>1. 1 .. 0 = {} /\ MadeOf(order, 0) = {}
      BY DEF MadeOf
  <2>2. AtOnce(t, OnlyThose(edits, MadeOf(order, 0))) = t
    <3> DEFINE M == MadeOf(order, 0)
    <3>1. \A k \in 1 .. n : k \notin M
        BY <2>1
    <3> HIDE DEF M
    <3>2. OnlyThose(edits, M) \in [1 .. n -> EditOf(t)]
        BY <1>1, KeptType
    <3>3. \A k \in 1 .. n : OnlyThose(edits, M)[k] = NoEdit
        BY <1>1, <3>1 DEF OnlyThose
    <3>4. AtOnce(t, OnlyThose(edits, M)) = t
        BY <1>1, <3>2, <3>3, NothingMade
    <3> QED
        BY <3>4 DEF M
  <2>3. StartOf(t, edits, order, 0) = Len(t)
      BY DEF StartOf
  <2>4. GoodMade(t, edits, order, first, 0)
      BY <1>3, <2>1, <2>2, <2>3 DEF GoodMade, MadeRecords
  <2> HIDE DEF first
  <2>5. GoodMade(t, edits, order, g[0], 0)
      BY <1>6, <2>4
  <2> QED
      BY <1>1, <2>5
<1>8. ASSUME NEW m \in 1 .. n, GoodMade(t, edits, order, g[m - 1], m - 1)
      PROVE  g[m] = MakeEdit(g[m - 1], I[m]) /\ GoodMade(t, edits, order, g[m], m)
  <2> DEFINE v == g[m - 1]
  <2>1. v \in MadeRecords
    <3>1. m - 1 \in 0 .. n
        BY <1>1
    <3> QED
        BY <1>6, <3>1
  <2>2. I[m] = Indexed(edits, order[m]) /\ g[m] = step[<<m, v>>]
      BY <1>2, <1>6
  <2>3. GoodMade(t, edits, order, v, m - 1)
      BY <1>8
  <2> HIDE DEF v
  <2>4. GoodMade(t, edits, order, MakeEdit(v, I[m]), m)
      BY <2>2, <2>3, MakesOne
  <2>5. MakeEdit(v, I[m]) \in MadeRecords
      BY <2>4 DEF GoodMade, MadeRecords
  <2>6. g[m] = MakeEdit(v, I[m])
      BY <1>4, <2>1, <2>2, <2>5
  <2> QED
      BY <2>4, <2>6 DEF v
<1>9. ASSUME NEW m \in 0 .. n - 1, m \in S PROVE m + 1 \in S
  <2> DEFINE j == m + 1
  <2>1. j \in 1 .. n /\ j \in 0 .. n /\ j - 1 = m
      BY <1>1
  <2> HIDE DEF j
  <2>2. GoodMade(t, edits, order, g[j - 1], j - 1)
      BY <1>9, <2>1
  <2>3. GoodMade(t, edits, order, g[j], j)
      BY <1>8, <2>1, <2>2
  <2> QED
      BY <2>1, <2>3 DEF j
<1> HIDE DEF S
<1>10. \A m \in 0 .. n : m \in S
    BY <1>1, <1>7, <1>9, UpTo
<1>11. \A m \in 0 .. n : GoodMade(t, edits, order, g[m], m)
    BY <1>10 DEF S
<1>12. \A m \in 1 .. n : g[m] = MakeEdit(g[m - 1], I[m])
  <2> TAKE m \in 1 .. n
  <2>1. m - 1 \in 0 .. n
      BY <1>1
  <2> QED
      BY <1>8, <1>11, <2>1
<1> DEFINE N == Len(edits)
<1>13. g = [m \in 0 .. N |-> IF m = 0 THEN [fine |-> TRUE, text |-> t, start |-> Len(t)]
                             ELSE MakeEdit(g[m - 1], InOrder(edits)[m])]
  <2>1. g = [m \in 0 .. n |-> g[m]]
      BY <1>6
  <2>2. \A m \in 0 .. n : g[m] = IF m = 0 THEN first ELSE MakeEdit(g[m - 1], I[m])
    <3> TAKE m \in 0 .. n
    <3>1. m # 0 => m \in 1 .. n
        BY <1>1
    <3> QED
        BY <1>6, <1>12, <3>1
  <2> QED
      BY <1>2, <2>1, <2>2 DEF I
<1> HIDE DEF first
<1>14. PICK f : /\ f = [m \in 0 .. N |-> IF m = 0 THEN [fine |-> TRUE, text |-> t, start |-> Len(t)]
                                         ELSE MakeEdit(f[m - 1], InOrder(edits)[m])]
                /\ Apply(t, edits) = f[N]
    BY <1>13, Zenon DEF Apply, N
<1> DEFINE Q == {m \in 0 .. n : f[m] = g[m]}
<1>15. 0 \in Q
    BY <1>1, <1>2, <1>6, <1>14 DEF first
<1>16. ASSUME NEW m \in 0 .. n - 1, m \in Q PROVE m + 1 \in Q
  <2> DEFINE j == m + 1
  <2>1. j \in 1 .. n /\ j \in 0 .. n /\ j \in 0 .. N /\ j # 0 /\ j - 1 = m
      BY <1>1, <1>2
  <2> HIDE DEF j
  <2>2. f[j] = MakeEdit(f[j - 1], I[j])
      BY <1>14, <2>1 DEF I
  <2>3. g[j] = MakeEdit(g[j - 1], I[j])
      BY <1>12, <2>1
  <2>4. f[j] = g[j]
      BY <1>16, <2>1, <2>2, <2>3
  <2> QED
      BY <2>1, <2>4 DEF j
<1> HIDE DEF Q
<1>17. \A m \in 0 .. n : m \in Q
    BY <1>1, <1>15, <1>16, UpTo
<1>18. n \in 0 .. n
    BY <1>1
<1>19. Apply(t, edits) = g[n]
    BY <1>2, <1>14, <1>17, <1>18 DEF Q
<1> QED
    BY <1>11, <1>18, <1>19

\* Those that fit are those that do not clash.
LEMMA FitsOrClash ==
    ASSUME NEW t, NEW n, NEW edits, NEW order, InOrderOf(t, n, edits, order)
    PROVE  (\A m \in 1 .. n : Fits(t, edits, order, m)) <=> ~Clash(edits)
<1>1. /\ t \in Seq(Letters) /\ n \in Nat /\ edits \in [1 .. n -> EditOf(t)]
      /\ order \in [1 .. n -> 1 .. n]
      /\ \A i, j \in 1 .. n :
            i < j => MadeFirst(Indexed(edits, order[i]), Indexed(edits, order[j]))
      /\ \A i, j \in 1 .. n : order[i] = order[j] => i = j
      /\ \A k \in 1 .. n : \E i \in 1 .. n : order[i] = k
    BY DEF InOrderOf
<1> DEFINE at(m) == edits[order[m]].span
<1>2. ASSUME NEW m \in 1 .. n
      PROVE  /\ order[m] \in 1 .. n /\ at(m).offset \in Nat /\ at(m).length \in Nat
             /\ at(m).offset + at(m).length <= Len(t)
  <2>1. order[m] \in 1 .. n
      BY <1>1
  <2> QED
      BY <1>1, <2>1, EditFacts
<1>3. \A i, j \in 1 .. n : i < j =>
         \/ at(i).offset > at(j).offset
         \/ at(i).offset = at(j).offset /\ at(i).length > at(j).length
         \/ at(i) = at(j) /\ order[i] > order[j]
    BY <1>1 DEF MadeFirst, Indexed
<1>4. DOMAIN edits = 1 .. n /\ Len(t) \in Nat
    BY <1>1, LenProperties
<1>5. ASSUME NEW m \in 1 .. n, ~Fits(t, edits, order, m) PROVE Clash(edits)
  <2>1. m # 1 => m - 1 \in 1 .. n /\ m - 1 < m /\ m - 1 # 0
      BY <1>1
  <2>2. m # 1
    <3> SUFFICES ASSUME m = 1 PROVE FALSE
        OBVIOUS
    <3>1. at(m).offset + at(m).length <= Len(t) /\ m - 1 = 0
        BY <1>2
    <3> QED
        BY <1>5, <3>1 DEF Fits, StartOf
  <2> DEFINE i == m - 1
             a == at(m)
             b == at(i)
  <2>3. i \in 1 .. n /\ i < m /\ i # 0
      BY <2>1, <2>2
  <2>4. ~(a.offset + a.length <= b.offset)
      BY <1>5, <2>3 DEF Fits, StartOf
  <2>5. /\ order[m] \in 1 .. n /\ order[i] \in 1 .. n /\ order[m] # order[i]
        /\ a.offset \in Nat /\ a.length \in Nat /\ b.offset \in Nat /\ b.length \in Nat
    <3>1. i # m
        BY <2>3
    <3> HIDE DEF i
    <3>2. order[m] \in 1 .. n /\ order[i] \in 1 .. n
        BY <1>1, <2>3
    <3>3. order[m] # order[i]
        BY <1>1, <2>3, <3>1
    <3>4. a.offset \in Nat /\ a.length \in Nat
        BY <1>2
    <3>5. b.offset \in Nat /\ b.length \in Nat
        BY <1>2, <2>3
    <3> QED
        BY <3>2, <3>3, <3>4, <3>5
  <2>6. \/ b.offset > a.offset
        \/ b.offset = a.offset /\ b.length > a.length
        \/ b = a
      BY <1>3, <2>3
  <2> HIDE DEF a, b
  <2>7. /\ a.length > 0
        /\ \/ b.length = 0 /\ a.offset < b.offset /\ b.offset < a.offset + a.length
           \/ b.length > 0 /\ a.offset <= b.offset /\ b.offset < a.offset + a.length
    <3>1. CASE b = a
        BY <2>4, <2>5, <3>1
    <3>2. CASE b # a
        BY <2>4, <2>5, <2>6, <3>2
    <3> QED
        BY <3>1, <3>2
  <2>8. \E j, k \in 1 .. n :
           /\ j # k /\ edits[j].span.length > 0
           /\ \/ /\ edits[k].span.length = 0 /\ edits[j].span.offset < edits[k].span.offset
                 /\ edits[k].span.offset < edits[j].span.offset + edits[j].span.length
              \/ /\ edits[k].span.length > 0 /\ edits[j].span.offset <= edits[k].span.offset
                 /\ edits[k].span.offset < edits[j].span.offset + edits[j].span.length
    <3>1. a = edits[order[m]].span /\ b = edits[order[i]].span
        BY DEF a, b
    <3> DEFINE x == order[m]
               y == order[i]
    <3>2. x \in 1 .. n /\ y \in 1 .. n /\ x # y /\ edits[x].span = a /\ edits[y].span = b
        BY <2>5, <3>1
    <3> HIDE DEF x, y
    <3> QED
        BY <2>7, <3>2
  <2> QED
      BY <1>4, <2>8 DEF Clash
<1>6. ASSUME \A m \in 1 .. n : Fits(t, edits, order, m), Clash(edits) PROVE FALSE
  <2>1. ASSUME NEW i \in 1 .. n, NEW j \in 1 .. n, i < j
        PROVE  at(j).offset + at(j).length <= at(i).offset
    <3> DEFINE k == j - 1
    <3>0. n \in Nat /\ i \in 1 .. n /\ j \in 1 .. n /\ i < j
        BY <1>1, <2>1
    <3>1. k \in 1 .. n /\ i <= k /\ k # 0 /\ (i = k \/ i < k)
        BY <3>0
    <3> HIDE DEF k
    <3>2. at(j).offset + at(j).length <= at(k).offset
        BY <1>6, <3>1 DEF Fits, StartOf, k
    <3>3. at(k).offset <= at(i).offset
      <4>1. CASE i = k
          BY <1>2, <4>1
      <4>2. CASE i < k
        <5> DEFINE x == at(i)
                   y == at(k)
        <5>1. x.offset > y.offset \/ x.offset = y.offset \/ x = y
            BY <1>3, <3>1, <4>2
        <5>2. x.offset \in Nat /\ y.offset \in Nat
            BY <1>2, <3>1
        <5> HIDE DEF x, y
        <5>3. y.offset <= x.offset
            BY <5>1, <5>2
        <5> QED
            BY <5>3 DEF x, y
      <4> QED
          BY <3>1, <4>1, <4>2
    <3> DEFINE x == at(i).offset
               y == at(k).offset
               z == at(j).offset + at(j).length
    <3>7. x \in Nat /\ y \in Nat
        BY <1>2, <3>1
    <3>8. z \in Nat
      <4>1. at(j).offset \in Nat /\ at(j).length \in Nat
          BY <1>2
      <4> QED
          BY <4>1
    <3>4. x \in Nat /\ y \in Nat /\ z \in Nat
        BY <3>7, <3>8
    <3>5. z <= y /\ y <= x
        BY <3>2, <3>3
    <3> HIDE DEF x, y, z
    <3>6. z <= x
        BY <3>4, <3>5
    <3> QED
        BY <3>6 DEF x, z
  <2>2. PICK x \in 1 .. n, y \in 1 .. n :
           /\ x # y /\ edits[x].span.length > 0
           /\ \/ /\ edits[y].span.length = 0 /\ edits[x].span.offset < edits[y].span.offset
                 /\ edits[y].span.offset < edits[x].span.offset + edits[x].span.length
              \/ /\ edits[y].span.length > 0 /\ edits[x].span.offset <= edits[y].span.offset
                 /\ edits[y].span.offset < edits[x].span.offset + edits[x].span.length
      BY <1>4, <1>6 DEF Clash
  <2>3. PICK i \in 1 .. n, j \in 1 .. n : order[i] = x /\ order[j] = y
      BY <1>1
  <2>4. i < j \/ j < i
      BY <2>2, <2>3
  <2> DEFINE a == at(i)
             b == at(j)
  <2>5. /\ a.offset \in Nat /\ a.length \in Nat /\ b.offset \in Nat /\ b.length \in Nat
        /\ \/ b.offset + b.length <= a.offset
           \/ a.offset + a.length <= b.offset
      BY <1>2, <2>1, <2>4
  <2>6. /\ a.length > 0
        /\ \/ b.length = 0 /\ a.offset < b.offset /\ b.offset < a.offset + a.length
           \/ b.length > 0 /\ a.offset <= b.offset /\ b.offset < a.offset + a.length
      BY <2>2, <2>3
  <2> HIDE DEF a, b
  <2> QED
      BY <2>5, <2>6
<1> QED
    BY <1>5, <1>6

(* The edits of a call are made as if all at once, or clash.               *)
LEMMA Applied ==
    ASSUME NEW t \in Seq(Letters), NEW n \in Nat, NEW edits \in [1 .. n -> EditOf(t)]
    PROVE  /\ Apply(t, edits) \in MadeRecords
           /\ Apply(t, edits).fine <=> ~Clash(edits)
           /\ Apply(t, edits).fine => Apply(t, edits).text = AtOnce(t, edits)
<1>1. PICK order : /\ InOrderOf(t, n, edits, order)
                   /\ InOrder(edits) = [i \in 1 .. n |-> Indexed(edits, order[i])]
    BY InOrderFacts
<1>2. GoodMade(t, edits, order, Apply(t, edits), n)
    BY <1>1, MakesAll
<1>3. (\A m \in 1 .. n : Fits(t, edits, order, m)) <=> ~Clash(edits)
    BY <1>1, FitsOrClash
<1>4. OnlyThose(edits, MadeOf(order, n)) = edits
  <2> DEFINE M == MadeOf(order, n)
  <2>1. \A k \in 1 .. n : k \in M
      BY <1>1 DEF InOrderOf, MadeOf
  <2> HIDE DEF M
  <2>2. OnlyThose(edits, M) = [k \in 1 .. n |-> edits[k]]
      BY <2>1 DEF OnlyThose
  <2>3. edits = [k \in 1 .. n |-> edits[k]]
      OBVIOUS
  <2> QED
      BY <2>2, <2>3 DEF M
<1> QED
    BY <1>2, <1>3, <1>4 DEF GoodMade, MadeRecords

-----------------------------------------------------------------------------
(* Where an anchor is found.                                               *)

\* What a first value and each step keep, the last has.
LEMMA StaysIn ==
    ASSUME NEW N \in Nat, NEW V, NEW f, f[0] \in V,
           \A k \in 1 .. N : f[k - 1] \in V => f[k] \in V
    PROVE  \A k \in 0 .. N : f[k] \in V
<1> DEFINE S == {k \in 0 .. N : f[k] \in V}
<1>1. 0 \in S
    OBVIOUS
<1>2. ASSUME NEW k \in 0 .. N - 1, k \in S PROVE k + 1 \in S
  <2> DEFINE j == k + 1
  <2>1. j \in 1 .. N /\ j \in 0 .. N /\ j - 1 = k
      OBVIOUS
  <2> HIDE DEF j
  <2>2. f[j] \in V
      BY <1>2, <2>1
  <2> QED
      BY <2>1, <2>2 DEF j
<1> HIDE DEF S
<1>3. \A k \in 0 .. N : k \in S
    BY <1>1, <1>2, UpTo
<1> QED
    BY <1>3 DEF S

LEMMA SpanFacts ==
    ASSUME NEW t \in Seq(Letters), NEW s \in Spans(t)
    PROVE  /\ s \in [offset : Nat, length : Nat] /\ s.offset \in Nat /\ s.length \in Nat
           /\ s.offset + s.length <= Len(t) /\ Len(t) \in Nat
           /\ Slice(t, s) \in Seq(Letters) /\ Len(Slice(t, s)) = s.length
<1>1. /\ s \in [offset : Nat, length : Nat] /\ s.offset \in Nat /\ s.length \in Nat
      /\ s.offset + s.length <= Len(t) /\ Len(t) \in Nat
    BY LenProperties DEF Spans
<1> DEFINE a == s.offset
           b == s.offset + s.length
<1>2. a \in Nat /\ b \in 0 .. Len(t) /\ (a < b => b - a = s.length) /\ (~(a < b) => s.length = 0)
    BY <1>1
<1> HIDE DEF a, b
<1>3. /\ SubSeq(t, a + 1, b) \in Seq(Letters)
      /\ Len(SubSeq(t, a + 1, b)) = IF a < b THEN b - a ELSE 0
    BY <1>2, PieceType
<1>4. Slice(t, s) = SubSeq(t, a + 1, b)
    BY DEF Slice, a, b
<1> QED
    BY <1>1, <1>2, <1>3, <1>4

LEMMA SpanType ==
    ASSUME NEW t \in Seq(Letters), NEW o \in Nat, NEW l \in Nat, o + l <= Len(t)
    PROVE  Span(o, l) \in Spans(t)
BY DEF Span, Spans

\* What stands in a text is a span of it.
LEMMA StandsFacts ==
    ASSUME NEW t \in Seq(Letters), NEW anchor \in Seq(Letters), NEW o \in Nat,
           StandsAt(t, anchor, o)
    PROVE  Span(o, Len(anchor)) \in Spans(t)
<1>1. Len(anchor) \in Nat /\ o + Len(anchor) <= Len(t)
    BY LenProperties DEF StandsAt
<1> QED
    BY <1>1, SpanType

LEMMA ExactMatchesType ==
    ASSUME NEW t \in Seq(Letters), NEW anchor \in Seq(Letters)
    PROVE  ExactMatches(t, anchor) \in Seq(Spans(t))
<1> DEFINE N == Len(t)
           V == Seq(Spans(t))
           none == <<>>
           step == [p \in (1 .. N) \X V |-> TakeMatch(p[2], t, anchor, p[1] - 1)]
<1>1. N \in Nat
    BY LenProperties
<1>2. ASSUME NEW k \in 1 .. N, NEW v \in V PROVE TakeMatch(v, t, anchor, k - 1) \in V
  <2>1. k - 1 \in Nat
      BY <1>1
  <2>2. StandsAt(t, anchor, k - 1) => Span(k - 1, Len(anchor)) \in Spans(t)
      BY <2>1, StandsFacts
  <2> QED
      BY <2>2 DEF TakeMatch
<1>3. none \in V
    BY EmptySeq
<1>4. \A k \in 1 .. N, v \in V : /\ step[<<k, v>>] = TakeMatch(v, t, anchor, k - 1)
                                 /\ step[<<k, v>>] \in V
    BY <1>2
<1> HIDE DEF step, V, none
<1>5. PICK g : GoesOn(g, N, V, none, step)
    BY <1>1, <1>3, <1>4, Recursion
<1>6. g = [o \in 0 .. Len(t) |-> IF o = 0 THEN <<>> ELSE TakeMatch(g[o - 1], t, anchor, o - 1)]
  <2>1. g \in [0 .. N -> V] /\ g[0] = none
      BY <1>5 DEF GoesOn
  <2>2. \A o \in 0 .. N : g[o] = IF o = 0 THEN none ELSE TakeMatch(g[o - 1], t, anchor, o - 1)
    <3> TAKE o \in 0 .. N
    <3>1. CASE o = 0
        BY <2>1, <3>1
    <3>2. CASE o # 0
      <4>1. o \in 1 .. N /\ o - 1 \in 0 .. N
          BY <1>1, <3>2
      <4>2. g[o] = step[<<o, g[o - 1]>>] /\ g[o - 1] \in V
          BY <1>5, <2>1, <4>1 DEF GoesOn
      <4> QED
          BY <1>4, <3>2, <4>1, <4>2
    <3> QED
        BY <3>1, <3>2
  <2>3. g = [o \in 0 .. N |-> g[o]]
      BY <2>1
  <2> QED
      BY <2>2, <2>3 DEF none
<1>7. PICK f : /\ f = [o \in 0 .. Len(t) |->
                         IF o = 0 THEN <<>> ELSE TakeMatch(f[o - 1], t, anchor, o - 1)]
               /\ ExactMatches(t, anchor) = f[Len(t)]
    BY <1>6, Zenon DEF ExactMatches
<1>8. f[0] \in V
    BY <1>1, <1>3, <1>7 DEF none
<1>9. ASSUME NEW k \in 1 .. N, f[k - 1] \in V PROVE f[k] \in V
  <2>1. k \in 0 .. Len(t) /\ k # 0
      BY <1>1
  <2>2. f[k] = TakeMatch(f[k - 1], t, anchor, k - 1)
      BY <1>7, <2>1
  <2> QED
      BY <1>2, <1>9, <2>2
<1> HIDE DEF N
<1>10. \A k \in 0 .. N : f[k] \in V
    BY <1>1, <1>8, <1>9, StaysIn
<1>11. f[N] \in V
    BY <1>1, <1>10
<1> QED
    BY <1>7, <1>11 DEF V, N

\* There is a last letter that is not white, or none.
LEMMA TrimmedType ==
    ASSUME NEW t \in Seq(Letters)
    PROVE  Trimmed(t) \in 0 .. Len(t)
<1> DEFINE N == Len(t)
           T == {n \in 0 .. N : \A i \in n + 1 .. N : White(t[i])}
<1>1. N \in Nat
    BY LenProperties
<1>2. N \in T /\ T \in SUBSET Nat
    BY <1>1
<1>3. PICK x \in T : \A y \in T : x <= y
    BY <1>2, LeastNumber
<1>4. x \in 0 .. N /\ \A i \in x + 1 .. N : White(t[i])
    BY <1>3
<1>5. x = 0 \/ ~White(t[x])
  <2> SUFFICES ASSUME x # 0, White(t[x]) PROVE FALSE
      OBVIOUS
  <2> DEFINE y == x - 1
  <2>1. y \in 0 .. N /\ ~(x <= y) /\ \A i \in y + 1 .. N : i = x \/ i \in x + 1 .. N
      BY <1>1, <1>4
  <2> HIDE DEF y
  <2>2. y \in T
      BY <1>4, <2>1
  <2> QED
      BY <1>3, <2>1, <2>2
<1>6. \E n \in 0 .. Len(t) :
          /\ \A i \in n + 1 .. Len(t) : White(t[i])
          /\ n = 0 \/ ~White(t[n])
    BY <1>4, <1>5
<1> QED
    BY <1>6 DEF Trimmed

\* The lines of the first letters of a text: none is empty, each begins where the one before
\* it ends or later, and the last ends with them.
LinesSoFar(lines, n) ==
    /\ lines \in Seq([offset : Nat, length : Nat])
    /\ lines = <<>> <=> n = 0
    /\ \A i \in 1 .. Len(lines) : lines[i].offset + lines[i].length <= n
    /\ \A i, j \in 1 .. Len(lines) : i <= j => lines[i].offset <= lines[j].offset
    /\ lines # <<>> => lines[Len(lines)].offset + lines[Len(lines)].length = n

LEMMA ReadsOn ==
    ASSUME NEW t, NEW lines, NEW n \in Nat \ {0}, LinesSoFar(lines, n - 1)
    PROVE  LinesSoFar(ReadLetter(lines, t, n), n)
<1> DEFINE L == [offset : Nat, length : Nat]
           N == Len(lines)
           m == n - 1
<1>1. /\ lines \in Seq(L)
      /\ lines = <<>> <=> m = 0
      /\ \A i \in 1 .. N : lines[i].offset + lines[i].length <= m
      /\ \A i, j \in 1 .. N : i <= j => lines[i].offset <= lines[j].offset
      /\ lines # <<>> => lines[N].offset + lines[N].length = m
    BY DEF LinesSoFar
<1>2. /\ N \in Nat /\ (lines # <<>> => N \in 1 .. N)
      /\ \A i \in 1 .. N : lines[i] \in L /\ lines[i].offset \in Nat /\ lines[i].length \in Nat
  <2>1. N \in Nat /\ (lines # <<>> => N # 0)
      BY <1>1, LenProperties, EmptySeq
  <2>2. \A i \in 1 .. N : lines[i] \in L
      BY <1>1, ElementOfSeq
  <2> QED
      BY <2>1, <2>2
<1>3. m \in Nat /\ n = m + 1 /\ n # 0 /\ m <= n
    OBVIOUS
<1> HIDE DEF m
<1>4. CASE lines = <<>> \/ t[n - 1] = Newline
  <2> DEFINE s == Span(m, 1)
             r == Append(lines, s)
  <2>1. s \in L /\ s.offset = m /\ s.length = 1 /\ n - 1 = m
      BY <1>3 DEF Span
  <2>2. ReadLetter(lines, t, n) = r
      BY <1>4, <2>1 DEF ReadLetter
  <2> HIDE DEF s
  <2>3. /\ r \in Seq(L) /\ Len(r) = N + 1 /\ r # <<>> /\ r[N + 1] = s
        /\ \A i \in 1 .. N : r[i] = lines[i]
      BY <1>1, <1>2, <2>1
  <2> HIDE DEF r
  <2>4. \A i \in 1 .. N + 1 : i \in 1 .. N \/ i = N + 1
      BY <1>2
  <2>5. \A i \in 1 .. N + 1 : r[i].offset + r[i].length <= n
    <3> TAKE i \in 1 .. N + 1
    <3>1. CASE i \in 1 .. N
      <4>1. r[i] = lines[i] /\ lines[i].offset + lines[i].length <= m
          BY <1>1, <2>3, <3>1
      <4>2. lines[i].offset \in Nat /\ lines[i].length \in Nat
          BY <1>2, <3>1
      <4> QED
          BY <1>3, <4>1, <4>2
    <3>2. CASE i = N + 1
        BY <1>3, <2>1, <2>3, <3>2
    <3> QED
        BY <2>4, <3>1, <3>2
  <2>6. \A i, j \in 1 .. N + 1 : i <= j => r[i].offset <= r[j].offset
    <3> SUFFICES ASSUME NEW i \in 1 .. N + 1, NEW j \in 1 .. N + 1, i <= j
                 PROVE  r[i].offset <= r[j].offset
        OBVIOUS
    <3>1. CASE i \in 1 .. N /\ j \in 1 .. N
        BY <1>1, <2>3, <3>1
    <3>2. CASE i \in 1 .. N /\ j = N + 1
      <4>1. lines[i].offset <= m
          BY <1>1, <1>2, <1>3, <3>2
      <4> QED
          BY <2>1, <2>3, <3>2, <4>1
    <3>3. CASE i = N + 1
      <4>1. j = N + 1
          BY <1>2, <3>3
      <4> QED
          BY <1>3, <2>1, <2>3, <3>3, <4>1
    <3> QED
        BY <2>4, <3>1, <3>2, <3>3
  <2>7. LinesSoFar(r, n)
      BY <1>3, <2>1, <2>3, <2>5, <2>6 DEF LinesSoFar
  <2> QED
      BY <2>2, <2>7
<1>5. CASE ~(lines = <<>> \/ t[n - 1] = Newline)
  <2> DEFINE s == Span(lines[N].offset, lines[N].length + 1)
             r == [lines EXCEPT ![N] = s]
  <2>1. N \in 1 .. N /\ lines[N].offset + lines[N].length = m
      BY <1>1, <1>2, <1>5
  <2>2. s \in L /\ s.offset = lines[N].offset /\ s.length = lines[N].length + 1
        /\ s.offset + s.length = n
    <3>1. lines[N].offset \in Nat /\ lines[N].length \in Nat
        BY <1>2, <2>1
    <3>2. s \in L /\ s.offset = lines[N].offset /\ s.length = lines[N].length + 1
        BY <3>1 DEF Span
    <3> HIDE DEF s
    <3> QED
        BY <1>3, <2>1, <3>1, <3>2
  <2>3. ReadLetter(lines, t, n) = r
      BY <1>5 DEF ReadLetter
  <2> HIDE DEF s
  <2>4. r \in Seq(L) /\ Len(r) = N /\ \A i \in 1 .. N : r[i] = IF i = N THEN s ELSE lines[i]
    <3> DEFINE M == N
    <3>1. M \in 1 .. Len(lines)
        BY <2>1
    <3> HIDE DEF M
    <3>2. /\ [lines EXCEPT ![M] = s] \in Seq(L)
          /\ Len([lines EXCEPT ![M] = s]) = Len(lines)
          /\ \A i \in 1 .. Len(lines) : [lines EXCEPT ![M] = s][i] = IF i = M THEN s ELSE lines[i]
        BY SMTT(60), <1>1, <2>2, <3>1, ExceptSeq
    <3> QED
        BY <3>2 DEF M
  <2> HIDE DEF r
  <2>5. r # <<>>
      BY <2>1, <2>4, EmptySeq
  <2>6. \A i \in 1 .. N : r[i].offset = lines[i].offset
      BY <2>2, <2>4
  <2>7. \A i \in 1 .. N : r[i].offset + r[i].length <= n
    <3> TAKE i \in 1 .. N
    <3>1. CASE i = N
      <4>1. r[i] = s
          BY <2>4, <3>1
      <4> QED
          BY <1>3, <2>2, <4>1
    <3>2. CASE i # N
      <4>1. r[i] = lines[i] /\ lines[i].offset + lines[i].length <= m
          BY <1>1, <2>4, <3>2
      <4> QED
          BY <1>2, <1>3, <4>1
    <3> QED
        BY <3>1, <3>2
  <2>8. \A i, j \in 1 .. N : i <= j => r[i].offset <= r[j].offset
      BY <1>1, <2>6
  <2>9. r[N].offset + r[N].length = n
      BY <2>1, <2>2, <2>4
  <2>10. LinesSoFar(r, n)
      BY <1>3, <2>4, <2>5, <2>7, <2>8, <2>9 DEF LinesSoFar
  <2> QED
      BY <2>3, <2>10
<1> QED
    BY <1>4, <1>5

LEMMA LinesFacts ==
    ASSUME NEW t \in Seq(Letters)
    PROVE  LinesSoFar(Lines(t), Len(t))
<1> DEFINE N == Len(t)
           L == [offset : Nat, length : Nat]
           V == Seq(L)
           none == <<>>
           step == [p \in (1 .. N) \X V |-> ReadLetter(p[2], t, p[1])]
<1>1. N \in Nat
    BY LenProperties
<1>2. ASSUME NEW k \in 1 .. N, NEW v \in V PROVE ReadLetter(v, t, k) \in V
  <2>1. CASE v = <<>> \/ t[k - 1] = Newline
    <3> DEFINE s == Span(k - 1, 1)
    <3>1. s \in L
        BY <1>1 DEF Span
    <3>2. ReadLetter(v, t, k) = Append(v, s)
        BY <2>1 DEF ReadLetter
    <3> HIDE DEF s, L
    <3>3. Append(v, s) \in Seq(L)
        BY <3>1
    <3> QED
        BY <3>2, <3>3
  <2>2. CASE ~(v = <<>> \/ t[k - 1] = Newline)
    <3> DEFINE M == Len(v)
               s == Span(v[M].offset, v[M].length + 1)
    <3>1. M \in 1 .. Len(v) /\ Len(v) \in Nat
        BY <2>2, LenProperties, EmptySeq
    <3>2. v[M] \in L
        BY <3>1, ElementOfSeq
    <3>3. s \in L
        BY <3>2 DEF Span
    <3>4. ReadLetter(v, t, k) = [v EXCEPT ![M] = s]
        BY <2>2 DEF ReadLetter
    <3> HIDE DEF M, s, L
    <3>5. [v EXCEPT ![M] = s] \in Seq(L)
        BY <3>1, <3>3, ExceptSeq
    <3> QED
        BY <3>4, <3>5
  <2> QED
      BY <2>1, <2>2
<1>3. none \in V
    BY EmptySeq
<1>4. \A k \in 1 .. N, v \in V : /\ step[<<k, v>>] = ReadLetter(v, t, k)
                                 /\ step[<<k, v>>] \in V
    BY <1>2
<1> HIDE DEF step, V, none
<1>5. PICK g : GoesOn(g, N, V, none, step)
    BY <1>1, <1>3, <1>4, Recursion
<1>6. g = [n \in 0 .. Len(t) |-> IF n = 0 THEN <<>> ELSE ReadLetter(g[n - 1], t, n)]
  <2>1. g \in [0 .. N -> V] /\ g[0] = none
      BY <1>5 DEF GoesOn
  <2>2. \A n \in 0 .. N : g[n] = IF n = 0 THEN none ELSE ReadLetter(g[n - 1], t, n)
    <3> TAKE n \in 0 .. N
    <3>1. CASE n = 0
        BY <2>1, <3>1
    <3>2. CASE n # 0
      <4>1. n \in 1 .. N /\ n - 1 \in 0 .. N
          BY <1>1, <3>2
      <4>2. g[n] = step[<<n, g[n - 1]>>] /\ g[n - 1] \in V
          BY <1>5, <2>1, <4>1 DEF GoesOn
      <4> QED
          BY <1>4, <3>2, <4>1, <4>2
    <3> QED
        BY <3>1, <3>2
  <2>3. g = [n \in 0 .. N |-> g[n]]
      BY <2>1
  <2> QED
      BY <2>2, <2>3 DEF none
<1>7. PICK f : /\ f = [n \in 0 .. Len(t) |-> IF n = 0 THEN <<>> ELSE ReadLetter(f[n - 1], t, n)]
               /\ Lines(t) = f[Len(t)]
    BY <1>6, Zenon DEF Lines
<1> DEFINE S == {n \in 0 .. N : LinesSoFar(f[n], n)}
<1>8. 0 \in S
  <2>1. f[0] = none
      BY <1>1, <1>7 DEF none
  <2>2. none \in Seq(L) /\ Len(none) = 0 /\ none = <<>>
      BY EmptySeq DEF none
  <2>3. LinesSoFar(none, 0)
      BY <2>2 DEF LinesSoFar
  <2> HIDE DEF none
  <2> QED
      BY <1>1, <2>1, <2>3
<1>9. ASSUME NEW n \in 0 .. N - 1, n \in S PROVE n + 1 \in S
  <2> DEFINE j == n + 1
  <2>1. j \in 0 .. N /\ j # 0 /\ j - 1 = n /\ j \in Nat \ {0}
      BY <1>1
  <2> HIDE DEF j
  <2>2. f[j] = ReadLetter(f[j - 1], t, j)
      BY <1>7, <2>1
  <2>3. LinesSoFar(f[j - 1], j - 1)
      BY <1>9, <2>1
  <2>4. LinesSoFar(f[j], j)
      BY <2>1, <2>2, <2>3, ReadsOn
  <2> QED
      BY <2>1, <2>4 DEF j
<1> HIDE DEF S, N
<1>10. \A n \in 0 .. N : n \in S
    BY <1>1, <1>8, <1>9, UpTo
<1>11. N \in S
    BY <1>1, <1>10
<1> QED
    BY <1>7, <1>11 DEF S, N

\* The span of some lines lies in the text.
LEMMA LineSpanType ==
    ASSUME NEW t \in Seq(Letters), NEW anchor, NEW first \in Spans(t), NEW last \in Spans(t),
           first.offset <= last.offset
    PROVE  LineSpan(t, first, last, anchor) \in Spans(t)
<1> DEFINE tail == IF Last(anchor) = Newline THEN last.length ELSE Trimmed(Slice(t, last))
           l == last.offset + tail - first.offset
<1>1. /\ first.offset \in Nat /\ last.offset \in Nat /\ last.length \in Nat
      /\ last.offset + last.length <= Len(t) /\ Len(t) \in Nat
      /\ Slice(t, last) \in Seq(Letters) /\ Len(Slice(t, last)) = last.length
    BY SpanFacts
<1>2. tail \in Nat /\ tail <= last.length
  <2>1. Trimmed(Slice(t, last)) \in 0 .. last.length
      BY <1>1, TrimmedType
  <2> QED
      BY <1>1, <2>1
<1>3. LineSpan(t, first, last, anchor) = Span(first.offset, l)
    BY DEF LineSpan
<1> HIDE DEF tail
<1>4. l \in Nat /\ first.offset + l <= Len(t)
    BY <1>1, <1>2
<1> HIDE DEF l
<1> QED
    BY <1>1, <1>3, <1>4, SpanType

LEMMA MatchedLinesType ==
    ASSUME NEW t \in Seq(Letters), NEW lines, LinesSoFar(lines, Len(t)), NEW anchor,
           NEW sought, Len(sought) \in Nat \ {0}
    PROVE  MatchedLines(t, lines, anchor, sought) \in Seq(Spans(t))
<1> DEFINE N == Len(lines)
           V == Seq(Spans(t))
           none == <<>>
           step == [p \in (1 .. N) \X V |-> TakeLines(p[2], t, lines, p[1], anchor, sought)]
<1>0. /\ lines \in Seq([offset : Nat, length : Nat])
      /\ \A i \in 1 .. N : lines[i].offset + lines[i].length <= Len(t)
      /\ \A i, j \in 1 .. N : i <= j => lines[i].offset <= lines[j].offset
    BY DEF LinesSoFar
<1>1. N \in Nat
    BY <1>0, LenProperties
<1>2. \A i \in 1 .. N : lines[i] \in Spans(t)
  <2>1. \A i \in 1 .. N : lines[i] \in [offset : Nat, length : Nat]
      BY <1>0, ElementOfSeq
  <2> QED
      BY <1>0, <2>1 DEF Spans
<1>3. ASSUME NEW k \in 1 .. N, NEW v \in V
      PROVE  TakeLines(v, t, lines, k, anchor, sought) \in V
  <2>1. CASE ~LinesMatch(t, lines, k, anchor, sought)
      BY <2>1 DEF TakeLines
  <2>2. CASE LinesMatch(t, lines, k, anchor, sought)
    <3> DEFINE j == k + Len(sought) - 1
               s == LineSpan(t, lines[k], lines[j], anchor)
    <3>1. j <= N
        BY <2>2 DEF LinesMatch
    <3>2. j \in 1 .. N /\ k <= j
        BY <1>1, <3>1
    <3>3. TakeLines(v, t, lines, k, anchor, sought) = Append(v, s)
        BY <2>2 DEF TakeLines
    <3> HIDE DEF j
    <3>4. lines[k] \in Spans(t) /\ lines[j] \in Spans(t) /\ lines[k].offset <= lines[j].offset
        BY <1>0, <1>2, <3>2
    <3>5. s \in Spans(t)
        BY <3>4, LineSpanType
    <3> HIDE DEF s
    <3> QED
        BY <3>3, <3>5
  <2> QED
      BY <2>1, <2>2
<1>4. none \in V
    BY EmptySeq
<1>5. \A k \in 1 .. N, v \in V :
         /\ step[<<k, v>>] = TakeLines(v, t, lines, k, anchor, sought)
         /\ step[<<k, v>>] \in V
    BY <1>3
<1> HIDE DEF step, V, none
<1>6. PICK g : GoesOn(g, N, V, none, step)
    BY <1>1, <1>4, <1>5, Recursion
<1>7. g = [n \in 0 .. Len(lines) |->
              IF n = 0 THEN <<>> ELSE TakeLines(g[n - 1], t, lines, n, anchor, sought)]
  <2>1. g \in [0 .. N -> V] /\ g[0] = none
      BY <1>6 DEF GoesOn
  <2>2. \A n \in 0 .. N :
           g[n] = IF n = 0 THEN none ELSE TakeLines(g[n - 1], t, lines, n, anchor, sought)
    <3> TAKE n \in 0 .. N
    <3>1. CASE n = 0
        BY <2>1, <3>1
    <3>2. CASE n # 0
      <4>1. n \in 1 .. N /\ n - 1 \in 0 .. N
          BY <1>1, <3>2
      <4>2. g[n] = step[<<n, g[n - 1]>>] /\ g[n - 1] \in V
          BY <1>6, <2>1, <4>1 DEF GoesOn
      <4> QED
          BY <1>5, <3>2, <4>1, <4>2
    <3> QED
        BY <3>1, <3>2
  <2>3. g = [n \in 0 .. N |-> g[n]]
      BY <2>1
  <2> QED
      BY <2>2, <2>3 DEF none
<1>8. PICK f : /\ f = [n \in 0 .. Len(lines) |->
                         IF n = 0 THEN <<>> ELSE TakeLines(f[n - 1], t, lines, n, anchor, sought)]
               /\ MatchedLines(t, lines, anchor, sought) = f[Len(lines)]
    BY <1>7, Zenon DEF MatchedLines
<1>9. f[0] \in V
    BY <1>1, <1>4, <1>8 DEF none
<1>10. ASSUME NEW k \in 1 .. N, f[k - 1] \in V PROVE f[k] \in V
  <2>1. k \in 0 .. Len(lines) /\ k # 0
      BY <1>1
  <2>2. f[k] = TakeLines(f[k - 1], t, lines, k, anchor, sought)
      BY <1>8, <2>1
  <2> QED
      BY <1>3, <1>10, <2>2
<1> HIDE DEF N
<1>11. \A k \in 0 .. N : f[k] \in V
    BY <1>1, <1>9, <1>10, StaysIn
<1>12. f[N] \in V
    BY <1>1, <1>11
<1> QED
    BY <1>8, <1>12 DEF V, N

LEMMA CandidatesType ==
    ASSUME NEW t \in Seq(Letters), NEW anchor \in Seq(Letters)
    PROVE  Candidates(t, anchor) \in Seq(Spans(t))
<1>1. ExactMatches(t, anchor) \in Seq(Spans(t))
    BY ExactMatchesType
<1>2. LooseMatches(t, anchor) \in Seq(Spans(t))
  <2>1. CASE anchor = <<>>
      BY <2>1, EmptySeq DEF LooseMatches
  <2>2. CASE anchor # <<>>
    <3> DEFINE lines == Lines(t)
               sought == Lines(anchor)
    <3>1. LinesSoFar(lines, Len(t)) /\ LinesSoFar(sought, Len(anchor))
        BY LinesFacts
    <3>2. LooseMatches(t, anchor) = MatchedLines(t, lines, anchor, sought)
        BY <2>2 DEF LooseMatches
    <3> HIDE DEF lines, sought
    <3>3. Len(anchor) \in Nat \ {0}
        BY <2>2, EmptySeq
    <3>4. sought \in Seq([offset : Nat, length : Nat]) /\ sought # <<>>
        BY <3>1, <3>3 DEF LinesSoFar
    <3>5. Len(sought) \in Nat \ {0}
        BY <3>4, EmptySeq
    <3>6. MatchedLines(t, lines, anchor, sought) \in Seq(Spans(t))
        BY <3>1, <3>5, MatchedLinesType
    <3> QED
        BY <3>2, <3>6
  <2> QED
      BY <2>1, <2>2
<1> QED
    BY <1>1, <1>2 DEF Candidates, OrElse

-----------------------------------------------------------------------------
(* What the requests of a call ask for.                                    *)

Operations == {"prepend_bof", "append_eof", "overwrite", "replace_all"} \cup Anchored
PatchRequest == [op : Operations, anchor : Seq(Letters), new : Seq(Letters),
                 cut : BOOLEAN, paste : BOOLEAN]
Texts == Seq(Letters) \cup {Missing}

LEMMA AtAnchorType ==
    ASSUME NEW t \in Seq(Letters), NEW op \in Anchored, NEW found \in Spans(t)
    PROVE  AtAnchor(op, found) \in Spans(t)
<1>1. /\ found.offset \in Nat /\ found.length \in Nat /\ Len(t) \in Nat
      /\ found.offset + found.length <= Len(t)
    BY SpanFacts
<1> DEFINE o == found.offset
           e == found.offset + found.length
           zero == 0
<1>2. o \in Nat /\ e \in Nat /\ zero \in Nat /\ o + zero <= Len(t) /\ e + zero <= Len(t)
    BY <1>1
<1>3. op = "replace" => AtAnchor(op, found) = found
    BY DEF AtAnchor
<1>4. op = "insert_before" => AtAnchor(op, found) = Span(o, zero)
    BY DEF AtAnchor
<1>5. op = "insert_after" => AtAnchor(op, found) = Span(e, zero)
    BY DEF AtAnchor
<1>6. op \in {"replace", "insert_before", "insert_after"}
    BY DEF Anchored
<1> HIDE DEF o, e, zero
<1>7. Span(o, zero) \in Spans(t)
    BY <1>2, SpanType
<1>8. Span(e, zero) \in Spans(t)
    BY <1>2, SpanType
<1> QED
    BY <1>3, <1>4, <1>5, <1>6, <1>7, <1>8

LEMMA SpansOfType ==
    ASSUME NEW t \in Seq(Letters), NEW request \in PatchRequest
    PROVE  SpansOf(request, t) \in Seq(Spans(t))
<1>1. request.op \in Operations /\ request.anchor \in Seq(Letters)
    BY DEF PatchRequest
<1>2. Len(t) \in Nat
    BY LenProperties
<1>3. CASE request.op = "prepend_bof"
  <2> DEFINE s == Span(0, 0)
  <2>1. s \in Spans(t)
      BY <1>2 DEF Span, Spans
  <2>2. SpansOf(request, t) = <<s>>
      BY <1>3 DEF SpansOf, Anchored
  <2> HIDE DEF s
  <2> QED
      BY <2>1, <2>2
<1>4. CASE request.op = "append_eof"
  <2> DEFINE s == Span(Len(t), 0)
  <2>1. s \in Spans(t)
      BY <1>2 DEF Span, Spans
  <2>2. SpansOf(request, t) = <<s>>
      BY <1>4 DEF SpansOf, Anchored
  <2> HIDE DEF s
  <2> QED
      BY <2>1, <2>2
<1>5. CASE request.op = "overwrite"
  <2> DEFINE s == Span(0, Len(t))
  <2>1. s \in Spans(t)
      BY <1>2 DEF Span, Spans
  <2>2. SpansOf(request, t) = <<s>>
      BY <1>5 DEF SpansOf, Anchored
  <2> HIDE DEF s
  <2> QED
      BY <2>1, <2>2
<1>6. CASE request.op = "replace_all"
  <2>1. SpansOf(request, t) = ExactMatches(t, request.anchor)
      BY <1>6 DEF SpansOf, Anchored
  <2> QED
      BY <1>1, <2>1, ExactMatchesType
<1>7. CASE request.op \in Anchored
  <2> DEFINE c == Candidates(t, request.anchor)
  <2>1. SpansOf(request, t) = OneOf(request.op, c)
      BY <1>7 DEF SpansOf, Anchored
  <2>2. c \in Seq(Spans(t))
      BY <1>1, CandidatesType
  <2> HIDE DEF c
  <2>3. CASE Len(c) # 1
      BY <2>1, <2>3, EmptySeq DEF OneOf
  <2>4. CASE Len(c) = 1
    <3> DEFINE s == AtAnchor(request.op, c[1])
    <3>1. 1 \in 1 .. Len(c)
        BY <2>4
    <3>2. c[1] \in Spans(t)
        BY <2>2, <3>1, ElementOfSeq
    <3>3. s \in Spans(t)
        BY <1>7, <3>2, AtAnchorType
    <3>4. SpansOf(request, t) = <<s>>
        BY <2>1, <2>4 DEF OneOf
    <3> HIDE DEF s
    <3> QED
        BY <3>3, <3>4
  <2> QED
      BY <2>3, <2>4
<1> QED
    BY <1>1, <1>3, <1>4, <1>5, <1>6, <1>7 DEF Operations

\* What has been resolved of a call: its edits lie in the text, and the clipboard holds what it
\* held or a piece of the text.
PlansFor(t, held) ==
    {p \in [fine : BOOLEAN, edits : Seq(EditOf(t)), clip : Texts] :
        p.clip # held => \E o \in 0 .. Len(t) : StandsAt(t, p.clip, o)}

LEMMA TakeRequestType ==
    ASSUME NEW t \in Seq(Letters), NEW held \in Texts, NEW plan \in PlansFor(t, held),
           NEW request \in PatchRequest
    PROVE  TakeRequest(plan, request, t) \in PlansFor(t, held)
<1> DEFINE spans == SpansOf(request, t)
           new == IF request.paste THEN plan.clip ELSE request.new
           more == [s \in DOMAIN spans |-> [span |-> spans[s], new |-> new]]
           P == [fine : BOOLEAN, edits : Seq(EditOf(t)), clip : Texts]
<1>1. /\ plan \in P /\ plan.edits \in Seq(EditOf(t)) /\ plan.clip \in Texts
      /\ plan.clip # held => \E o \in 0 .. Len(t) : StandsAt(t, plan.clip, o)
    BY DEF PlansFor
<1>2. spans \in Seq(Spans(t))
    BY SpansOfType
<1> HIDE DEF spans
<1>3. TakeRequest(plan, request, t) = TakeAt(plan, request, t, spans)
    BY DEF TakeRequest, spans
<1>4. CASE ~plan.fine \/ spans = <<>> \/ (request.paste /\ plan.clip = Missing)
  <2> DEFINE r == [plan EXCEPT !.fine = FALSE]
  <2>1. TakeRequest(plan, request, t) = r
      BY <1>3, <1>4 DEF TakeAt
  <2>2. r \in P /\ r.clip = plan.clip
      BY <1>1
  <2> HIDE DEF r
  <2> QED
      BY <1>1, <2>1, <2>2 DEF PlansFor
<1>5. CASE ~(~plan.fine \/ spans = <<>> \/ (request.paste /\ plan.clip = Missing))
  <2> DEFINE clip2 == IF request.cut /\ spans[1].length > 0 THEN Slice(t, spans[1]) ELSE plan.clip
             edits2 == plan.edits \o more
             r == [plan EXCEPT !.edits = edits2, !.clip = clip2]
  <2>1. TakeRequest(plan, request, t) = r
      BY <1>3, <1>5 DEF TakeAt
  <2>2. new \in Seq(Letters)
      BY <1>1, <1>5 DEF Texts, PatchRequest
  <2> HIDE DEF new
  <2>3. /\ Len(spans) \in Nat \ {0} /\ DOMAIN spans = 1 .. Len(spans)
        /\ \A s \in 1 .. Len(spans) : spans[s] \in Spans(t)
      BY <1>2, <1>5, LenProperties, EmptySeq, ElementOfSeq
  <2>4. more \in Seq(EditOf(t))
    <3>1. \A s \in 1 .. Len(spans) : [span |-> spans[s], new |-> new] \in EditOf(t)
        BY <2>2, <2>3 DEF EditOf
    <3> DEFINE n == Len(spans)
    <3>2. more \in [1 .. n -> EditOf(t)] /\ n \in Nat
        BY <2>3, <3>1
    <3> HIDE DEF more, n
    <3> QED
        BY <3>2, SeqDef
  <2> HIDE DEF more
  <2>5. edits2 \in Seq(EditOf(t))
      BY <1>1, <2>4, ConcatProperties
  <2>6. ASSUME request.cut, spans[1].length > 0
        PROVE  clip2 \in Seq(Letters) /\ \E o \in 0 .. Len(t) : StandsAt(t, clip2, o)
    <3> DEFINE s == spans[1]
               c == Slice(t, s)
    <3>1. s \in Spans(t)
        BY <2>3
    <3>2. clip2 = c
        BY <2>6
    <3> HIDE DEF clip2, s
    <3>3. /\ s.offset \in Nat /\ s.length \in Nat /\ s.offset + s.length <= Len(t)
          /\ Len(t) \in Nat /\ c \in Seq(Letters) /\ Len(c) = s.length
          /\ s \in [offset : Nat, length : Nat]
        BY <3>1, SpanFacts
    <3>4. Span(s.offset, Len(c)) = s
        BY <3>3 DEF Span
    <3>5. StandsAt(t, c, s.offset)
        BY <3>3, <3>4 DEF StandsAt
    <3>6. s.offset \in 0 .. Len(t)
        BY <3>3
    <3> QED
        BY <3>2, <3>3, <3>5, <3>6
  <2>7. clip2 \in Texts /\ (clip2 # held => \E o \in 0 .. Len(t) : StandsAt(t, clip2, o))
    <3>1. CASE request.cut /\ spans[1].length > 0
      <4> HIDE DEF clip2
      <4> QED
          BY <2>6, <3>1 DEF Texts
    <3>2. CASE ~(request.cut /\ spans[1].length > 0)
      <4>1. clip2 = plan.clip
          BY <3>2
      <4> HIDE DEF clip2
      <4> QED
          BY <1>1, <4>1
    <3> QED
        BY <3>1, <3>2
  <2> HIDE DEF clip2, edits2
  <2>8. r \in P /\ r.clip = clip2
      BY <1>1, <2>5, <2>7
  <2> HIDE DEF r
  <2> QED
      BY <2>1, <2>7, <2>8 DEF PlansFor
<1> QED
    BY <1>4, <1>5

LEMMA PlanFromType ==
    ASSUME NEW t \in Seq(Letters), NEW held \in Texts, NEW requests \in Seq(PatchRequest)
    PROVE  PlanFrom(requests, t, held) \in PlansFor(t, held)
<1> DEFINE N == Len(requests)
           V == PlansFor(t, held)
           first == [fine |-> TRUE, edits |-> <<>>, clip |-> held]
           step == [p \in (1 .. N) \X V |-> TakeRequest(p[2], requests[p[1]], t)]
<1>1. N \in Nat
    BY LenProperties
<1>2. ASSUME NEW k \in 1 .. N, NEW v \in V PROVE TakeRequest(v, requests[k], t) \in V
  <2>1. requests[k] \in PatchRequest
      BY ElementOfSeq
  <2> QED
      BY <2>1, TakeRequestType
<1>3. first \in V
    BY EmptySeq DEF PlansFor
<1>4. \A k \in 1 .. N, v \in V : /\ step[<<k, v>>] = TakeRequest(v, requests[k], t)
                                 /\ step[<<k, v>>] \in V
    BY <1>2
<1> HIDE DEF step, V, first
<1>5. PICK g : GoesOn(g, N, V, first, step)
    BY <1>1, <1>3, <1>4, Recursion
<1>6. g = [n \in 0 .. Len(requests) |->
              IF n = 0 THEN [fine |-> TRUE, edits |-> <<>>, clip |-> held]
              ELSE TakeRequest(g[n - 1], requests[n], t)]
  <2>1. g \in [0 .. N -> V] /\ g[0] = first
      BY <1>5 DEF GoesOn
  <2>2. \A n \in 0 .. N : g[n] = IF n = 0 THEN first ELSE TakeRequest(g[n - 1], requests[n], t)
    <3> TAKE n \in 0 .. N
    <3>1. CASE n = 0
        BY <2>1, <3>1
    <3>2. CASE n # 0
      <4>1. n \in 1 .. N /\ n - 1 \in 0 .. N
          BY <1>1, <3>2
      <4>2. g[n] = step[<<n, g[n - 1]>>] /\ g[n - 1] \in V
          BY <1>5, <2>1, <4>1 DEF GoesOn
      <4> QED
          BY <1>4, <3>2, <4>1, <4>2
    <3> QED
        BY <3>1, <3>2
  <2>3. g = [n \in 0 .. N |-> g[n]]
      BY <2>1
  <2> QED
      BY <2>2, <2>3 DEF first
<1>7. PICK f : /\ f = [n \in 0 .. Len(requests) |->
                         IF n = 0 THEN [fine |-> TRUE, edits |-> <<>>, clip |-> held]
                         ELSE TakeRequest(f[n - 1], requests[n], t)]
               /\ PlanFrom(requests, t, held) = f[Len(requests)]
    BY <1>6, Zenon DEF PlanFrom
<1>8. f[0] \in V
    BY <1>1, <1>3, <1>7 DEF first
<1>9. ASSUME NEW k \in 1 .. N, f[k - 1] \in V PROVE f[k] \in V
  <2>1. k \in 0 .. Len(requests) /\ k # 0
      BY <1>1
  <2>2. f[k] = TakeRequest(f[k - 1], requests[k], t)
      BY <1>7, <2>1
  <2> QED
      BY <1>2, <1>9, <2>2
<1> HIDE DEF N
<1>10. \A k \in 0 .. N : f[k] \in V
    BY <1>1, <1>8, <1>9, StaysIn
<1>11. f[N] \in V
    BY <1>1, <1>10
<1> QED
    BY <1>7, <1>11 DEF V, N

-----------------------------------------------------------------------------
(* The tool.                                                               *)

\* Between calls nothing is awaited; the file and the clipboard hold texts.
PatchInv ==
    /\ text \in Texts /\ clip \in Texts
    /\ call = NoCall => fate = "none"
    /\ fate \in {"none", "landed", "refused"}
    /\ EditsAreSimultaneous

LEMMA TextsToTexts == \A n : TextsTo(n) \subseteq Seq(Letters)
<1> TAKE n
<1> SUFFICES ASSUME NEW t \in TextsTo(n) PROVE t \in Seq(Letters)
    OBVIOUS
<1>1. PICK m \in 0 .. n : t \in [1 .. m -> Letters]
    BY DEF TextsTo
<1>2. m \in Nat
    BY <1>1
<1> QED
    BY <1>1, <1>2, SeqDef

LEMMA RequestsTyped ==
    /\ \A r \in Unanchored \cup Moves \cup UNION {At(anchor) : anchor \in TextsTo(2)} :
          r \in PatchRequest
    /\ \A r \in Unanchored \cup Moves \cup At(X) \cup At(<<Newline>>) : r \in PatchRequest
<1> DEFINE none == <<>>
           blank == X \o <<Blank>>
<1>1. none \in Seq(Letters) /\ X \in Seq(Letters) /\ <<Newline>> \in Seq(Letters)
      /\ <<Blank>> \in Seq(Letters)
  <2>1. "x" \in Letters /\ Newline \in Letters /\ Blank \in Letters
      BY DEF Letters
  <2> HIDE DEF Newline, Blank
  <2> QED
      BY <2>1 DEF X
<1>2. blank \in Seq(Letters)
    BY <1>1, ConcatProperties
<1> HIDE DEF none, blank
<1>3. \A op \in Operations, anchor \in Seq(Letters), new \in Seq(Letters) :
         Naming(op, anchor, new) \in PatchRequest
    BY DEF Naming, PatchRequest
<1>4. \A anchor \in Seq(Letters) : At(anchor) \subseteq PatchRequest
  <2> TAKE anchor \in Seq(Letters)
  <2>1. {"replace", "replace_all", "insert_before", "insert_after"} \subseteq Operations
      BY DEF Operations, Anchored
  <2>2. At(anchor) = {Naming(op, anchor, none) : op \in {"replace", "replace_all"}}
                     \cup {Naming(op, anchor, X) : op \in {"replace", "insert_before", "insert_after"}}
      BY DEF At, none
  <2> QED
      BY <1>1, <1>3, <2>1, <2>2
<1>5. Unanchored \subseteq PatchRequest
  <2>1. {"prepend_bof", "append_eof", "overwrite"} \subseteq Operations
      BY DEF Operations
  <2>2. Unanchored = {Naming(op, none, X) : op \in {"prepend_bof", "append_eof", "overwrite"}}
      BY DEF Unanchored, none
  <2> QED
      BY <1>1, <1>3, <2>1, <2>2
<1>6. Moves \subseteq PatchRequest
  <2>1. \A r \in PatchRequest : /\ [r EXCEPT !.cut = TRUE] \in PatchRequest
                                /\ [r EXCEPT !.paste = TRUE] \in PatchRequest
      BY DEF PatchRequest
  <2>2. "replace" \in Operations
      BY DEF Operations, Anchored
  <2>3. \A anchor \in {X, blank} : Naming("replace", anchor, none) \in PatchRequest
      BY <1>1, <1>2, <1>3, <2>2
  <2>4. Moves = {[Naming("replace", anchor, none) EXCEPT !.cut = TRUE] : anchor \in {X, blank}}
                \cup {[r EXCEPT !.paste = TRUE] : r \in Unanchored}
      BY DEF Moves, none, blank
  <2> QED
      BY <1>5, <2>1, <2>3, <2>4
<1>7. \A anchor \in TextsTo(2) : At(anchor) \subseteq PatchRequest
    BY <1>4, TextsToTexts
<1>8. At(X) \subseteq PatchRequest /\ At(<<Newline>>) \subseteq PatchRequest
    BY <1>1, <1>4
<1> DEFINE U == UNION {At(anchor) : anchor \in TextsTo(2)}
<1>9. U \subseteq PatchRequest
    BY <1>7
<1> HIDE DEF U
<1>10. \A r \in Unanchored \cup Moves \cup U : r \in PatchRequest
    BY <1>5, <1>6, <1>9
<1>11. \A r \in Unanchored \cup Moves \cup At(X) \cup At(<<Newline>>) : r \in PatchRequest
    BY <1>5, <1>6, <1>8
<1> QED
    BY <1>10, <1>11 DEF U

LEMMA PatchKeeps ==
    ASSUME PatchInv, NEW requests \in Seq(PatchRequest), requests # NoCall, Patch(requests)
    PROVE  PatchInv'
<1> DEFINE t == Content
           plan == PlanOf(requests, t)
           made == Apply(t, plan.edits)
           lands == CanStart(requests) /\ plan.fine /\ made.fine
<1>1. /\ call' = requests /\ before' = <<text, clip>>
      /\ fate' = IF lands THEN "landed" ELSE "refused"
      /\ text' = IF lands THEN made.text ELSE text
      /\ clip' = IF lands THEN plan.clip ELSE clip
    BY DEF Patch
<1>2. t \in Seq(Letters) /\ text \in Texts /\ clip \in Texts
    BY EmptySeq DEF PatchInv, Texts, Content
<1>3. plan = PlanFrom(requests, t, clip)
    BY DEF PlanOf
<1> HIDE DEF plan
<1>4. plan \in PlansFor(t, clip)
  <2> HIDE DEF t
  <2> QED
      BY <1>2, <1>3, PlanFromType
<1>5. /\ plan.edits \in Seq(EditOf(t)) /\ plan.clip \in Texts
      /\ plan.clip # clip => \E o \in 0 .. Len(t) : StandsAt(t, plan.clip, o)
    BY <1>4 DEF PlansFor
<1>6. /\ made \in MadeRecords
      /\ made.fine <=> ~Clash(plan.edits)
      /\ made.fine => made.text = AtOnce(t, plan.edits)
  <2> DEFINE n == Len(plan.edits)
             edits == plan.edits
  <2>1. n \in Nat /\ edits \in [1 .. n -> EditOf(t)]
      BY <1>5, LenProperties
  <2> HIDE DEF n, t, edits
  <2>2. /\ Apply(t, edits) \in MadeRecords
        /\ Apply(t, edits).fine <=> ~Clash(edits)
        /\ Apply(t, edits).fine => Apply(t, edits).text = AtOnce(t, edits)
      BY <1>2, <2>1, Applied
  <2> QED
      BY <2>2 DEF edits
<1> HIDE DEF made
<1>7. Met' = t /\ before'[1] = text /\ before'[2] = clip
    BY <1>1 DEF Met, Content
<1>8. Asked' = plan
  <2>1. Asked' = PlanFrom(call', Met', before'[2])
      BY DEF Asked
  <2> QED
      BY <1>1, <1>3, <1>7, <2>1
<1>9. text' \in Texts /\ clip' \in Texts
    BY <1>1, <1>2, <1>5, <1>6 DEF MadeRecords, Texts
<1>10. EditsAreSimultaneous'
  <2>1. CASE lands
    <3>1. ~Clash(plan.edits) /\ made.text = AtOnce(t, plan.edits)
        BY <1>6, <2>1
    <3>2. fate' = "landed" /\ text' = AtOnce(t, plan.edits) /\ clip' = plan.clip
        BY <1>1, <2>1, <3>1
    <3>3. clip' # before'[2] => \E o \in 0 .. Len(Met') : StandsAt(Met', clip', o)
        BY <1>5, <1>7, <3>2
    <3>4. /\ ~Clash(Asked'.edits) /\ text' = AtOnce(Met', Asked'.edits)
        BY <1>7, <1>8, <3>1, <3>2
    <3> QED
        BY <3>2, <3>3, <3>4 DEF EditsAreSimultaneous
  <2>2. CASE ~lands
    <3>1. fate' = "refused" /\ <<text', clip'>> = before'
        BY <1>1, <2>2
    <3>2. ~CanStart(requests) => text = Missing
        BY DEF CanStart
    <3>3. Clash(Asked'.edits) \/ ~Asked'.fine \/ before'[1] = Missing
        BY <1>6, <1>7, <1>8, <2>2, <3>2
    <3> QED
        BY <3>1, <3>3 DEF EditsAreSimultaneous
  <2> QED
      BY <2>1, <2>2
<1>11. fate' \in {"none", "landed", "refused"}
    BY <1>1
<1>12. call' # NoCall
    BY <1>1
<1> QED
    BY <1>9, <1>10, <1>11, <1>12 DEF PatchInv

LEMMA PatchInit == PInit => PatchInv
<1> SUFFICES ASSUME PInit PROVE PatchInv
    OBVIOUS
<1>1. text = Missing /\ clip = Missing /\ fate = "none"
    BY DEF PInit
<1> QED
    BY <1>1 DEF PatchInv, EditsAreSimultaneous, Texts

LEMMA PatchNext == PatchInv /\ [PNext]_pvars => PatchInv'
<1> SUFFICES ASSUME PatchInv, [PNext]_pvars PROVE PatchInv'
    OBVIOUS
<1>0. text \in Texts /\ clip \in Texts /\ (call = NoCall => fate = "none")
    BY DEF PatchInv
<1>1. CASE \E r \in Unanchored \cup Moves \cup UNION {At(anchor) : anchor \in TextsTo(2)} :
              Patch(<<r>>)
  <2>1. PICK r \in Unanchored \cup Moves \cup UNION {At(anchor) : anchor \in TextsTo(2)} :
            Patch(<<r>>)
      BY <1>1
  <2>2. r \in PatchRequest
      BY RequestsTyped
  <2> DEFINE requests == <<r>>
  <2>3. requests \in Seq(PatchRequest) /\ requests # NoCall
      BY <2>2 DEF NoCall
  <2>4. Patch(requests)
      BY <2>1
  <2> HIDE DEF requests
  <2> QED
      BY <2>3, <2>4, PatchKeeps
<1>2. CASE \E r1, r2 \in Unanchored \cup Moves \cup At(X) \cup At(<<Newline>>) :
              Patch(<<r1, r2>>)
  <2>1. PICK r1 \in Unanchored \cup Moves \cup At(X) \cup At(<<Newline>>),
             r2 \in Unanchored \cup Moves \cup At(X) \cup At(<<Newline>>) : Patch(<<r1, r2>>)
      BY <1>2
  <2>2. r1 \in PatchRequest /\ r2 \in PatchRequest
      BY RequestsTyped
  <2> DEFINE requests == <<r1, r2>>
  <2>3. requests \in Seq(PatchRequest) /\ requests # NoCall
      BY <2>2 DEF NoCall
  <2>4. Patch(requests)
      BY <2>1
  <2> HIDE DEF requests
  <2> QED
      BY <2>3, <2>4, PatchKeeps
<1>3. CASE Answer
  <2>1. text' = text /\ clip' = clip /\ fate' = "none"
      BY <1>3 DEF Answer
  <2> QED
      BY <1>0, <2>1 DEF PatchInv, EditsAreSimultaneous
<1>4. CASE Rewrite
  <2>1. /\ clip' = clip /\ call' = call /\ fate' = fate /\ call = NoCall
        /\ text' \in TextsTo(MaxLength) \cup {Missing}
      BY <1>4 DEF Rewrite
  <2>2. text' \in Texts
      BY <2>1, TextsToTexts DEF Texts
  <2>3. fate' = "none"
      BY <1>0, <2>1
  <2> QED
      BY <1>0, <2>1, <2>2, <2>3 DEF PatchInv, EditsAreSimultaneous
<1>5. CASE UNCHANGED pvars
  <2>1. /\ text' = text /\ clip' = clip /\ call' = call /\ before' = before /\ fate' = fate
      BY <1>5 DEF pvars
  <2>2. Met' = Met /\ Asked' = Asked
      BY <2>1 DEF Met, Asked
  <2>3. EditsAreSimultaneous' = EditsAreSimultaneous
      BY <2>1, <2>2 DEF EditsAreSimultaneous
  <2> QED
      BY <2>1, <2>3 DEF PatchInv
<1> QED
    BY <1>1, <1>2, <1>3, <1>4, <1>5 DEF PNext

(* The patch tool (tools/patch.rs:9-20, 418-421): a call lands as if all   *)
(* its edits were made at once on the file it met, or changes nothing; for *)
(* files of every length and calls of every shape the model asks for.      *)
THEOREM EditsLandAtOnce == PSpec => []EditsAreSimultaneous
<1>1. PInit => PatchInv
    BY PatchInit
<1>2. PatchInv /\ [PNext]_pvars => PatchInv'
    BY PatchNext
<1>3. PatchInv => EditsAreSimultaneous
    BY DEF PatchInv
<1> QED
    BY <1>1, <1>2, <1>3, PTL DEF PSpec

(* The file and the clipboard hold texts (tools/patch.rs:402-416).         *)
THEOREM PatchTypeCorrect == PSpec => []PTypeOK
<1>1. PInit => PatchInv
    BY PatchInit
<1>2. PatchInv /\ [PNext]_pvars => PatchInv'
    BY PatchNext
<1>3. PatchInv => PTypeOK
  <2>1. \A t \in Texts : t = Missing \/ \A i \in DOMAIN t : t[i] \in Letters
      BY LenProperties, ElementOfSeq DEF Texts
  <2> QED
      BY <2>1 DEF PatchInv, PTypeOK
<1> QED
    BY <1>1, <1>2, <1>3, PTL DEF PSpec
=============================================================================
