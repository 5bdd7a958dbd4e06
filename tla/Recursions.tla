---------------------------- MODULE Recursions ------------------------------
(***************************************************************************)
(* Induction for the proofs, where the code loops: over numbers up to a    *)
(* bound, for what is defined by going on from a first value, and for      *)
(* lists put together end to end.  Each is proved of sets and functions,   *)
(* from the well-foundedness of the numbers.                               *)
(***************************************************************************)
EXTENDS Naturals, Sequences, SequencesExt, SequenceTheorems, WellFoundedInduction, TLAPS

-----------------------------------------------------------------------------
(* Numbers.                                                                *)

\* A set of numbers that is not empty has a least one.
LEMMA LeastNumber ==
    ASSUME NEW T \in SUBSET Nat, T # {}
    PROVE  \E x \in T : \A y \in T : x <= y
<1> DEFINE R == {ss \in Nat \X Nat : ss[1] < ss[2]}
<1>0. \A y \in T : y \in Nat
    OBVIOUS
<1>1. IsWellFoundedOn(R, Nat)
    BY NatLessThanWellFounded DEF OpToRel
<1>2. \A x, y \in Nat : y < x => <<y, x>> \in R
    OBVIOUS
<1> HIDE DEF R
<1>3. PICK x \in T : \A y \in T : ~ (<<y, x>> \in R)
    BY <1>1, WFMin
<1>4. ASSUME NEW y \in T PROVE x <= y
  <2>1. x \in Nat /\ y \in Nat
      BY <1>0
  <2>2. ~(y < x)
      BY <1>2, <1>3, <2>1
  <2> QED
      BY <2>1, <2>2
<1> QED
    BY <1>4

(* Induction up to a number, over a set.                                   *)
LEMMA UpTo ==
    ASSUME NEW N \in Nat, NEW S, 0 \in S,
           \A n \in 0 .. N - 1 : n \in S => n + 1 \in S
    PROVE  \A n \in 0 .. N : n \in S
<1> DEFINE T == {n \in 0 .. N : n \notin S}
<1>1. SUFFICES ASSUME T # {} PROVE FALSE
    OBVIOUS
<1>2. T \in SUBSET Nat
    OBVIOUS
<1>3. PICK x \in T : \A y \in T : x <= y
    BY <1>1, <1>2, LeastNumber
<1>4. x \in 1 .. N /\ x \notin S
    BY <1>3
<1>5. x - 1 \in 0 .. N - 1 /\ ~(x <= x - 1) /\ x - 1 + 1 = x
    BY <1>4
<1>6. x - 1 \in S
    BY <1>3, <1>5
<1> QED
    BY <1>4, <1>5, <1>6

(* What is defined by going on from a first value exists.                  *)
GoesOn(g, n, V, first, step) ==
    /\ g \in [0 .. n -> V] /\ g[0] = first
    /\ \A k \in 1 .. n : g[k] = step[<<k, g[k - 1]>>]

LEMMA Recursion ==
    ASSUME NEW N \in Nat, NEW V, NEW first \in V, NEW step,
           \A n \in 1 .. N, v \in V : step[<<n, v>>] \in V
    PROVE  \E g : GoesOn(g, N, V, first, step)
<1> DEFINE S == {n \in Nat : \E g : GoesOn(g, n, V, first, step)}
<1>1. 0 \in S
  <2>1. GoesOn([k \in 0 .. 0 |-> first], 0, V, first, step)
      BY DEF GoesOn
  <2> QED
      BY <2>1
<1>2. ASSUME NEW n \in 0 .. N - 1, n \in S PROVE n + 1 \in S
  <2>1. PICK g : GoesOn(g, n, V, first, step)
      BY <1>2
  <2> DEFINE m == n + 1
             more == step[<<m, g[n]>>]
             h == [k \in 0 .. m |-> IF k <= n THEN g[k] ELSE more]
  <2>2. n \in Nat /\ m \in 1 .. N /\ g[n] \in V /\ more \in V
      BY <2>1 DEF GoesOn
  <2> HIDE DEF more
  <2>3. h \in [0 .. m -> V] /\ h[0] = first
      BY <2>1, <2>2 DEF GoesOn
  <2>4. ASSUME NEW k \in 1 .. m PROVE h[k] = step[<<k, h[k - 1]>>]
    <3>1. CASE k <= n
      <4>1. k \in 1 .. n /\ h[k] = g[k] /\ h[k - 1] = g[k - 1]
          BY <2>2, <3>1
      <4> QED
          BY <2>1, <4>1 DEF GoesOn
    <3>2. CASE k = m
      <4>1. h[k] = more /\ h[k - 1] = g[n]
          BY <2>2, <3>2
      <4> QED
          BY <3>2, <4>1 DEF more
    <3> QED
        BY <2>2, <3>1, <3>2
  <2> HIDE DEF h
  <2>5. GoesOn(h, m, V, first, step)
      BY <2>3, <2>4 DEF GoesOn
  <2> QED
      BY <2>2, <2>5
<1> HIDE DEF S
<1>3. N \in S
    BY <1>1, <1>2, UpTo
<1> QED
    BY <1>3 DEF S

-----------------------------------------------------------------------------
(* Lists put together, end to end.                                         *)

\* The first lists of a list, put together.
Joined(f, s, n, V) ==
    /\ f \in [0 .. n -> Seq(V)] /\ f[0] = <<>>
    /\ \A k \in 1 .. n : f[k] = f[k - 1] \o s[k]

Regroups(V) == \A a, b, c \in Seq(V) : (a \o b) \o c = a \o (b \o c)

LEMMA Regrouped == \A V : Regroups(V)
BY ConcatAssociative DEF Regroups

LEMMA FlattenIsJoined ==
    ASSUME NEW V, NEW n \in Nat, NEW s \in [1 .. n -> Seq(V)]
    PROVE  \E f : Joined(f, s, n, V) /\ FlattenSeq(s) = f[n]
<1> DEFINE N == Len(s)
           E == Seq(V)
           none == <<>>
           step == [p \in (1 .. n) \X E |-> p[2] \o s[p[1]]]
<1>1. s \in Seq(E) /\ N = n
    BY LenProperties, SeqDef
<1>2. \A a, b \in E : a \o b \in E
    BY ConcatProperties
<1>3. none \in E /\ \A a \in E : none \o a = a
    BY EmptySeq, ConcatEmptySeq
<1> HIDE DEF E, none
<1>4. \A k \in 1 .. n, v \in E : step[<<k, v>>] = v \o s[k] /\ step[<<k, v>>] \in E
    BY <1>2 DEF E
<1> HIDE DEF step
<1>5. PICK g : GoesOn(g, n, E, none, step)
    BY <1>3, <1>4, Recursion
<1>6. g \in [0 .. n -> E] /\ g[0] = none
    BY <1>5 DEF GoesOn
<1>7. ASSUME NEW k \in 1 .. n PROVE g[k] = g[k - 1] \o s[k]
  <2>1. k - 1 \in 0 .. n
      OBVIOUS
  <2>2. g[k - 1] \in E /\ g[k] = step[<<k, g[k - 1]>>]
      BY <1>5, <1>6, <2>1 DEF GoesOn
  <2> QED
      BY <1>4, <2>2
<1>8. Joined(g, s, n, V)
    BY <1>6, <1>7 DEF Joined, E, none
<1>9. CASE n = 0
  <2>1. s = <<>> /\ Len(s) = 0
      BY <1>1, <1>9
  <2>2. FlattenSeq(s) = s
      BY <2>1 DEF FlattenSeq
  <2>3. FlattenSeq(s) = g[n]
      BY <1>6, <1>9, <2>1, <2>2 DEF none
  <2> QED
      BY <1>8, <2>3
<1>10. CASE n # 0
  <2> DEFINE h == [i \in 1 .. N |-> g[i]]
  <2>1. 1 \in 1 .. n /\ g[1] = s[1]
    <3>1. 1 \in 1 .. n /\ 1 - 1 = 0
        BY <1>10
    <3>2. g[1] = g[0] \o s[1] /\ s[1] \in E
        BY <1>7, <3>1 DEF E
    <3> QED
        BY <1>3, <1>6, <3>1, <3>2
  <2>2. h = [i \in 1 .. N |-> IF i = 1 THEN s[i] ELSE h[i - 1] \o s[i]]
    <3>1. \A i \in 1 .. N : h[i] = g[i]
        OBVIOUS
    <3>2. \A i \in 1 .. N : h[i] = IF i = 1 THEN s[i] ELSE h[i - 1] \o s[i]
      <4> TAKE i \in 1 .. N
      <4> HIDE DEF h
      <4>1. CASE i = 1
          BY <2>1, <3>1, <4>1
      <4>2. CASE i # 1
        <5>1. i \in 1 .. n /\ i - 1 \in 1 .. N
            BY <1>1, <4>2
        <5>2. h[i] = g[i] /\ h[i - 1] = g[i - 1] /\ g[i] = g[i - 1] \o s[i]
            BY <1>7, <3>1, <5>1
        <5> QED
            BY <4>2, <5>2
      <4> QED
          BY <4>1, <4>2
    <3>3. h = [i \in 1 .. N |-> h[i]]
        OBVIOUS
    <3> HIDE DEF h
    <3> QED
        BY <3>2, <3>3
  <2> HIDE DEF h
  <2>3. PICK f : /\ f = [i \in 1 .. N |-> IF i = 1 THEN s[i] ELSE f[i - 1] \o s[i]]
                 /\ FlattenSeq(s) = f[N]
    <3>1. Len(s) # 0
        BY <1>1, <1>10
    <3> QED
        BY <2>2, <3>1, Zenon DEF FlattenSeq, N
  <2> DEFINE m == n - 1
             S == {k \in 0 .. m : f[k + 1] = g[k + 1]}
  <2>4. m \in Nat /\ m + 1 = n
      BY <1>10
  <2>5. 0 \in S
      BY <1>1, <2>1, <2>3, <2>4
  <2>6. ASSUME NEW k \in 0 .. m - 1, k \in S PROVE k + 1 \in S
    <3> DEFINE j == k + 2
    <3>1. j \in 1 .. N /\ j \in 1 .. n /\ j # 1 /\ j - 1 = k + 1 /\ k + 1 + 1 = j /\ k + 1 \in 0 .. m
        BY <1>1, <2>4
    <3> HIDE DEF j
    <3>2. f[j] = f[j - 1] \o s[j] /\ g[j] = g[j - 1] \o s[j]
        BY <1>7, <2>3, <3>1
    <3> QED
        BY <2>6, <3>1, <3>2
  <2>7. m \in S
    <3> HIDE DEF S
    <3>1. \A k \in 0 .. m : k \in S
        BY <2>4, <2>5, <2>6, UpTo
    <3> QED
        BY <2>4, <3>1
  <2>8. FlattenSeq(s) = g[n]
      BY <1>1, <2>3, <2>4, <2>7
  <2> QED
      BY <1>8, <2>8
<1> QED
    BY <1>9, <1>10

LEMMA FlattenFacts ==
    ASSUME NEW V, NEW n \in Nat, NEW s \in [1 .. n -> Seq(V)]
    PROVE  /\ FlattenSeq(s) \in Seq(V)
           /\ (\A k \in 1 .. n : s[k] = <<>>) => FlattenSeq(s) = <<>>
<1>1. PICK f : Joined(f, s, n, V) /\ FlattenSeq(s) = f[n]
    BY FlattenIsJoined
<1>2. f \in [0 .. n -> Seq(V)] /\ f[0] = <<>> /\ \A k \in 1 .. n : f[k] = f[k - 1] \o s[k]
    BY <1>1 DEF Joined
<1>3. ASSUME \A k \in 1 .. n : s[k] = <<>> PROVE f[n] = <<>>
  <2> DEFINE S == {k \in 0 .. n : f[k] = <<>>}
             none == <<>>
  <2>0. none \o none = none
      BY EmptySeq, ConcatEmptySeq
  <2>1. 0 \in S
      BY <1>2
  <2>2. ASSUME NEW k \in 0 .. n - 1, k \in S PROVE k + 1 \in S
    <3> DEFINE j == k + 1
    <3>1. j \in 1 .. n /\ j \in 0 .. n /\ j - 1 = k
        OBVIOUS
    <3> HIDE DEF j
    <3>2. f[j] = f[k] \o s[j] /\ f[k] = none /\ s[j] = none
        BY <1>2, <1>3, <2>2, <3>1
    <3>3. f[j] = none
        BY <2>0, <3>2
    <3> QED
        BY <3>1, <3>3 DEF j
  <2> HIDE DEF S
  <2>3. \A k \in 0 .. n : k \in S
      BY <2>1, <2>2, UpTo
  <2> QED
      BY <2>3 DEF S
<1> QED
    BY <1>1, <1>2, <1>3

=============================================================================
