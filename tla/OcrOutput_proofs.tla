--------------------------- MODULE OcrOutput_proofs ---------------------------
(***************************************************************************)
(* What the parser of OcrOutput does with any text: its loops over the     *)
(* positions of a text unfolded, what they keep of a text that was cut     *)
(* off, what tags and entities leave of a cell, and what is found where a  *)
(* text stands in another.  JobViews_proofs rests on these lemmas.         *)
(*                                                                         *)
(* A loop of the parser goes on at a later position, so what it computes   *)
(* is proved from the last position of the text to the first, as an        *)
(* induction over the least number for which it fails.                     *)
(***************************************************************************)
EXTENDS OcrOutput, TLAPS, SequenceTheorems, FiniteSetTheorems, WellFoundedInduction

(***************************************************************************)
(* Induction along a finite interval                                       *)
(***************************************************************************)
(* Every set of numbers that is not empty has a least one. *)
LEMMA LeastOf ==
    ASSUME NEW T \in SUBSET Nat, T # {}
    PROVE  \E x \in T : \A y \in T : x <= y
<1>1. \E x \in T : \A y \in T : ~ (<<y, x>> \in OpToRel(<, Nat))
  BY WFMin, NatLessThanWellFounded, Zenon
<1>2. \A x, y \in Nat : y < x => <<y, x>> \in OpToRel(<, Nat)
  BY Zenon DEF OpToRel
<1>3. PICK x \in T : \A y \in T : ~ (<<y, x>> \in OpToRel(<, Nat))
  BY <1>1, Zenon
<1>4. \A y \in T : ~(y < x)
  BY <1>2, <1>3, Zenon
<1> QED
  BY <1>4

(* What holds of a number when it holds of all smaller ones, from 0 up to n *)
LEMMA UpTo ==
    ASSUME NEW n \in Nat, NEW P,
           \A k \in 0..n : (\A m \in 0..(k - 1) : m \in P) => k \in P
    PROVE  \A k \in 0..n : k \in P
<1> DEFINE T == {k \in 0..n : k \notin P}
<1> SUFFICES ASSUME T # {} PROVE FALSE
  OBVIOUS
<1>1. PICK x \in T : \A y \in T : x <= y
  <2>1. T \in SUBSET Nat
    OBVIOUS
  <2> HIDE DEF T
  <2> QED
    BY <2>1, LeastOf
<1>2. \A m \in 0..(x - 1) : m \in P
  BY <1>1
<1> QED
  BY <1>1, <1>2

(* What holds of a number when it holds of all larger ones, from n down to 1 *)
LEMMA DownTo ==
    ASSUME NEW n \in Nat, NEW P,
           \A k \in 1..n : (\A m \in (k + 1)..n : m \in P) => k \in P
    PROVE  \A k \in 1..n : k \in P
<1> DEFINE Q == {k \in 0..n : k = 0 \/ n + 1 - k \in P}
<1>1. ASSUME NEW k \in 0..n, \A m \in 0..(k - 1) : m \in Q
      PROVE  k \in Q
  <2>1. CASE k = 0
    BY <2>1
  <2>2. CASE k # 0
    <3>1. \A m \in (n + 1 - k + 1)..n : m \in P
      <4> SUFFICES ASSUME NEW m \in (n + 1 - k + 1)..n PROVE m \in P
        OBVIOUS
      <4>1. n + 1 - m \in 0..(k - 1) /\ n + 1 - m # 0 /\ n + 1 - (n + 1 - m) = m
        OBVIOUS
      <4> QED
        BY <1>1, <4>1
    <3>2. n + 1 - k \in 1..n
      BY <2>2
    <3> QED
      BY <3>1, <3>2
  <2> QED
    BY <2>1, <2>2
<1> HIDE DEF Q
<1>2. \A k \in 0..n : k \in Q
  BY <1>1, UpTo
<1>3. \A k \in 1..n : n + 1 - k \in 0..n /\ n + 1 - k # 0 /\ n + 1 - (n + 1 - k) = k
  OBVIOUS
<1> QED
  BY <1>2, <1>3 DEF Q

(***************************************************************************)
(* Recursion along a finite interval                                       *)
(***************************************************************************)
(* A loop over the positions 1..n: each step ends the result with a piece, *)
(* or goes on at a later position, with a piece in front or without.       *)
IsLoop(step, n) ==
    \A i \in 1..n : step[i].next = None \/ step[i].next \in (i + 1)..n

After(step, g, i) ==
    IF step[i].next = None THEN step[i].piece
    ELSE IF step[i].skips THEN g[step[i].next]
    ELSE step[i].piece \o g[step[i].next]

IsRun(g, step, n) == g = [i \in 1..n |-> After(step, g, i)]

(* For any step there is a function that runs the loop from every position. *)
LEMMA LoopExists ==
    ASSUME NEW n \in Nat, NEW step, IsLoop(step, n)
    PROVE  \E g : IsRun(g, step, n)
<1> DEFINE P == {k \in 1..n : \E g : g = [i \in k..n |-> After(step, g, i)]}
<1>1. ASSUME NEW k \in 1..n, \A m \in (k + 1)..n : m \in P
      PROVE  k \in P
  <2>1. PICK g : g = [i \in (k + 1)..n |-> After(step, g, i)]
    <3>1. CASE k = n
      <4> DEFINE g0 == [i \in (k + 1)..n |-> 0]
      <4>1. (k + 1)..n = {}
        BY <3>1
      <4>2. g0 = [i \in (k + 1)..n |-> After(step, g0, i)]
        BY <4>1
      <4> QED
        BY <4>2
    <3>2. CASE k # n
      <4>1. k + 1 \in (k + 1)..n
        BY <3>2
      <4> QED
        BY <1>1, <4>1
    <3> QED
      BY <3>1, <3>2
  <2> DEFINE h == [i \in k..n |-> IF i = k THEN After(step, g, k) ELSE g[i]]
  <2>2. \A i \in (k + 1)..n : h[i] = g[i]
    OBVIOUS
  <2>3. \A i \in k..n : After(step, h, i) = After(step, g, i)
    <3> SUFFICES ASSUME NEW i \in k..n PROVE After(step, h, i) = After(step, g, i)
      OBVIOUS
    <3>1. i \in 1..n
      OBVIOUS
    <3>2. step[i].next = None \/ step[i].next \in (k + 1)..n
      BY <3>1 DEF IsLoop
    <3> HIDE DEF h
    <3> QED
      BY <2>2, <3>2 DEF After
  <2>4. \A i \in k..n : h[i] = After(step, h, i)
    <3> SUFFICES ASSUME NEW i \in k..n PROVE h[i] = After(step, g, i)
      BY <2>3
    <3>1. CASE i = k
      BY <3>1
    <3>2. CASE i # k
      <4>1. i \in (k + 1)..n
        BY <3>2
      <4>2. g[i] = After(step, g, i)
        BY <2>1, <4>1
      <4> QED
        BY <2>2, <4>1, <4>2
    <3> QED
      BY <3>1, <3>2
  <2>5. h = [i \in k..n |-> After(step, h, i)]
    <3>1. h = [i \in k..n |-> h[i]]
      OBVIOUS
    <3> HIDE DEF h
    <3> QED
      BY <2>4, <3>1
  <2> QED
    BY <2>5
<1> HIDE DEF P
<1>2. \A k \in 1..n : k \in P
  BY <1>1, DownTo
<1>3. CASE n = 0
  <2> DEFINE g0 == [i \in 1..n |-> 0]
  <2>1. 1..n = {}
    BY <1>3
  <2>2. g0 = [i \in 1..n |-> After(step, g0, i)]
    BY <2>1
  <2> QED
    BY <2>2 DEF IsRun
<1>4. CASE n # 0
  BY <1>2, <1>4 DEF P, IsRun
<1> QED
  BY <1>3, <1>4

(* A loop that is a function of its own result at the position before.     *)
IsFold(g, n, V, base, op) ==
    g \in [0..n -> V] /\ g[0] = base /\ \A k \in 1..n : g[k] = op[k][g[k - 1]]

(* For any operation there is a function that applies it from n down to 1. *)
LEMMA FoldExists ==
    ASSUME NEW n \in Nat, NEW V, NEW base \in V, NEW op,
           \A k \in 1..n : \A v \in V : op[k][v] \in V
    PROVE  \E g : IsFold(g, n, V, base, op)
<1> DEFINE P == {k \in 0..n : \E g \in [0..k -> V] :
                    g[0] = base /\ \A m \in 1..k : g[m] = op[m][g[m - 1]]}
<1>1. ASSUME NEW k \in 0..n, \A m \in 0..(k - 1) : m \in P
      PROVE  k \in P
  <2>1. CASE k = 0
    <3> DEFINE g0 == [i \in 0..0 |-> base]
    <3>1. g0 \in [0..0 -> V] /\ g0[0] = base /\ 1..0 = {}
      OBVIOUS
    <3> HIDE DEF g0
    <3> QED
      BY <2>1, <3>1
  <2>2. CASE k # 0
    <3>1. k - 1 \in 0..(k - 1)
      BY <2>2
    <3>2. PICK g \in [0..(k - 1) -> V] :
             g[0] = base /\ \A m \in 1..(k - 1) : g[m] = op[m][g[m - 1]]
      BY <1>1, <3>1
    <3> DEFINE h == [i \in 0..k |-> IF i = k THEN op[k][g[k - 1]] ELSE g[i]]
    <3>3. h[k] = op[k][g[k - 1]] /\ h[k] \in V
      <4>1. g[k - 1] \in V /\ k \in 1..n
        BY <2>2, <3>1
      <4> QED
        BY <4>1
    <3>4. \A i \in 0..(k - 1) : h[i] = g[i] /\ h[i] \in V
      OBVIOUS
    <3>5. h \in [0..k -> V]
      <4>1. h = [i \in 0..k |-> h[i]]
        OBVIOUS
      <4>2. \A i \in 0..k : i = k \/ i \in 0..(k - 1)
        OBVIOUS
      <4> HIDE DEF h
      <4>3. \A i \in 0..k : h[i] \in V
        BY <3>3, <3>4, <4>2
      <4> QED
        BY <4>1, <4>3
    <3> HIDE DEF h
    <3>6. h[0] = base
      BY <2>2, <3>2, <3>4
    <3>7. ASSUME NEW m \in 1..k PROVE h[m] = op[m][h[m - 1]]
      <4>1. h[m - 1] = g[m - 1]
        BY <3>4
      <4>2. CASE m = k
        BY <3>3, <4>1, <4>2
      <4>3. CASE m # k
        <5>1. m \in 1..(k - 1) /\ m \in 0..(k - 1)
          BY <4>3
        <5> QED
          BY <3>2, <3>4, <4>1, <5>1
      <4> QED
        BY <4>2, <4>3
    <3> QED
      BY <3>5, <3>6, <3>7
  <2> QED
    BY <2>1, <2>2
<1> HIDE DEF P
<1>2. \A k \in 0..n : k \in P
  BY <1>1, UpTo
<1> QED
  BY <1>2 DEF P, IsFold

(***************************************************************************)
(* Sequences put together                                                  *)
(***************************************************************************)
(* A function on 1..n is a sequence of length n. *)
LEMMA FcnIsSeq ==
    ASSUME NEW T, NEW n \in Nat, NEW f \in [1..n -> T]
    PROVE  f \in Seq(T) /\ Len(f) = n /\ DOMAIN f = 1..n
  BY SeqDef, LenProperties

(* F[k] is what the first k of the sequences make.                         *)
ArePartsOf(F, seqs) ==
    /\ DOMAIN F = 0..Len(seqs)
    /\ F[0] = <<>> /\ F[Len(seqs)] = FlattenSeq(seqs)
    /\ \A k \in 1..Len(seqs) : F[k] = F[k - 1] \o seqs[k]
    /\ \A k \in 0..Len(seqs) : Len(F[k]) \in Nat
    /\ \A k \in 1..Len(seqs) : Len(seqs[k]) \in Nat /\ Len(F[k]) = Len(F[k - 1]) + Len(seqs[k])
    /\ \A k \in 0..Len(seqs) : \A m \in 0..k :
         Len(F[m]) <= Len(F[k]) /\ \A j \in 1..Len(F[m]) : F[k][j] = F[m][j]
    /\ \A k \in 1..Len(seqs) : \A j \in 1..Len(seqs[k]) :
         FlattenSeq(seqs)[Len(F[k - 1]) + j] = seqs[k][j]

(* FlattenSeq puts sequences together one after the other, of any length. *)
LEMMA FlattenParts ==
    ASSUME NEW S, NEW seqs \in Seq(Seq(S))
    PROVE  \E F \in [0..Len(seqs) -> Seq(S)] : ArePartsOf(F, seqs)
<1> DEFINE n == Len(seqs)
           op == [k \in 1..n |-> [v \in Seq(S) |-> v \o seqs[k]]]
<1>1. n \in Nat /\ \A k \in 1..n : seqs[k] \in Seq(S)
  BY LenProperties, ElementOfSeq
<1> HIDE DEF n
<1>2. \A k \in 1..n : \A v \in Seq(S) : op[k][v] \in Seq(S)
  BY <1>1, ConcatProperties
<1>3. <<>> \in Seq(S)
  BY EmptySeq
<1>4. PICK F : IsFold(F, n, Seq(S), <<>>, op)
  BY <1>1, <1>2, <1>3, FoldExists
<1>4a. /\ F \in [0..n -> Seq(S)] /\ F[0] = <<>> /\ \A k \in 1..n : F[k] = op[k][F[k - 1]]
       /\ DOMAIN F = 0..n
  <2> HIDE DEF op
  <2> QED
    BY <1>4 DEF IsFold
<1>5. \A k \in 1..n : F[k] = F[k - 1] \o seqs[k]
  <2> SUFFICES ASSUME NEW k \in 1..n PROVE F[k] = F[k - 1] \o seqs[k]
    OBVIOUS
  <2>1. k - 1 \in 0..n
    BY <1>1
  <2>2. F[k - 1] \in Seq(S) /\ F[k] = op[k][F[k - 1]]
    BY <1>4a, <2>1
  <2> QED
    BY <2>2
<1> HIDE DEF op
<1>6. F[n] = FlattenSeq(seqs)
  <2>1. CASE n = 0
    <3>1. seqs = <<>>
      BY <2>1, EmptySeq DEF n
    <3> QED
      BY <1>4a, <2>1, <3>1 DEF FlattenSeq, n
  <2>2. CASE n # 0
    <3> DEFINE h == [i \in 1..n |-> F[i]]
    <3>1. h = [i \in 1..n |-> IF i = 1 THEN seqs[i] ELSE h[i - 1] \o seqs[i]]
      <4>1. \A i \in 1..n : F[i] = IF i = 1 THEN seqs[i] ELSE h[i - 1] \o seqs[i]
        <5> SUFFICES ASSUME NEW i \in 1..n
                     PROVE  F[i] = IF i = 1 THEN seqs[i] ELSE h[i - 1] \o seqs[i]
          OBVIOUS
        <5>1. CASE i = 1
          <6>0. i - 1 = 0
            BY <5>1
          <6>1. F[i] = <<>> \o seqs[i] /\ seqs[i] \in Seq(S)
            BY <1>1, <1>4a, <1>5, <6>0
          <6> QED
            BY <5>1, <6>1, ConcatEmptySeq
        <5>2. CASE i # 1
          <6>1. i - 1 \in 1..n
            BY <1>1, <5>2
          <6> QED
            BY <1>5, <5>2, <6>1
        <5> QED
          BY <5>1, <5>2
      <4>2. h = [i \in 1..n |-> h[i]] /\ \A i \in 1..n : h[i] = F[i]
        OBVIOUS
      <4> HIDE DEF h
      <4> QED
        BY <4>1, <4>2
    <3> HIDE DEF h
    <3>2. PICK f : /\ f = [i \in 1..n |-> IF i = 1 THEN seqs[i] ELSE f[i - 1] \o seqs[i]]
                   /\ FlattenSeq(seqs) = f[n]
      <4> DEFINE c == CHOOSE f : f = [i \in 1..n |-> IF i = 1 THEN seqs[i] ELSE f[i - 1] \o seqs[i]]
      <4>1. c = [i \in 1..n |-> IF i = 1 THEN seqs[i] ELSE c[i - 1] \o seqs[i]]
        BY <3>1
      <4>2. FlattenSeq(seqs) = c[n]
        BY <2>2 DEF FlattenSeq, n
      <4> HIDE DEF c
      <4> QED
        BY <4>1, <4>2
    <3> DEFINE P == {k \in 0..n : k = 0 \/ f[k] = F[k]}
    <3>3. ASSUME NEW k \in 0..n, \A m \in 0..(k - 1) : m \in P
          PROVE  k \in P
      <4>1. CASE k = 0
        BY <4>1
      <4>2. CASE k = 1
        <5>0. 1 \in 1..n /\ 1 - 1 = 0
          BY <1>1, <4>2
        <5>1. F[1] = <<>> \o seqs[1] /\ seqs[1] \in Seq(S)
          BY <1>1, <1>4a, <1>5, <5>0
        <5>2. F[1] = seqs[1]
          BY <5>1, ConcatEmptySeq
        <5> QED
          BY <3>2, <4>2, <5>0, <5>2
      <4>3. CASE k > 1
        <5>1. k - 1 \in P /\ k - 1 # 0 /\ k \in 1..n
          BY <1>1, <3>3, <4>3
        <5>2. f[k - 1] = F[k - 1]
          BY <5>1
        <5>3. f[k] = f[k - 1] \o seqs[k]
          <6>1. k # 1
            BY <4>3
          <6> QED
            BY <3>2, <5>1, <6>1
        <5> QED
          BY <1>5, <5>1, <5>2, <5>3
      <4> QED
        BY <4>1, <4>2, <4>3
    <3> HIDE DEF P
    <3>4. \A k \in 0..n : k \in P
      BY <1>1, <3>3, UpTo
    <3>5. n \in 0..n /\ n # 0
      BY <1>1, <2>2
    <3>6. f[n] = F[n]
      BY <3>4, <3>5 DEF P
    <3> QED
      BY <3>2, <3>6
  <2> QED
    BY <2>1, <2>2
<1>7. ASSUME NEW k \in 1..n
      PROVE  /\ k - 1 \in 0..n /\ k \in 0..n
             /\ F[k - 1] \in Seq(S) /\ F[k] \in Seq(S) /\ seqs[k] \in Seq(S)
             /\ Len(F[k - 1]) \in Nat /\ Len(seqs[k]) \in Nat
             /\ Len(F[k]) = Len(F[k - 1]) + Len(seqs[k])
             /\ \A j \in 1..Len(F[k]) :
                  F[k][j] = IF j <= Len(F[k - 1]) THEN F[k - 1][j] ELSE seqs[k][j - Len(F[k - 1])]
  <2>1. k - 1 \in 0..n /\ k \in 0..n
    BY <1>1
  <2>2. F[k - 1] \in Seq(S) /\ F[k] \in Seq(S) /\ seqs[k] \in Seq(S)
    BY <1>1, <1>4a, <2>1
  <2>3. Len(F[k - 1]) \in Nat /\ Len(seqs[k]) \in Nat
    BY <2>2, LenProperties
  <2>4. F[k] = F[k - 1] \o seqs[k]
    BY <1>5
  <2>5. ASSUME NEW a \in Seq(S), NEW b \in Seq(S)
        PROVE  /\ Len(a \o b) = Len(a) + Len(b)
               /\ \A j \in 1..Len(a \o b) : (a \o b)[j] = IF j <= Len(a) THEN a[j] ELSE b[j - Len(a)]
    BY ConcatProperties
  <2>6. /\ Len(F[k]) = Len(F[k - 1]) + Len(seqs[k])
        /\ \A j \in 1..Len(F[k]) :
             F[k][j] = IF j <= Len(F[k - 1]) THEN F[k - 1][j] ELSE seqs[k][j - Len(F[k - 1])]
    <3> DEFINE a == F[k - 1]
               b == seqs[k]
               c == F[k]
    <3>1. a \in Seq(S) /\ b \in Seq(S) /\ c = a \o b
      BY <2>2, <2>4
    <3> HIDE DEF a, b, c
    <3>2. /\ Len(c) = Len(a) + Len(b)
          /\ \A j \in 1..Len(c) : c[j] = IF j <= Len(a) THEN a[j] ELSE b[j - Len(a)]
      BY <2>5, <3>1
    <3> QED
      BY <3>2 DEF a, b, c
  <2> QED
    BY <2>1, <2>2, <2>3, <2>6
<1>8. \A k \in 0..n : Len(F[k]) \in Nat
  BY <1>4a, LenProperties
<1> DEFINE Q == {k \in 0..n : \A m \in 0..k :
                    Len(F[m]) <= Len(F[k]) /\ \A j \in 1..Len(F[m]) : F[k][j] = F[m][j]}
<1>9. ASSUME NEW k \in 0..n, \A m \in 0..(k - 1) : m \in Q
      PROVE  k \in Q
  <2> SUFFICES ASSUME NEW m \in 0..k
               PROVE  Len(F[m]) <= Len(F[k]) /\ \A j \in 1..Len(F[m]) : F[k][j] = F[m][j]
    OBVIOUS
  <2>1. CASE m = k
    BY <1>8, <2>1
  <2>2. CASE m # k
    <3>1. k \in 1..n /\ k - 1 \in 0..(k - 1) /\ m \in 0..(k - 1) /\ k - 1 \in 0..n
      BY <1>1, <2>2
    <3>2. Len(F[m]) <= Len(F[k - 1]) /\ \A j \in 1..Len(F[m]) : F[k - 1][j] = F[m][j]
      BY <1>9, <3>1
    <3>2a. k - 1 \in 0..n /\ m \in 0..n
      BY <1>1, <3>1
    <3>3. Len(F[m]) \in Nat /\ Len(F[k - 1]) \in Nat /\ Len(F[k - 1]) <= Len(F[k])
      <4>1. Len(F[k]) = Len(F[k - 1]) + Len(seqs[k]) /\ Len(seqs[k]) \in Nat
        BY <1>7, <3>1
      <4>2. Len(F[m]) \in Nat /\ Len(F[k - 1]) \in Nat
        BY <1>8, <3>2a
      <4>3. \A a, b, c \in Nat : a = b + c => b <= a
        OBVIOUS
      <4> QED
        BY <1>8, <3>1, <4>1, <4>2, <4>3
    <3>4. ASSUME NEW j \in 1..Len(F[m]) PROVE F[k][j] = F[m][j]
      <4>1. j \in 1..Len(F[k]) /\ j <= Len(F[k - 1])
        BY <1>8, <3>2, <3>3
      <4> QED
        BY <1>7, <3>1, <3>2, <4>1
    <3> QED
      BY <1>8, <3>1, <3>2, <3>3, <3>4
  <2> QED
    BY <2>1, <2>2
<1> HIDE DEF Q
<1>10. \A k \in 0..n : k \in Q
  BY <1>1, <1>9, UpTo
<1>11. \A k \in 0..n : \A m \in 0..k :
         Len(F[m]) <= Len(F[k]) /\ \A j \in 1..Len(F[m]) : F[k][j] = F[m][j]
  BY <1>10 DEF Q
<1>12. ASSUME NEW k \in 1..n, NEW j \in 1..Len(seqs[k])
       PROVE  F[n][Len(F[k - 1]) + j] = seqs[k][j]
  <2> DEFINE p == Len(F[k - 1])
  <2>1. p \in Nat /\ p + j \in 1..Len(F[k]) /\ ~(p + j <= p) /\ p + j - p = j
    <3>1. Len(F[k]) = p + Len(seqs[k]) /\ Len(seqs[k]) \in Nat /\ p \in Nat
      BY <1>7
    <3> HIDE DEF p
    <3> QED
      BY <3>1
  <2>2. F[k][p + j] = seqs[k][j]
    <3> HIDE DEF p
    <3>0. \A i \in 1..Len(F[k]) : F[k][i] = IF i <= p THEN F[k - 1][i] ELSE seqs[k][i - p]
      BY <1>7 DEF p
    <3> DEFINE i == p + j
    <3> HIDE DEF p, i
    <3>1. i \in 1..Len(F[k]) /\ ~(i <= p) /\ i - p = j
      BY <2>1 DEF i
    <3>2. F[k][i] = seqs[k][i - p]
      BY <3>0, <3>1
    <3> QED
      BY <3>1, <3>2 DEF i
  <2>3. n \in 0..n /\ k \in 0..n
    BY <1>1
  <2>4. F[n][p + j] = F[k][p + j]
    BY <1>11, <2>1, <2>3
  <2> QED
    BY <2>2, <2>4
<1>13. F \in [0..n -> Seq(S)] /\ ArePartsOf(F, seqs)
  <2>1. DOMAIN F = 0..n
    BY <1>4a
  <2>2. \A k \in 1..n : Len(seqs[k]) \in Nat /\ Len(F[k]) = Len(F[k - 1]) + Len(seqs[k])
    BY <1>7
  <2>3. \A k \in 1..n : \A j \in 1..Len(seqs[k]) :
          FlattenSeq(seqs)[Len(F[k - 1]) + j] = seqs[k][j]
    BY <1>6, <1>12
  <2>4. F[0] = <<>>
    BY <1>4a
  <2> QED
    BY <1>4a, <1>5, <1>6, <1>8, <1>11, <2>1, <2>2, <2>3, <2>4 DEF ArePartsOf, n
<1> QED
  BY <1>13 DEF n

-----------------------------------------------------------------------------

(***************************************************************************)
(* Scanning                                                                *)
(***************************************************************************)
(* FirstIn finds a token of S at i or later, with none of S before it, or  *)
(* there is none.                                                          *)
LEMMA FirstInFacts ==
    ASSUME NEW s, Len(s) \in Nat, NEW S, NEW i \in Nat \ {0}
    PROVE  /\ FirstIn(s, S, i) = None \/ FirstIn(s, S, i) \in i..Len(s)
           /\ FirstIn(s, S, i) = None => \A k \in i..Len(s) : s[k] \notin S
           /\ FirstIn(s, S, i) # None =>
                /\ s[FirstIn(s, S, i)] \in S
                /\ \A k \in i..(FirstIn(s, S, i) - 1) : s[k] \notin S
<1> DEFINE at == {k \in i..Len(s) : s[k] \in S}
<1>1. CASE at = {}
  BY <1>1 DEF FirstIn, None
<1>2. CASE at # {}
  <2>1. \E x \in at : \A y \in at : x <= y
    <3>1. at \in SUBSET Nat
      OBVIOUS
    <3> HIDE DEF at
    <3> QED
      BY <1>2, <3>1, LeastOf
  <2> DEFINE x == CHOOSE k \in at : \A l \in at : k <= l
  <2>2. x \in at /\ \A y \in at : x <= y
    <3> HIDE DEF at
    <3> QED
      BY <2>1
  <2>3. FirstIn(s, S, i) = x
    BY <1>2 DEF FirstIn
  <2> HIDE DEF x
  <2>4. \A k \in i..(x - 1) : k \in i..Len(s) /\ ~(x <= k)
    BY <2>2
  <2>5. \A k \in i..(x - 1) : s[k] \notin S
    BY <2>2, <2>4
  <2>6. x # None
    BY <2>2 DEF None
  <2> QED
    BY <2>2, <2>3, <2>5, <2>6
<1> QED
  BY <1>1, <1>2

(* The first token of S is where one stands and none stands before. *)
LEMMA FirstInIs ==
    ASSUME NEW s, Len(s) \in Nat, NEW S, NEW i \in Nat \ {0}, NEW k \in i..Len(s),
           s[k] \in S, \A l \in i..(k - 1) : s[l] \notin S
    PROVE  FirstIn(s, S, i) = k
<1> DEFINE f == FirstIn(s, S, i)
<1>1. /\ f = None \/ f \in i..Len(s)
      /\ f = None => \A l \in i..Len(s) : s[l] \notin S
      /\ f # None => s[f] \in S /\ \A l \in i..(f - 1) : s[l] \notin S
  BY FirstInFacts
<1> HIDE DEF f
<1>2. f # None
  BY <1>1
<1>3. ~(f < k) /\ ~(k < f)
  BY <1>1, <1>2
<1> QED
  BY <1>1, <1>2, <1>3 DEF f

(* Where no token of S stands, none is found. *)
LEMMA FirstInNone ==
    ASSUME NEW s, Len(s) \in Nat, NEW S, NEW i \in Nat \ {0},
           \A l \in i..Len(s) : s[l] \notin S
    PROVE  FirstIn(s, S, i) = None
<1>1. FirstIn(s, S, i) \notin i..Len(s)
  <2>1. FirstIn(s, S, i) # None => s[FirstIn(s, S, i)] \in S
    BY FirstInFacts
  <2>2. None \notin i..Len(s)
    BY DEF None
  <2> QED
    BY <2>1, <2>2
<1> QED
  BY <1>1, FirstInFacts

(* A scan passes over what it does not look for.                           *)
LEMMA FirstInSkips ==
    ASSUME NEW s, Len(s) \in Nat, NEW S, NEW i \in Nat \ {0}, NEW k \in Nat, i <= k,
           \A l \in i..(k - 1) : l <= Len(s) => s[l] \notin S
    PROVE  FirstIn(s, S, i) = FirstIn(s, S, k)
<1> DEFINE f == FirstIn(s, S, k)
<1>0. k \in Nat \ {0}
  OBVIOUS
<1>1. /\ f = None \/ f \in k..Len(s)
      /\ f = None => \A l \in k..Len(s) : s[l] \notin S
      /\ f # None => s[f] \in S /\ \A l \in k..(f - 1) : s[l] \notin S
  BY <1>0, FirstInFacts
<1> HIDE DEF f
<1>2. CASE f = None
  <2>1. \A l \in i..Len(s) : s[l] \notin S
    BY <1>1, <1>2
  <2>2. FirstIn(s, S, i) = None
    BY <2>1, FirstInNone
  <2> QED
    BY <1>2, <2>2 DEF f
<1>3. CASE f # None
  <2>1. f \in i..Len(s) /\ s[f] \in S /\ \A l \in i..(f - 1) : s[l] \notin S
    BY <1>1, <1>3
  <2>2. FirstIn(s, S, i) = f
    BY <2>1, FirstInIs
  <2> QED
    BY <2>2 DEF f
<1> QED
  BY <1>2, <1>3

(* A scan of the beginning of a text finds what a scan of the whole finds, *)
(* if that is within the beginning.                                        *)
LEMMA FirstInPrefix ==
    ASSUME NEW s, Len(s) \in Nat, NEW t, Len(t) \in Nat, Len(t) <= Len(s),
           \A l \in 1..Len(t) : t[l] = s[l],
           NEW S, NEW i \in Nat \ {0}
    PROVE  FirstIn(t, S, i) = IF FirstIn(s, S, i) <= Len(t) THEN FirstIn(s, S, i) ELSE None
<1> DEFINE f == FirstIn(s, S, i)
<1>1. /\ f = None \/ f \in i..Len(s)
      /\ f = None => \A l \in i..Len(s) : s[l] \notin S
      /\ f # None => s[f] \in S /\ \A l \in i..(f - 1) : s[l] \notin S
  BY FirstInFacts
<1> HIDE DEF f
<1>2. CASE f # None /\ f <= Len(t)
  <2>1. f \in i..Len(t) /\ t[f] \in S /\ \A l \in i..(f - 1) : t[l] \notin S
    BY <1>1, <1>2
  <2>2. FirstIn(t, S, i) = f
    BY <2>1, FirstInIs
  <2> QED
    BY <1>2, <2>2 DEF f
<1>3. CASE ~(f # None /\ f <= Len(t))
  <2>1. \A l \in i..Len(t) : t[l] \notin S
    BY <1>1, <1>3
  <2>2. FirstIn(t, S, i) = None
    BY <2>1, FirstInNone
  <2> QED
    BY <1>3, <2>2 DEF f
<1> QED
  BY <1>2, <1>3

(***************************************************************************)
(* Detections                                                              *)
(***************************************************************************)
DStart(s, i) == FirstIn(s, {Det}, i)
DEnd(s, i)   == FirstIn(s, {DetEnd}, DStart(s, i) + 1)
DNext(s, i)  == FirstIn(s, {Det}, DEnd(s, i) + 1)
DUpTo(s, i)  == IF DNext(s, i) = None THEN Len(s) ELSE DNext(s, i) - 1
DHead(s, i)  == DetectionHeader(SubSeq(s, DStart(s, i) + 1, DEnd(s, i) - 1))
DFound(s, i) ==
    LET h == CHOOSE x \in DHead(s, i) : TRUE
    IN  [label |-> h.label, bbox |-> h.bbox, text |-> SubSeq(s, DEnd(s, i) + 1, DUpTo(s, i))]
DOver(s, i)  == DStart(s, i) = None \/ DEnd(s, i) = None

DFrom(f, s) ==
    \A i \in 1..(Len(s) + 1) :
        f[i] = IF DOver(s, i) THEN <<>>
               ELSE IF DHead(s, i) = {} THEN f[DEnd(s, i) + 1]
               ELSE <<DFound(s, i)>> \o f[DUpTo(s, i) + 1]

(* What the loop of parse_detections finds stands in this order in the text. *)
LEMMA DPositions ==
    ASSUME NEW s, Len(s) \in Nat, NEW i \in 1..(Len(s) + 1), ~DOver(s, i)
    PROVE  /\ DStart(s, i) \in i..Len(s) /\ s[DStart(s, i)] = Det
           /\ DEnd(s, i) \in (DStart(s, i) + 1)..Len(s)
           /\ DUpTo(s, i) \in DEnd(s, i)..Len(s)
           /\ DNext(s, i) # None => DNext(s, i) \in (DEnd(s, i) + 1)..Len(s)
<1>1. DStart(s, i) \in i..Len(s) /\ s[DStart(s, i)] = Det
  BY FirstInFacts DEF DOver, DStart
<1>2. DEnd(s, i) \in (DStart(s, i) + 1)..Len(s)
  <2>1. DStart(s, i) + 1 \in Nat \ {0}
    BY <1>1
  <2> QED
    BY <2>1, FirstInFacts DEF DOver, DEnd
<1>3. DNext(s, i) # None => DNext(s, i) \in (DEnd(s, i) + 1)..Len(s)
  <2>1. DEnd(s, i) + 1 \in Nat \ {0}
    BY <1>1, <1>2
  <2> QED
    BY <2>1, FirstInFacts DEF DNext
<1>4. DUpTo(s, i) \in DEnd(s, i)..Len(s)
  <2> DEFINE e == DEnd(s, i)
             x == DNext(s, i)
  <2>1. e \in 1..Len(s) /\ (x # None => x \in (e + 1)..Len(s))
    BY <1>1, <1>2, <1>3
  <2>2. DUpTo(s, i) = IF x = None THEN Len(s) ELSE x - 1
    BY DEF DUpTo
  <2> HIDE DEF e, x
  <2>3. DUpTo(s, i) \in e..Len(s)
    BY <2>1, <2>2
  <2> QED
    BY <2>3 DEF e
<1> QED
  BY <1>1, <1>2, <1>3, <1>4

(* Detections is a loop over the positions of the text. *)
LEMMA DetectionsUnfold ==
    ASSUME NEW s, Len(s) \in Nat
    PROVE  \E f : Detections(s) = f[1] /\ DFrom(f, s)
<1> DEFINE n == Len(s) + 1
           next(i) == IF DOver(s, i) THEN None
                      ELSE IF DHead(s, i) = {} THEN DEnd(s, i) + 1 ELSE DUpTo(s, i) + 1
           step == [i \in 1..n |->
                      [next |-> next(i), skips |-> DHead(s, i) = {},
                       piece |-> IF DOver(s, i) THEN <<>> ELSE <<DFound(s, i)>>]]
           body(f, i) == IF DOver(s, i) THEN <<>>
                         ELSE IF DHead(s, i) = {} THEN f[DEnd(s, i) + 1]
                         ELSE <<DFound(s, i)>> \o f[DUpTo(s, i) + 1]
<1>1. n \in Nat
  OBVIOUS
<1>2. \A i \in 1..n : next(i) = None \/ next(i) \in (i + 1)..n
  <2> SUFFICES ASSUME NEW i \in 1..n, ~DOver(s, i) PROVE next(i) \in (i + 1)..n
    OBVIOUS
  <2>1. /\ DStart(s, i) \in i..Len(s) /\ DEnd(s, i) \in (DStart(s, i) + 1)..Len(s)
        /\ DUpTo(s, i) \in DEnd(s, i)..Len(s)
    BY DPositions
  <2> QED
    BY <2>1
<1>3. \A i \in 1..n : ~DOver(s, i) => next(i) # None
  <2> SUFFICES ASSUME NEW i \in 1..n, ~DOver(s, i) PROVE next(i) # None
    OBVIOUS
  <2>1. /\ DStart(s, i) \in i..Len(s) /\ DEnd(s, i) \in (DStart(s, i) + 1)..Len(s)
        /\ DUpTo(s, i) \in DEnd(s, i)..Len(s)
    BY DPositions
  <2> QED
    BY <2>1 DEF None
<1>4. \A i \in 1..n : /\ step[i].next = next(i) /\ step[i].skips = (DHead(s, i) = {})
                       /\ step[i].piece = IF DOver(s, i) THEN <<>> ELSE <<DFound(s, i)>>
  OBVIOUS
<1> HIDE DEF step
<1>5. IsLoop(step, n)
  BY <1>2, <1>4 DEF IsLoop
<1>6. PICK g : IsRun(g, step, n)
  BY <1>1, <1>5, LoopExists
<1>7. \A i \in 1..n : After(step, g, i) = body(g, i)
  <2> SUFFICES ASSUME NEW i \in 1..n PROVE After(step, g, i) = body(g, i)
    OBVIOUS
  <2>1. CASE DOver(s, i)
    BY <1>4, <2>1 DEF After
  <2>2. CASE ~DOver(s, i)
    BY <1>3, <1>4, <2>2 DEF After
  <2> QED
    BY <2>1, <2>2
<1>8. g = [i \in 1..n |-> body(g, i)]
  <2>1. g = [i \in 1..n |-> After(step, g, i)]
    BY <1>6 DEF IsRun
  <2> HIDE DEF body
  <2> QED
    BY <1>7, <2>1
<1> DEFINE f == CHOOSE f : f = [i \in 1..n |-> body(f, i)]
<1>9. f = [i \in 1..n |-> body(f, i)]
  <2> HIDE DEF body
  <2> QED
    BY <1>8
<1>10. Detections(s) = f[1]
  BY DEF Detections, f, body, DOver, DStart, DEnd, DNext, DUpTo, DHead, DFound
<1> HIDE DEF f
<1>11. DFrom(f, s)
  <2>1. \A i \in 1..n : f[i] = body(f, i)
    <3> HIDE DEF body
    <3> QED
      BY <1>9
  <2> QED
    BY <2>1 DEF DFrom
<1> QED
  BY <1>10, <1>11

Found(T) == [label : Seq(T), bbox : T, text : Seq(T)]

(* A sequence with one entry put in front *)
LEMMA Prepended ==
    ASSUME NEW S, NEW a \in S, NEW x \in Seq(S)
    PROVE  /\ <<a>> \o x \in Seq(S) /\ Len(<<a>> \o x) = Len(x) + 1
           /\ (<<a>> \o x)[1] = a
           /\ \A k \in 1..Len(x) : (<<a>> \o x)[k + 1] = x[k]
<1>1. <<a>> \in Seq(S) /\ Len(<<a>>) = 1 /\ <<a>>[1] = a /\ Len(x) \in Nat
  BY LenProperties
<1> DEFINE b == <<a>>
           c == b \o x
<1>2. /\ c \in Seq(S) /\ Len(c) = Len(b) + Len(x)
      /\ \A i \in 1..(Len(b) + Len(x)) : c[i] = IF i <= Len(b) THEN b[i] ELSE x[i - Len(b)]
  <2> HIDE DEF b
  <2> QED
    BY <1>1, ConcatProperties DEF b
<1> HIDE DEF b, c
<1>3. Len(b) = 1 /\ b[1] = a
  BY <1>1 DEF b
<1>4. Len(c) = Len(x) + 1 /\ c[1] = a
  BY <1>1, <1>2, <1>3
<1>5. ASSUME NEW k \in 1..Len(x) PROVE c[k + 1] = x[k]
  <2>1. k + 1 \in 1..(Len(b) + Len(x)) /\ ~(k + 1 <= Len(b)) /\ k + 1 - Len(b) = k
    BY <1>1, <1>3
  <2> QED
    BY <1>2, <2>1
<1> QED
  BY <1>2, <1>4, <1>5 DEF b, c

(* A part of a text                                                        *)
LEMMA PartOf ==
    ASSUME NEW T, NEW s \in Seq(T), NEW a \in Nat \ {0}, NEW b \in Int, b <= Len(s)
    PROVE  /\ SubSeq(s, a, b) \in Seq(T)
           /\ Len(SubSeq(s, a, b)) = IF a <= b THEN b - a + 1 ELSE 0
           /\ \A k \in 1..(b - a + 1) : SubSeq(s, a, b)[k] = s[a + k - 1]
<1>1. \A k \in a..b : s[k] \in T
  <2>1. \A k \in a..b : k \in 1..Len(s)
    BY LenProperties
  <2> QED
    BY <2>1, ElementOfSeq
<1>2. a \in Int
  OBVIOUS
<1> QED
  BY <1>1, <1>2, SubSeqProperties

(* A header that is accepted has a label and a box of its own tokens. *)
LEMMA HeaderFacts ==
    ASSUME NEW T, NEW h \in Seq(T), DetectionHeader(h) # {}
    PROVE  LET x == CHOOSE x \in DetectionHeader(h) : TRUE
           IN  x.label \in Seq(T) /\ x.bbox \in T
<1> DEFINE at == {k \in DOMAIN h : h[k] \in Boxes \cup BadBoxes}
           last == CHOOSE k \in at : \A l \in at : l <= k
<1>1. Len(h) \in Nat /\ DOMAIN h = 1..Len(h)
  BY LenProperties
<1>2. at # {} /\ DetectionHeader(h) = {[label |-> SubSeq(h, 1, last - 1), bbox |-> h[last]]}
  BY DEF DetectionHeader
<1>3. last \in at
  <2>1. \E k \in at : \A l \in at : l <= k
    <3> DEFINE mirror == {Len(h) - k : k \in at}
    <3>1. mirror \in SUBSET Nat /\ mirror # {}
      BY <1>1, <1>2
    <3> HIDE DEF mirror
    <3>2. PICK x \in mirror : \A y \in mirror : x <= y
      BY <3>1, LeastOf
    <3>3. PICK k \in at : x = Len(h) - k
      BY <3>2 DEF mirror
    <3>4. \A l \in at : Len(h) - k <= Len(h) - l
      BY <3>2, <3>3 DEF mirror
    <3>5. \A l \in at : l <= k
      BY <1>1, <3>4
    <3> QED
      BY <3>5
  <2> HIDE DEF at
  <2> QED
    BY <2>1
<1> HIDE DEF last
<1>4. last \in 1..Len(h)
  BY <1>1, <1>3
<1>5. SubSeq(h, 1, last - 1) \in Seq(T) /\ h[last] \in T
  <2>1. last - 1 \in Int /\ last - 1 <= Len(h)
    BY <1>1, <1>4
  <2> QED
    BY <1>4, <2>1, PartOf, ElementOfSeq
<1> DEFINE label == SubSeq(h, 1, last - 1)
           bbox == h[last]
           x == CHOOSE x \in DetectionHeader(h) : TRUE
<1> HIDE DEF label, bbox
<1>6. x = [label |-> label, bbox |-> bbox]
  BY <1>2 DEF label, bbox
<1> HIDE DEF x
<1>7. x.label = label /\ x.bbox = bbox
  BY <1>6
<1>8. x.label \in Seq(T) /\ x.bbox \in T
  BY <1>5, <1>7 DEF label, bbox
<1> QED
  BY <1>8 DEF x

(* A detection that was found is a record of tokens. *)
LEMMA DFoundType ==
    ASSUME NEW T, NEW s \in Seq(T), NEW i \in 1..(Len(s) + 1), ~DOver(s, i), DHead(s, i) # {}
    PROVE  DFound(s, i) \in Found(T)
<1>1. Len(s) \in Nat
  BY LenProperties
<1>2. /\ DStart(s, i) \in i..Len(s) /\ DEnd(s, i) \in (DStart(s, i) + 1)..Len(s)
      /\ DUpTo(s, i) \in DEnd(s, i)..Len(s)
  BY <1>1, DPositions
<1> DEFINE h == SubSeq(s, DStart(s, i) + 1, DEnd(s, i) - 1)
           t == SubSeq(s, DEnd(s, i) + 1, DUpTo(s, i))
           x == CHOOSE x \in DetectionHeader(h) : TRUE
<1>3. h \in Seq(T) /\ t \in Seq(T)
  <2>1. /\ DStart(s, i) + 1 \in Nat \ {0} /\ DEnd(s, i) + 1 \in Nat \ {0}
        /\ DEnd(s, i) - 1 \in Int /\ DEnd(s, i) - 1 <= Len(s)
        /\ DUpTo(s, i) \in Int /\ DUpTo(s, i) <= Len(s)
    BY <1>1, <1>2
  <2> QED
    BY <2>1, PartOf
<1>4. x.label \in Seq(T) /\ x.bbox \in T
  BY <1>3, HeaderFacts DEF DHead
<1>5. DFound(s, i) = [label |-> x.label, bbox |-> x.bbox, text |-> t]
  BY DEF DFound, DHead
<1> HIDE DEF x, t
<1> QED
  BY <1>3, <1>4, <1>5 DEF Found

(* What is found from any position on is a sequence of detections. *)
LEMMA DetectionsType ==
    ASSUME NEW T, NEW s \in Seq(T), NEW f, DFrom(f, s)
    PROVE  \A i \in 1..(Len(s) + 1) : f[i] \in Seq(Found(T))
<1> DEFINE n == Len(s) + 1
           P == {i \in 1..n : f[i] \in Seq(Found(T))}
<1>1. Len(s) \in Nat /\ n \in Nat
  BY LenProperties
<1>2. ASSUME NEW i \in 1..n, \A m \in (i + 1)..n : m \in P
      PROVE  i \in P
  <2>0. f[i] = IF DOver(s, i) THEN <<>>
               ELSE IF DHead(s, i) = {} THEN f[DEnd(s, i) + 1]
               ELSE <<DFound(s, i)>> \o f[DUpTo(s, i) + 1]
    BY DEF DFrom
  <2>1. CASE DOver(s, i)
    BY <2>0, <2>1, EmptySeq
  <2>2. CASE ~DOver(s, i)
    <3>1. /\ DStart(s, i) \in i..Len(s) /\ DEnd(s, i) \in (DStart(s, i) + 1)..Len(s)
          /\ DUpTo(s, i) \in DEnd(s, i)..Len(s)
      BY <1>1, <2>2, DPositions
    <3>2. DEnd(s, i) + 1 \in (i + 1)..n /\ DUpTo(s, i) + 1 \in (i + 1)..n
      BY <1>1, <3>1
    <3>3. CASE DHead(s, i) = {}
      BY <1>2, <2>0, <2>2, <3>2, <3>3
    <3>4. CASE DHead(s, i) # {}
      <4>1. f[DUpTo(s, i) + 1] \in Seq(Found(T)) /\ DFound(s, i) \in Found(T)
        BY <1>2, <2>2, <3>2, <3>4, DFoundType
      <4>2. <<DFound(s, i)>> \o f[DUpTo(s, i) + 1] \in Seq(Found(T))
        BY <4>1, Prepended
      <4> QED
        BY <2>0, <2>2, <3>4, <4>2
    <3> QED
      BY <3>3, <3>4
  <2> QED
    BY <2>1, <2>2
<1> HIDE DEF P
<1>3. \A i \in 1..n : i \in P
  <2> HIDE DEF n
  <2> QED
    BY <1>1, <1>2, DownTo
<1> QED
  BY <1>3 DEF P

(***************************************************************************)
(* A text that was cut off                                                 *)
(***************************************************************************)
StartsAs(t, s) == Len(t) <= Len(s) /\ \A l \in 1..Len(t) : t[l] = s[l]

(* The two texts have the same parts where both reach. *)
LEMMA SamePart ==
    ASSUME NEW T, NEW s \in Seq(T), NEW t \in Seq(T), StartsAs(t, s),
           NEW a \in Nat \ {0}, NEW b \in Int, b <= Len(t)
    PROVE  SubSeq(t, a, b) = SubSeq(s, a, b)
<1>1. Len(s) \in Nat /\ Len(t) \in Nat /\ b <= Len(s)
  BY LenProperties DEF StartsAs
<1> DEFINE u == SubSeq(t, a, b)
           v == SubSeq(s, a, b)
<1>2. /\ u \in Seq(T) /\ v \in Seq(T) /\ Len(u) = Len(v)
      /\ Len(u) = IF a <= b THEN b - a + 1 ELSE 0
      /\ \A k \in 1..(b - a + 1) : u[k] = t[a + k - 1] /\ v[k] = s[a + k - 1]
  BY <1>1, PartOf
<1> HIDE DEF u, v
<1>3. ASSUME NEW k \in 1..Len(u) PROVE u[k] = v[k]
  <2>1. k \in 1..(b - a + 1) /\ a + k - 1 \in 1..Len(t)
    BY <1>1, <1>2
  <2> QED
    BY <1>2, <2>1 DEF StartsAs
<1>4. u = v
  BY <1>2, <1>3, SeqEqual
<1> QED
  BY <1>4 DEF u, v

(* A scan of the shorter text finds what one of the longer finds, if that  *)
(* is in it.                                                               *)
LEMMA CutScan ==
    ASSUME NEW T, NEW s \in Seq(T), NEW t \in Seq(T), StartsAs(t, s), NEW S, NEW i \in Nat \ {0}
    PROVE  /\ FirstIn(t, S, i) = IF FirstIn(s, S, i) <= Len(t) THEN FirstIn(s, S, i) ELSE None
           /\ FirstIn(t, S, i) # None => FirstIn(s, S, i) = FirstIn(t, S, i)
           /\ FirstIn(t, S, i) = None => FirstIn(s, S, i) = None \/ FirstIn(s, S, i) > Len(t)
<1>1. Len(s) \in Nat /\ Len(t) \in Nat
  BY LenProperties
<1>2. FirstIn(t, S, i) = IF FirstIn(s, S, i) <= Len(t) THEN FirstIn(s, S, i) ELSE None
  BY <1>1, FirstInPrefix DEF StartsAs
<1>3. FirstIn(s, S, i) = None \/ FirstIn(s, S, i) \in i..Len(s)
  BY <1>1, FirstInFacts
<1> DEFINE x == FirstIn(s, S, i)
           y == FirstIn(t, S, i)
<1> HIDE DEF x, y
<1>4. y = (IF x <= Len(t) THEN x ELSE None) /\ (x = None \/ x \in i..Len(s))
  BY <1>2, <1>3 DEF x, y
<1>5. (y # None => x = y) /\ (y = None => x = None \/ x > Len(t))
  BY <1>1, <1>4 DEF None
<1> QED
  BY <1>2, <1>5 DEF x, y

(* The detection that starts from i in a text that was cut off, and in the *)
(* whole.                                                                  *)
LEMMA DCut ==
    ASSUME NEW T, NEW s \in Seq(T), NEW t \in Seq(T), StartsAs(t, s),
           NEW i \in 1..(Len(t) + 1), ~DOver(t, i)
    PROVE  /\ i \in 1..(Len(s) + 1) /\ ~DOver(s, i)
           /\ DEnd(s, i) = DEnd(t, i) /\ DHead(s, i) = DHead(t, i)
           /\ DNext(t, i) # None => DUpTo(s, i) = DUpTo(t, i) /\ DFound(s, i) = DFound(t, i)
           /\ DNext(t, i) = None => DUpTo(t, i) = Len(t) /\ DUpTo(s, i) \in Len(t)..Len(s)
<1>1. Len(s) \in Nat /\ Len(t) \in Nat /\ Len(t) <= Len(s)
  BY LenProperties DEF StartsAs
<1>2. i \in 1..(Len(s) + 1) /\ i \in Nat \ {0}
  BY <1>1
<1>3. /\ DStart(t, i) \in i..Len(t) /\ DEnd(t, i) \in (DStart(t, i) + 1)..Len(t)
      /\ DUpTo(t, i) \in DEnd(t, i)..Len(t)
      /\ DNext(t, i) # None => DNext(t, i) \in (DEnd(t, i) + 1)..Len(t)
  BY <1>1, DPositions
<1>4. DStart(s, i) = DStart(t, i)
  <2>1. DStart(t, i) # None
    BY DEF DOver
  <2> QED
    BY <1>2, <2>1, CutScan DEF DStart
<1>5. DEnd(s, i) = DEnd(t, i)
  <2>1. DEnd(t, i) # None /\ DStart(t, i) + 1 \in Nat \ {0}
    BY <1>3 DEF DOver
  <2> QED
    BY <1>4, <2>1, CutScan DEF DEnd
<1>6. ~DOver(s, i)
  BY <1>4, <1>5 DEF DOver
<1>7. DHead(s, i) = DHead(t, i)
  <2>1. /\ DStart(t, i) + 1 \in Nat \ {0} /\ DEnd(t, i) - 1 \in Int /\ DEnd(t, i) - 1 <= Len(t)
    BY <1>1, <1>3
  <2>2. SubSeq(t, DStart(t, i) + 1, DEnd(t, i) - 1) = SubSeq(s, DStart(t, i) + 1, DEnd(t, i) - 1)
    BY <2>1, SamePart
  <2> QED
    BY <1>4, <1>5, <2>2 DEF DHead
<1>8. DEnd(t, i) + 1 \in Nat \ {0}
  BY <1>3
<1>9. ASSUME DNext(t, i) # None
      PROVE  DUpTo(s, i) = DUpTo(t, i) /\ DFound(s, i) = DFound(t, i)
  <2>1. DNext(s, i) = DNext(t, i)
    BY <1>5, <1>8, <1>9, CutScan DEF DNext
  <2>2. DUpTo(s, i) = DUpTo(t, i)
    BY <1>9, <2>1 DEF DUpTo
  <2>3. DUpTo(t, i) \in Int /\ DUpTo(t, i) <= Len(t)
    BY <1>1, <1>3
  <2>4. SubSeq(t, DEnd(t, i) + 1, DUpTo(t, i)) = SubSeq(s, DEnd(t, i) + 1, DUpTo(t, i))
    BY <1>8, <2>3, SamePart
  <2> QED
    BY <1>5, <1>7, <2>2, <2>4 DEF DFound
<1>10. ASSUME DNext(t, i) = None
       PROVE  DUpTo(t, i) = Len(t) /\ DUpTo(s, i) \in Len(t)..Len(s)
  <2>1. DUpTo(t, i) = Len(t)
    BY <1>10 DEF DUpTo
  <2>2. DNext(s, i) = None \/ DNext(s, i) > Len(t)
    BY <1>5, <1>8, <1>10, CutScan DEF DNext
  <2>3. DUpTo(s, i) \in DEnd(s, i)..Len(s) /\ (DNext(s, i) # None => DNext(s, i) \in Int)
    BY <1>1, <1>2, <1>6, DPositions
  <2> DEFINE x == DNext(s, i)
             u == DUpTo(s, i)
             e == DEnd(s, i)
  <2>4. u = IF x = None THEN Len(s) ELSE x - 1
    BY DEF DUpTo
  <2>5. e \in Int
    BY <1>3, <1>5
  <2> HIDE DEF x, u, e
  <2>6. u \in Len(t)..Len(s)
    BY <1>1, <2>2, <2>3, <2>4, <2>5 DEF x, u, e
  <2> QED
    BY <2>1, <2>6 DEF u
<1> QED
  BY <1>2, <1>5, <1>6, <1>7, <1>9, <1>10

(* All but the last are the same, and the last misses no more than the end *)
(* of its text.                                                            *)
Begin(p, w) ==
    /\ Len(p) <= Len(w)
    /\ \A k \in 1..(Len(p) - 1) : p[k] = w[k]
    /\ p # <<>> => /\ p[Len(p)].label = w[Len(p)].label /\ p[Len(p)].bbox = w[Len(p)].bbox
                   /\ StartsAs(p[Len(p)].text, w[Len(p)].text)

(* From any position on, the shorter text has the detections of the longer *)
(* up to the last one.                                                     *)
LEMMA DetectionsBegin ==
    ASSUME NEW T, NEW s \in Seq(T), NEW t \in Seq(T), StartsAs(t, s),
           NEW f, DFrom(f, t), NEW g, DFrom(g, s)
    PROVE  \A i \in 1..(Len(t) + 1) : Begin(f[i], g[i])
<1> DEFINE n == Len(t) + 1
           P == {i \in 1..n : Begin(f[i], g[i])}
<1>1. Len(s) \in Nat /\ Len(t) \in Nat /\ Len(t) <= Len(s) /\ n \in Nat
  BY LenProperties DEF StartsAs
<1>2. /\ \A i \in 1..n : i \in 1..(Len(s) + 1) /\ f[i] \in Seq(Found(T))
      /\ \A i \in 1..(Len(s) + 1) : g[i] \in Seq(Found(T))
  BY <1>1, DetectionsType
<1>3. ASSUME NEW i \in 1..n, \A m \in (i + 1)..n : m \in P
      PROVE  i \in P
  <2> SUFFICES Begin(f[i], g[i])
    OBVIOUS
  <2>0. /\ f[i] = IF DOver(t, i) THEN <<>>
                  ELSE IF DHead(t, i) = {} THEN f[DEnd(t, i) + 1]
                  ELSE <<DFound(t, i)>> \o f[DUpTo(t, i) + 1]
        /\ g[i] = IF DOver(s, i) THEN <<>>
                  ELSE IF DHead(s, i) = {} THEN g[DEnd(s, i) + 1]
                  ELSE <<DFound(s, i)>> \o g[DUpTo(s, i) + 1]
    BY <1>2 DEF DFrom
  <2>1. CASE DOver(t, i)
    <3>1. f[i] = <<>> /\ Len(f[i]) = 0 /\ Len(g[i]) \in Nat
      BY <1>2, <2>0, <2>1, EmptySeq, LenProperties
    <3> QED
      BY <3>1 DEF Begin
  <2>2. CASE ~DOver(t, i)
    <3>1. /\ DStart(t, i) \in i..Len(t) /\ DEnd(t, i) \in (DStart(t, i) + 1)..Len(t)
          /\ DUpTo(t, i) \in DEnd(t, i)..Len(t)
      BY <1>1, <2>2, DPositions
    <3>2. /\ DEnd(t, i) + 1 \in (i + 1)..n /\ DUpTo(t, i) + 1 \in (i + 1)..n
          /\ DEnd(t, i) + 1 \in 1..n /\ DUpTo(t, i) + 1 \in 1..n
      BY <1>1, <3>1
    <3>3. /\ ~DOver(s, i) /\ DEnd(s, i) = DEnd(t, i) /\ DHead(s, i) = DHead(t, i)
          /\ DNext(t, i) # None => DUpTo(s, i) = DUpTo(t, i) /\ DFound(s, i) = DFound(t, i)
          /\ DNext(t, i) = None => DUpTo(t, i) = Len(t) /\ DUpTo(s, i) \in Len(t)..Len(s)
      BY <2>2, DCut
    <3>4. CASE DHead(t, i) = {}
      <4>1. Begin(f[DEnd(t, i) + 1], g[DEnd(t, i) + 1])
        BY <1>3, <3>2
      <4> QED
        BY <2>0, <2>2, <3>3, <3>4, <4>1
    <3>5. CASE DHead(t, i) # {}
      <4> DEFINE a == DFound(t, i)
                 b == DFound(s, i)
                 x == f[DUpTo(t, i) + 1]
                 y == g[DUpTo(s, i) + 1]
      <4>1. f[i] = <<a>> \o x /\ g[i] = <<b>> \o y
        BY <2>0, <2>2, <3>3, <3>5
      <4>2. a \in Found(T) /\ b \in Found(T)
        BY <1>2, <2>2, <3>3, <3>5, DFoundType
      <4>3. x \in Seq(Found(T)) /\ y \in Seq(Found(T))
        <5>1. DUpTo(s, i) + 1 \in 1..(Len(s) + 1)
          BY <1>1, <3>1, <3>3
        <5> QED
          BY <1>2, <3>2, <5>1
      <4>4. /\ Len(f[i]) = Len(x) + 1 /\ f[i][1] = a /\ \A k \in 1..Len(x) : f[i][k + 1] = x[k]
            /\ Len(g[i]) = Len(y) + 1 /\ g[i][1] = b /\ \A k \in 1..Len(y) : g[i][k + 1] = y[k]
        BY <4>1, <4>2, <4>3, Prepended
      <4>5. Len(x) \in Nat /\ Len(y) \in Nat
        BY <4>3, LenProperties
      <4>6. CASE DNext(t, i) # None
        <5>1. a = b /\ Begin(x, y) /\ DUpTo(s, i) = DUpTo(t, i)
          BY <1>3, <3>2, <3>3, <4>6
        <5>2. x # <<>> <=> Len(x) # 0
          BY <4>3, EmptySeq
        <5> DEFINE p == f[i]
                   w == g[i]
        <5> HIDE DEF a, b, x, y, p, w
        <5>3. Len(p) <= Len(w)
          BY <4>4, <4>5, <5>1 DEF p, w, Begin
        <5>4. ASSUME NEW k \in 1..(Len(p) - 1) PROVE p[k] = w[k]
          <6>1. CASE k = 1
            BY <4>4, <5>1, <6>1 DEF p, w
          <6>2. CASE k # 1
            <7>1. k - 1 \in 1..(Len(x) - 1) /\ k - 1 \in 1..Len(x) /\ k - 1 \in 1..Len(y) /\ k - 1 + 1 = k
              BY <4>4, <4>5, <5>1, <6>2 DEF p, Begin
            <7>2. x[k - 1] = y[k - 1]
              BY <5>1, <7>1 DEF Begin
            <7>3. p[k - 1 + 1] = x[k - 1] /\ w[k - 1 + 1] = y[k - 1]
              BY <4>4, <7>1 DEF p, w
            <7> QED
              BY <7>1, <7>2, <7>3
          <6> QED
            BY <6>1, <6>2
        <5>5. /\ p[Len(p)].label = w[Len(p)].label /\ p[Len(p)].bbox = w[Len(p)].bbox
              /\ StartsAs(p[Len(p)].text, w[Len(p)].text)
          <6>1. CASE Len(x) = 0
            <7>1. Len(p) = 1 /\ p[1] = w[1]
              BY <4>4, <5>1, <6>1 DEF p, w
            <7>2. a.text \in Seq(T)
              BY <4>2 DEF Found
            <7>3. StartsAs(a.text, a.text)
              BY <7>2, LenProperties DEF StartsAs
            <7> QED
              BY <4>4, <7>1, <7>3 DEF p
          <6>2. CASE Len(x) # 0
            <7>1. Len(p) = Len(x) + 1 /\ Len(x) \in 1..Len(x) /\ Len(x) \in 1..Len(y)
              BY <4>4, <4>5, <5>1, <6>2 DEF p, Begin
            <7>2. p[Len(p)] = x[Len(x)] /\ w[Len(p)] = y[Len(x)]
              BY <4>4, <7>1 DEF p, w
            <7>3. /\ x[Len(x)].label = y[Len(x)].label /\ x[Len(x)].bbox = y[Len(x)].bbox
                  /\ StartsAs(x[Len(x)].text, y[Len(x)].text)
              BY <5>1, <5>2, <6>2 DEF Begin
            <7> QED
              BY <7>2, <7>3
          <6> QED
            BY <6>1, <6>2
        <5> QED
          BY <5>3, <5>4, <5>5 DEF Begin, p, w
      <4>7. CASE DNext(t, i) = None
        <5>1. DUpTo(t, i) = Len(t) /\ DUpTo(s, i) \in Len(t)..Len(s)
          BY <3>3, <4>7
        <5>2. x = <<>>
          <6>1. n \in 1..n /\ DUpTo(t, i) + 1 = n
            BY <1>1, <5>1
          <6>2. DStart(t, n) = None
            <7>1. \A l \in n..Len(t) : t[l] \notin {Det}
              BY <1>1
            <7>2. n \in Nat \ {0}
              BY <1>1
            <7> QED
              BY <1>1, <7>1, <7>2, FirstInNone DEF DStart
          <6>3. DOver(t, n)
            BY <6>2 DEF DOver
          <6> QED
            BY <6>1, <6>3 DEF DFrom
        <5>3. a.label = b.label /\ a.bbox = b.bbox /\ StartsAs(a.text, b.text)
          <6>1. a.label = b.label /\ a.bbox = b.bbox
            BY <3>3 DEF DFound
          <6> DEFINE e == DEnd(t, i) + 1
                     u == DUpTo(s, i)
          <6>2. a.text = SubSeq(t, e, Len(t)) /\ b.text = SubSeq(s, e, u)
            BY <3>3, <5>1 DEF DFound
          <6>3. e \in Nat \ {0} /\ Len(t) \in Int /\ u \in Int /\ Len(t) <= u /\ u <= Len(s) /\ e <= Len(t) + 1
            BY <1>1, <3>1, <5>1
          <6> HIDE DEF e, u, a, b
          <6>4. /\ Len(SubSeq(t, e, Len(t))) = IF e <= Len(t) THEN Len(t) - e + 1 ELSE 0
                /\ \A k \in 1..(Len(t) - e + 1) : SubSeq(t, e, Len(t))[k] = t[e + k - 1]
                /\ Len(SubSeq(s, e, u)) = IF e <= u THEN u - e + 1 ELSE 0
                /\ \A k \in 1..(u - e + 1) : SubSeq(s, e, u)[k] = s[e + k - 1]
            BY <6>3, PartOf
          <6>5. Len(a.text) <= Len(b.text)
            BY <1>1, <6>2, <6>3, <6>4
          <6>6. ASSUME NEW k \in 1..Len(a.text) PROVE a.text[k] = b.text[k]
            <7>1. k \in 1..(Len(t) - e + 1) /\ k \in 1..(u - e + 1) /\ e + k - 1 \in 1..Len(t)
              BY <1>1, <6>2, <6>3, <6>4
            <7> QED
              BY <6>2, <6>4, <7>1 DEF StartsAs
          <6> QED
            BY <6>1, <6>5, <6>6 DEF StartsAs
        <5>4. Len(f[i]) = 1 /\ Len(g[i]) >= 1
          BY <4>4, <4>5, <5>2, EmptySeq
        <5> DEFINE p == f[i]
                   w == g[i]
        <5> HIDE DEF a, b, x, y, p, w
        <5>5. Len(p) = 1 /\ 1 <= Len(w) /\ p[1] = a /\ w[1] = b /\ 1..(Len(p) - 1) = {}
          BY <4>4, <5>4 DEF p, w
        <5>6. Begin(p, w)
          BY <5>3, <5>5 DEF Begin
        <5> QED
          BY <5>6 DEF p, w
      <4> QED
        BY <4>6, <4>7
    <3> QED
      BY <3>4, <3>5
  <2> QED
    BY <2>1, <2>2
<1> HIDE DEF P
<1>4. \A i \in 1..n : i \in P
  <2> HIDE DEF n
  <2> QED
    BY <1>1, <1>3, DownTo
<1> QED
  BY <1>4 DEF P

(***************************************************************************)
(* Rows                                                                    *)
(***************************************************************************)
RStart(html, i) == FindOpen(html, "tr", i)
REnd(html, i)   == FindClose(html, "tr", RStart(html, i) + 1)
RCells(html, i) == Cells(SubSeq(html, RStart(html, i) + 1, REnd(html, i) - 1))
RPiece(html, i) == IF RCells(html, i) = <<>> THEN <<>> ELSE <<RCells(html, i)>>
ROver(html, tableEnd, i) ==
    \/ RStart(html, i) = None \/ RStart(html, i) >= tableEnd
    \/ REnd(html, i) = None \/ REnd(html, i) > tableEnd

RFrom(f, html, tableEnd) ==
    \A i \in 1..(Len(html) + 1) :
        f[i] = IF ROver(html, tableEnd, i) THEN <<>> ELSE RPiece(html, i) \o f[REnd(html, i) + 1]

(* What the loop of parse_table_rows finds stands in this order in the text. *)
LEMMA RPositions ==
    ASSUME NEW html, Len(html) \in Nat, NEW tableEnd, NEW i \in 1..(Len(html) + 1),
           ~ROver(html, tableEnd, i)
    PROVE  /\ RStart(html, i) \in i..Len(html)
           /\ REnd(html, i) \in (RStart(html, i) + 1)..Len(html)
<1>1. RStart(html, i) \in i..Len(html)
  BY FirstInFacts DEF ROver, RStart, FindOpen
<1>2. REnd(html, i) \in (RStart(html, i) + 1)..Len(html)
  <2>1. RStart(html, i) + 1 \in Nat \ {0}
    BY <1>1
  <2> QED
    BY <2>1, FirstInFacts DEF ROver, REnd, FindClose
<1> QED
  BY <1>1, <1>2

(* RowsFrom is a loop over the positions of the text. *)
LEMMA RowsUnfold ==
    ASSUME NEW html, Len(html) \in Nat, NEW tableEnd
    PROVE  \E f : RFrom(f, html, tableEnd) /\ \A i : RowsFrom(html, i, tableEnd) = f[i]
<1> DEFINE n == Len(html) + 1
           next(i) == IF ROver(html, tableEnd, i) THEN None ELSE REnd(html, i) + 1
           step == [i \in 1..n |->
                      [next |-> next(i), skips |-> FALSE,
                       piece |-> IF ROver(html, tableEnd, i) THEN <<>> ELSE RPiece(html, i)]]
           body(f, i) == IF ROver(html, tableEnd, i) THEN <<>>
                         ELSE RPiece(html, i) \o f[REnd(html, i) + 1]
<1>1. n \in Nat
  OBVIOUS
<1>2. \A i \in 1..n : ~ROver(html, tableEnd, i) => next(i) \in (i + 1)..n /\ next(i) # None
  <2> SUFFICES ASSUME NEW i \in 1..n, ~ROver(html, tableEnd, i)
               PROVE  next(i) \in (i + 1)..n /\ next(i) # None
    OBVIOUS
  <2>1. RStart(html, i) \in i..Len(html) /\ REnd(html, i) \in (RStart(html, i) + 1)..Len(html)
    BY RPositions
  <2> QED
    BY <2>1 DEF None
<1>3. \A i \in 1..n : /\ step[i].next = next(i) /\ step[i].skips = FALSE
                       /\ step[i].piece = IF ROver(html, tableEnd, i) THEN <<>> ELSE RPiece(html, i)
  OBVIOUS
<1> HIDE DEF step
<1>4. IsLoop(step, n)
  BY <1>2, <1>3 DEF IsLoop
<1>5. PICK g : IsRun(g, step, n)
  BY <1>1, <1>4, LoopExists
<1>6. \A i \in 1..n : After(step, g, i) = body(g, i)
  BY <1>2, <1>3 DEF After
<1>7. g = [i \in 1..n |-> body(g, i)]
  <2>1. g = [i \in 1..n |-> After(step, g, i)]
    BY <1>5 DEF IsRun
  <2> HIDE DEF body
  <2> QED
    BY <1>6, <2>1
<1> DEFINE f == CHOOSE f : f = [i \in 1..n |-> body(f, i)]
<1>8. f = [i \in 1..n |-> body(f, i)]
  <2> HIDE DEF body
  <2> QED
    BY <1>7
<1>9. \A i : RowsFrom(html, i, tableEnd) = f[i]
  BY DEF RowsFrom, f, body, ROver, RStart, REnd, RCells, RPiece
<1> HIDE DEF f
<1>10. RFrom(f, html, tableEnd)
  <2>1. \A i \in 1..n : f[i] = body(f, i)
    <3> HIDE DEF body
    <3> QED
      BY <1>8
  <2> QED
    BY <2>1 DEF RFrom
<1> QED
  BY <1>9, <1>10

(* Within a table that is closed before a text was cut off, the rows are   *)
(* those of the whole.                                                     *)
LEMMA RowsCut ==
    ASSUME NEW T, NEW s \in Seq(T), NEW t \in Seq(T), StartsAs(t, s),
           NEW tableEnd \in 1..Len(t), NEW f, RFrom(f, t, tableEnd), NEW g, RFrom(g, s, tableEnd)
    PROVE  \A i \in 1..(Len(t) + 1) : f[i] = g[i]
<1> DEFINE n == Len(t) + 1
           P == {i \in 1..n : f[i] = g[i]}
<1>1. Len(s) \in Nat /\ Len(t) \in Nat /\ Len(t) <= Len(s) /\ n \in Nat
  BY LenProperties DEF StartsAs
<1>2. ASSUME NEW i \in 1..n, \A m \in (i + 1)..n : m \in P
      PROVE  i \in P
  <2>0. /\ f[i] = IF ROver(t, tableEnd, i) THEN <<>> ELSE RPiece(t, i) \o f[REnd(t, i) + 1]
        /\ g[i] = IF ROver(s, tableEnd, i) THEN <<>> ELSE RPiece(s, i) \o g[REnd(s, i) + 1]
        /\ i \in Nat \ {0}
    <3>1. i \in 1..(Len(s) + 1) /\ i \in Nat \ {0}
      BY <1>1
    <3> QED
      BY <3>1 DEF RFrom
  <2>1. /\ RStart(t, i) # None => RStart(s, i) = RStart(t, i)
        /\ RStart(t, i) = None => RStart(s, i) = None \/ RStart(s, i) > Len(t)
    BY <2>0, CutScan DEF RStart, FindOpen
  <2>2. /\ RStart(t, i) = None \/ RStart(t, i) \in i..Len(t)
        /\ RStart(s, i) = None \/ RStart(s, i) \in i..Len(s)
    BY <1>1, <2>0, FirstInFacts DEF RStart, FindOpen
  <2>3. CASE RStart(t, i) = None
    <3>1. ROver(t, tableEnd, i)
      BY <2>3 DEF ROver
    <3>2. RStart(s, i) = None \/ RStart(s, i) >= tableEnd
      BY <1>1, <2>1, <2>2, <2>3
    <3>3. ROver(s, tableEnd, i)
      BY <3>2 DEF ROver
    <3> QED
      BY <2>0, <3>1, <3>3
  <2>4. CASE RStart(t, i) # None
    <3>1. RStart(s, i) = RStart(t, i) /\ RStart(t, i) \in i..Len(t) /\ RStart(t, i) + 1 \in Nat \ {0}
      BY <2>1, <2>2, <2>4
    <3>2. /\ REnd(t, i) # None => REnd(s, i) = REnd(t, i)
          /\ REnd(t, i) = None => REnd(s, i) = None \/ REnd(s, i) > Len(t)
      BY <3>1, CutScan DEF REnd, FindClose
    <3>3. REnd(s, i) = None \/ REnd(s, i) \in (RStart(t, i) + 1)..Len(s)
      BY <1>1, <3>1, FirstInFacts DEF REnd, FindClose
    <3>4. CASE REnd(t, i) = None
      <4>1. REnd(s, i) = None \/ REnd(s, i) > tableEnd
        BY <1>1, <3>1, <3>2, <3>3, <3>4
      <4>2. ROver(t, tableEnd, i) /\ ROver(s, tableEnd, i)
        BY <3>4, <4>1 DEF ROver
      <4> QED
        BY <2>0, <4>2
    <3>5. CASE REnd(t, i) # None
      <4>1. REnd(s, i) = REnd(t, i)
        BY <3>2, <3>5
      <4>2. ROver(s, tableEnd, i) <=> ROver(t, tableEnd, i)
        BY <3>1, <4>1 DEF ROver
      <4>3. CASE ROver(t, tableEnd, i)
        BY <2>0, <4>2, <4>3
      <4>4. CASE ~ROver(t, tableEnd, i)
        <5>1. REnd(t, i) \in (RStart(t, i) + 1)..Len(t)
          BY <1>1, <4>4, RPositions
        <5>2. /\ REnd(t, i) - 1 \in Int /\ REnd(t, i) - 1 <= Len(t)
              /\ REnd(t, i) + 1 \in (i + 1)..n
          BY <1>1, <3>1, <5>1
        <5>3. SubSeq(t, RStart(t, i) + 1, REnd(t, i) - 1) = SubSeq(s, RStart(s, i) + 1, REnd(s, i) - 1)
          <6> DEFINE a == RStart(t, i) + 1
                     b == REnd(t, i) - 1
          <6>1. a \in Nat \ {0} /\ b \in Int /\ b <= Len(t)
            BY <3>1, <5>2
          <6> HIDE DEF a, b
          <6>2. SubSeq(t, a, b) = SubSeq(s, a, b)
            BY <6>1, SamePart
          <6> QED
            BY <3>1, <4>1, <6>2 DEF a, b
        <5>4. RPiece(t, i) = RPiece(s, i)
          BY <5>3 DEF RPiece, RCells
        <5>5. f[REnd(t, i) + 1] = g[REnd(s, i) + 1]
          BY <1>2, <4>1, <5>2
        <5> QED
          BY <2>0, <4>2, <4>4, <5>4, <5>5
      <4> QED
        BY <4>3, <4>4
    <3> QED
      BY <3>4, <3>5
  <2> QED
    BY <2>3, <2>4
<1> HIDE DEF P
<1>3. \A i \in 1..n : i \in P
  <2> HIDE DEF n
  <2> QED
    BY <1>1, <1>2, DownTo
<1> QED
  BY <1>3 DEF P

TStart(html) == FindOpen(html, "table", 1)
TEnd(html)   == FindClose(html, "table", TStart(html) + 1)

(* The table found in a text starts before it ends. *)
LEMMA TPositions ==
    ASSUME NEW html, Len(html) \in Nat
    PROVE  /\ TStart(html) = None \/ TStart(html) \in 1..Len(html)
           /\ TStart(html) + 1 \in Nat \ {0}
           /\ TStart(html) # None =>
                TEnd(html) = None \/ TEnd(html) \in (TStart(html) + 1)..Len(html)
<1>1. TStart(html) = None \/ TStart(html) \in 1..Len(html)
  BY FirstInFacts DEF TStart, FindOpen
<1>2. TStart(html) + 1 \in Nat \ {0}
  BY <1>1 DEF None
<1> QED
  BY <1>1, <1>2, FirstInFacts DEF TEnd, FindClose

(* A table with rows that was found in the shorter text is found in the    *)
(* longer too.                                                             *)
LEMMA TableCut ==
    ASSUME NEW T, NEW s \in Seq(T), NEW t \in Seq(T), StartsAs(t, s), TableRows(t) # <<>>
    PROVE  TableRows(t) = TableRows(s)
<1>1. Len(s) \in Nat /\ Len(t) \in Nat
  BY LenProperties
<1>2. /\ TStart(t) # None /\ TEnd(t) # None
      /\ TableRows(t) = RowsFrom(t, TStart(t) + 1, TEnd(t))
  BY DEF TableRows, TStart, TEnd
<1>3. TStart(s) = TStart(t)
  BY <1>2, CutScan DEF TStart, FindOpen
<1>4. TEnd(s) = TEnd(t)
  <2>1. TStart(t) + 1 \in Nat \ {0}
    BY <1>1, TPositions
  <2> QED
    BY <1>2, <1>3, <2>1, CutScan DEF TEnd, FindClose
<1>5. TableRows(s) = RowsFrom(s, TStart(t) + 1, TEnd(t))
  BY <1>2, <1>3, <1>4 DEF TableRows, TStart, TEnd
<1>6. TStart(t) \in 1..Len(t) /\ TEnd(t) \in 1..Len(t) /\ TStart(t) + 1 \in 1..(Len(t) + 1)
  BY <1>1, <1>2, TPositions
<1>7. PICK f : RFrom(f, t, TEnd(t)) /\ \A i : RowsFrom(t, i, TEnd(t)) = f[i]
  BY <1>1, RowsUnfold
<1>8. PICK g : RFrom(g, s, TEnd(t)) /\ \A i : RowsFrom(s, i, TEnd(t)) = g[i]
  BY <1>1, RowsUnfold
<1>9. f[TStart(t) + 1] = g[TStart(t) + 1]
  BY <1>6, <1>7, <1>8, RowsCut
<1> QED
  BY <1>2, <1>5, <1>7, <1>8, <1>9

(***************************************************************************)
(* The tables of the detections                                            *)
(***************************************************************************)
RowsOf(d)  == IF IsTable(d) THEN TableRows(d.text) ELSE <<>>
TableOf(d) == [bbox |-> d.bbox, html |-> d.text, rows |-> RowsOf(d)]
TablesOf(D) == {TableOf(d) : d \in D}

(* F[k] is the tables of the first k detections.                           *)
AreTables(F, ds) ==
    /\ F[0] = <<>> /\ F[Len(ds)] = Tables(ds)
    /\ \A k \in 1..Len(ds) :
         /\ RowsOf(ds[k]) = <<>> => F[k] = F[k - 1] /\ Len(F[k]) = Len(F[k - 1])
         /\ RowsOf(ds[k]) # <<>> =>
              /\ F[k] = F[k - 1] \o <<TableOf(ds[k])>>
              /\ Len(F[k]) = Len(F[k - 1]) + 1
              /\ F[k][Len(F[k])] = TableOf(ds[k])
    /\ \A k \in 0..Len(ds) : Len(F[k]) \in Nat
    /\ \A k \in 0..Len(ds) : \A m \in 0..k :
         Len(F[m]) <= Len(F[k]) /\ \A j \in 1..Len(F[m]) : F[k][j] = F[m][j]

(* Tables goes through the detections and keeps the tables of each. *)
LEMMA TablesUnfold ==
    ASSUME NEW D, NEW ds \in Seq(D)
    PROVE  \E F \in [0..Len(ds) -> Seq(TablesOf(D))] : AreTables(F, ds)
<1> DEFINE n == Len(ds)
           S == TablesOf(D)
           piece(d) == IF RowsOf(d) = <<>> THEN <<>> ELSE <<TableOf(d)>>
           seqs == [i \in 1..n |-> piece(ds[i])]
<1>1. n \in Nat /\ DOMAIN ds = 1..n /\ \A k \in 1..n : ds[k] \in D
  BY LenProperties, ElementOfSeq
<1>2. \A k \in 1..n : seqs[k] = piece(ds[k]) /\ seqs[k] \in Seq(S)
  <2>1. \A d \in D : TableOf(d) \in S
    BY DEF TablesOf
  <2> HIDE DEF S
  <2>2. \A d \in D : piece(d) \in Seq(S)
    BY <2>1, EmptySeq
  <2> QED
    BY <1>1, <2>2
<1>3. seqs \in Seq(Seq(S)) /\ Len(seqs) = n
  <2> DEFINE Q == Seq(S)
  <2>1. seqs \in [1..n -> Q]
    <3> HIDE DEF Q, piece
    <3> QED
      BY <1>2 DEF Q
  <2> HIDE DEF Q, seqs, n
  <2> QED
    BY <1>1, <2>1, FcnIsSeq DEF Q
<1>4. FlattenSeq(seqs) = Tables(ds)
  BY <1>1 DEF Tables, RowsOf, TableOf
<1> HIDE DEF seqs, S
<1>5. PICK F \in [0..n -> Seq(S)] : ArePartsOf(F, seqs)
  BY <1>3, FlattenParts
<1>6. ASSUME NEW k \in 1..n
      PROVE  /\ RowsOf(ds[k]) = <<>> => F[k] = F[k - 1] /\ Len(F[k]) = Len(F[k - 1])
             /\ RowsOf(ds[k]) # <<>> =>
                  /\ F[k] = F[k - 1] \o <<TableOf(ds[k])>>
                  /\ Len(F[k]) = Len(F[k - 1]) + 1
                  /\ F[k][Len(F[k])] = TableOf(ds[k])
  <2> HIDE DEF n
  <2>0. k - 1 \in 0..n /\ k \in 0..n
    BY <1>1
  <2>1. F[k] = F[k - 1] \o seqs[k] /\ Len(F[k]) = Len(F[k - 1]) + Len(seqs[k])
    BY <1>3, <1>5 DEF ArePartsOf
  <2>2. F[k - 1] \in Seq(S) /\ Len(F[k - 1]) \in Nat
    BY <2>0, LenProperties
  <2>3. CASE RowsOf(ds[k]) = <<>>
    <3>1. seqs[k] = <<>>
      BY <1>2, <2>3
    <3>2. F[k] = F[k - 1]
      BY <2>1, <2>2, <3>1, ConcatEmptySeq
    <3> QED
      BY <2>3, <3>2
  <2>4. CASE RowsOf(ds[k]) # <<>>
    <3> DEFINE x == TableOf(ds[k])
    <3>1. seqs[k] = <<x>>
      BY <1>2, <2>4
    <3> HIDE DEF x
    <3>2. Len(<<x>>) = 1 /\ <<x>>[1] = x
      OBVIOUS
    <3>3. Len(F[k]) = Len(F[k - 1]) + 1
      BY <2>1, <3>1, <3>2
    <3>4. FlattenSeq(seqs)[Len(F[k - 1]) + 1] = x
      <4>1. 1 \in 1..Len(seqs[k]) /\ seqs[k][1] = x
        BY <3>1, <3>2
      <4> QED
        BY <1>3, <1>5, <4>1 DEF ArePartsOf
    <3>5. F[k][Len(F[k])] = x
      <4>1. n \in 0..n /\ k \in 0..n /\ Len(F[k]) \in 1..Len(F[k]) /\ F[n] = FlattenSeq(seqs)
        BY <1>1, <1>3, <1>5, <2>2, <3>3 DEF ArePartsOf
      <4>2. F[n][Len(F[k])] = F[k][Len(F[k])]
        BY <1>1, <1>3, <1>5, <4>1 DEF ArePartsOf
      <4> QED
        BY <3>3, <3>4, <4>1, <4>2
    <3> QED
      BY <2>1, <2>4, <3>1, <3>3, <3>5 DEF x
  <2> QED
    BY <2>3, <2>4
<1>7. AreTables(F, ds)
  BY <1>3, <1>4, <1>5, <1>6 DEF ArePartsOf, AreTables
<1> QED
  BY <1>7 DEF S

(* IsPrefix, entry by entry *)
LEMMA IsPrefixIf ==
    ASSUME NEW S, NEW a \in Seq(S), NEW b \in Seq(S), StartsAs(a, b)
    PROVE  IsPrefix(a, b)
<1>1. Len(a) \in Nat /\ Len(a) <= Len(a)
  BY LenProperties
<1>2. SubSeq(a, 1, Len(a)) = SubSeq(b, 1, Len(a))
  <2>1. Len(a) \in Int /\ 1 \in Nat \ {0}
    BY <1>1
  <2> QED
    BY <1>1, <2>1, SamePart
<1> QED
  BY <1>2 DEF IsPrefix, StartsAs

(* The same tables, but the last may be missing                            *)
LEMMA TablesBegin ==
    ASSUME NEW T, NEW p \in Seq(Found(T)), NEW w \in Seq(Found(T)), Begin(p, w),
           NEW F, AreTables(F, p), NEW G, AreTables(G, w)
    PROVE  /\ Len(F[Len(p)]) <= Len(G[Len(w)])
           /\ \A j \in 1..Len(F[Len(p)]) : F[Len(p)][j].rows = G[Len(w)][j].rows
<1> DEFINE m == Len(p)
           n == Len(w)
           P == {k \in 0..m : k = m \/ F[k] = G[k]}
<1>1. m \in Nat /\ n \in Nat /\ m <= n
  BY LenProperties DEF Begin
<1>2. ASSUME NEW k \in 0..m, \A i \in 0..(k - 1) : i \in P
      PROVE  k \in P
  <2>1. CASE k = 0
    BY <2>1 DEF AreTables
  <2>2. CASE k # 0 /\ k # m
    <3>1. k - 1 \in 0..(k - 1) /\ k - 1 # m /\ k \in 1..(m - 1) /\ k \in 1..m /\ k \in 1..n
      BY <1>1, <2>2
    <3>2. F[k - 1] = G[k - 1] /\ p[k] = w[k]
      BY <1>2, <3>1 DEF Begin
    <3>3. F[k] = G[k]
      BY <3>1, <3>2 DEF AreTables
    <3> QED
      BY <3>3
  <2> QED
    BY <2>1, <2>2
<1> HIDE DEF P
<1>3. \A k \in 0..m : k \in P
  <2> HIDE DEF m
  <2> QED
    BY <1>1, <1>2, UpTo
<1>4. CASE m = 0
  <2>1. F[m] = <<>> /\ Len(F[m]) = 0 /\ n \in 0..n
    BY <1>1, <1>4 DEF AreTables
  <2>2. Len(G[n]) \in Nat
    BY <2>1 DEF AreTables
  <2> QED
    BY <2>1, <2>2
<1>5. CASE m # 0
  <2>1. m - 1 \in 0..m /\ m - 1 # m /\ m \in 1..m /\ m \in 1..n /\ m \in 0..n /\ n \in 0..n
        /\ m - 1 \in 0..n /\ m \in 0..m
    BY <1>1, <1>5
  <2>2. F[m - 1] = G[m - 1]
    BY <1>3, <2>1 DEF P
  <2>3. /\ Len(F[m]) \in Nat /\ Len(F[m - 1]) \in Nat /\ Len(G[m]) \in Nat /\ Len(G[n]) \in Nat
        /\ Len(F[m - 1]) <= Len(F[m]) /\ \A j \in 1..Len(F[m - 1]) : F[m][j] = F[m - 1][j]
    BY <2>1 DEF AreTables
  <2>4. /\ Len(G[m]) <= Len(G[n]) /\ \A j \in 1..Len(G[m]) : G[n][j] = G[m][j]
        /\ Len(G[m - 1]) <= Len(G[m]) /\ \A j \in 1..Len(G[m - 1]) : G[m][j] = G[m - 1][j]
    <3>1. m - 1 \in 0..m /\ m \in 0..n
      BY <2>1
    <3>2. Len(G[m]) <= Len(G[n]) /\ \A j \in 1..Len(G[m]) : G[n][j] = G[m][j]
      BY <2>1 DEF AreTables
    <3>3. Len(G[m - 1]) <= Len(G[m]) /\ \A j \in 1..Len(G[m - 1]) : G[m][j] = G[m - 1][j]
      BY <2>1 DEF AreTables
    <3> QED
      BY <3>2, <3>3
  <2> DEFINE d == p[m]
             e == w[m]
  <2>5. CASE RowsOf(d) = <<>>
    <3>1. F[m] = F[m - 1] /\ Len(F[m]) = Len(F[m - 1])
      BY <2>1, <2>5 DEF AreTables
    <3> QED
      BY <2>2, <2>3, <2>4, <3>1
  <2>6. CASE RowsOf(d) # <<>>
    <3>1. RowsOf(e) = RowsOf(d)
      <4>1. /\ d \in Found(T) /\ e \in Found(T)
            /\ d.label = e.label /\ StartsAs(d.text, e.text)
        <5>1. p # <<>>
          BY <1>5, EmptySeq
        <5>2. d \in Found(T) /\ e \in Found(T)
          BY <2>1, ElementOfSeq
        <5> QED
          BY <5>1, <5>2 DEF Begin
      <4>2. d.text \in Seq(T) /\ e.text \in Seq(T)
        BY <4>1 DEF Found
      <4>3. IsTable(d) /\ IsTable(e) /\ TableRows(d.text) # <<>>
        BY <2>6, <4>1 DEF RowsOf, IsTable
      <4>4. TableRows(d.text) = TableRows(e.text)
        BY <4>1, <4>2, <4>3, TableCut
      <4> QED
        BY <4>3, <4>4 DEF RowsOf
    <3>2. /\ Len(F[m]) = Len(F[m - 1]) + 1 /\ F[m][Len(F[m])] = TableOf(d)
          /\ Len(G[m]) = Len(G[m - 1]) + 1 /\ G[m][Len(G[m])] = TableOf(e)
      <4> HIDE DEF d, e
      <4>1. m \in 1..Len(p) /\ m \in 1..Len(w)
        BY <2>1
      <4>2. Len(F[m]) = Len(F[m - 1]) + 1 /\ F[m][Len(F[m])] = TableOf(d)
        BY <2>6, <4>1 DEF AreTables, d
      <4>3. Len(G[m]) = Len(G[m - 1]) + 1 /\ G[m][Len(G[m])] = TableOf(e)
        BY <2>6, <3>1, <4>1 DEF AreTables, e
      <4> QED
        BY <4>2, <4>3
    <3>3. TableOf(d).rows = TableOf(e).rows
      BY <3>1 DEF TableOf
    <3> HIDE DEF d, e
    <3>4. Len(F[m]) = Len(G[m])
      BY <2>2, <2>3, <3>2
    <3>5. ASSUME NEW j \in 1..Len(F[m]) PROVE F[m][j].rows = G[n][j].rows
      <4>1. G[n][j] = G[m][j]
        BY <2>4, <3>4
      <4>2. CASE j = Len(F[m])
        BY <3>2, <3>3, <3>4, <4>1, <4>2
      <4>3. CASE j # Len(F[m])
        <5>1. j \in 1..Len(F[m - 1])
          BY <2>3, <3>2, <4>3
        <5>2. F[m][j] = F[m - 1][j] /\ G[m][j] = G[m - 1][j]
          BY <2>2, <2>3, <2>4, <5>1
        <5> QED
          BY <2>2, <4>1, <5>2
      <4> QED
        BY <4>2, <4>3
    <3> QED
      BY <2>3, <2>4, <3>4, <3>5
  <2> QED
    BY <2>5, <2>6
<1> QED
  BY <1>4, <1>5

(***************************************************************************)
(* Markup                                                                  *)
(***************************************************************************)
(* The tags the lower-cased search of find_html_open_tag and               *)
(* find_html_close_tag knows                                               *)
LEMMA TagForms ==
    /\ OpenForms["table"] = {"<table>", "<table border=1>"} /\ OpenForms["tr"] = {"<tr>"}
    /\ OpenForms["td"] = {"<td>", "<td rowspan=2>", "<td rowspan=0>"} /\ OpenForms["th"] = {"<th>"}
    /\ CloseForm["table"] = "</table>" /\ CloseForm["tr"] = "</tr>"
    /\ CloseForm["td"] = "</td>" /\ CloseForm["th"] = "</th>"
    /\ DOMAIN OpenForms = {"table", "tr", "td", "th"} /\ DOMAIN CloseForm = {"table", "tr", "td", "th"}
  BY DEF OpenForms, CloseForm

(* All tags, listed *)
LEMMA TagsAre ==
    Tags = {"<table>", "<table border=1>", "<tr>", "<td>", "<td rowspan=2>", "<td rowspan=0>", "<th>"}
           \cup {"</table>", "</tr>", "</td>", "</th>"}
           \cup {"<br>", "<br/>", "<|/det|>", "<thead>", "</thead>", "<b>", "</b>"}
<1> DEFINE O == {"<table>", "<table border=1>", "<tr>", "<td>", "<td rowspan=2>", "<td rowspan=0>", "<th>"}
           C == {"</table>", "</tr>", "</td>", "</th>"}
<1>1. UNION {OpenForms[t] : t \in DOMAIN OpenForms} = O
  <2> DEFINE f == OpenForms
  <2>1. /\ DOMAIN f = {"table", "tr", "td", "th"}
        /\ f["table"] \cup f["tr"] \cup f["td"] \cup f["th"] = O
    BY TagForms
  <2> HIDE DEF f, O
  <2>2. UNION {f[t] : t \in DOMAIN f} = f["table"] \cup f["tr"] \cup f["td"] \cup f["th"]
    BY <2>1
  <2> QED
    BY <2>1, <2>2 DEF f
<1>2. {CloseForm[t] : t \in DOMAIN CloseForm} = C
  <2> DEFINE f == CloseForm
  <2>1. /\ DOMAIN f = {"table", "tr", "td", "th"} /\ C = {f["table"], f["tr"], f["td"], f["th"]}
    BY TagForms
  <2> HIDE DEF f, C
  <2>2. {f[t] : t \in DOMAIN f} = {f["table"], f["tr"], f["td"], f["th"]}
    BY <2>1
  <2> QED
    BY <2>1, <2>2 DEF f
<1> HIDE DEF O, C
<1>3. Tags = O \cup C \cup {"<br>", "<br/>"} \cup {"<|/det|>", "<thead>", "</thead>", "<b>", "</b>"}
  <2> DEFINE U == UNION {OpenForms[t] : t \in DOMAIN OpenForms}
             V == {CloseForm[t] : t \in DOMAIN CloseForm}
  <2>1. Tags = U \cup V \cup LineBreaks \cup {DetEnd, "<thead>", "</thead>", "<b>", "</b>"}
    BY Zenon DEF Tags
  <2> HIDE DEF U, V
  <2>2. U = O /\ V = C
    BY <1>1, <1>2 DEF U, V
  <2> QED
    BY <2>1, <2>2 DEF LineBreaks, DetEnd
<1> QED
  BY <1>3 DEF O, C

(* The entities decode_html_entities knows, listed *)
LEMMA DecodedIs ==
    /\ DOMAIN Decoded = {"&amp;", "&lt;", "&gt;", "&#65;"}
    /\ Decoded["&amp;"] = "&" /\ Decoded["&lt;"] = "<" /\ Decoded["&gt;"] = ">"
    /\ Decoded["&#65;"] = "A"
    /\ Entities = {"&amp;", "&lt;", "&gt;", "&#65;", "&unknown;"}
  BY DEF Decoded, Entities

Tokens == STRING \cup Tags \cup Entities \cup Boxes \cup BadBoxes \cup {Det, "preface"}

(***************************************************************************)
(* Stripping and decoding                                                  *)
(***************************************************************************)
(* A scan for the tokens in S: one at k lasts up to E[k] and becomes M[k], *)
(* and what is between stays as it is.                                     *)
ScanFrom(f, s, S, E, M) ==
    \A i \in 1..(Len(s) + 1) :
        f[i] = LET start == FirstIn(s, S, i)
               IN  IF start = None \/ E[start] = None THEN From(s, i)
                   ELSE SubSeq(s, i, start - 1) \o M[start] \o f[E[start] + 1]

Ends(s, E) == \A k \in 1..Len(s) : E[k] = None \/ E[k] \in k..Len(s)

IsScan(f, s, S, E, M) ==
    f = [i \in 1..(Len(s) + 1) |->
            LET start == FirstIn(s, S, i)
            IN  IF start = None \/ E[start] = None THEN From(s, i)
                ELSE SubSeq(s, i, start - 1) \o M[start] \o f[E[start] + 1]]

(* There is a function that scans a text from every position. *)
LEMMA ScanExists ==
    ASSUME NEW s, Len(s) \in Nat, NEW S, NEW E, NEW M, Ends(s, E)
    PROVE  \E f : IsScan(f, s, S, E, M)
<1> DEFINE n == Len(s) + 1
           start(i) == FirstIn(s, S, i)
           over(i) == start(i) = None \/ E[start(i)] = None
           next(i) == IF over(i) THEN None ELSE E[start(i)] + 1
           piece(i) == IF over(i) THEN From(s, i) ELSE SubSeq(s, i, start(i) - 1) \o M[start(i)]
           step == [i \in 1..n |-> [next |-> next(i), skips |-> FALSE, piece |-> piece(i)]]
<1>1. n \in Nat
  OBVIOUS
<1>2. \A i \in 1..n : ~over(i) => next(i) \in (i + 1)..n /\ next(i) # None
  <2> SUFFICES ASSUME NEW i \in 1..n, ~over(i) PROVE next(i) \in (i + 1)..n /\ next(i) # None
    OBVIOUS
  <2>1. start(i) \in i..Len(s)
    BY FirstInFacts
  <2>2. E[start(i)] \in start(i)..Len(s)
    BY <2>1 DEF Ends
  <2>3. next(i) = E[start(i)] + 1
    OBVIOUS
  <2> HIDE DEF start, next
  <2> QED
    BY <2>1, <2>2, <2>3 DEF None
<1>3. \A i \in 1..n : step[i].next = next(i) /\ step[i].skips = FALSE /\ step[i].piece = piece(i)
  OBVIOUS
<1> HIDE DEF step
<1>4. IsLoop(step, n)
  BY <1>2, <1>3 DEF IsLoop
<1>5. PICK g : IsRun(g, step, n)
  BY <1>1, <1>4, LoopExists
<1> DEFINE body(i) == IF over(i) THEN From(s, i)
                      ELSE SubSeq(s, i, start(i) - 1) \o M[start(i)] \o g[E[start(i)] + 1]
<1>6. \A i \in 1..n : After(step, g, i) = body(i)
  <2> SUFFICES ASSUME NEW i \in 1..n PROVE After(step, g, i) = body(i)
    OBVIOUS
  <2>1. CASE over(i)
    <3>1. step[i].next = None /\ step[i].piece = From(s, i)
      BY <1>3, <2>1
    <3> QED
      BY <2>1, <3>1 DEF After
  <2>2. CASE ~over(i)
    <3>1. /\ step[i].next # None /\ step[i].next = E[start(i)] + 1 /\ step[i].skips = FALSE
          /\ step[i].piece = SubSeq(s, i, start(i) - 1) \o M[start(i)]
      BY <1>2, <1>3, <2>2
    <3>2. body(i) = (SubSeq(s, i, start(i) - 1) \o M[start(i)]) \o g[E[start(i)] + 1]
      BY <2>2
    <3> HIDE DEF start, body
    <3> QED
      BY <3>1, <3>2 DEF After
  <2> QED
    BY <2>1, <2>2
<1>7. g = [i \in 1..n |-> body(i)]
  <2>1. g = [i \in 1..n |-> After(step, g, i)]
    BY <1>5 DEF IsRun
  <2> HIDE DEF body
  <2> QED
    BY <1>6, <2>1
<1>8. IsScan(g, s, S, E, M)
  BY <1>7 DEF IsScan
<1> QED
  BY <1>8

(* What a scan makes of a text from each position, by cases *)
LEMMA ScanIs ==
    ASSUME NEW s, NEW S, NEW E, NEW M, NEW f, IsScan(f, s, S, E, M)
    PROVE  ScanFrom(f, s, S, E, M)
<1> DEFINE body(i) == LET start == FirstIn(s, S, i)
                      IN  IF start = None \/ E[start] = None THEN From(s, i)
                          ELSE SubSeq(s, i, start - 1) \o M[start] \o f[E[start] + 1]
<1>1. f = [i \in 1..(Len(s) + 1) |-> body(i)]
  BY DEF IsScan
<1>2. \A i \in 1..(Len(s) + 1) : f[i] = body(i)
  <2> HIDE DEF body
  <2> QED
    BY <1>1
<1> QED
  BY <1>2 DEF ScanFrom

StripEnds(s) == [k \in 1..Len(s) |->
                    IF s[k] = "<" THEN FirstIn(s, Tags \cup {">"}, k + 1) ELSE k]
StripMakes(s) == [k \in 1..Len(s) |-> IF s[k] \in LineBreaks THEN <<"newline">> ELSE <<>>]

DecodeEnds(s) == [k \in 1..Len(s) |-> IF s[k] = "&" THEN FirstIn(s, Entities, k + 1) ELSE k]
DecodeMakes(s) == [k \in 1..Len(s) |->
                      IF s[k] \in DOMAIN Decoded THEN <<Decoded[s[k]]>>
                      ELSE SubSeq(s, k, DecodeEnds(s)[k])]

(* Both scans go on behind where they stopped. *)
LEMMA ScanEnds ==
    ASSUME NEW s, Len(s) \in Nat
    PROVE  Ends(s, StripEnds(s)) /\ Ends(s, DecodeEnds(s))
<1>1. \A S : \A k \in 1..Len(s) : FirstIn(s, S, k + 1) = None \/ FirstIn(s, S, k + 1) \in k..Len(s)
  <2> SUFFICES ASSUME NEW S, NEW k \in 1..Len(s)
               PROVE  FirstIn(s, S, k + 1) = None \/ FirstIn(s, S, k + 1) \in k..Len(s)
    OBVIOUS
  <2>1. k + 1 \in Nat \ {0}
    OBVIOUS
  <2>2. FirstIn(s, S, k + 1) = None \/ FirstIn(s, S, k + 1) \in (k + 1)..Len(s)
    BY <2>1, FirstInFacts
  <2> QED
    BY <2>2
<1>2. Ends(s, StripEnds(s))
  BY <1>1 DEF Ends, StripEnds
<1>3. Ends(s, DecodeEnds(s))
  BY <1>1 DEF Ends, DecodeEnds
<1> QED
  BY <1>2, <1>3

(* Both of them are scans.                                                 *)
LEMMA StripTagsUnfold ==
    ASSUME NEW s, Len(s) \in Nat
    PROVE  \E f : StripTags(s) = f[1] /\ ScanFrom(f, s, Tags \cup {"<"}, StripEnds(s), StripMakes(s))
<1> DEFINE S == Tags \cup {"<"}
           E == StripEnds(s)
           M == StripMakes(s)
           body(f, i) == LET start == FirstIn(s, S, i)
                             end   == IF s[start] = "<" THEN FirstIn(s, Tags \cup {">"}, start + 1) ELSE start
                         IN  IF start = None \/ end = None THEN From(s, i)
                             ELSE SubSeq(s, i, start - 1)
                                  \o (IF s[start] \in LineBreaks THEN <<"newline">> ELSE <<>>)
                                  \o f[end + 1]
           scan(f, i) == LET start == FirstIn(s, S, i)
                         IN  IF start = None \/ E[start] = None THEN From(s, i)
                             ELSE SubSeq(s, i, start - 1) \o M[start] \o f[E[start] + 1]
<1>1. \A f : \A i \in 1..(Len(s) + 1) : scan(f, i) = body(f, i)
  <2> SUFFICES ASSUME NEW f, NEW i \in 1..(Len(s) + 1) PROVE scan(f, i) = body(f, i)
    OBVIOUS
  <2> DEFINE start == FirstIn(s, S, i)
  <2>1. start = None \/ start \in i..Len(s)
    BY FirstInFacts
  <2> HIDE DEF start
  <2>2. start # None => start \in 1..Len(s)
    BY <2>1
  <2>3. start # None => /\ E[start] = IF s[start] = "<" THEN FirstIn(s, Tags \cup {">"}, start + 1) ELSE start
                        /\ M[start] = IF s[start] \in LineBreaks THEN <<"newline">> ELSE <<>>
    BY <2>2 DEF StripEnds, StripMakes
  <2> HIDE DEF E, M
  <2> QED
    BY <2>3 DEF start
<1>2. PICK g : IsScan(g, s, S, E, M)
  BY ScanEnds, ScanExists
<1>3. g = [i \in 1..(Len(s) + 1) |-> body(g, i)]
  <2>1. g = [i \in 1..(Len(s) + 1) |-> scan(g, i)]
    BY <1>2 DEF IsScan
  <2> HIDE DEF body, scan
  <2> QED
    BY <1>1, <2>1
<1> DEFINE f == CHOOSE f : f = [i \in 1..(Len(s) + 1) |-> body(f, i)]
<1>4. f = [i \in 1..(Len(s) + 1) |-> body(f, i)]
  <2> HIDE DEF body
  <2> QED
    BY <1>3
<1>5. StripTags(s) = f[1]
  BY DEF StripTags
<1> HIDE DEF f
<1>6. f = [i \in 1..(Len(s) + 1) |-> scan(f, i)]
  <2> HIDE DEF body, scan
  <2> QED
    BY <1>1, <1>4
<1>7. IsScan(f, s, S, E, M)
  BY <1>6 DEF IsScan
<1> QED
  BY <1>5, <1>7, ScanIs

(* DecodeEntities is a scan for entities and bare ampersands. *)
LEMMA DecodeEntitiesUnfold ==
    ASSUME NEW s, Len(s) \in Nat
    PROVE  \E f : /\ DecodeEntities(s) = f[1]
                  /\ ScanFrom(f, s, Entities \cup {"&"}, DecodeEnds(s), DecodeMakes(s))
<1> DEFINE S == Entities \cup {"&"}
           E == DecodeEnds(s)
           M == DecodeMakes(s)
           body(f, i) == LET start == FirstIn(s, S, i)
                             end   == IF s[start] = "&" THEN FirstIn(s, Entities, start + 1) ELSE start
                         IN  IF start = None \/ end = None THEN From(s, i)
                             ELSE SubSeq(s, i, start - 1)
                                  \o (IF s[start] \in DOMAIN Decoded THEN <<Decoded[s[start]]>>
                                      ELSE SubSeq(s, start, end))
                                  \o f[end + 1]
           scan(f, i) == LET start == FirstIn(s, S, i)
                         IN  IF start = None \/ E[start] = None THEN From(s, i)
                             ELSE SubSeq(s, i, start - 1) \o M[start] \o f[E[start] + 1]
<1>1. \A f : \A i \in 1..(Len(s) + 1) : scan(f, i) = body(f, i)
  <2> SUFFICES ASSUME NEW f, NEW i \in 1..(Len(s) + 1) PROVE scan(f, i) = body(f, i)
    OBVIOUS
  <2> DEFINE start == FirstIn(s, S, i)
             end == IF s[start] = "&" THEN FirstIn(s, Entities, start + 1) ELSE start
             mid == IF s[start] \in DOMAIN Decoded THEN <<Decoded[s[start]]>> ELSE SubSeq(s, start, end)
  <2>1. start = None \/ start \in i..Len(s)
    BY FirstInFacts
  <2>2. start # None => start \in 1..Len(s)
    <3> HIDE DEF start
    <3> QED
      BY <2>1
  <2>3. start # None => E[start] = end
    <3> HIDE DEF start
    <3> QED
      BY <2>2 DEF DecodeEnds
  <2>4. start # None => M[start] = mid
    <3>1. ASSUME NEW k \in 1..Len(s)
          PROVE  M[k] = IF s[k] \in DOMAIN Decoded THEN <<Decoded[s[k]]>> ELSE SubSeq(s, k, E[k])
      BY DEF DecodeMakes
    <3> HIDE DEF start, end, M, E
    <3> QED
      BY <2>2, <2>3, <3>1
  <2>5. body(f, i) = IF start = None \/ end = None THEN From(s, i)
                     ELSE SubSeq(s, i, start - 1) \o mid \o f[end + 1]
    OBVIOUS
  <2>6. scan(f, i) = IF start = None \/ E[start] = None THEN From(s, i)
                     ELSE SubSeq(s, i, start - 1) \o M[start] \o f[E[start] + 1]
    OBVIOUS
  <2> HIDE DEF E, M, start, end, mid, body, scan
  <2> QED
    BY <2>3, <2>4, <2>5, <2>6
<1>2. PICK g : IsScan(g, s, S, E, M)
  BY ScanEnds, ScanExists
<1>3. g = [i \in 1..(Len(s) + 1) |-> body(g, i)]
  <2>1. g = [i \in 1..(Len(s) + 1) |-> scan(g, i)]
    BY <1>2 DEF IsScan
  <2> HIDE DEF body, scan
  <2> QED
    BY <1>1, <2>1
<1> DEFINE f == CHOOSE f : f = [i \in 1..(Len(s) + 1) |-> body(f, i)]
<1>4. f = [i \in 1..(Len(s) + 1) |-> body(f, i)]
  <2> HIDE DEF body
  <2> QED
    BY <1>3
<1>5. DecodeEntities(s) = f[1]
  BY DEF DecodeEntities
<1> HIDE DEF f
<1>6. f = [i \in 1..(Len(s) + 1) |-> scan(f, i)]
  <2> HIDE DEF body, scan
  <2> QED
    BY <1>1, <1>4
<1>7. IsScan(f, s, S, E, M)
  BY <1>6 DEF IsScan
<1> QED
  BY <1>5, <1>7, ScanIs

(* What a scan makes of the token it stands at.                            *)
LEMMA ScanOver ==
    ASSUME NEW T, NEW s \in Seq(T), NEW S, NEW E, NEW M, NEW f, ScanFrom(f, s, S, E, M)
    PROVE  f[Len(s) + 1] = <<>>
<1>1. Len(s) \in Nat /\ Len(s) + 1 \in 1..(Len(s) + 1) /\ Len(s) + 1 \in Nat \ {0}
  BY LenProperties
<1>2. FirstIn(s, S, Len(s) + 1) = None
  <2>1. \A l \in (Len(s) + 1)..Len(s) : s[l] \notin S
    BY <1>1
  <2> QED
    BY <1>1, <2>1, FirstInNone
<1>3. f[Len(s) + 1] = From(s, Len(s) + 1)
  BY <1>1, <1>2 DEF ScanFrom
<1>4. Len(s) + 1 \in Int /\ Len(s) \in Int /\ Len(s) < Len(s) + 1
  BY <1>1
<1> QED
  BY <1>3, <1>4, SubSeqEmpty DEF From

(* The result from i on is the piece before the result from next on.       *)
Goes(f, i, piece, next) == f[i] = piece \o f[next]
Makes(s, S, M, U) == \A k \in 1..Len(s) : s[k] \in S => M[k] \in Seq(U)
Gives(f, s, U) == \A k \in 1..(Len(s) + 1) : f[k] \in Seq(U)

(* At a token of S that ends, the scan gives its piece and goes on behind  *)
(* it.                                                                     *)
LEMMA ScanStops ==
    ASSUME NEW T, NEW s \in Seq(T), NEW S, NEW E, NEW M, NEW f, ScanFrom(f, s, S, E, M),
           NEW i \in 1..Len(s), s[i] \in S, E[i] # None, NEW U, M[i] \in Seq(U)
    PROVE  Goes(f, i, M[i], E[i] + 1)
<1>1. Len(s) \in Nat /\ i \in 1..(Len(s) + 1) /\ i \in Nat \ {0} /\ i \in i..Len(s)
  BY LenProperties
<1>2. FirstIn(s, S, i) = i
  <2>1. \A l \in i..(i - 1) : s[l] \notin S
    BY <1>1
  <2> QED
    BY <1>1, <2>1, FirstInIs
<1>3. i # None
  BY <1>1 DEF None
<1>4. f[i] = SubSeq(s, i, i - 1) \o M[i] \o f[E[i] + 1]
  BY <1>1, <1>2, <1>3 DEF ScanFrom
<1>5. SubSeq(s, i, i - 1) = <<>>
  <2>1. i \in Int /\ i - 1 \in Int /\ i - 1 < i
    BY <1>1
  <2> QED
    BY <2>1, SubSeqEmpty
<1>6. <<>> \o M[i] = M[i]
  BY ConcatEmptySeq
<1> QED
  BY <1>4, <1>5, <1>6 DEF Goes

IsAssociative(Q) ==
    /\ \A x, y \in Q : x \o y \in Q
    /\ \A x, y, z \in Q : (x \o y) \o z = x \o (y \o z)

(* Sequences over any set are put together in any order. *)
LEMMA SeqIsAssociative ==
    ASSUME NEW S
    PROVE  IsAssociative(Seq(S))
<1>1. \A x, y, z \in Seq(S) : (x \o y) \o z = x \o (y \o z)
  BY ConcatAssociative
<1>2. \A x, y \in Seq(S) : x \o y \in Seq(S)
  BY ConcatProperties
<1> QED
  BY <1>1, <1>2, Zenon DEF IsAssociative

(* Any other token stays. *)
LEMMA ScanPasses ==
    ASSUME NEW T, NEW s \in Seq(T), NEW S, NEW E, NEW M, NEW f, ScanFrom(f, s, S, E, M),
           NEW U, Makes(s, S, M, U), Gives(f, s, U), T \subseteq U, Ends(s, E),
           NEW i \in 1..Len(s), s[i] \notin S
    PROVE  Goes(f, i, <<s[i]>>, i + 1)
<1> DEFINE k == FirstIn(s, S, i + 1)
<1>1. /\ Len(s) \in Nat /\ i \in 1..(Len(s) + 1) /\ i + 1 \in 1..(Len(s) + 1)
      /\ i \in Nat \ {0} /\ i + 1 \in Nat \ {0} /\ i <= i + 1 /\ i + 1 \in Nat
  BY LenProperties
<1>2. FirstIn(s, S, i) = k
  <2>1. \A l \in i..(i + 1 - 1) : l <= Len(s) => s[l] \notin S
    BY <1>1
  <2> QED
    BY <1>1, <2>1, FirstInSkips
<1>3. (k = None \/ k \in (i + 1)..Len(s)) /\ (k # None => s[k] \in S)
  BY <1>1, FirstInFacts
<1> HIDE DEF k
<1>4. /\ f[i] = IF k = None \/ E[k] = None THEN From(s, i)
                ELSE SubSeq(s, i, k - 1) \o M[k] \o f[E[k] + 1]
      /\ f[i + 1] = IF k = None \/ E[k] = None THEN From(s, i + 1)
                    ELSE SubSeq(s, i + 1, k - 1) \o M[k] \o f[E[k] + 1]
  BY <1>1, <1>2 DEF ScanFrom, k
<1>5. CASE k = None \/ E[k] = None
  <2>1. i \in 1..Len(s) /\ Len(s) \in i..Len(s)
    BY <1>1
  <2>2. From(s, i) = <<s[i]>> \o From(s, i + 1)
    BY <2>1, SubSeqRecursiveFirst DEF From
  <2> QED
    BY <1>4, <1>5, <2>2 DEF Goes
<1>6. CASE ~(k = None \/ E[k] = None)
  <2>1. k - 1 \in i..Len(s) /\ k \in 1..Len(s) /\ s[k] \in S
    BY <1>1, <1>3, <1>6
  <2>2. SubSeq(s, i, k - 1) = <<s[i]>> \o SubSeq(s, i + 1, k - 1)
    BY <2>1, SubSeqRecursiveFirst
  <2>3. s[i] \in U /\ SubSeq(s, i + 1, k - 1) \in Seq(U)
    <3>1. k - 1 \in Int /\ k - 1 <= Len(s)
      BY <1>1, <2>1
    <3>2. SubSeq(s, i + 1, k - 1) \in Seq(T)
      BY <1>1, <3>1, PartOf
    <3> QED
      BY <3>2, ElementOfSeq, SeqMonotonic
  <2>4. M[k] \in Seq(U)
    BY <2>1 DEF Makes
  <2>5. f[E[k] + 1] \in Seq(U)
    <3>1. E[k] \in k..Len(s)
      BY <1>6, <2>1 DEF Ends
    <3>2. E[k] + 1 \in 1..(Len(s) + 1)
      BY <1>1, <2>1, <3>1
    <3> QED
      BY <3>2 DEF Gives
  <2> DEFINE Q == Seq(U)
             a == <<s[i]>>
             b == SubSeq(s, i + 1, k - 1)
             c == M[k]
             d == f[E[k] + 1]
             ab == SubSeq(s, i, k - 1)
             bc == b \o c
             x == f[i]
             y == f[i + 1]
  <2>6. a \in Q /\ b \in Q /\ c \in Q /\ d \in Q
    BY <2>3, <2>4, <2>5
  <2>7. x = (ab \o c) \o d /\ ab = a \o b /\ y = bc \o d
    BY <1>4, <1>6, <2>2
  <2>8. IsAssociative(Q)
    BY SeqIsAssociative
  <2> HIDE DEF Q, a, b, c, d, ab, x, y
  <2>9. ab \o c = a \o bc /\ bc \in Q
    BY <2>6, <2>7, <2>8, Zenon DEF IsAssociative
  <2> HIDE DEF bc
  <2>10. (a \o bc) \o d = a \o (bc \o d)
    BY <2>6, <2>8, <2>9, Zenon DEF IsAssociative
  <2>11. x = a \o y
    BY <2>7, <2>9, <2>10, Zenon
  <2> QED
    BY <2>11 DEF a, x, y, Goes
<1> QED
  BY <1>5, <1>6

(* The results of a scan are over any set with the text and the pieces in  *)
(* it.                                                                     *)
LEMMA ScanType ==
    ASSUME NEW T, NEW s \in Seq(T), NEW S, NEW E, NEW M, NEW f, ScanFrom(f, s, S, E, M),
           NEW U, Makes(s, S, M, U), T \subseteq U, Ends(s, E)
    PROVE  Gives(f, s, U)
<1> DEFINE n == Len(s) + 1
           P == {i \in 1..n : f[i] \in Seq(U)}
<1>1. Len(s) \in Nat /\ n \in Nat
  BY LenProperties
<1>2. ASSUME NEW i \in 1..n, \A m \in (i + 1)..n : m \in P
      PROVE  i \in P
  <2> DEFINE k == FirstIn(s, S, i)
  <2>1. i \in Nat \ {0}
    BY <1>1
  <2>2. (k = None \/ k \in i..Len(s)) /\ (k # None => s[k] \in S)
    BY <1>1, <2>1, FirstInFacts
  <2>3. f[i] = IF k = None \/ E[k] = None THEN From(s, i)
               ELSE SubSeq(s, i, k - 1) \o M[k] \o f[E[k] + 1]
    BY DEF ScanFrom
  <2> HIDE DEF k
  <2>4. \A b \in Int : b <= Len(s) => SubSeq(s, i, b) \in Seq(U)
    BY <2>1, PartOf, SeqMonotonic
  <2>5. CASE k = None \/ E[k] = None
    <3>1. Len(s) \in Int /\ Len(s) <= Len(s)
      BY <1>1
    <3> QED
      BY <2>3, <2>4, <2>5, <3>1 DEF From
  <2>6. CASE ~(k = None \/ E[k] = None)
    <3>1. k \in 1..Len(s) /\ k \in i..Len(s) /\ k - 1 \in Int /\ k - 1 <= Len(s) /\ s[k] \in S
      BY <1>1, <2>2, <2>6
    <3>2. E[k] \in k..Len(s)
      BY <2>6, <3>1 DEF Ends
    <3>3. E[k] + 1 \in (i + 1)..n
      BY <1>1, <3>1, <3>2
    <3>4. f[E[k] + 1] \in Seq(U)
      BY <1>2, <3>3
    <3>5. SubSeq(s, i, k - 1) \in Seq(U) /\ M[k] \in Seq(U)
      BY <2>4, <3>1 DEF Makes
    <3>6. SubSeq(s, i, k - 1) \o M[k] \in Seq(U)
      BY <3>5, ConcatProperties
    <3> QED
      BY <2>3, <2>6, <3>4, <3>6, ConcatProperties
  <2> QED
    BY <2>5, <2>6
<1> HIDE DEF P
<1>3. \A i \in 1..n : i \in P
  <2> HIDE DEF n
  <2> QED
    BY <1>1, <1>2, DownTo
<1> QED
  BY <1>3 DEF P, Gives

(* A text without tags and entities is shown as it is.                     *)
LEMMA ScanFindsNothing ==
    ASSUME NEW T, NEW s \in Seq(T), NEW S, NEW E, NEW M, NEW f, ScanFrom(f, s, S, E, M),
           \A k \in 1..Len(s) : s[k] \notin S
    PROVE  f[1] = s
<1>1. Len(s) \in Nat /\ 1 \in 1..(Len(s) + 1) /\ 1 \in Nat \ {0}
  BY LenProperties
<1>2. FirstIn(s, S, 1) = None
  BY <1>1, FirstInNone
<1>3. f[1] = From(s, 1)
  BY <1>1, <1>2 DEF ScanFrom
<1> QED
  BY <1>3, SubSeqFull DEF From

(* Text without tags and entities is shown as it is. *)
LEMMA PlainCellText ==
    ASSUME NEW T, NEW s \in Seq(T),
           \A k \in 1..Len(s) : s[k] \notin Tags \cup Entities \cup {"<", "&"}
    PROVE  CellText(s) = s
<1>1. Len(s) \in Nat
  BY LenProperties
<1>2. StripTags(s) = s
  <2>1. PICK f : StripTags(s) = f[1] /\ ScanFrom(f, s, Tags \cup {"<"}, StripEnds(s), StripMakes(s))
    BY <1>1, StripTagsUnfold
  <2>2. \A k \in 1..Len(s) : s[k] \notin Tags \cup {"<"}
    OBVIOUS
  <2> QED
    BY <2>1, <2>2, ScanFindsNothing
<1>3. DecodeEntities(s) = s
  <2>1. PICK f : /\ DecodeEntities(s) = f[1]
                 /\ ScanFrom(f, s, Entities \cup {"&"}, DecodeEnds(s), DecodeMakes(s))
    BY <1>1, DecodeEntitiesUnfold
  <2>2. \A k \in 1..Len(s) : s[k] \notin Entities \cup {"&"}
    OBVIOUS
  <2> QED
    BY <2>1, <2>2, ScanFindsNothing
<1> QED
  BY <1>2, <1>3 DEF CellText

(***************************************************************************)
(* Where a text stands in another                                          *)
(***************************************************************************)
(* Sequences over S put together are one over S. *)
LEMMA FlattenType ==
    ASSUME NEW S, NEW seqs \in Seq(Seq(S))
    PROVE  FlattenSeq(seqs) \in Seq(S)
<1>1. Len(seqs) \in Nat /\ Len(seqs) \in 0..Len(seqs)
  BY LenProperties
<1>2. PICK F \in [0..Len(seqs) -> Seq(S)] : ArePartsOf(F, seqs)
  BY FlattenParts
<1>3. FlattenSeq(seqs) = F[Len(seqs)]
  BY <1>2 DEF ArePartsOf
<1> QED
  BY <1>1, <1>3

StandsAt(s, p, w) ==
    /\ p \in Nat /\ Len(s) \in Nat /\ Len(w) \in Nat /\ p + Len(w) <= Len(s)
    /\ \A k \in 1..Len(w) : s[p + k] = w[k]

(* The part of s where w stands is w. *)
LEMMA PartStands ==
    ASSUME NEW T, NEW s \in Seq(T), NEW U, NEW w \in Seq(U), NEW p, StandsAt(s, p, w)
    PROVE  SubSeq(s, p + 1, p + Len(w)) = w
<1> DEFINE n == Len(w)
           u == SubSeq(s, p + 1, p + n)
<1>1. n \in Nat /\ Len(s) \in Nat /\ p \in Nat /\ p + n <= Len(s) /\ \A k \in 1..n : s[p + k] = w[k]
  BY DEF StandsAt
<1> HIDE DEF n
<1> DEFINE a == p + 1
           b == p + n
<1>2. /\ a \in Nat \ {0} /\ b \in Int /\ b <= Len(s) /\ u = SubSeq(s, a, b) /\ b - a + 1 = n
      /\ (a <= b <=> n # 0) /\ \A k \in 1..n : a + k - 1 = p + k
  BY <1>1 DEF n
<1> HIDE DEF a, b, u
<1>3. /\ u \in Seq(T) /\ Len(u) = (IF a <= b THEN b - a + 1 ELSE 0)
      /\ \A k \in 1..(b - a + 1) : u[k] = s[a + k - 1]
  BY <1>2, PartOf
<1>4. Len(u) = n /\ \A k \in 1..n : u[k] = w[k]
  BY <1>1, <1>2, <1>3
<1>5. u = w
  <2> DEFINE V == T \cup U
  <2>1. u \in Seq(V) /\ w \in Seq(V)
    BY <1>3, SeqMonotonic
  <2> HIDE DEF V
  <2> QED
    BY <1>4, <2>1, SeqEqual DEF n
<1> QED
  BY <1>2, <1>5 DEF a, b, n

(* What stands in a text that stands in s stands in s. *)
LEMMA StandsIn ==
    ASSUME NEW s, NEW p, NEW w, StandsAt(s, p, w), NEW q, NEW v, StandsAt(w, q, v)
    PROVE  StandsAt(s, p + q, v)
<1> DEFINE m == Len(w)
           n == Len(v)
           x == p + q
<1>1. /\ p \in Nat /\ Len(s) \in Nat /\ m \in Nat /\ p + m <= Len(s) /\ \A k \in 1..m : s[p + k] = w[k]
      /\ q \in Nat /\ n \in Nat /\ q + n <= m /\ \A k \in 1..n : w[q + k] = v[k]
  BY DEF StandsAt
<1> HIDE DEF m, n
<1>2. x \in Nat /\ x + n <= Len(s)
  BY <1>1
<1>3. ASSUME NEW k \in 1..n PROVE s[x + k] = v[k]
  <2> DEFINE j == q + k
  <2>1. j \in 1..m /\ p + j = x + k
    BY <1>1
  <2>2. w[j] = v[k]
    BY <1>1
  <2> HIDE DEF j, x
  <2>3. s[p + j] = w[j]
    BY <1>1, <2>1
  <2> QED
    BY <2>1, <2>2, <2>3
<1> QED
  BY <1>1, <1>2, <1>3 DEF StandsAt, n

IsConcat(c, a, b) == c = a \o b

(* Where two texts stand put together, each of them stands. *)
LEMMA ConcatStands ==
    ASSUME NEW s, NEW p, NEW S, NEW a \in Seq(S), NEW b \in Seq(S), NEW c, IsConcat(c, a, b),
           StandsAt(s, p, c)
    PROVE  /\ StandsAt(s, p, a) /\ StandsAt(s, p + Len(a), b)
           /\ Len(a) \in Nat /\ Len(b) \in Nat /\ Len(c) = Len(a) + Len(b)
<1> DEFINE m == Len(a)
           n == Len(b)
<1>1. /\ Len(c) = m + n /\ m \in Nat /\ n \in Nat
      /\ \A i \in 1..(m + n) : c[i] = IF i <= m THEN a[i] ELSE b[i - m]
  BY ConcatProperties, LenProperties DEF IsConcat
<1>2. p \in Nat /\ Len(s) \in Nat /\ p + Len(c) <= Len(s) /\ \A k \in 1..Len(c) : s[p + k] = c[k]
  BY DEF StandsAt
<1> HIDE DEF m, n
<1>3. \A k \in 1..m : s[p + k] = a[k]
  <2> SUFFICES ASSUME NEW k \in 1..m PROVE s[p + k] = a[k]
    OBVIOUS
  <2>1. k \in 1..(m + n) /\ k \in 1..Len(c) /\ k <= m
    BY <1>1
  <2> QED
    BY <1>1, <1>2, <2>1
<1>4. p + m <= Len(s) /\ p + m \in Nat /\ p + m + n <= Len(s)
  BY <1>1, <1>2
<1>5. \A k \in 1..n : s[p + m + k] = b[k]
  <2> SUFFICES ASSUME NEW k \in 1..n PROVE s[p + m + k] = b[k]
    OBVIOUS
  <2> DEFINE j == m + k
  <2>1. j \in 1..(m + n) /\ j \in 1..Len(c) /\ ~(j <= m) /\ j - m = k /\ p + j = p + m + k
    BY <1>1, <1>2
  <2> HIDE DEF j
  <2>2. s[p + j] = c[j] /\ c[j] = b[j - m]
    BY <1>1, <1>2, <2>1
  <2> QED
    BY <2>1, <2>2
<1>6. StandsAt(s, p, a)
  BY <1>1, <1>2, <1>3, <1>4 DEF StandsAt, m
<1>7. StandsAt(s, p + m, b)
  BY <1>1, <1>2, <1>4, <1>5 DEF StandsAt, n
<1> QED
  BY <1>1, <1>6, <1>7 DEF m, n

(* Each of the pieces stands in what they make behind the ones before. *)
LEMMA PiecesStand ==
    ASSUME NEW S, NEW seqs \in Seq(Seq(S)), NEW F, ArePartsOf(F, seqs), NEW k \in 1..Len(seqs)
    PROVE  /\ StandsAt(FlattenSeq(seqs), Len(F[k - 1]), seqs[k])
           /\ Len(F[k]) = Len(F[k - 1]) + Len(seqs[k])
           /\ Len(F[k - 1]) \in Nat /\ Len(seqs[k]) \in Nat
<1> DEFINE n == Len(seqs)
           p == Len(F[k - 1])
           w == seqs[k]
           s == FlattenSeq(seqs)
<1>1. n \in Nat /\ k \in 0..n /\ n \in 0..n /\ k - 1 \in 0..n /\ k \in 0..n
  BY LenProperties
<1>2. /\ p \in Nat /\ Len(w) \in Nat /\ Len(F[k]) = p + Len(w) /\ Len(F[k]) \in Nat
      /\ F[n] = s /\ Len(F[n]) \in Nat
  BY <1>1 DEF ArePartsOf
<1>3. Len(F[k]) <= Len(F[n])
  BY <1>1 DEF ArePartsOf
<1>4. \A j \in 1..Len(w) : s[p + j] = w[j]
  BY DEF ArePartsOf
<1> HIDE DEF p, w, s, n
<1>5. StandsAt(s, p, w)
  BY <1>2, <1>3, <1>4 DEF StandsAt
<1> QED
  BY <1>2, <1>5 DEF p, w, s

(***************************************************************************)
(* Results put together from pieces                                        *)
(***************************************************************************)
IsChain(g, seqs) == \A k \in 1..Len(seqs) : g[k - 1] = seqs[k] \o g[k]

(* A chain starts with all its pieces put together and its end. *)
LEMMA ChainFlattens ==
    ASSUME NEW S, NEW seqs \in Seq(Seq(S)), NEW g, IsChain(g, seqs), g[Len(seqs)] \in Seq(S)
    PROVE  g[0] = FlattenSeq(seqs) \o g[Len(seqs)]
<1> DEFINE n == Len(seqs)
           Q == Seq(S)
           D == {k \in 1..n : g[k] \in Q}
<1>1. n \in Nat /\ \A k \in 1..n : seqs[k] \in Q
  BY LenProperties, ElementOfSeq
<1>2. \A k \in 1..n : g[k - 1] = seqs[k] \o g[k]
  BY DEF IsChain
<1>3. PICK F \in [0..n -> Q] : ArePartsOf(F, seqs)
  BY FlattenParts
<1>4. F[0] = <<>> /\ F[n] = FlattenSeq(seqs) /\ \A k \in 1..n : F[k] = F[k - 1] \o seqs[k]
  BY <1>3 DEF ArePartsOf
<1>5. IsAssociative(Q) /\ \A x \in Q : <<>> \o x = x
  BY SeqIsAssociative, ConcatEmptySeq
<1>6. g[n] \in Q
  OBVIOUS
<1> HIDE DEF n, Q
<1>7. ASSUME NEW k \in 1..n, \A m \in (k + 1)..n : m \in D
      PROVE  k \in D
  <2>1. CASE k = n
    BY <1>6, <2>1
  <2>2. CASE k # n
    <3>1. k + 1 \in (k + 1)..n /\ k + 1 \in 1..n /\ k + 1 - 1 = k
      BY <1>1, <2>2
    <3>2. g[k + 1] \in Q /\ seqs[k + 1] \in Q /\ g[k + 1 - 1] = seqs[k + 1] \o g[k + 1]
      BY <1>1, <1>2, <1>7, <3>1, SMTT(30)
    <3>3. seqs[k + 1] \o g[k + 1] \in Q
      BY <1>5, <3>2, Zenon DEF IsAssociative
    <3> QED
      BY <3>1, <3>2, <3>3
  <2> QED
    BY <2>1, <2>2
<1> HIDE DEF D
<1>8. \A k \in 1..n : k \in D
  BY <1>1, <1>7, DownTo
<1>9. \A k \in 1..n : g[k] \in Q
  BY <1>8 DEF D
<1>9a. g[0] \in Q
  <2>1. CASE n = 0
    BY <1>6, <2>1
  <2>2. CASE n # 0
    <3>1. 1 \in 1..n /\ 1 - 1 = 0
      BY <1>1, <2>2
    <3>2. g[1 - 1] = seqs[1] \o g[1] /\ seqs[1] \in Q /\ g[1] \in Q
      BY <1>1, <1>2, <1>9, <3>1
    <3>3. seqs[1] \o g[1] \in Q
      BY <1>5, <3>2, Zenon DEF IsAssociative
    <3> QED
      BY <3>1, <3>2, <3>3
  <2> QED
    BY <2>1, <2>2
<1> DEFINE P == {k \in 0..n : g[0] = F[k] \o g[k]}
<1>10. ASSUME NEW k \in 0..n, \A m \in 0..(k - 1) : m \in P
       PROVE  k \in P
  <2>1. CASE k = 0
    <3>1. g[0] = F[0] \o g[0]
      BY <1>4, <1>5, <1>9a
    <3> QED
      BY <2>1, <3>1
  <2>2. CASE k # 0
    <3>1. k - 1 \in 0..(k - 1) /\ k \in 1..n /\ k - 1 \in 0..n
      BY <1>1, <2>2
    <3> DEFINE a == F[k - 1]
               b == seqs[k]
               c == g[k]
    <3>2. g[0] = a \o g[k - 1] /\ g[k - 1] = b \o c /\ F[k] = a \o b
      BY <1>2, <1>4, <1>10, <3>1
    <3>3. a \in Q /\ b \in Q /\ c \in Q
      BY <1>1, <1>3, <1>9, <3>1
    <3> HIDE DEF a, b
    <3>4. (a \o b) \o c = a \o (b \o c)
      BY <1>5, <3>3, Zenon DEF IsAssociative
    <3>5. g[0] = F[k] \o g[k]
      BY <3>2, <3>4
    <3> QED
      BY <3>5
  <2> QED
    BY <2>1, <2>2
<1> HIDE DEF P
<1>11. \A k \in 0..n : k \in P
  BY <1>1, <1>10, UpTo
<1>12. g[0] = F[n] \o g[n]
  <2>1. n \in 0..n
    BY <1>1
  <2> QED
    BY <1>11, <2>1 DEF P
<1> QED
  BY <1>4, <1>12 DEF n

(* A chain that ends with nothing is its pieces put together. *)
LEMMA ChainEnds ==
    ASSUME NEW S, NEW seqs \in Seq(Seq(S)), NEW g, IsChain(g, seqs), g[Len(seqs)] = <<>>
    PROVE  g[0] = FlattenSeq(seqs)
<1>1. g[Len(seqs)] \in Seq(S)
  BY EmptySeq
<1>2. g[0] = FlattenSeq(seqs) \o g[Len(seqs)]
  BY <1>1, ChainFlattens
<1>3. FlattenSeq(seqs) \in Seq(S)
  BY FlattenType
<1> QED
  BY <1>2, <1>3, ConcatEmptySeq

(* Pieces of one element each, and of as many elements as the pieces of    *)
(* another sequence                                                        *)
LEMMA FlattenSingles ==
    ASSUME NEW S, NEW h \in Seq(S)
    PROVE  FlattenSeq([i \in DOMAIN h |-> <<h[i]>>]) = h
<1> DEFINE n == Len(h)
           Q == Seq(S)
           seqs == [i \in DOMAIN h |-> <<h[i]>>]
           g == [k \in 0..n |-> SubSeq(h, k + 1, n)]
<1>1. n \in Nat /\ DOMAIN h = 1..n /\ \A i \in 1..n : h[i] \in S
  BY LenProperties, ElementOfSeq
<1>2. \A i \in 1..n : seqs[i] = <<h[i]>> /\ <<h[i]>> \in Q
  BY <1>1
<1>3. seqs \in Seq(Q) /\ Len(seqs) = n
  <2>1. seqs \in [1..n -> Q]
    <3> HIDE DEF Q
    <3> QED
      BY <1>1, <1>2
  <2> HIDE DEF seqs, n, Q
  <2> QED
    BY <1>1, <2>1, FcnIsSeq
<1> HIDE DEF seqs
<1>4. IsChain(g, seqs)
  <2> SUFFICES ASSUME NEW k \in 1..n PROVE g[k - 1] = seqs[k] \o g[k]
    BY <1>3 DEF IsChain
  <2>1. k - 1 \in 0..n /\ k \in 0..n /\ k - 1 + 1 = k
    BY <1>1
  <2>2. g[k - 1] = SubSeq(h, k, n) /\ g[k] = SubSeq(h, k + 1, n)
    BY <2>1
  <2>3. k \in 1..Len(h) /\ n \in k..Len(h)
    BY <1>1
  <2>4. SubSeq(h, k, n) = <<h[k]>> \o SubSeq(h, k + 1, n)
    <3> HIDE DEF n
    <3> QED
      BY <2>3, SubSeqRecursiveFirst
  <2> HIDE DEF g
  <2> QED
    BY <1>2, <2>2, <2>4
<1>5. g[n] = <<>>
  <2>1. n \in 0..n /\ n + 1 \in Int /\ n \in Int /\ n < n + 1
    BY <1>1
  <2>2. SubSeq(h, n + 1, n) = <<>>
    BY <2>1, SubSeqEmpty
  <2> QED
    BY <2>1, <2>2
<1>6. g[0] = h
  <2>1. 0 \in 0..n
    BY <1>1
  <2>2. SubSeq(h, 1, n) = h
    BY SubSeqFull
  <2> QED
    BY <2>1, <2>2
<1> HIDE DEF g
<1>7. g[0] = FlattenSeq(seqs)
  BY <1>3, <1>4, <1>5, ChainEnds
<1> QED
  BY <1>6, <1>7 DEF seqs

MapsTo(a, b, V) == Len(a) = Len(b) /\ \A j \in 1..Len(a) : b[j] = V[a[j]]

(* Pieces that are mapped one by one are mapped as a whole. *)
LEMMA FlattenMaps ==
    ASSUME NEW S, NEW a \in Seq(Seq(S)), NEW R, NEW b \in Seq(Seq(R)), NEW V,
           Len(a) = Len(b), \A k \in 1..Len(a) : MapsTo(a[k], b[k], V)
    PROVE  MapsTo(FlattenSeq(a), FlattenSeq(b), V)
<1> DEFINE n == Len(a)
<1>1. n \in Nat /\ Len(b) = n
  BY LenProperties
<1>2. PICK F \in [0..Len(a) -> Seq(S)] : ArePartsOf(F, a)
  BY FlattenParts
<1>3. PICK G \in [0..Len(b) -> Seq(R)] : ArePartsOf(G, b)
  BY FlattenParts
<1> DEFINE P == {k \in 0..n : MapsTo(F[k], G[k], V)}
<1>4. ASSUME NEW k \in 0..n, \A m \in 0..(k - 1) : m \in P
      PROVE  k \in P
  <2>1. CASE k = 0
    <3>1. F[0] = <<>> /\ G[0] = <<>> /\ Len(<<>>) = 0
      BY <1>2, <1>3 DEF ArePartsOf
    <3>2. MapsTo(F[0], G[0], V)
      BY <3>1 DEF MapsTo
    <3> QED
      BY <2>1, <3>2
  <2>2. CASE k # 0
    <3>1. k - 1 \in 0..(k - 1) /\ k \in 1..n /\ k - 1 \in 0..n
      BY <1>1, <2>2
    <3> DEFINE x == F[k - 1]
               y == G[k - 1]
               u == a[k]
               v == b[k]
    <3>2. x \in Seq(S) /\ y \in Seq(R) /\ u \in Seq(S) /\ v \in Seq(R)
      BY <1>1, <1>2, <1>3, <3>1, ElementOfSeq
    <3>3. MapsTo(x, y, V) /\ MapsTo(u, v, V)
      BY <1>4, <3>1
    <3>4. F[k] = x \o u /\ G[k] = y \o v
      BY <1>1, <1>2, <1>3, <3>1 DEF ArePartsOf
    <3> HIDE DEF x, y, u, v
    <3>5. /\ Len(x \o u) = Len(x) + Len(u)
          /\ \A i \in 1..(Len(x) + Len(u)) : (x \o u)[i] = IF i <= Len(x) THEN x[i] ELSE u[i - Len(x)]
      BY <3>2, ConcatProperties
    <3>6. /\ Len(y \o v) = Len(y) + Len(v)
          /\ \A i \in 1..(Len(y) + Len(v)) : (y \o v)[i] = IF i <= Len(y) THEN y[i] ELSE v[i - Len(y)]
      BY <3>2, ConcatProperties
    <3> DEFINE c == x \o u
               d == y \o v
    <3> HIDE DEF c, d
    <3>7. Len(x) = Len(y) /\ Len(u) = Len(v) /\ Len(x) \in Nat /\ Len(u) \in Nat
      BY <3>2, <3>3, LenProperties DEF MapsTo
    <3>8. Len(c) = Len(x) + Len(u) /\ Len(d) = Len(c)
      BY <3>5, <3>6, <3>7 DEF c, d
    <3>9. ASSUME NEW j \in 1..Len(c) PROVE d[j] = V[c[j]]
      <4>1. j \in 1..(Len(x) + Len(u))
        BY <3>8
      <4>2. CASE j <= Len(x)
        <5>1. c[j] = x[j] /\ d[j] = y[j] /\ j \in 1..Len(x)
          BY <3>5, <3>6, <3>7, <4>1, <4>2 DEF c, d
        <5> QED
          BY <3>3, <5>1 DEF MapsTo
      <4>3. CASE ~(j <= Len(x))
        <5> DEFINE i == j - Len(x)
        <5>1. c[j] = u[i] /\ d[j] = v[i]
          BY <3>5, <3>6, <3>7, <4>1, <4>3 DEF c, d
        <5>2. i \in 1..Len(u)
          BY <3>7, <4>1, <4>3
        <5> HIDE DEF i
        <5> QED
          BY <3>3, <5>1, <5>2 DEF MapsTo
      <4> QED
        BY <4>2, <4>3
    <3>10. MapsTo(c, d, V)
      BY <3>8, <3>9 DEF MapsTo
    <3> QED
      BY <3>4, <3>10 DEF c, d
  <2> QED
    BY <2>1, <2>2
<1> HIDE DEF P
<1>5. \A k \in 0..n : k \in P
  <2> HIDE DEF n
  <2> QED
    BY <1>1, <1>4, UpTo
<1>6. n \in 0..n /\ F[n] = FlattenSeq(a) /\ G[n] = FlattenSeq(b)
  BY <1>1, <1>2, <1>3 DEF ArePartsOf
<1> QED
  BY <1>5, <1>6 DEF P

(***************************************************************************)
(* The cells of a row                                                      *)
(***************************************************************************)
(* Each search for a tag is a scan for the forms it is written in. *)
LEMMA OpensAs ==
    /\ \A s, i : FindOpen(s, "tr", i) = FirstIn(s, {"<tr>"}, i)
    /\ \A s, i : FindClose(s, "tr", i) = FirstIn(s, {"</tr>"}, i)
    /\ \A s, i : FindOpen(s, "table", i) = FirstIn(s, {"<table>", "<table border=1>"}, i)
    /\ \A s, i : FindClose(s, "table", i) = FirstIn(s, {"</table>"}, i)
    /\ \A s, i : FindOpen(s, "td", i) = FirstIn(s, {"<td>", "<td rowspan=2>", "<td rowspan=0>"}, i)
    /\ \A s, i : FindClose(s, "td", i) = FirstIn(s, {"</td>"}, i)
    /\ \A s, i : FindOpen(s, "th", i) = FirstIn(s, {"<th>"}, i)
    /\ \A s, i : FindClose(s, "th", i) = FirstIn(s, {"</th>"}, i)
  BY TagForms DEF FindOpen, FindClose

CTag(row, i)   == NextCellTag(row, i)[1]
CStart(row, i) == NextCellTag(row, i)[2]
CEnd(row, i)   == FindClose(row, CTag(row, i), CStart(row, i) + 1)
CFound(row, i) == [text |-> CellText(SubSeq(row, CStart(row, i) + 1, CEnd(row, i) - 1)),
                   rowSpan |-> RowSpan(row[CStart(row, i)])]
COver(row, i)  == CStart(row, i) = None \/ CEnd(row, i) = None

CFrom(f, row) ==
    \A i \in 1..(Len(row) + 1) :
        f[i] = IF COver(row, i) THEN <<>> ELSE <<CFound(row, i)>> \o f[CEnd(row, i) + 1]

(* The loop of parse_table_cells takes the td or th that opens first. *)
LEMMA CTagIs ==
    ASSUME NEW row, Len(row) \in Nat, NEW i \in 1..(Len(row) + 1)
    PROVE  /\ \/ CTag(row, i) = "td" /\ CStart(row, i) = FindOpen(row, "td", i)
                 /\ (FindOpen(row, "th", i) = None \/ FindOpen(row, "td", i) <= FindOpen(row, "th", i))
                 /\ FindOpen(row, "td", i) # None
              \/ CTag(row, i) = "th" /\ CStart(row, i) = FindOpen(row, "th", i)
                 /\ (FindOpen(row, "td", i) = None
                     \/ (FindOpen(row, "th", i) # None /\ ~(FindOpen(row, "td", i) <= FindOpen(row, "th", i))))
           /\ FindOpen(row, "td", i) = None \/ FindOpen(row, "td", i) \in i..Len(row)
           /\ FindOpen(row, "th", i) = None \/ FindOpen(row, "th", i) \in i..Len(row)
<1> DEFINE td == FindOpen(row, "td", i)
           th == FindOpen(row, "th", i)
<1>1. NextCellTag(row, i) = IF td # None /\ (th = None \/ td <= th) THEN <<"td", td>> ELSE <<"th", th>>
  BY DEF NextCellTag
<1>2. (td = None \/ td \in i..Len(row)) /\ (th = None \/ th \in i..Len(row))
  BY FirstInFacts DEF FindOpen
<1> HIDE DEF td, th
<1>3. CASE td # None /\ (th = None \/ td <= th)
  <2>1. NextCellTag(row, i)[1] = "td" /\ NextCellTag(row, i)[2] = td
    BY <1>1, <1>3
  <2> QED
    BY <1>2, <1>3, <2>1 DEF td, th, CTag, CStart
<1>4. CASE ~(td # None /\ (th = None \/ td <= th))
  <2>1. NextCellTag(row, i)[1] = "th" /\ NextCellTag(row, i)[2] = th
    BY <1>1, <1>4
  <2> QED
    BY <1>2, <1>4, <2>1 DEF td, th, CTag, CStart
<1> QED
  BY <1>3, <1>4

(* What it finds stands in this order in the row. *)
LEMMA CPositions ==
    ASSUME NEW row, Len(row) \in Nat, NEW i \in 1..(Len(row) + 1), ~COver(row, i)
    PROVE  /\ CStart(row, i) \in i..Len(row)
           /\ CEnd(row, i) \in (CStart(row, i) + 1)..Len(row)
<1>1. CStart(row, i) = None \/ CStart(row, i) \in i..Len(row)
  <2> DEFINE td == FindOpen(row, "td", i)
             th == FindOpen(row, "th", i)
             c == CStart(row, i)
  <2>1. (c = td \/ c = th) /\ (td = None \/ td \in i..Len(row)) /\ (th = None \/ th \in i..Len(row))
    BY CTagIs
  <2> HIDE DEF td, th, c
  <2>2. c = None \/ c \in i..Len(row)
    BY <2>1
  <2> QED
    BY <2>2 DEF c
<1>2. CStart(row, i) \in i..Len(row)
  BY <1>1 DEF COver
<1>3. CEnd(row, i) \in (CStart(row, i) + 1)..Len(row)
  <2>1. CStart(row, i) + 1 \in Nat \ {0}
    BY <1>2
  <2> QED
    BY <2>1, FirstInFacts DEF COver, CEnd, FindClose
<1> QED
  BY <1>2, <1>3

(* Cells is a loop over the positions of the row. *)
LEMMA CellsUnfold ==
    ASSUME NEW row, Len(row) \in Nat
    PROVE  \E f : Cells(row) = f[1] /\ CFrom(f, row)
<1> DEFINE n == Len(row) + 1
           next(i) == IF COver(row, i) THEN None ELSE CEnd(row, i) + 1
           step == [i \in 1..n |->
                      [next |-> next(i), skips |-> FALSE,
                       piece |-> IF COver(row, i) THEN <<>> ELSE <<CFound(row, i)>>]]
           body(f, i) == IF COver(row, i) THEN <<>>
                         ELSE <<CFound(row, i)>> \o f[CEnd(row, i) + 1]
<1>1. n \in Nat
  OBVIOUS
<1>2. \A i \in 1..n : ~COver(row, i) => next(i) \in (i + 1)..n /\ next(i) # None
  <2> SUFFICES ASSUME NEW i \in 1..n, ~COver(row, i)
               PROVE  next(i) \in (i + 1)..n /\ next(i) # None
    OBVIOUS
  <2>1. CStart(row, i) \in i..Len(row) /\ CEnd(row, i) \in (CStart(row, i) + 1)..Len(row)
    BY CPositions
  <2> QED
    BY <2>1 DEF None
<1>3. \A i \in 1..n : /\ step[i].next = next(i) /\ step[i].skips = FALSE
                       /\ step[i].piece = IF COver(row, i) THEN <<>> ELSE <<CFound(row, i)>>
  OBVIOUS
<1> HIDE DEF step
<1>4. IsLoop(step, n)
  BY <1>2, <1>3 DEF IsLoop
<1>5. PICK g : IsRun(g, step, n)
  BY <1>1, <1>4, LoopExists
<1>6. \A i \in 1..n : After(step, g, i) = body(g, i)
  BY <1>2, <1>3 DEF After
<1>7. g = [i \in 1..n |-> body(g, i)]
  <2>1. g = [i \in 1..n |-> After(step, g, i)]
    BY <1>5 DEF IsRun
  <2> HIDE DEF body
  <2> QED
    BY <1>6, <2>1
<1> DEFINE f == CHOOSE f : f = [i \in 1..n |-> body(f, i)]
<1>8. f = [i \in 1..n |-> body(f, i)]
  <2> HIDE DEF body
  <2> QED
    BY <1>7
<1>9. Cells(row) = f[1]
  BY DEF Cells, f, body, COver, CStart, CEnd, CTag, CFound
<1> HIDE DEF f
<1>10. CFrom(f, row)
  <2>1. \A i \in 1..n : f[i] = body(f, i)
    <3> HIDE DEF body
    <3> QED
      BY <1>8
  <2> QED
    BY <2>1 DEF CFrom
<1> QED
  BY <1>9, <1>10

(* A cell that is written at i, up to its closing tag at e                 *)
CellStands(row, i, e) ==
    /\ \/ row[i] \in {"<td>", "<td rowspan=2>", "<td rowspan=0>"} /\ row[e] \in {"</td>"}
       \/ row[i] \in {"<th>"} /\ row[e] \in {"</th>"}
    /\ \A k \in (i + 1)..(e - 1) : row[k] \notin {"</td>"} /\ row[k] \notin {"</th>"}

(* Where a cell stands next, the loop finds it. *)
LEMMA CellAt ==
    ASSUME NEW row, Len(row) \in Nat, NEW i \in 1..Len(row), NEW e \in (i + 1)..Len(row),
           CellStands(row, i, e)
    PROVE  ~COver(row, i) /\ CStart(row, i) = i /\ CEnd(row, i) = e
<1> DEFINE td == FindOpen(row, "td", i)
           th == FindOpen(row, "th", i)
           c == CStart(row, i)
           t == CTag(row, i)
           D == {"<td>", "<td rowspan=2>", "<td rowspan=0>"}
           H == {"<th>"}
           DE == {"</td>"}
           HE == {"</th>"}
<1>0. /\ i \in Nat \ {0} /\ i \in 1..(Len(row) + 1) /\ i \in i..Len(row) /\ i + 1 \in Nat \ {0}
      /\ i # None /\ e # None /\ \A l \in i..(i - 1) : FALSE
  BY DEF None
<1>1. /\ \/ t = "td" /\ c = td /\ (th = None \/ td <= th) /\ td # None
         \/ t = "th" /\ c = th /\ (td = None \/ (th # None /\ ~(td <= th)))
      /\ (td = None \/ td \in i..Len(row)) /\ (th = None \/ th \in i..Len(row))
  BY <1>0, CTagIs
<1>2. D \cap H = {}
  OBVIOUS
<1>3. /\ (row[i] \in D /\ row[e] \in DE) \/ (row[i] \in H /\ row[e] \in HE)
      /\ \A k \in (i + 1)..(e - 1) : row[k] \notin DE /\ row[k] \notin HE
  BY DEF CellStands
<1>4. /\ td = FirstIn(row, D, i) /\ th = FirstIn(row, H, i)
      /\ \A k : FindClose(row, "td", k) = FirstIn(row, DE, k) /\ FindClose(row, "th", k) = FirstIn(row, HE, k)
  BY OpensAs, ZenonT(30)
<1> HIDE DEF D, H, DE, HE, td, th
<1>5. CASE row[i] \in H /\ row[e] \in HE
  <2>1. th = i
    BY <1>0, <1>4, <1>5, FirstInIs
  <2>2. td # i
    <3>1. td # None => row[td] \in D
      BY <1>0, <1>4, FirstInFacts
    <3> QED
      BY <1>0, <1>2, <1>5, <3>1
  <2> HIDE DEF c, t
  <2>3. t = "th" /\ c = i
    BY <1>0, <1>1, <2>1, <2>2
  <2>4. FirstIn(row, HE, i + 1) = e
    BY <1>0, <1>3, <1>5, FirstInIs
  <2>5. CEnd(row, i) = e
    BY <1>4, <2>3, <2>4 DEF CEnd, t, c
  <2> QED
    BY <1>0, <2>3, <2>5 DEF COver, c
<1>6. CASE row[i] \in D /\ row[e] \in DE
  <2>1. td = i
    BY <1>0, <1>4, <1>6, FirstInIs
  <2> HIDE DEF c, t
  <2>3. t = "td" /\ c = i
    BY <1>0, <1>1, <2>1
  <2>4. FirstIn(row, DE, i + 1) = e
    BY <1>0, <1>3, <1>6, FirstInIs
  <2>5. CEnd(row, i) = e
    BY <1>4, <2>3, <2>4 DEF CEnd, t, c
  <2> QED
    BY <1>0, <2>3, <2>5 DEF COver, c
<1> QED
  BY <1>3, <1>5, <1>6

(***************************************************************************)
(* The rows of a table                                                     *)
(***************************************************************************)
(* The loop passes over everything up to the next row. *)
LEMMA RSkips ==
    ASSUME NEW html, Len(html) \in Nat, NEW tableEnd, NEW f, RFrom(f, html, tableEnd),
           NEW i \in 1..(Len(html) + 1), NEW j \in i..(Len(html) + 1),
           \A l \in i..(j - 1) : html[l] # "<tr>"
    PROVE  f[i] = f[j]
<1>1. i \in Nat \ {0} /\ j \in Nat /\ i <= j /\ j \in 1..(Len(html) + 1)
  OBVIOUS
<1>2. FirstIn(html, {"<tr>"}, i) = FirstIn(html, {"<tr>"}, j)
  <2>1. \A l \in i..(j - 1) : l <= Len(html) => html[l] \notin {"<tr>"}
    OBVIOUS
  <2> QED
    BY <1>1, <2>1, FirstInSkips
<1>3. RStart(html, i) = RStart(html, j)
  <2>1. \A k : RStart(html, k) = FirstIn(html, {"<tr>"}, k)
    BY OpensAs, ZenonT(30) DEF RStart
  <2> QED
    BY <1>2, <2>1, Zenon
<1>4. /\ REnd(html, i) = REnd(html, j) /\ RPiece(html, i) = RPiece(html, j)
      /\ ROver(html, tableEnd, i) <=> ROver(html, tableEnd, j)
  BY <1>3 DEF REnd, RPiece, RCells, ROver
<1> QED
  BY <1>1, <1>4 DEF RFrom

(* The rows found are a sequence of rows, from whatever position.          *)
LEMMA RowsType ==
    ASSUME NEW html, Len(html) \in Nat, NEW tableEnd, NEW f, RFrom(f, html, tableEnd),
           NEW S, \A i \in 1..(Len(html) + 1) : RCells(html, i) \in S
    PROVE  \A i \in 1..(Len(html) + 1) : f[i] \in Seq(S)
<1> DEFINE n == Len(html) + 1
           Q == Seq(S)
           P == {i \in 1..n : f[i] \in Q}
<1>1. n \in Nat
  OBVIOUS
<1>2. ASSUME NEW i \in 1..n, \A m \in (i + 1)..n : m \in P
      PROVE  i \in P
  <2>1. CASE ROver(html, tableEnd, i)
    <3>1. f[i] = <<>>
      BY <2>1 DEF RFrom
    <3> QED
      BY <3>1, EmptySeq
  <2>2. CASE ~ROver(html, tableEnd, i)
    <3> DEFINE a == RPiece(html, i)
               e == REnd(html, i) + 1
               x == RCells(html, i)
    <3>1. f[i] = a \o f[e]
      BY <2>2 DEF RFrom
    <3>2. RStart(html, i) \in i..Len(html) /\ REnd(html, i) \in (RStart(html, i) + 1)..Len(html)
      BY <2>2, RPositions
    <3>3. e \in (i + 1)..n
      BY <3>2
    <3>4. f[e] \in Q
      BY <1>2, <3>3
    <3>5. a \in Q
      <4>1. x \in S /\ a = IF x = <<>> THEN <<>> ELSE <<x>>
        BY DEF RPiece
      <4> HIDE DEF x, a
      <4> QED
        BY <4>1, EmptySeq
    <3>6. a \o f[e] \in Q
      <4> HIDE DEF a, e
      <4> QED
        BY <3>4, <3>5, ConcatProperties
    <3> QED
      BY <3>1, <3>6
  <2> QED
    BY <2>1, <2>2
<1> HIDE DEF P, n
<1>3. \A i \in 1..n : i \in P
  BY <1>1, <1>2, DownTo
<1> QED
  BY <1>3 DEF P, n

(* A text that begins as a written table does, up to the c-th token.       *)
AgreeUpTo(c, html, whole) ==
    /\ c \in Nat /\ c <= Len(html) /\ c <= Len(whole)
    /\ \A l \in 1..c : html[l] = whole[l]

(* What stands in the agreed part of one text stands in the other. *)
LEMMA AgreeStands ==
    ASSUME NEW html, Len(html) \in Nat, NEW whole, NEW c, AgreeUpTo(c, html, whole),
           NEW p, NEW w, StandsAt(whole, p, w), p + Len(w) <= c
    PROVE  StandsAt(html, p, w)
<1> DEFINE n == Len(w)
<1>1. /\ p \in Nat /\ n \in Nat /\ p + n <= c /\ \A k \in 1..n : whole[p + k] = w[k]
      /\ c \in Nat /\ c <= Len(html) /\ \A l \in 1..c : html[l] = whole[l]
  BY DEF StandsAt, AgreeUpTo
<1> HIDE DEF n
<1>2. ASSUME NEW k \in 1..n PROVE html[p + k] = w[k]
  <2> DEFINE j == p + k
  <2>1. j \in 1..c
    BY <1>1
  <2>2. whole[j] = w[k]
    BY <1>1
  <2> HIDE DEF j
  <2>3. html[j] = whole[j]
    BY <1>1, <2>1
  <2> QED
    BY <2>2, <2>3 DEF j
<1> QED
  BY <1>1, <1>2 DEF StandsAt, n

(* The first m entries of a sequence *)
LEMMA BeginningOf ==
    ASSUME NEW T, NEW s \in Seq(T), NEW m \in 0..Len(s)
    PROVE  SubSeq(s, 1, m) \in Seq(T) /\ Len(SubSeq(s, 1, m)) = m /\ \A k \in 1..m : SubSeq(s, 1, m)[k] = s[k]
<1> DEFINE one == 1
<1>1. one \in Nat \ {0} /\ m \in Int /\ m <= Len(s) /\ m \in Nat
  BY LenProperties
<1> HIDE DEF one
<1>2. /\ SubSeq(s, one, m) \in Seq(T)
      /\ Len(SubSeq(s, one, m)) = IF one <= m THEN m - one + 1 ELSE 0
      /\ \A k \in 1..(m - one + 1) : SubSeq(s, one, m)[k] = s[one + k - 1]
  BY <1>1, PartOf
<1>3. \A k \in 1..m : k \in 1..(m - one + 1) /\ one + k - 1 = k
  BY <1>1 DEF one
<1>4. Len(SubSeq(s, one, m)) = m
  BY <1>1, <1>2 DEF one
<1> QED
  BY <1>2, <1>3, <1>4 DEF one

(***************************************************************************)
(* The views of the detections                                             *)
(***************************************************************************)
ViewOf(d) == [label |-> d.label, bbox |-> d.bbox, text |-> d.text, rows |-> RowsOf(d)]

(* The detection d with the first of its tables that is not used yet       *)
Matching(d, tables, used) == IF IsTable(d) THEN MatchingTables(d, tables, used) ELSE {}
FirstOf(found) == {i \in found : \A k \in found : i <= k}
ViewWith(d, tables, first) ==
    [label |-> d.label, bbox |-> d.bbox, text |-> d.text,
     rows |-> IF first = {} THEN <<>> ELSE tables[CHOOSE i \in first : TRUE].rows]
ViewsStep(d, tables, past) ==
    [views |-> Append(past.views, ViewWith(d, tables, FirstOf(Matching(d, tables, past.used)))),
     used  |-> past.used \cup FirstOf(Matching(d, tables, past.used))]

(* Every table holds the rows of its own text, and some.                   *)
LEMMA TablesHoldTheirRows ==
    ASSUME NEW ds, Len(ds) \in Nat, NEW F, AreTables(F, ds)
    PROVE  \A k \in 0..Len(ds) : \A j \in 1..Len(F[k]) :
              F[k][j].rows # <<>> /\ F[k][j].rows = TableRows(F[k][j].html)
<1> DEFINE n == Len(ds)
           Ok(x) == x.rows # <<>> /\ x.rows = TableRows(x.html)
           P == {k \in 0..n : \A j \in 1..Len(F[k]) : Ok(F[k][j])}
<1>1. ASSUME NEW k \in 0..n, \A m \in 0..(k - 1) : m \in P
      PROVE  k \in P
  <2>1. CASE k = 0
    <3>1. Len(F[k]) = 0
      BY <2>1 DEF AreTables
    <3>2. \A j \in 1..Len(F[k]) : FALSE
      BY <3>1
    <3> QED
      BY <3>2
  <2>2. CASE k # 0
    <3>1. k - 1 \in 0..(k - 1) /\ k \in 1..n /\ k - 1 \in 0..n /\ k - 1 \in 0..k
      BY <2>2
    <3>2. \A j \in 1..Len(F[k - 1]) : Ok(F[k - 1][j])
      BY <1>1, <3>1
    <3> DEFINE d == ds[k]
               a == Len(F[k - 1])
    <3>3. a \in Nat /\ \A j \in 1..a : F[k][j] = F[k - 1][j]
      BY <3>1 DEF AreTables
    <3>4. CASE RowsOf(d) = <<>>
      <4>1. F[k] = F[k - 1]
        BY <3>1, <3>4 DEF AreTables
      <4> HIDE DEF Ok
      <4> QED
        BY <3>2, <4>1
    <3>5. CASE RowsOf(d) # <<>>
      <4>1. Len(F[k]) = a + 1 /\ F[k][Len(F[k])] = TableOf(d)
        BY <3>1, <3>5 DEF AreTables
      <4>2. Ok(TableOf(d))
        BY <3>5 DEF TableOf, RowsOf
      <4> HIDE DEF Ok, d
      <4>3. \A j \in 1..Len(F[k]) : j \in 1..a \/ j = Len(F[k])
        BY <3>3, <4>1
      <4> HIDE DEF a
      <4>4. ASSUME NEW j \in 1..Len(F[k]) PROVE Ok(F[k][j])
        <5>1. CASE j \in 1..a
          BY <3>2, <3>3, <5>1 DEF a
        <5>2. CASE j = Len(F[k])
          BY <4>1, <4>2, <5>2
        <5> QED
          BY <4>3, <5>1, <5>2
      <4> QED
        BY <4>4
    <3> QED
      BY <3>4, <3>5
  <2> QED
    BY <2>1, <2>2
<1> HIDE DEF P
<1>2. \A k \in 0..n : k \in P
  BY <1>1, UpTo
<1> QED
  BY <1>2 DEF P

ShowsOwn(d, tables, used, next) ==
    LET first == FirstOf(Matching(d, tables, used))
    IN  ViewWith(d, tables, first) = ViewOf(d) /\ used \cup first = next

(* The detection k, when the tables of those before it are used            *)
LEMMA OwnTable ==
    ASSUME NEW ds, Len(ds) \in Nat, NEW F, AreTables(F, ds), NEW k \in 1..Len(ds),
           DOMAIN F[Len(ds)] = 1..Len(F[Len(ds)])
    PROVE  ShowsOwn(ds[k], F[Len(ds)], 1..Len(F[k - 1]), 1..Len(F[k]))
<1> DEFINE n == Len(ds)
           d == ds[k]
           tables == F[n]
           a == Len(F[k - 1])
           b == Len(F[k])
           N == Len(tables)
           found == Matching(d, tables, 1..a)
           first == FirstOf(found)
<1>1. /\ n \in Nat /\ k \in 0..n /\ k - 1 \in 0..n /\ n \in 0..n /\ k \in 0..n /\ k - 1 \in 0..k
      /\ k \in 0..n /\ DOMAIN tables = 1..N
  OBVIOUS
<1>2. /\ a \in Nat /\ b \in Nat /\ N \in Nat /\ b <= N
      /\ \A j \in 1..b : tables[j] = F[k][j]
  <2>1. k \in 0..n
    BY <1>1
  <2> QED
    BY <1>1, <2>1 DEF AreTables
<1>3. CASE RowsOf(d) # <<>>
  <2>1. b = a + 1 /\ F[k][b] = TableOf(d)
    BY <1>3 DEF AreTables
  <2>2. b \in 1..N /\ b \notin 1..a /\ tables[b] = TableOf(d)
    <3>1. b \in 1..b /\ b \in 1..N /\ b \notin 1..a
      BY <1>2, <2>1
    <3> HIDE DEF b, tables
    <3> QED
      BY <1>2, <2>1, <3>1
  <2>3. IsTable(d)
    BY <1>3 DEF RowsOf
  <2> HIDE DEF a, b, N, tables, d
  <2>4. b \in found
    BY <1>1, <2>2, <2>3 DEF Matching, MatchingTables, TableOf
  <2>5. \A i \in found : b <= i
    <3>1. \A i \in found : i \in 1..N /\ i \notin 1..a
      BY <1>1, <2>3 DEF Matching, MatchingTables
    <3> QED
      BY <1>2, <2>1, <3>1
  <2> HIDE DEF found
  <2>6. first = {b}
    <3>1. b \in first
      BY <2>4, <2>5 DEF FirstOf
    <3>2. ASSUME NEW i \in first PROVE i = b
      <4>1. i \in found /\ i <= b
        BY <2>4, <3>2 DEF FirstOf
      <4>2. b <= i
        BY <2>5, <4>1
      <4>3. i \in Nat
        BY <1>1, <1>2, <2>3, <4>1 DEF found, Matching, MatchingTables
      <4> QED
        BY <1>2, <4>1, <4>2, <4>3
    <3> QED
      BY <3>1, <3>2
  <2> HIDE DEF first
  <2>7. ViewWith(d, tables, first) = ViewOf(d)
    <3>1. first # {} /\ (CHOOSE i \in first : TRUE) = b
      BY <2>6
    <3>2. tables[b].rows = RowsOf(d)
      BY <2>2 DEF TableOf
    <3> QED
      BY <3>1, <3>2 DEF ViewWith, ViewOf
  <2>8. (1..a) \cup first = 1..b
    BY <1>2, <2>1, <2>6
  <2> QED
    BY <2>7, <2>8 DEF a, b, tables, d, first, found, ShowsOwn
<1>4. CASE RowsOf(d) = <<>>
  <2>1. b = a
    BY <1>4 DEF AreTables
  <2>2. found = {}
    <3>1. CASE ~IsTable(d)
      BY <3>1 DEF Matching
    <3>2. CASE IsTable(d)
      <4>1. TableRows(d.text) = <<>>
        BY <1>4, <3>2 DEF RowsOf
      <4>2. \A j \in 1..N : tables[j].rows # <<>> /\ tables[j].rows = TableRows(tables[j].html)
        BY <1>1, TablesHoldTheirRows
      <4>3. \A j \in 1..N : tables[j].html # d.text
        BY <4>1, <4>2
      <4> HIDE DEF tables, N, a
      <4> QED
        BY <1>1, <3>2, <4>3 DEF Matching, MatchingTables
    <3> QED
      BY <3>1, <3>2
  <2> HIDE DEF found
  <2>3. first = {}
    BY <2>2 DEF FirstOf
  <2> HIDE DEF first
  <2>4. ViewWith(d, tables, first) = ViewOf(d)
    BY <1>4, <2>3 DEF ViewWith, ViewOf
  <2>5. (1..a) \cup first = 1..b
    BY <2>1, <2>3
  <2> QED
    BY <2>4, <2>5 DEF a, b, tables, d, first, found, ShowsOwn
<1> QED
  BY <1>3, <1>4

ViewsUpTo(ds, k) == [i \in 1..k |-> ViewOf(ds[i])]

(* The views of k detections are those of the ones before and one more. *)
LEMMA ViewsUpToGrow ==
    ASSUME NEW D, NEW ds \in Seq(D), NEW k \in 1..Len(ds)
    PROVE  Append(ViewsUpTo(ds, k - 1), ViewOf(ds[k])) = ViewsUpTo(ds, k)
<1> DEFINE S == {ViewOf(d) : d \in D}
           a == ViewsUpTo(ds, k - 1)
           b == ViewsUpTo(ds, k)
           v == ViewOf(ds[k])
           c == Append(a, v)
           m == k - 1
<1>1. Len(ds) \in Nat /\ k \in Nat /\ m \in Nat /\ \A i \in 1..k : ds[i] \in D
  BY LenProperties, ElementOfSeq
<1>2. \A i \in 1..k : ViewOf(ds[i]) \in S
  BY <1>1
<1> HIDE DEF S
<1>3. a \in Seq(S) /\ Len(a) = m /\ \A i \in 1..m : a[i] = ViewOf(ds[i])
  <2>1. a = [i \in 1..m |-> ViewOf(ds[i])]
    BY DEF ViewsUpTo
  <2>2. a \in [1..m -> S] /\ \A i \in 1..m : a[i] = ViewOf(ds[i])
    BY <1>1, <1>2, <2>1
  <2> HIDE DEF a, m
  <2> QED
    BY <1>1, <2>2, FcnIsSeq
<1>4. b \in Seq(S) /\ Len(b) = k /\ \A i \in 1..k : b[i] = ViewOf(ds[i])
  <2>2. b \in [1..k -> S] /\ \A i \in 1..k : b[i] = ViewOf(ds[i])
    BY <1>1, <1>2 DEF ViewsUpTo
  <2> HIDE DEF b
  <2> QED
    BY <1>1, <2>2, FcnIsSeq
<1>5. v \in S
  BY <1>1, <1>2
<1> HIDE DEF a, b, v
<1>6. c \in Seq(S) /\ Len(c) = Len(a) + 1 /\ (\A i \in 1..Len(a) : c[i] = a[i]) /\ c[Len(a) + 1] = v
  BY <1>3, <1>5, AppendProperties
<1> HIDE DEF c
<1>7. Len(c) = Len(b)
  BY <1>1, <1>3, <1>4, <1>6 DEF m
<1>8. ASSUME NEW i \in 1..Len(c) PROVE c[i] = b[i]
  <2>1. i \in 1..m \/ i = k
    BY <1>1, <1>4, <1>7 DEF m
  <2>2. CASE i \in 1..m
    <3>1. i \in 1..k
      BY <1>1, <2>2 DEF m
    <3> QED
      BY <1>3, <1>4, <1>6, <2>2, <3>1
  <2>3. CASE i = k
    <3>1. Len(a) + 1 = k /\ k \in 1..k
      BY <1>1, <1>3 DEF m
    <3>2. c[k] = v /\ b[k] = ViewOf(ds[k])
      BY <1>4, <1>6, <3>1
    <3> QED
      BY <2>3, <3>2 DEF v
  <2> QED
    BY <2>1, <2>2, <2>3
<1>9. c = b
  BY <1>4, <1>6, <1>7, <1>8, SeqEqual
<1> QED
  BY <1>9 DEF a, b, c, v

(* Each detection is shown with the rows of its own text.                  *)
LEMMA ViewsUnfold ==
    ASSUME NEW D, NEW ds \in Seq(D), NEW result,
           result.detections = ds, result.tables = Tables(ds)
    PROVE  DetectionViews(result) = ViewsUpTo(ds, Len(ds))
<1> DEFINE n == Len(ds)
           tables == Tables(ds)
           start == [views |-> <<>>, used |-> {}]
           body(f, k) == IF k = 0 THEN start ELSE ViewsStep(ds[k], tables, f[k - 1])
           f == CHOOSE f : f = [k \in 0..n |-> body(f, k)]
<1>1. DetectionViews(result) = f[n].views
  BY DEF DetectionViews, ViewsStep, ViewWith, FirstOf, Matching
<1>2. n \in Nat
  BY LenProperties
<1>3. PICK F \in [0..n -> Seq(TablesOf(D))] : AreTables(F, ds)
  BY TablesUnfold
<1>4. tables = F[n] /\ DOMAIN tables = 1..Len(tables) /\ Len(F[0]) = 0
  <2>1. tables = F[n]
    BY <1>3 DEF AreTables
  <2>2. n \in 0..n
    BY <1>2
  <2>3. tables \in Seq(TablesOf(D))
    BY <1>3, <2>1, <2>2
  <2> HIDE DEF tables
  <2>4. F[0] = <<>>
    BY <1>3 DEF AreTables
  <2> QED
    BY <2>1, <2>3, <2>4, LenProperties
<1> DEFINE g == [k \in 0..n |-> [views |-> ViewsUpTo(ds, k), used |-> 1..Len(F[k])]]
<1>5. start = g[0]
  <2>1. 0 \in 0..n /\ 1..Len(F[0]) = {}
    BY <1>2, <1>4
  <2>2. ViewsUpTo(ds, 0) = <<>>
    BY DEF ViewsUpTo
  <2> QED
    BY <2>1, <2>2
<1>6. ASSUME NEW k \in 1..n
      PROVE  ViewsStep(ds[k], tables, g[k - 1]) = g[k]
  <2>1. k - 1 \in 0..n /\ k \in 0..n
    BY <1>2
  <2>2. g[k - 1].views = ViewsUpTo(ds, k - 1) /\ g[k - 1].used = 1..Len(F[k - 1])
    BY <2>1
  <2>3. g[k] = [views |-> ViewsUpTo(ds, k), used |-> 1..Len(F[k])]
    BY <2>1
  <2> HIDE DEF g
  <2> DEFINE first == FirstOf(Matching(ds[k], tables, 1..Len(F[k - 1])))
  <2>4. ViewWith(ds[k], tables, first) = ViewOf(ds[k]) /\ (1..Len(F[k - 1])) \cup first = 1..Len(F[k])
    <3>1. DOMAIN F[Len(ds)] = 1..Len(F[Len(ds)]) /\ Len(ds) \in Nat
      BY <1>2, <1>4
    <3>2. ShowsOwn(ds[k], F[Len(ds)], 1..Len(F[k - 1]), 1..Len(F[k]))
      BY <1>3, <3>1, OwnTable
    <3> QED
      BY <1>4, <3>2 DEF ShowsOwn
  <2>5. Append(ViewsUpTo(ds, k - 1), ViewOf(ds[k])) = ViewsUpTo(ds, k)
    BY ViewsUpToGrow
  <2> HIDE DEF tables
  <2> QED
    BY <2>2, <2>3, <2>4, <2>5 DEF ViewsStep
<1> HIDE DEF start, tables, g
<1>7. g = [k \in 0..n |-> body(g, k)]
  <2>1. ASSUME NEW k \in 0..n PROVE g[k] = body(g, k)
    <3>1. CASE k = 0
      BY <1>5, <3>1
    <3>2. CASE k # 0
      <4>1. k \in 1..n
        BY <1>2, <3>2
      <4> QED
        BY <1>6, <3>2, <4>1
    <3> QED
      BY <3>1, <3>2
  <2>2. g = [k \in 0..n |-> g[k]]
    BY DEF g
  <2> HIDE DEF body
  <2> QED
    BY <2>1, <2>2
<1>8. f = [k \in 0..n |-> body(f, k)]
  <2> HIDE DEF body
  <2> QED
    BY <1>7
<1> HIDE DEF f
<1> DEFINE P == {k \in 0..n : f[k] = g[k]}
<1>9. ASSUME NEW k \in 0..n, \A m \in 0..(k - 1) : m \in P
      PROVE  k \in P
  <2>1. f[k] = body(f, k)
    <3> HIDE DEF body
    <3> QED
      BY <1>8
  <2>2. CASE k = 0
    BY <1>5, <2>1, <2>2
  <2>3. CASE k # 0
    <3>1. k \in 1..n /\ k - 1 \in 0..(k - 1)
      BY <1>2, <2>3
    <3>2. f[k - 1] = g[k - 1]
      BY <1>9, <3>1
    <3>3. f[k] = ViewsStep(ds[k], tables, g[k - 1])
      BY <2>1, <2>3, <3>2
    <3> QED
      BY <1>6, <3>1, <3>3
  <2> QED
    BY <2>2, <2>3
<1> HIDE DEF P, body
<1>10. \A k \in 0..n : k \in P
  BY <1>2, <1>9, UpTo
<1>11. f[n] = g[n] /\ g[n].views = ViewsUpTo(ds, n)
  <2>1. n \in 0..n
    BY <1>2
  <2> QED
    BY <1>10, <2>1 DEF P, g
<1> QED
  BY <1>1, <1>11

(***************************************************************************)
(* Headers                                                                 *)
(***************************************************************************)
HeaderOf(b) == b.label \o b.boxes

(* A box is accepted or not. *)
LEMMA BoxesApart == Boxes \cap BadBoxes = {}
  BY DEF Boxes, BadBoxes

(* The loop passes over everything up to the next detection. *)
LEMMA DSkips ==
    ASSUME NEW s, Len(s) \in Nat, NEW f, DFrom(f, s),
           NEW i \in 1..(Len(s) + 1), NEW j \in i..(Len(s) + 1),
           \A l \in i..(j - 1) : s[l] # Det
    PROVE  f[i] = f[j]
<1>1. i \in Nat \ {0} /\ j \in Nat /\ i <= j /\ j \in 1..(Len(s) + 1)
  OBVIOUS
<1>2. FirstIn(s, {Det}, i) = FirstIn(s, {Det}, j)
  <2>1. \A l \in i..(j - 1) : l <= Len(s) => s[l] \notin {Det}
    OBVIOUS
  <2> QED
    BY <1>1, <2>1, FirstInSkips
<1>3. DStart(s, i) = DStart(s, j)
  BY <1>2 DEF DStart
<1>4. /\ DEnd(s, i) = DEnd(s, j) /\ DHead(s, i) = DHead(s, j)
      /\ DUpTo(s, i) = DUpTo(s, j) /\ DFound(s, i) = DFound(s, j) /\ (DOver(s, i) <=> DOver(s, j))
  BY <1>3 DEF DEnd, DHead, DUpTo, DNext, DFound, DOver
<1> QED
  BY <1>1, <1>4 DEF DFrom

(***************************************************************************)
(* Beginnings                                                              *)
(***************************************************************************)
IsBeforeOf(a, b, S) == \E z \in Seq(S) : b = a \o z

(* IsPrefix, from what is behind *)
LEMMA PrefixOf ==
    ASSUME NEW S, NEW a \in Seq(S), NEW b, IsBeforeOf(a, b, S)
    PROVE  IsPrefix(a, b)
<1>1. PICK z \in Seq(S) : b = a \o z
  BY DEF IsBeforeOf
<1>2. /\ a \o z \in Seq(S) /\ Len(a \o z) = Len(a) + Len(z)
      /\ \A i \in 1..(Len(a) + Len(z)) : (a \o z)[i] = IF i <= Len(a) THEN a[i] ELSE z[i - Len(a)]
  BY ConcatProperties
<1>3. Len(a) \in Nat /\ Len(z) \in Nat
  BY LenProperties
<1>4. StartsAs(a, b)
  BY <1>1, <1>2, <1>3 DEF StartsAs
<1> QED
  BY <1>1, <1>2, <1>4, IsPrefixIf

(***************************************************************************)
(* Words in the order of their places                                      *)
(***************************************************************************)
(* The words of out stand at rising places from a up to b.                 *)
Rising(out, At, a, b) ==
    /\ \A j \in 1..Len(out) : At[out[j]] \in a..b
    /\ \A j, k \in 1..Len(out) : j < k => At[out[j]] < At[out[k]]

Under(w, v, At) == \A i \in 1..Len(w) : \A j \in 1..Len(v) : At[w[i]] < At[v[j]]

(* All of these rise, and each is over those before it.                    *)
Spaced(seqs, At, a, b) ==
    /\ \A k \in 1..Len(seqs) : Rising(seqs[k], At, a, b)
    /\ \A k, m \in 1..Len(seqs) : k < m => Under(seqs[k], seqs[m], At)

(* Pieces that rise in intervals one behind the other rise put together. *)
LEMMA FlattenRises ==
    ASSUME NEW S, NEW seqs \in Seq(Seq(S)), NEW At, NEW a \in Int, NEW b \in Int,
           Spaced(seqs, At, a, b)
    PROVE  Rising(FlattenSeq(seqs), At, a, b)
<1> DEFINE n == Len(seqs)
<1>1. PICK F \in [0..Len(seqs) -> Seq(S)] : ArePartsOf(F, seqs)
  BY FlattenParts
<1>2. n \in Nat
  BY LenProperties
<1>3. /\ F[0] = <<>> /\ F[n] = FlattenSeq(seqs)
      /\ \A k \in 1..n : F[k] = F[k - 1] \o seqs[k]
      /\ \A k \in 0..n : Len(F[k]) \in Nat
      /\ \A k \in 1..n : Len(seqs[k]) \in Nat /\ Len(F[k]) = Len(F[k - 1]) + Len(seqs[k])
  BY <1>1 DEF ArePartsOf
<1>4. \A k \in 0..n : F[k] \in Seq(S)
  BY <1>1
<1>5. \A k \in 1..n : seqs[k] \in Seq(S)
  BY ElementOfSeq
<1> DEFINE From1(k) == \A j \in 1..Len(F[k]) : \E m \in 1..k : \E i \in 1..Len(seqs[m]) : F[k][j] = seqs[m][i]
           P == {k \in 0..n : Rising(F[k], At, a, b) /\ From1(k)}
<1> HIDE DEF n
<1>6. ASSUME NEW k \in 0..n, \A m \in 0..(k - 1) : m \in P
      PROVE  k \in P
  <2>1. CASE k = 0
    <3>1. Len(F[0]) = 0
      BY <1>2, <1>3, EmptySeq
    <3>2. \A j \in 1..Len(F[k]) : FALSE
      BY <2>1, <3>1
    <3>3. Rising(F[k], At, a, b)
      BY <3>2 DEF Rising
    <3>4. From1(k)
      BY <3>2
    <3> HIDE DEF From1
    <3> QED
      BY <3>3, <3>4
  <2>2. CASE k # 0
    <3> DEFINE x == F[k - 1]
               y == seqs[k]
               p == Len(x)
               q == Len(y)
               z == F[k]
    <3>1. k \in 1..n /\ k - 1 \in 0..(k - 1) /\ k - 1 \in 0..n
      BY <1>2, <2>2
    <3>2. Rising(x, At, a, b) /\ From1(k - 1)
      BY <1>6, <3>1
    <3>3. Rising(y, At, a, b) /\ \A m \in 1..(k - 1) : Under(seqs[m], y, At)
      <4>1. \A m \in 1..(k - 1) : m \in 1..n /\ m < k
        BY <1>2, <3>1
      <4> QED
        BY <3>1, <4>1 DEF Spaced, n
    <3>4. x \in Seq(S) /\ y \in Seq(S) /\ z = x \o y /\ p \in Nat /\ q \in Nat /\ Len(z) = p + q
      BY <1>3, <1>4, <1>5, <3>1
    <3>5. \A j \in 1..p : \E m \in 1..(k - 1) : \E i \in 1..Len(seqs[m]) : x[j] = seqs[m][i]
      BY <3>2
    <3> HIDE DEF x, y, z, p, q, From1
    <3>6. \A i \in 1..(p + q) : z[i] = IF i <= p THEN x[i] ELSE y[i - p]
      <4>1. \A i \in 1..(Len(x) + Len(y)) : (x \o y)[i] = IF i <= Len(x) THEN x[i] ELSE y[i - Len(x)]
        BY <3>4, ConcatProperties
      <4> QED
        BY <3>4, <4>1 DEF p, q
    <3>7. /\ \A j \in 1..p : z[j] = x[j] /\ At[x[j]] \in a..b
          /\ \A j \in 1..(p + q) : ~(j <= p) => j - p \in 1..q /\ z[j] = y[j - p] /\ At[y[j - p]] \in a..b
      <4>1. \A j \in 1..p : z[j] = x[j]
        BY <3>4, <3>6
      <4>2. \A j \in 1..(p + q) : ~(j <= p) => j - p \in 1..q /\ z[j] = y[j - p]
        BY <3>4, <3>6
      <4>3. \A j \in 1..p : At[x[j]] \in a..b
        BY <3>2 DEF Rising, p
      <4>4. \A j \in 1..q : At[y[j]] \in a..b
        BY <3>3 DEF Rising, q
      <4> QED
        BY <4>1, <4>2, <4>3, <4>4
    <3>8. \A j \in 1..p : \A i \in 1..q : At[x[j]] < At[y[i]]
      <4> TAKE j \in 1..p
      <4>1. PICK m \in 1..(k - 1) : \E i \in 1..Len(seqs[m]) : x[j] = seqs[m][i]
        BY <3>5
      <4>2. PICK i \in 1..Len(seqs[m]) : x[j] = seqs[m][i]
        BY <4>1
      <4>3. Under(seqs[m], y, At)
        BY <3>3
      <4> QED
        BY <4>2, <4>3 DEF Under, q
    <3>9. Rising(z, At, a, b)
      <4>1. \A j \in 1..Len(z) : At[z[j]] \in a..b
        <5> TAKE j \in 1..Len(z)
        <5>1. j \in 1..(p + q) /\ (j <= p => j \in 1..p)
          BY <3>4
        <5> QED
          BY <3>7, <5>1
      <4>2. ASSUME NEW j \in 1..Len(z), NEW l \in 1..Len(z), j < l
            PROVE  At[z[j]] < At[z[l]]
        <5>1. j \in 1..(p + q) /\ l \in 1..(p + q)
          BY <3>4
        <5>2. CASE l <= p
          <6>1. j \in 1..p /\ l \in 1..p
            BY <3>4, <4>2, <5>1, <5>2
          <6>2. At[x[j]] < At[x[l]]
            BY <3>2, <4>2, <6>1 DEF Rising, p
          <6> QED
            BY <3>7, <6>1, <6>2
        <5>3. CASE j <= p /\ ~(l <= p)
          <6>1. j \in 1..p
            BY <3>4, <5>1, <5>3
          <6>2. l - p \in 1..q /\ z[l] = y[l - p]
            BY <3>7, <5>1, <5>3
          <6> QED
            BY <3>7, <3>8, <6>1, <6>2
        <5>4. CASE ~(j <= p) /\ ~(l <= p)
          <6> DEFINE u == j - p
                     v == l - p
          <6>1. u \in 1..q /\ v \in 1..q /\ z[j] = y[u] /\ z[l] = y[v]
            BY <3>7, <5>1, <5>4
          <6>2. u < v
            BY <3>4, <4>2, <5>1
          <6> HIDE DEF u, v
          <6>3. At[y[u]] < At[y[v]]
            BY <3>3, <6>1, <6>2 DEF Rising, q
          <6> QED
            BY <6>1, <6>3
        <5>5. l <= p => j <= p
          BY <3>4, <4>2, <5>1
        <5> QED
          BY <5>2, <5>3, <5>4, <5>5
      <4> QED
        BY <4>1, <4>2 DEF Rising
    <3>10. \A j \in 1..Len(z) : \E m \in 1..k : \E i \in 1..Len(seqs[m]) : z[j] = seqs[m][i]
      <4> TAKE j \in 1..Len(z)
      <4>1. CASE j <= p
        <5>1. j \in 1..p
          BY <3>4, <4>1
        <5>2. PICK m \in 1..(k - 1) : \E i \in 1..Len(seqs[m]) : x[j] = seqs[m][i]
          BY <3>5, <5>1
        <5>3. m \in 1..k /\ z[j] = x[j]
          BY <1>2, <3>1, <3>7, <5>1
        <5> QED
          BY <5>2, <5>3
      <4>2. CASE ~(j <= p)
        <5>1. j \in 1..(p + q)
          BY <3>4
        <5>2. j - p \in 1..Len(seqs[k]) /\ z[j] = seqs[k][j - p]
          BY <3>7, <4>2, <5>1 DEF y, q
        <5>3. k \in 1..k
          BY <3>1
        <5> QED
          BY <5>2, <5>3
      <4> QED
        BY <4>1, <4>2
    <3>11. From1(k)
      BY <3>10 DEF From1, z
    <3> QED
      BY <3>9, <3>11 DEF z
  <2> QED
    BY <2>1, <2>2
<1> HIDE DEF P
<1>7. \A k \in 0..n : k \in P
  BY <1>2, <1>6, UpTo
<1>8. n \in 0..n
  BY <1>2
<1> QED
  BY <1>3, <1>7, <1>8 DEF P

(* What rises in an interval rises in every wider one. *)
LEMMA RisingWidens ==
    ASSUME NEW out, NEW At, NEW a \in Int, NEW b \in Int, NEW c \in Int, NEW d \in Int,
           Rising(out, At, a, b), c <= a, b <= d
    PROVE  Rising(out, At, c, d)
<1>1. \A j \in 1..Len(out) : At[out[j]] \in c..d
  <2> TAKE j \in 1..Len(out)
  <2>1. At[out[j]] \in a..b
    BY DEF Rising
  <2> QED
    BY <2>1
<1> QED
  BY <1>1 DEF Rising

IsCons(seqs, w, rest) ==
    /\ Len(rest) \in Nat /\ Len(seqs) = Len(rest) + 1
    /\ seqs[1] = w /\ \A k \in 1..Len(rest) : seqs[k + 1] = rest[k]

(* A piece in front of pieces that rise behind it *)
LEMMA SpacedCons ==
    ASSUME NEW seqs, NEW w, NEW rest, IsCons(seqs, w, rest),
           NEW At, NEW a \in Int, NEW m \in Int, NEW b \in Int, a <= m + 1, m <= b,
           Rising(w, At, a, m), Spaced(rest, At, m + 1, b)
    PROVE  Spaced(seqs, At, a, b)
<1>1. Rising(w, At, a, b)
  <2>1. a <= a
    OBVIOUS
  <2> QED
    BY <2>1, RisingWidens
<1>2. ASSUME NEW k \in 1..Len(rest) PROVE Rising(rest[k], At, a, b) /\ Under(w, rest[k], At)
  <2> DEFINE v == rest[k]
             o == m + 1
  <2>1. Rising(v, At, o, b)
    BY DEF Spaced
  <2>2. o \in Int /\ a <= o /\ b <= b /\ o = m + 1
    OBVIOUS
  <2> HIDE DEF v, o
  <2>3. Rising(v, At, a, b)
    BY <2>1, <2>2, RisingWidens
  <2>4. Under(w, v, At)
    <3>1. ASSUME NEW i \in 1..Len(w), NEW j \in 1..Len(v) PROVE At[w[i]] < At[v[j]]
      <4>1. At[w[i]] \in a..m
        BY DEF Rising
      <4>2. At[v[j]] \in o..b
        BY <2>1 DEF Rising
      <4> QED
        BY <2>2, <4>1, <4>2
    <3> QED
      BY <3>1 DEF Under
  <2> QED
    BY <2>3, <2>4 DEF v
<1>3. \A k \in 1..Len(seqs) : k = 1 \/ (k - 1 \in 1..Len(rest) /\ seqs[k] = rest[k - 1])
  <2> TAKE k \in 1..Len(seqs)
  <2>1. CASE k # 1
    <3> DEFINE j == k - 1
    <3>1. j \in 1..Len(rest) /\ j + 1 = k
      BY <2>1 DEF IsCons
    <3> HIDE DEF j
    <3>2. seqs[j + 1] = rest[j]
      BY <3>1 DEF IsCons
    <3> QED
      BY <3>1, <3>2 DEF j
  <2> QED
    BY <2>1
<1>4. seqs[1] = w
  BY DEF IsCons
<1>5. \A k \in 1..Len(seqs) : Rising(seqs[k], At, a, b)
  BY <1>1, <1>2, <1>3, <1>4
<1>6. ASSUME NEW k \in 1..Len(seqs), NEW l \in 1..Len(seqs), k < l
      PROVE  Under(seqs[k], seqs[l], At)
  <2>1. l # 1 /\ l - 1 \in 1..Len(rest) /\ seqs[l] = rest[l - 1]
    <3>1. l # 1
      BY <1>6
    <3> QED
      BY <1>3, <3>1
  <2>2. CASE k = 1
    BY <1>2, <1>4, <2>1, <2>2
  <2>3. CASE k # 1
    <3>1. k - 1 \in 1..Len(rest) /\ seqs[k] = rest[k - 1]
      BY <1>3, <2>3
    <3>2. k - 1 < l - 1
      BY <1>6
    <3> QED
      BY <2>1, <3>1, <3>2 DEF Spaced
  <2> QED
    BY <2>2, <2>3
<1> QED
  BY <1>5, <1>6 DEF Spaced

(* Nothing rises anywhere. *)
LEMMA NothingSpaced ==
    ASSUME NEW At, NEW a, NEW b
    PROVE  Spaced(<<>>, At, a, b) /\ Rising(<<>>, At, a, b)
BY DEF Spaced, Rising

(* A sequence with an entry in front, entry by entry *)
LEMMA ConsMapped ==
    ASSUME NEW C, NEW c \in C, NEW rest \in Seq(C), NEW g, IsConcat(g, <<c>>, rest)
    PROVE  /\ g \in Seq(C) /\ Len(g) = Len(rest) + 1 /\ Len(rest) \in Nat
           /\ DOMAIN g = 1..Len(g) /\ DOMAIN rest = 1..Len(rest)
           /\ g[1] = c /\ \A k \in 1..Len(rest) : g[k + 1] = rest[k]
<1>1. /\ <<c>> \o rest \in Seq(C) /\ Len(<<c>> \o rest) = Len(rest) + 1
      /\ (<<c>> \o rest)[1] = c
      /\ \A k \in 1..Len(rest) : (<<c>> \o rest)[k + 1] = rest[k]
  BY Prepended
<1>2. g \in Seq(C)
  BY <1>1 DEF IsConcat
<1> QED
  BY <1>1, <1>2, LenProperties DEF IsConcat

(* Pieces may start earlier. *)
LEMMA SpacedWidens ==
    ASSUME NEW seqs, NEW At, NEW a \in Int, NEW b \in Int, NEW c \in Int,
           Spaced(seqs, At, a, b), c <= a
    PROVE  Spaced(seqs, At, c, b)
<1>1. \A k \in 1..Len(seqs) : Rising(seqs[k], At, c, b)
  <2> TAKE k \in 1..Len(seqs)
  <2> DEFINE w == seqs[k]
  <2>1. Rising(w, At, a, b) /\ b <= b
    BY DEF Spaced
  <2> HIDE DEF w
  <2>2. Rising(w, At, c, b)
    BY <2>1, RisingWidens
  <2> QED
    BY <2>2 DEF w
<1> QED
  BY <1>1 DEF Spaced
=============================================================================
