---------------------------- MODULE SequenceLemmas ----------------------------
(***************************************************************************)
(* Facts about positions and sequences that the proofs of the components   *)
(* rest on.  Induction is done over sets of numbers: what holds of 0, and  *)
(* of n + 1 whenever it holds of n, holds of every number.                 *)
(***************************************************************************)
EXTENDS Integers, SequencesExt, SequenceTheorems, WellFoundedInduction, TLAPS

\* There is a first one of some positions.
LEMMA FirstOf ==
  ASSUME NEW S, S \subseteq Nat, S # {}
  PROVE  \E k \in S : \A l \in S : k <= l
<1>1. PICK k \in S : \A l \in S : <<l, k>> \notin OpToRel(<, Nat)
  BY NatLessThanWellFounded, WFMin
<1>2. \A l \in S : ~(l < k)
  BY <1>1 DEF OpToRel
<1>3. \A l \in S : k <= l
  BY <1>2
<1> QED
  BY <1>3

\* A set of numbers with 0 and the next of each of them has all.
LEMMA SetInduction ==
  ASSUME NEW S, 0 \in S, \A n \in Nat : n \in S => n + 1 \in S
  PROVE  Nat \subseteq S
<1> SUFFICES ASSUME Nat \ S # {} PROVE FALSE
  OBVIOUS
<1>1. PICK k \in Nat \ S : \A l \in Nat \ S : k <= l
  BY FirstOf
<1>2. k # 0 /\ k - 1 \in Nat /\ k - 1 \in S
  BY <1>1
<1>3. (k - 1) + 1 \in S
  BY <1>2
<1> QED
  BY <1>1, <1>3

\* The elements of two sequences one after the other.
LEMMA ToSetOfConcat ==
  ASSUME NEW s, s \in Seq(ToSet(s)), NEW t, t \in Seq(ToSet(t))
  PROVE  s \o t \in Seq(ToSet(s \o t)) /\ ToSet(s \o t) = ToSet(s) \cup ToSet(t)
<1> DEFINE S == ToSet(s) \cup ToSet(t)
<1>1. s \in Seq(S) /\ t \in Seq(S)
  BY SeqMonotonic
<1> HIDE DEF S
<1>2. Range(s \o t) = Range(s) \cup Range(t)
  BY <1>1, RangeConcatenation
<1>3. s \o t \in Seq(Range(s \o t))
  BY <1>1, ConcatProperties, SeqOfRange
<1>4. \A u : ToSet(u) = Range(u)
  BY DEF ToSet, Range
<1> QED
  BY <1>2, <1>3, <1>4

-----------------------------------------------------------------------------
(* FlattenSeq.                                                             *)

\* The function by which FlattenSeq is defined, for the first n sequences.
Flattens(f, seqs, n) == f = [i \in 1 .. n |-> IF i = 1 THEN seqs[i] ELSE f[i - 1] \o seqs[i]]

\* It is given by its domain and values.
LEMMA FlattensIs ==
  ASSUME NEW f, NEW seqs, NEW n
  PROVE  Flattens(f, seqs, n) <=>
           /\ f = [i \in DOMAIN f |-> f[i]] /\ DOMAIN f = 1 .. n
           /\ \A i \in 1 .. n : f[i] = IF i = 1 THEN seqs[i] ELSE f[i - 1] \o seqs[i]
<1>1. ASSUME Flattens(f, seqs, n)
      PROVE  /\ f = [i \in DOMAIN f |-> f[i]] /\ DOMAIN f = 1 .. n
             /\ \A i \in 1 .. n : f[i] = IF i = 1 THEN seqs[i] ELSE f[i - 1] \o seqs[i]
  BY <1>1, Zenon DEF Flattens
<1>2. ASSUME f = [i \in DOMAIN f |-> f[i]], DOMAIN f = 1 .. n,
             \A i \in 1 .. n : f[i] = IF i = 1 THEN seqs[i] ELSE f[i - 1] \o seqs[i]
      PROVE  Flattens(f, seqs, n)
  BY <1>2, Zenon DEF Flattens
<1> QED
  BY <1>1, <1>2

\* It exists.
LEMMA FlattensExists ==
  ASSUME NEW seqs, NEW n \in Nat
  PROVE  \E f : Flattens(f, seqs, n)
<1> DEFINE S == {k \in Nat : \E f : Flattens(f, seqs, k)}
<1>1. 0 \in S
  <2> DEFINE f == [i \in 1 .. 0 |-> 0]
  <2>1. f = [i \in DOMAIN f |-> f[i]] /\ DOMAIN f = 1 .. 0
    OBVIOUS
  <2>2. \A i \in 1 .. 0 : f[i] = IF i = 1 THEN seqs[i] ELSE f[i - 1] \o seqs[i]
    OBVIOUS
  <2> HIDE DEF f
  <2>3. Flattens(f, seqs, 0)
    BY <2>1, <2>2, FlattensIs
  <2> QED
    BY <2>3
<1>2. ASSUME NEW k \in Nat, k \in S PROVE k + 1 \in S
  <2>1. PICK f : Flattens(f, seqs, k)
    BY <1>2
  <2> DEFINE g == [i \in 1 .. k + 1 |->
                     IF i <= k THEN f[i] ELSE IF i = 1 THEN seqs[i] ELSE f[i - 1] \o seqs[i]]
  <2>2. ASSUME NEW i \in 1 .. k + 1
        PROVE  g[i] = IF i = 1 THEN seqs[i] ELSE g[i - 1] \o seqs[i]
    <3>1. i # 1 => i - 1 \in 1 .. k + 1 /\ i - 1 <= k
      OBVIOUS
    <3>2. i # 1 => g[i - 1] = f[i - 1]
      BY <3>1
    <3>3. i <= k => f[i] = IF i = 1 THEN seqs[i] ELSE f[i - 1] \o seqs[i]
      BY <2>1, FlattensIs
    <3> QED
      BY <3>2, <3>3
  <2>3. g = [i \in DOMAIN g |-> g[i]] /\ DOMAIN g = 1 .. k + 1
    OBVIOUS
  <2> HIDE DEF g
  <2>4. Flattens(g, seqs, k + 1)
    BY <2>2, <2>3, FlattensIs
  <2> QED
    BY <2>4
<1> HIDE DEF S
<1>3. Nat \subseteq S
  BY <1>1, <1>2, SetInduction
<1> QED
  BY <1>3 DEF S

\* FlattenSeq is its last value.
LEMMA FlattenSeqIs ==
  ASSUME NEW seqs, Len(seqs) \in Nat, Len(seqs) # 0
  PROVE  \E f : Flattens(f, seqs, Len(seqs)) /\ FlattenSeq(seqs) = f[Len(seqs)]
<1>1. \E f : f = [i \in 1 .. Len(seqs) |-> IF i = 1 THEN seqs[i] ELSE f[i - 1] \o seqs[i]]
  BY FlattensExists DEF Flattens
<1> QED
  BY <1>1 DEF FlattenSeq, Flattens

\* The elements of the sequences put one after the other are those of each.
LEMMA ToSetOfFlatten ==
  ASSUME NEW n \in Nat, NEW seqs, seqs = [i \in 1 .. n |-> seqs[i]], Len(seqs) = n,
         \A i \in 1 .. n : seqs[i] \in Seq(ToSet(seqs[i]))
  PROVE  /\ FlattenSeq(seqs) \in Seq(ToSet(FlattenSeq(seqs)))
         /\ ToSet(FlattenSeq(seqs)) = UNION {ToSet(seqs[i]) : i \in 1 .. n}
<1>1. CASE n = 0
  <2>1. FlattenSeq(seqs) = seqs
    BY <1>1 DEF FlattenSeq
  <2>2. seqs = <<>>
    BY <1>1
  <2>3. ToSet(seqs) = {} /\ UNION {ToSet(seqs[i]) : i \in 1 .. n} = {}
    BY <1>1, <2>2 DEF ToSet
  <2> QED
    BY <2>1, <2>2, <2>3, EmptySeq
<1>2. CASE n # 0
  <2>1. PICK f : Flattens(f, seqs, n) /\ FlattenSeq(seqs) = f[n]
    BY <1>2, FlattenSeqIs
  <2>2. \A i \in 1 .. n : f[i] = IF i = 1 THEN seqs[i] ELSE f[i - 1] \o seqs[i]
    BY <2>1, FlattensIs
  <2> DEFINE Upto(k) == UNION {ToSet(seqs[i]) : i \in 1 .. k}
             S == {k \in Nat : k \in 1 .. n => f[k] \in Seq(ToSet(f[k])) /\ ToSet(f[k]) = Upto(k)}
  <2>3. 0 \in S
    OBVIOUS
  <2>4. ASSUME NEW k \in Nat, k \in S PROVE k + 1 \in S
    <3> SUFFICES ASSUME k + 1 \in 1 .. n
                 PROVE  /\ f[k + 1] \in Seq(ToSet(f[k + 1]))
                        /\ ToSet(f[k + 1]) = Upto(k + 1)
      OBVIOUS
    <3>1. CASE k = 0
      <4>1. f[1] = seqs[1] /\ Upto(1) = ToSet(seqs[1])
        BY <2>2, <1>2
      <4> QED
        BY <3>1, <4>1, <1>2
    <3>2. CASE k # 0
      <4>1. f[k + 1] = f[k] \o seqs[k + 1]
        <5>1. k + 1 # 1 /\ (k + 1) - 1 = k
          BY <3>2
        <5>2. f[k + 1] = f[(k + 1) - 1] \o seqs[k + 1]
          BY <2>2, <5>1
        <5> QED
          BY <5>1, <5>2
      <4>2. f[k] \in Seq(ToSet(f[k])) /\ ToSet(f[k]) = Upto(k)
        BY <2>4, <3>2
      <4>3. Upto(k + 1) = Upto(k) \cup ToSet(seqs[k + 1])
        <5>1. 1 .. k + 1 = (1 .. k) \cup {k + 1}
          OBVIOUS
        <5> QED
          BY <5>1
      <4> HIDE DEF Upto, S
      <4>4. seqs[k + 1] \in Seq(ToSet(seqs[k + 1]))
        OBVIOUS
      <4>5. /\ f[k] \o seqs[k + 1] \in Seq(ToSet(f[k] \o seqs[k + 1]))
            /\ ToSet(f[k] \o seqs[k + 1]) = ToSet(f[k]) \cup ToSet(seqs[k + 1])
        BY <4>2, <4>4, ToSetOfConcat
      <4> QED
        BY <4>1, <4>2, <4>3, <4>5
    <3> QED
      BY <3>1, <3>2
  <2> HIDE DEF S
  <2>5. n \in S
    BY <2>3, <2>4, SetInduction
  <2>6. f[n] \in Seq(ToSet(f[n])) /\ ToSet(f[n]) = Upto(n)
    BY <1>2, <2>5 DEF S
  <2> QED
    BY <2>1, <2>6
<1> QED
  BY <1>1, <1>2
=============================================================================
