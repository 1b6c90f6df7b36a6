---------------------------- MODULE SharedLemmas ----------------------------
(***************************************************************************)
(* Facts about numbers and sequences that the proofs of several components *)
(* rest on: the least of a set, and what a queue is with an element more,  *)
(* without its first one, and without the one at a place.                  *)
(***************************************************************************)
EXTENDS Naturals, Sequences, FiniteSetTheorems, SequenceTheorems, WellFoundedInduction, TLAPS

(* A nonempty set of natural numbers has a least one.                      *)
LEMMA LeastOf ==
    ASSUME NEW S, S \subseteq Nat, S # {}
    PROVE  \E c \in S : \A d \in S : c <= d
<1> DEFINE Below == {0..c : c \in S}
<1>1. Below \subseteq FiniteSubsetsOf(Nat) /\ Below # {}
  <2>1. ASSUME NEW c \in S PROVE 0..c \in FiniteSubsetsOf(Nat)
    <3>1. 0 \in Int /\ c \in Int /\ 0..c \in SUBSET Nat
        OBVIOUS
    <3>2. IsFiniteSet(0..c)
        BY <3>1, FS_Interval
    <3> QED BY <3>1, <3>2, Zenon DEF FiniteSubsetsOf
  <2> QED BY <2>1
<1>2. PICK B \in Below : \A A \in Below : ~(<<A, B>> \in StrictSubsetOrdering(Nat))
    BY <1>1, FS_StrictSubsetOrderingWellFounded, WFMin, Zenon
<1>3. PICK c \in S : B = 0..c
    BY <1>2
<1>4. ASSUME NEW d \in S PROVE c <= d
  <2>1. SUFFICES ASSUME d < c PROVE FALSE
      BY <1>3
  <2>2. 0..d \subseteq 0..c /\ 0..d # 0..c /\ 0..d \in SUBSET Nat /\ 0..c \in SUBSET Nat
      BY <2>1, <1>3
  <2>3. <<0..d, 0..c>> \in StrictSubsetOrdering(Nat)
      BY <2>2, Zenon DEF StrictSubsetOrdering
  <2> QED BY <2>3, <1>2, <1>3
<1> QED BY <1>4

(* What is left of a sequence once its element at a place is taken out.    *)
LEMMA TakenOut ==
    ASSUME NEW S, NEW s \in Seq(S), NEW n \in Nat, n = Len(s), NEW i \in 1..n, NEW rest,
           rest = SubSeq(s, 1, i - 1) \o SubSeq(s, i + 1, Len(s))
    PROVE  /\ rest \in Seq(S) /\ Len(rest) = n - 1
           /\ \A j \in 1..(n - 1) : rest[j] = IF j < i THEN s[j] ELSE s[j + 1]
<1> DEFINE a == SubSeq(s, 1, i - 1)
           b == SubSeq(s, i + 1, Len(s))
<1>0. Len(s) \in Nat /\ i \in Nat /\ i <= Len(s) /\ \A j \in 1..Len(s) : s[j] \in S
    BY LenProperties, ElementOfSeq
<1>1. a \in Seq(S) /\ Len(a) = i - 1 /\ \A j \in 1..(i - 1) : a[j] = s[j]
  <2>1. \A j \in 1..(i - 1) : s[j] \in S
      BY <1>0
  <2>2. 1 \in Int /\ i - 1 \in Int
      BY <1>0
  <2> HIDE DEF a
  <2>3. /\ a \in Seq(S) /\ Len(a) = IF 1 <= i - 1 THEN i - 1 - 1 + 1 ELSE 0
        /\ \A j \in 1..(i - 1 - 1 + 1) : a[j] = s[1 + j - 1]
    <3> USE DEF a
    <3> QED BY <2>1, <2>2, SubSeqProperties
  <2> QED BY <1>0, <2>3
<1>2. b \in Seq(S) /\ Len(b) = Len(s) - i /\ \A j \in 1..(Len(s) - i) : b[j] = s[i + j]
  <2>1. \A j \in (i + 1)..Len(s) : s[j] \in S
      BY <1>0
  <2>2. i + 1 \in Int /\ Len(s) \in Int
      BY <1>0
  <2> HIDE DEF b
  <2>3. /\ b \in Seq(S) /\ Len(b) = IF i + 1 <= Len(s) THEN Len(s) - (i + 1) + 1 ELSE 0
        /\ \A j \in 1..(Len(s) - (i + 1) + 1) : b[j] = s[i + 1 + j - 1]
    <3> USE DEF b
    <3> QED BY <2>1, <2>2, SubSeqProperties
  <2> QED BY <1>0, <2>3
<1>3. rest = a \o b
    OBVIOUS
<1> HIDE DEF a, b
<1>4. /\ rest \in Seq(S) /\ Len(rest) = Len(a) + Len(b)
      /\ \A j \in 1..(Len(a) + Len(b)) : rest[j] = IF j <= Len(a) THEN a[j] ELSE b[j - Len(a)]
  <2>1. /\ a \o b \in Seq(S) /\ Len(a \o b) = Len(a) + Len(b)
        /\ \A j \in 1..(Len(a) + Len(b)) :
              (a \o b)[j] = IF j <= Len(a) THEN a[j] ELSE b[j - Len(a)]
    <3>1. a \in Seq(S) /\ b \in Seq(S)
        BY <1>1, <1>2
    <3> QED BY <3>1, ConcatProperties, Zenon
  <2> QED BY <1>3, <2>1, Zenon
<1>5. Len(rest) = Len(s) - 1
  <2>1. Len(rest) = Len(a) + Len(b)
      BY <1>4
  <2>2. PICK m \in Nat : m = Len(s)
      BY <1>0
  <2>3. Len(a) = i - 1 /\ Len(b) = m - i
      BY <1>1, <1>2, <2>2
  <2>4. Len(rest) = (i - 1) + (m - i)
      BY <2>1, <2>3, Zenon
  <2>5. \A k \in Nat : (k - 1) + (m - k) = m - 1
      OBVIOUS
  <2>6. i \in Nat
      BY <1>0
  <2> QED BY <2>2, <2>4, <2>5, <2>6, Zenon
<1>6. ASSUME NEW j \in 1..(i - 1) PROVE rest[j] = s[j]
  <2>1. j \in 1..(Len(a) + Len(b)) /\ j <= Len(a)
      BY <1>0, <1>1, <1>2
  <2> QED BY <1>1, <1>4, <2>1
<1>7. ASSUME NEW j \in i..(Len(s) - 1) PROVE rest[j] = s[j + 1]
  <2>1. /\ j \in 1..(Len(a) + Len(b)) /\ ~(j <= Len(a)) /\ j - (i - 1) \in 1..(Len(s) - i)
        /\ j - Len(a) = j - (i - 1) /\ i + (j - (i - 1)) = j + 1
      BY <1>0, <1>1, <1>2
  <2>2. rest[j] = b[j - (i - 1)]
      BY <1>4, <2>1
  <2>3. b[j - (i - 1)] = s[i + (j - (i - 1))]
      BY <1>2, <2>1
  <2> QED BY <2>1, <2>2, <2>3
<1>8. ASSUME NEW j \in 1..(n - 1) PROVE rest[j] = IF j < i THEN s[j] ELSE s[j + 1]
  <2>1. (j \in 1..(i - 1) /\ j < i) \/ (j \in i..(n - 1) /\ ~(j < i))
      OBVIOUS
  <2> QED BY <1>6, <1>7, <2>1, Zenon
<1> QED BY <1>4, <1>5, <1>8

(* One more at the end of a sequence.                                      *)
LEMMA OneMore ==
    ASSUME NEW S, NEW s \in Seq(S), NEW x \in S, NEW all, all = Append(s, x)
    PROVE  /\ all \in Seq(S) /\ Len(all) = Len(s) + 1 /\ all[Len(s) + 1] = x
           /\ DOMAIN all = 1..(Len(s) + 1) /\ DOMAIN s = 1..Len(s) /\ Len(s) \in Nat
           /\ \A i \in 1..Len(s) : all[i] = s[i]
BY AppendProperties, LenProperties

(* What a sequence is without its first element.                           *)
LEMMA TakenFirst ==
    ASSUME NEW S, NEW s \in Seq(S), s # <<>>, NEW rest, rest = Tail(s)
    PROVE  /\ Len(s) \in Nat \ {0} /\ DOMAIN s = 1..Len(s) /\ Head(s) = s[1] /\ s[1] \in S
           /\ rest \in Seq(S) /\ DOMAIN rest = 1..(Len(s) - 1)
           /\ \A i \in 1..(Len(s) - 1) : rest[i] = s[i + 1]
<1>1. Len(s) \in Nat /\ Len(s) # 0 /\ DOMAIN s = 1..Len(s)
    BY LenProperties, EmptySeq
<1>2. Head(s) = s[1] /\ s[1] \in S
    BY <1>1, HeadTailProperties, ElementOfSeq
<1>3. /\ rest \in Seq(S) /\ Len(rest) = Len(s) - 1
      /\ \A i \in 1..Len(rest) : rest[i] = s[i + 1]
    BY HeadTailProperties
<1> QED BY <1>1, <1>2, <1>3, LenProperties
=============================================================================
