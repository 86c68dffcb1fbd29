----------------------------- MODULE QueueLemmas -----------------------------
(* Facts for the proofs of the components: sequences used as queues, how often    *)
(* something is in one, least elements, which is how inductions are done, division. *)
EXTENDS Integers, Sequences, FiniteSets, Functions, SequenceTheorems, FiniteSetTheorems,
        WellFoundedInduction, TLAPS

\* Moving the head of a queue to the end of the sequence of those taken before.
LEMMA MoveHead ==
  ASSUME NEW S, NEW s \in Seq(S), NEW t \in Seq(S), t # <<>>
  PROVE  s \o t = Append(s, Head(t)) \o Tail(t)
<1>1. Head(t) \in S /\ Tail(t) \in Seq(S) /\ <<Head(t)>> \in Seq(S)
  BY HeadTailProperties
<1>2. t = <<Head(t)>> \o Tail(t)
  <2>1. /\ Len(t) = 1 + Len(Tail(t)) /\ Len(<<Head(t)>>) = 1 /\ Len(t) \in Nat
        /\ Len(Tail(t)) \in Nat
    BY <1>1, HeadTailProperties, LenProperties
  <2>2. <<Head(t)>> \o Tail(t) \in Seq(S) /\ Len(<<Head(t)>> \o Tail(t)) = Len(t)
    BY <1>1, <2>1, ConcatProperties
  <2>3. \A i \in 1 .. Len(t) : (<<Head(t)>> \o Tail(t))[i] = t[i]
    <3> SUFFICES ASSUME NEW i \in 1 .. Len(t) PROVE (<<Head(t)>> \o Tail(t))[i] = t[i]
      OBVIOUS
    <3>1. CASE i = 1
      BY <3>1, <1>1, <2>1, ConcatProperties
    <3>2. CASE i > 1
      <4>1. (<<Head(t)>> \o Tail(t))[i] = Tail(t)[i - 1]
        BY <3>2, <1>1, <2>1, ConcatProperties
      <4>2. i - 1 \in 1 .. Len(Tail(t))
        BY <3>2, <2>1
      <4> QED BY <4>1, <4>2, HeadTailProperties
    <3> QED BY <3>1, <3>2, <2>1
  <2> QED BY <2>2, <2>3, SeqEqual
<1>3. (s \o <<Head(t)>>) \o Tail(t) = s \o (<<Head(t)>> \o Tail(t))
  BY <1>1, ConcatAssociative
<1>4. Append(s, Head(t)) = s \o <<Head(t)>>
  BY <1>1, AppendIsConcat
<1> QED BY <1>2, <1>3, <1>4

\* An empty queue has no elements.
LEMMA EmptyRange == Range(<<>>) = {}
<1>1. DOMAIN <<>> = {}
  BY EmptySeq, LenProperties
<1> QED BY <1>1 DEF Range

\* The elements of a sequence after an Append.
LEMMA RangeAppend ==
  ASSUME NEW S, NEW s \in Seq(S), NEW e \in S
  PROVE  Range(Append(s, e)) = Range(s) \cup {e}
<1>1. /\ Len(s) \in Nat /\ DOMAIN s = 1 .. Len(s)
      /\ DOMAIN Append(s, e) = 1 .. Len(s) + 1
  BY LenProperties, AppendProperties
<1>2. ASSUME NEW i \in 1 .. Len(s) + 1
      PROVE  Append(s, e)[i] \in Range(s) \cup {e}
  BY <1>1, AppendProperties DEF Range
<1>3. ASSUME NEW i \in 1 .. Len(s)
      PROVE  s[i] \in Range(Append(s, e))
  <2>1. i \in 1 .. Len(s) + 1 /\ Append(s, e)[i] = s[i]
    BY <1>1, AppendProperties
  <2> QED BY <1>1, <2>1 DEF Range
<1>4. e \in Range(Append(s, e))
  <2>1. Len(s) + 1 \in 1 .. Len(s) + 1 /\ Append(s, e)[Len(s) + 1] = e
    BY <1>1, AppendProperties
  <2> QED BY <1>1, <2>1 DEF Range
<1> QED BY <1>1, <1>2, <1>3, <1>4 DEF Range
-----------------------------------------------------------------------------
(* How often an element is in a queue.                                       *)

Where(s, q) == {k \in DOMAIN s : s[k] = q}
Count(s, q) == Cardinality(Where(s, q))

\* A sequence has an element finitely often.
LEMMA CountType ==
  ASSUME NEW S, NEW s \in Seq(S), NEW q
  PROVE  IsFiniteSet(Where(s, q)) /\ Count(s, q) \in Nat
<1>1. Len(s) \in Nat /\ DOMAIN s = 1 .. Len(s)
  BY LenProperties
<1>2. IsFiniteSet(1 .. Len(s))
  BY <1>1, FS_Interval
<1>3. Where(s, q) \in SUBSET (1 .. Len(s))
  BY <1>1 DEF Where
<1>4. IsFiniteSet(Where(s, q))
  BY <1>2, <1>3, FS_Subset
<1> QED BY <1>4, FS_CardinalityType DEF Count

\* Each occurrence in a concatenation is one in its first or in its second part.
LEMMA CountConcat ==
  ASSUME NEW S, NEW s \in Seq(S), NEW t \in Seq(S), NEW q
  PROVE  Count(s \o t, q) = Count(s, q) + Count(t, q)
<1> DEFINE n == Len(s)
           W == Where(t, q)
           Z == {k \in DOMAIN (s \o t) : k > n /\ (s \o t)[k] = q}
           f == [k \in W |-> k + n]
<1>1. /\ n \in Nat /\ Len(t) \in Nat /\ DOMAIN s = 1 .. n /\ DOMAIN t = 1 .. Len(t)
      /\ DOMAIN (s \o t) = 1 .. n + Len(t)
  BY LenProperties, ConcatProperties
<1>2. \A i \in 1 .. n + Len(t) : (s \o t)[i] = IF i <= n THEN s[i] ELSE t[i - n]
  BY ConcatProperties
<1>3. /\ \A i \in 1 .. n : i \in 1 .. n + Len(t) /\ (s \o t)[i] = s[i]
      /\ \A k \in 1 .. Len(t) : k + n \in 1 .. n + Len(t) /\ k + n > n /\ (s \o t)[k + n] = t[k]
      /\ \A i \in 1 .. n + Len(t) : i > n => i - n \in 1 .. Len(t) /\ (s \o t)[i] = t[i - n]
  BY <1>1, <1>2
<1>4. Where(s \o t, q) = Where(s, q) \cup Z /\ Where(s, q) \cap Z = {}
  BY <1>1, <1>3 DEF Where
<1>5. f \in Bijection(W, Z)
  <2>1. f \in [W -> Z]
    BY <1>1, <1>3 DEF Where
  <2>2. \A a, b \in W : f[a] = f[b] => a = b
    BY <1>1 DEF Where
  <2>3. \A z \in Z : z - n \in W /\ f[z - n] = z
    BY <1>1, <1>3 DEF Where
  <2> QED BY <2>1, <2>2, <2>3 DEF Bijection, Injection, Surjection, IsInjective
<1>6. IsFiniteSet(Z) /\ Cardinality(Z) = Cardinality(W)
  <2> HIDE DEF f, W, Z
  <2>1. ExistsBijection(W, Z)
    BY <1>5 DEF ExistsBijection
  <2>2. IsFiniteSet(W)
    BY CountType DEF W
  <2> QED BY <2>1, <2>2, FS_Bijection
<1> HIDE DEF Z
<1>7. IsFiniteSet(Where(s, q)) /\ Count(s, q) \in Nat /\ Count(t, q) \in Nat
  BY CountType
<1>8. Cardinality(Where(s, q) \cup Z) = Cardinality(Where(s, q)) + Cardinality(Z) - 0
  BY <1>4, <1>6, <1>7, FS_Union, FS_EmptySet
<1> QED BY <1>4, <1>6, <1>7, <1>8 DEF Count

\* The empty queue, and a queue of one.
LEMMA CountSmall ==
  ASSUME NEW e, NEW q
  PROVE  Count(<<>>, q) = 0 /\ Count(<<e>>, q) = IF e = q THEN 1 ELSE 0
<1>1. Where(<<>>, q) = {}
  BY DEF Where
<1>2. Where(<<e>>, q) = IF e = q THEN {1} ELSE {}
  BY DEF Where
<1> QED BY <1>1, <1>2, FS_EmptySet, FS_Singleton DEF Count

\* Putting an element at the end.
LEMMA CountAppend ==
  ASSUME NEW S, NEW s \in Seq(S), NEW e \in S, NEW q
  PROVE  Count(Append(s, e), q) = Count(s, q) + IF e = q THEN 1 ELSE 0
<1>1. Append(s, e) = s \o <<e>> /\ <<e>> \in Seq(S)
  BY AppendIsConcat
<1>2. Count(s \o <<e>>, q) = Count(s, q) + Count(<<e>>, q)
  BY <1>1, CountConcat, Zenon
<1>3. Count(<<e>>, q) = IF e = q THEN 1 ELSE 0
  BY CountSmall, Zenon
<1> QED BY <1>1, <1>2, <1>3, Zenon

\* Taking the head.
LEMMA CountTail ==
  ASSUME NEW S, NEW s \in Seq(S), s # <<>>, NEW q
  PROVE  Count(s, q) = Count(Tail(s), q) + IF Head(s) = q THEN 1 ELSE 0
<1>1. Head(s) \in S /\ Tail(s) \in Seq(S) /\ <<Head(s)>> \in Seq(S) /\ <<>> \in Seq(S)
  BY HeadTailProperties, EmptySeq
<1>2. <<>> \o s = s /\ Append(<<>>, Head(s)) = <<Head(s)>>
  BY ConcatEmptySeq, AppendProperties
<1>3. s = <<Head(s)>> \o Tail(s)
  BY <1>1, <1>2, MoveHead
<1>4. Count(<<Head(s)>> \o Tail(s), q) = Count(<<Head(s)>>, q) + Count(Tail(s), q)
  BY <1>1, CountConcat, Zenon
<1>5. Count(s, q) = Count(<<Head(s)>>, q) + Count(Tail(s), q)
  BY <1>3, <1>4, Zenon
<1>6. Count(Tail(s), q) \in Nat
  BY <1>1, CountType, Zenon
<1>7. Count(<<Head(s)>>, q) = IF Head(s) = q THEN 1 ELSE 0
  BY CountSmall, Zenon
<1> QED BY <1>5, <1>6, <1>7

\* Cutting a sequence in two.
LEMMA CountSplit ==
  ASSUME NEW S, NEW s \in Seq(S), NEW n \in 0 .. Len(s), NEW q
  PROVE  /\ SubSeq(s, 1, n) \in Seq(S) /\ SubSeq(s, n + 1, Len(s)) \in Seq(S)
         /\ Count(s, q) = Count(SubSeq(s, 1, n), q) + Count(SubSeq(s, n + 1, Len(s)), q)
<1>1. Len(s) \in Nat /\ \A i \in 1 .. Len(s) : s[i] \in S
  BY LenProperties, ElementOfSeq
<1>2. SubSeq(s, 1, n) \in Seq(S) /\ SubSeq(s, n + 1, Len(s)) \in Seq(S)
  BY <1>1, SubSeqProperties
<1>3. /\ 1 \in 1 .. Len(s) + 1 /\ n \in 1 - 1 .. Len(s) /\ Len(s) \in n .. Len(s)
  BY <1>1
<1>4. SubSeq(s, 1, n) \o SubSeq(s, n + 1, Len(s)) = SubSeq(s, 1, Len(s))
  BY <1>3, ConcatAdjacentSubSeq, Zenon
<1>5. SubSeq(s, 1, Len(s)) = s
  BY SubSeqFull
<1>6. Count(SubSeq(s, 1, n) \o SubSeq(s, n + 1, Len(s)), q)
        = Count(SubSeq(s, 1, n), q) + Count(SubSeq(s, n + 1, Len(s)), q)
  BY <1>2, CountConcat, Zenon
<1> QED BY <1>2, <1>4, <1>5, <1>6, Zenon
-----------------------------------------------------------------------------
(* Sets with one element between them.                                       *)

\* The union of two sets that have at most one element together.
LEMMA SmallUnion ==
  ASSUME NEW A, NEW B, IsFiniteSet(A), IsFiniteSet(B), Cardinality(A) + Cardinality(B) <= 1
  PROVE  IsFiniteSet(A \cup B) /\ Cardinality(A \cup B) = Cardinality(A) + Cardinality(B)
<1>1. Cardinality(A) \in Nat /\ Cardinality(B) \in Nat
  BY FS_CardinalityType
<1>2. CASE A = {}
  BY <1>1, <1>2, FS_EmptySet
<1>3. CASE B = {}
  BY <1>1, <1>3, FS_EmptySet
<1>4. A = {} \/ B = {}
  BY <1>1, FS_EmptySet
<1> QED BY <1>2, <1>3, <1>4

\* A set of natural numbers that is not empty has a least element: what is shown of 0,
\* and of a number from those below it, holds of all, as no least number escapes it.
LEMMA Least ==
  ASSUME NEW T, T \subseteq Nat, T # {}
  PROVE  \E m \in T : \A k \in T : m <= k
<1> DEFINE R == {ss \in Nat \X Nat : ss[1] < ss[2]}
<1>1. IsWellFoundedOn(OpToRel(<, Nat), Nat)
  BY NatLessThanWellFounded, Zenon
<1>2. OpToRel(<, Nat) = R
  BY Zenon DEF OpToRel
<1>3. IsWellFoundedOn(R, Nat)
  BY <1>1, <1>2, Zenon
<1>4. PICK m \in T : \A k \in T : ~(<<k, m>> \in R)
  <2> HIDE DEF R
  <2> QED BY <1>3, WFMin
<1>5. ASSUME NEW k \in T PROVE m <= k
  <2>1. k \in Nat /\ m \in Nat /\ ~(<<k, m>> \in R)
    BY <1>4
  <2>2. ~(k < m)
    BY <2>1
  <2> QED BY <2>1, <2>2
<1> QED BY <1>5

-----------------------------------------------------------------------------
(* Division.                                                               *)

\* What is left of a multiple of n and a rest.
LEMMA RestIs ==
  ASSUME NEW n \in Nat \ {0}, NEW q \in Int, NEW r \in 0 .. n - 1
  PROVE  (n * q + r) % n = r
OBVIOUS

\* How often n goes into a multiple of n and a rest.
LEMMA QuotientIs ==
  ASSUME NEW n \in Nat \ {0}, NEW q \in Int, NEW r \in 0 .. n - 1
  PROVE  (n * q + r) \div n = q
OBVIOUS

=============================================================================
