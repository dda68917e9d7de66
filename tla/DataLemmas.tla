------------------------------- MODULE DataLemmas -------------------------------
(***************************************************************************)
(* Facts about numbers, sets and sequences that the proofs of several      *)
(* components use.  The least-number principle is the way to induction     *)
(* here: it speaks of a set, where the library's induction theorems speak  *)
(* of an operator, which the provers cannot instantiate.  It comes from    *)
(* the order of finite sets by inclusion.                                  *)
(***************************************************************************)
EXTENDS Integers, SequencesExt, FiniteSetsExt, FiniteSetTheorems, SequenceTheorems,
        WellFoundedInduction, TLAPS

\* A set of naturals that is not empty has a least one.
LEMMA LeastNatural ==
  ASSUME NEW S \in SUBSET Nat, S # {}
  PROVE  \E n \in S : \A m \in S : n <= m
  <1> DEFINE R == StrictSubsetOrdering(Nat)
             T == {0..n : n \in S}
  <1>1. IsWellFoundedOn(R, FiniteSubsetsOf(Nat))  BY FS_StrictSubsetOrderingWellFounded
  <1>2. T \subseteq FiniteSubsetsOf(Nat) /\ T # {}
    <2>1. ASSUME NEW n \in S  PROVE 0..n \in FiniteSubsetsOf(Nat)
      <3>1. IsFiniteSet(0..n)  BY FS_Interval
      <3>2. 0..n \in SUBSET Nat  OBVIOUS
      <3> QED  BY <3>1, <3>2 DEF FiniteSubsetsOf
    <2> QED  BY <2>1
  <1>3. PICK x \in T : \A y \in T : ~(<<y, x>> \in R)
    <2> HIDE DEF R, T
    <2> QED  BY <1>1, <1>2, WFMin
  <1>4. PICK n \in S : x = 0..n  OBVIOUS
  <1>5. ASSUME NEW m \in S, m < n  PROVE FALSE
    <2>1. 0..m \in T  OBVIOUS
    <2>2. 0..m \subseteq 0..n /\ 0..m # 0..n
      <3>1. n \in 0..n /\ n \notin 0..m  BY <1>5
      <3>2. \A k \in 0..m : k \in 0..n  BY <1>5
      <3> QED  BY <3>1, <3>2
    <2>3. <<0..m, 0..n>> \in R
      BY <2>2 DEF StrictSubsetOrdering
    <2> QED  BY <1>3, <1>4, <2>1, <2>3
  <1> QED  BY <1>5

\* A bounded set of naturals has a greatest one, and Max returns it.
LEMMA MaxFacts ==
  ASSUME NEW b \in Nat, NEW S \in SUBSET (0..b), S # {}
  PROVE  Max(S) \in S /\ \A x \in S : x <= Max(S)
  <1> DEFINE bounds == {n \in Nat : \A x \in S : x <= n}
  <1>1. b \in bounds  OBVIOUS
  <1>2. PICK n \in bounds : \A m \in bounds : n <= m
    BY <1>1, LeastNatural
  <1>3. n \in S
    <2>1. PICK x \in S : TRUE  OBVIOUS
    <2>2. SUFFICES ASSUME n \notin S PROVE FALSE
      OBVIOUS
    <2>3. \A y \in S : y <= n - 1  BY <2>2
    <2>4. n - 1 \in Nat  BY <2>1, <2>3
    <2>5. n - 1 \in bounds  BY <2>3, <2>4
    <2> QED  BY <1>2, <2>5
  <1>4. \E m \in S : \A x \in S : m >= x  BY <1>3
  <1>5. Max(S) \in S /\ \A x \in S : Max(S) >= x  BY <1>4 DEF Max
  <1> QED  BY <1>5

\* A sequence is a prefix of one that agrees with it and is as long.
LEMMA PrefixByElements ==
  ASSUME NEW S, NEW s \in Seq(S), NEW t \in Seq(S),
         Len(s) <= Len(t), \A i \in 1..Len(s) : t[i] = s[i]
  PROVE  IsPrefix(s, t)
  <1>1. Len(s) \in Nat /\ Len(t) \in Nat  BY LenProperties
  <1>2. \A i \in 1..Len(s) : s[i] \in S /\ t[i] \in S  BY <1>1, ElementOfSeq
  <1>3. /\ SubSeq(s, 1, Len(s)) \in Seq(S)
        /\ Len(SubSeq(s, 1, Len(s))) = Len(s)
        /\ \A i \in 1..Len(s) : SubSeq(s, 1, Len(s))[i] = s[i]
    BY <1>1, <1>2, SubSeqProperties
  <1>4. /\ SubSeq(t, 1, Len(s)) \in Seq(S)
        /\ Len(SubSeq(t, 1, Len(s))) = Len(s)
        /\ \A i \in 1..Len(s) : SubSeq(t, 1, Len(s))[i] = t[i]
    BY <1>1, <1>2, SubSeqProperties
  <1>5. SubSeq(s, 1, Len(s)) = SubSeq(t, 1, Len(s))
    BY <1>3, <1>4, SeqEqual
  <1> QED  BY <1>5 DEF IsPrefix

\* Two sequences joined, element by element
LEMMA JoinedElements ==
  ASSUME NEW S, NEW a \in Seq(S), NEW b \in Seq(S)
  PROVE  /\ a \o b \in Seq(S) /\ Len(a \o b) = Len(a) + Len(b)
         /\ \A i \in 1..Len(a) : (a \o b)[i] = a[i]
         /\ \A i \in Len(a) + 1..Len(a) + Len(b) : (a \o b)[i] = b[i - Len(a)]
  <1>1. Len(a) \in Nat /\ Len(b) \in Nat  BY LenProperties
  <1>2. \A i \in 1 .. Len(a) + Len(b) : (a \o b)[i] =
                     IF i <= Len(a) THEN a[i] ELSE b[i - Len(a)]
    BY ConcatProperties
  <1>3. \A i \in 1..Len(a) : i \in 1..Len(a) + Len(b) /\ i <= Len(a)  BY <1>1
  <1>4. \A i \in Len(a) + 1..Len(a) + Len(b) : i \in 1..Len(a) + Len(b) /\ ~(i <= Len(a))
    BY <1>1
  <1>5. \A i \in 1..Len(a) : (a \o b)[i] = a[i] BY <1>2, <1>3
  <1>6. \A i \in Len(a) + 1..Len(a) + Len(b) : (a \o b)[i] = b[i - Len(a)] BY <1>2, <1>4
  <1> QED BY <1>5, <1>6, ConcatProperties

\* In a finite set with a strict total order every element is at a place of
\* its own, the number of those before it, and every place is taken.
LEMMA RankFacts ==
  ASSUME NEW at, IsFiniteSet(at), NEW before,
         \A i \in at : <<i, i>> \notin before,
         \A i, j, k \in at : <<i, j>> \in before /\ <<j, k>> \in before => <<i, k>> \in before,
         \A i, j \in at : i # j => <<i, j>> \in before \/ <<j, i>> \in before
  PROVE  /\ Cardinality(at) \in Nat
         /\ \A n \in 1 .. Cardinality(at) :
              \E i \in at : Cardinality({j \in at : <<j, i>> \in before}) = n - 1
         /\ \A i \in at : Cardinality({j \in at : <<j, i>> \in before}) \in 0 .. Cardinality(at) - 1
         /\ \A i, k \in at :
              Cardinality({j \in at : <<j, i>> \in before}) = Cardinality({j \in at : <<j, k>> \in before})
                => i = k
  <1> DEFINE Preds(i) == {j \in at : <<j, i>> \in before}
             size == Cardinality(at)
             rank == [i \in at |-> Cardinality(Preds(i))]
  <1>1. size \in Nat  BY FS_CardinalityType
  <1>2. ASSUME NEW i \in at  PROVE IsFiniteSet(Preds(i)) /\ rank[i] \in 0 .. size - 1
    <2>1. Preds(i) \in SUBSET at /\ i \notin Preds(i)  OBVIOUS
    <2>2. /\ IsFiniteSet(Preds(i)) /\ Cardinality(Preds(i)) <= size
          /\ size = Cardinality(Preds(i)) => at = Preds(i)
      <3> HIDE DEF Preds
      <3> QED  BY <2>1, FS_Subset
    <2>3. Cardinality(Preds(i)) \in Nat  BY <2>2, FS_CardinalityType
    <2>4. Cardinality(Preds(i)) # size  BY <2>1, <2>2
    <2>5. rank[i] = Cardinality(Preds(i))  OBVIOUS
    <2> HIDE DEF Preds, rank
    <2> QED  BY <1>1, <2>2, <2>3, <2>4, <2>5
  <1>3. ASSUME NEW i \in at, NEW k \in at, <<i, k>> \in before  PROVE rank[i] < rank[k]
    <2>1. Preds(i) \in SUBSET Preds(k) /\ i \in Preds(k) /\ i \notin Preds(i)  BY <1>3
    <2>2. IsFiniteSet(Preds(k)) /\ IsFiniteSet(Preds(i))  BY <1>2
    <2>3. /\ Cardinality(Preds(i)) <= Cardinality(Preds(k))
          /\ Cardinality(Preds(k)) = Cardinality(Preds(i)) => Preds(k) = Preds(i)
      <3> HIDE DEF Preds
      <3> QED  BY <2>1, <2>2, FS_Subset
    <2>4. Cardinality(Preds(i)) \in Nat /\ Cardinality(Preds(k)) \in Nat  BY <2>2, FS_CardinalityType
    <2>5. Cardinality(Preds(k)) # Cardinality(Preds(i))  BY <2>1, <2>3
    <2>6. rank[i] = Cardinality(Preds(i)) /\ rank[k] = Cardinality(Preds(k))  OBVIOUS
    <2> HIDE DEF Preds, rank
    <2> QED  BY <2>3, <2>4, <2>5, <2>6
  <1>4. ASSUME NEW i \in at, NEW k \in at, rank[i] = rank[k]  PROVE i = k
    <2>1. rank[i] \in Int /\ rank[k] \in Int
      <3>1. rank[i] \in 0 .. size - 1 /\ rank[k] \in 0 .. size - 1  BY <1>2
      <3> HIDE DEF rank, size
      <3> QED  BY <1>1, <3>1
    <2>2. SUFFICES ASSUME i # k  PROVE FALSE  OBVIOUS
    <2>3. rank[i] < rank[k] \/ rank[k] < rank[i]
      <3> HIDE DEF rank
      <3> QED  BY <1>3, <2>2
    <2> HIDE DEF rank
    <2> QED  BY <1>4, <2>1, <2>3
  <1>5. rank \in Injection(at, 0 .. size - 1)
    <2>1. rank \in [at -> 0 .. size - 1]
      <3>1. \A i \in at : rank[i] \in 0 .. size - 1  BY <1>2
      <3> QED  BY <3>1
    <2>2. IsInjective(rank)
      <3>1. DOMAIN rank = at  OBVIOUS
      <3> HIDE DEF rank
      <3> QED  BY <1>4, <3>1 DEF IsInjective
    <2> HIDE DEF rank
    <2> QED  BY <2>1, <2>2 DEF Injection
  <1>6. rank \in Surjection(at, 0 .. size - 1)
    <2>1. IsFiniteSet(0 .. size - 1) /\ Cardinality(0 .. size - 1) = size
      <3>1. size - 1 \in Int  BY <1>1
      <3>2. /\ IsFiniteSet(0 .. size - 1)
            /\ Cardinality(0 .. size - 1) = IF 0 > size - 1 THEN 0 ELSE size - 1 - 0 + 1
        <4> HIDE DEF size
        <4> QED  BY <3>1, FS_Interval
      <3> HIDE DEF size
      <3> QED  BY <1>1, <3>2
    <2> HIDE DEF rank, size
    <2>2. Cardinality(at) = Cardinality(0 .. size - 1)  BY <2>1 DEF size
    <2> QED  BY <1>5, <2>1, <2>2, FS_Injection
  <1>7. \A r \in 0 .. size - 1 : \E i \in at : rank[i] = r
    <2> HIDE DEF rank, size
    <2> QED  BY <1>6 DEF Surjection
  <1>8. \A i \in at : rank[i] = Cardinality(Preds(i))  OBVIOUS
  <1>9. \A i \in at : rank[i] \in 0 .. size - 1  BY <1>2
  <1>10. \A i, k \in at : rank[i] = rank[k] => i = k
    <2> HIDE DEF rank
    <2> QED  BY <1>4
  <1> HIDE DEF rank, size
  <1>11. \A n \in 1 .. size : n - 1 \in 0 .. size - 1  BY <1>1
  <1>12. /\ \A n \in 1 .. size : \E i \in at : Cardinality(Preds(i)) = n - 1
         /\ \A i \in at : Cardinality(Preds(i)) \in 0 .. size - 1
         /\ \A i, k \in at : Cardinality(Preds(i)) = Cardinality(Preds(k)) => i = k
    <2> HIDE DEF Preds
    <2> QED  BY <1>7, <1>8, <1>9, <1>10, <1>11
  <1> QED  BY <1>1, <1>12 DEF size

\* The least of two numbers
LEMMA MinOfTwo ==
  ASSUME NEW a \in Int, NEW b \in Int
  PROVE  Min({a, b}) = IF a <= b THEN a ELSE b
  <1>1. \E x \in {a, b} : \A y \in {a, b} : x <= y  OBVIOUS
  <1>2. Min({a, b}) \in {a, b} /\ \A y \in {a, b} : Min({a, b}) <= y  BY <1>1 DEF Min
  <1> QED  BY <1>2

\* The greatest of two numbers
LEMMA MaxOfTwo ==
  ASSUME NEW a \in Int, NEW b \in Int
  PROVE  Max({a, b}) = IF a <= b THEN b ELSE a
  <1>1. \E x \in {a, b} : \A y \in {a, b} : x >= y  OBVIOUS
  <1>2. Max({a, b}) \in {a, b} /\ \A y \in {a, b} : Max({a, b}) >= y  BY <1>1 DEF Max
  <1> QED  BY <1>2

\* What reaches one of two numbers reaches the lesser one.
LEMMA AtLeastMin ==
  ASSUME NEW a \in Nat, NEW b \in Nat, NEW x \in Nat, a <= x \/ b <= x
  PROVE  x >= Min({a, b})
  <1>1. Min({a, b}) = IF a <= b THEN a ELSE b  BY MinOfTwo
  <1> QED  BY <1>1

\* A number is no less than the lesser of two of which it is one.
LEMMA NoLessThanMin ==
  ASSUME NEW a \in Nat, NEW b \in Nat
  PROVE  b >= Min({a, b})
  <1>1. b <= b  OBVIOUS
  <1> QED  BY <1>1, AtLeastMin

\* What reaches the lesser of two numbers stands in for one of them.
LEMMA MinOfMin ==
  ASSUME NEW a \in Nat, NEW b \in Nat, NEW x \in Nat, NEW z \in Nat,
         x >= Min({a, b}), z >= Min({a, x})
  PROVE  z >= Min({a, b})
  <1>1. Min({a, b}) = IF a <= b THEN a ELSE b  BY MinOfTwo
  <1>2. Min({a, x}) = IF a <= x THEN a ELSE x  BY MinOfTwo
  <1> QED  BY <1>1, <1>2

\* What two sequences joined hold
LEMMA JoinedSet ==
  ASSUME NEW S, NEW a \in Seq(S), NEW b \in Seq(S)
  PROVE  /\ a \o b \in Seq(S) /\ Len(a \o b) = Len(a) + Len(b)
         /\ ToSet(a \o b) = ToSet(a) \union ToSet(b)
         /\ IsInjective(a) /\ IsInjective(b) /\ ToSet(a) \cap ToSet(b) = {} => IsInjective(a \o b)
  <1> DEFINE t == a \o b
  <1>1. /\ Len(a) \in Nat /\ Len(b) \in Nat /\ DOMAIN a = 1 .. Len(a) /\ DOMAIN b = 1 .. Len(b)
    BY LenProperties
  <1>2. /\ t \in Seq(S) /\ Len(t) = Len(a) + Len(b)
        /\ \A i \in 1 .. Len(a) : t[i] = a[i]
        /\ \A i \in Len(a) + 1 .. Len(a) + Len(b) : t[i] = b[i - Len(a)]
    BY JoinedElements
  <1>3. DOMAIN t = 1 .. Len(a) + Len(b)
    <2> HIDE DEF t
    <2> QED  BY <1>2, LenProperties
  <1> HIDE DEF t
  <1>4. \A i \in DOMAIN t : \/ i \in DOMAIN a /\ t[i] = a[i]
                            \/ i - Len(a) \in DOMAIN b /\ i \notin DOMAIN a /\ t[i] = b[i - Len(a)]
    BY <1>1, <1>2, <1>3
  <1>5. \A i \in DOMAIN a : i \in DOMAIN t /\ t[i] = a[i]  BY <1>1, <1>2, <1>3
  <1>6. \A i \in DOMAIN b : i + Len(a) \in DOMAIN t /\ t[i + Len(a)] = b[i]
    <2> TAKE i \in DOMAIN b
    <2>1. i + Len(a) \in Len(a) + 1 .. Len(a) + Len(b) /\ i + Len(a) - Len(a) = i  BY <1>1
    <2> QED  BY <1>1, <1>2, <1>3, <2>1
  <1>7. ToSet(t) = ToSet(a) \union ToSet(b)
    <2>1. ASSUME NEW x \in ToSet(t)  PROVE x \in ToSet(a) \union ToSet(b)
      BY <1>4 DEF ToSet
    <2>2. ASSUME NEW x \in ToSet(a)  PROVE x \in ToSet(t)
      BY <1>5 DEF ToSet
    <2>3. ASSUME NEW x \in ToSet(b)  PROVE x \in ToSet(t)
      BY <1>6 DEF ToSet
    <2> QED  BY <2>1, <2>2, <2>3
  <1>8. ASSUME IsInjective(a), IsInjective(b), ToSet(a) \cap ToSet(b) = {}
        PROVE  IsInjective(t)
    <2>1. SUFFICES ASSUME NEW i \in DOMAIN t, NEW k \in DOMAIN t, t[i] = t[k]  PROVE i = k
      BY DEF IsInjective
    <2>2. \A x \in DOMAIN a, y \in DOMAIN b : a[x] # b[y]
      BY <1>8 DEF ToSet
    <2>3. i \in Int /\ k \in Int  BY <1>1, <1>3
    <2>4. CASE i \in DOMAIN a /\ k \in DOMAIN a
      BY <1>5, <1>8, <2>1, <2>4 DEF IsInjective
    <2>5. CASE i \notin DOMAIN a /\ k \notin DOMAIN a
      <3>1. i - Len(a) = k - Len(a)
        BY <1>4, <1>8, <2>1, <2>5 DEF IsInjective
      <3> QED  BY <1>1, <2>3, <3>1
    <2>6. CASE i \in DOMAIN a /\ k \notin DOMAIN a
      BY <1>4, <1>5, <2>1, <2>2, <2>6
    <2>7. CASE i \notin DOMAIN a /\ k \in DOMAIN a
      BY <1>4, <1>5, <2>1, <2>2, <2>7
    <2> QED  BY <2>4, <2>5, <2>6, <2>7
  <1> QED  BY <1>2, <1>7, <1>8 DEF t

\* A sequence whose elements have each a value of their own has as many values
\* as elements.
LEMMA ValueCount ==
  ASSUME NEW S, NEW t \in Seq(S), NEW value,
         \A i, k \in DOMAIN t : value[t[i]] = value[t[k]] => i = k
  PROVE  /\ IsFiniteSet({value[c] : c \in ToSet(t)})
         /\ Cardinality({value[c] : c \in ToSet(t)}) = Len(t)
  <1> DEFINE V == {value[c] : c \in ToSet(t)}
             f == [i \in 1 .. Len(t) |-> value[t[i]]]
  <1>1. Len(t) \in Nat /\ DOMAIN t = 1 .. Len(t)  BY LenProperties
  <1>2. f \in [1 .. Len(t) -> V]  BY <1>1 DEF ToSet
  <1>3. \A v \in V : \E i \in 1 .. Len(t) : f[i] = v  BY <1>1 DEF ToSet
  <1>4. IsInjective(f)  BY <1>1 DEF IsInjective
  <1>5. f \in Bijection(1 .. Len(t), V)
    <2> HIDE DEF f, V
    <2> QED  BY <1>2, <1>3, <1>4 DEF Bijection, Injection, Surjection
  <1>6. IsFiniteSet(1 .. Len(t)) /\ Cardinality(1 .. Len(t)) = Len(t)
    <2>1. /\ IsFiniteSet(1 .. Len(t))
          /\ Cardinality(1 .. Len(t)) = IF 1 > Len(t) THEN 0 ELSE Len(t) - 1 + 1
      BY <1>1, FS_Interval
    <2> QED  BY <1>1, <2>1
  <1>7. ExistsBijection(1 .. Len(t), V)
    <2> HIDE DEF f, V
    <2> QED  BY <1>5 DEF ExistsBijection
  <1> HIDE DEF V
  <1>8. IsFiniteSet(V) /\ Cardinality(V) = Len(t)  BY <1>6, <1>7, FS_Bijection
  <1> QED  BY <1>8 DEF V

\* A sequence that repeats nothing has as many elements as positions.
LEMMA ElementCount ==
  ASSUME NEW S, NEW t \in Seq(S), IsInjective(t)
  PROVE  IsFiniteSet(ToSet(t)) /\ Cardinality(ToSet(t)) = Len(t)
  <1> DEFINE value == [c \in ToSet(t) |-> c]
  <1>1. \A i \in DOMAIN t : t[i] \in ToSet(t) /\ value[t[i]] = t[i]  BY DEF ToSet
  <1>2. \A i, k \in DOMAIN t : value[t[i]] = value[t[k]] => i = k  BY <1>1 DEF IsInjective
  <1>3. {value[c] : c \in ToSet(t)} = ToSet(t)  OBVIOUS
  <1> HIDE DEF value
  <1>4. /\ IsFiniteSet({value[c] : c \in ToSet(t)})
        /\ Cardinality({value[c] : c \in ToSet(t)}) = Len(t)
    BY <1>2, ValueCount
  <1> QED  BY <1>3, <1>4

\* A sequence with no elements is the empty one.
LEMMA NoElements ==
  ASSUME NEW S, NEW s \in Seq(S)
  PROVE  ToSet(s) = {} <=> s = <<>>
  <1>1. Len(s) \in Nat /\ DOMAIN s = 1 .. Len(s)  BY LenProperties
  <1>2. ASSUME s # <<>>  PROVE ToSet(s) # {}
    <2>1. Len(s) \in Nat \ {0}  BY <1>2, EmptySeq
    <2>2. 1 \in DOMAIN s  BY <1>1, <2>1
    <2> QED  BY <2>2 DEF ToSet
  <1>3. ASSUME s = <<>>  PROVE ToSet(s) = {}
    <2>1. DOMAIN s = {}  BY <1>1, <1>3, EmptySeq
    <2> QED  BY <2>1 DEF ToSet
  <1> QED  BY <1>2, <1>3
================================================================================
