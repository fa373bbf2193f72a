----------------------------- MODULE Lists_proofs -----------------------------
(***************************************************************************)
(* What the operations on the kernel's lists do to lists that hold every   *)
(* element at most once.                                                   *)
(***************************************************************************)
EXTENDS Lists, FiniteSetTheorems, SequenceTheorems, TLAPS

\* No element is in the list twice.
Once(list) == \A i, j \in 1..Len(list) : list[i] = list[j] => i = j

-----------------------------------------------------------------------------
(* Taking an element out. *)

\* RemoveAt moves up what is behind the element.
LEMMA RemoveAtElements ==
  ASSUME NEW S, NEW s \in Seq(S), NEW i \in 1..Len(s)
  PROVE  /\ RemoveAt(s, i) \in Seq(S)
         /\ Len(RemoveAt(s, i)) = Len(s) - 1
         /\ \A j \in 1..Len(s) - 1 :
              RemoveAt(s, i)[j] = IF j < i THEN s[j] ELSE s[j + 1]
<1> DEFINE a == SubSeq(s, 1, i - 1)
           b == SubSeq(s, i + 1, Len(s))
<1>1. /\ a \in Seq(S) /\ Len(a) = i - 1
      /\ \A j \in 1..i - 1 : a[j] = s[j]
  OBVIOUS
<1>2. /\ b \in Seq(S) /\ Len(b) = Len(s) - i
      /\ \A j \in 1..Len(s) - i : b[j] = s[i + j]
  OBVIOUS
<1>3. RemoveAt(s, i) = a \o b
  BY DEF RemoveAt
<1> HIDE DEF a, b
<1>4. /\ a \o b \in Seq(S)
      /\ Len(a \o b) = Len(s) - 1
      /\ \A j \in 1..Len(s) - 1 : (a \o b)[j] = IF j <= i - 1 THEN a[j] ELSE b[j - (i - 1)]
  <2>1. /\ a \o b \in Seq(S)
        /\ Len(a \o b) = Len(a) + Len(b)
        /\ \A j \in 1..Len(a) + Len(b) :
             (a \o b)[j] = IF j <= Len(a) THEN a[j] ELSE b[j - Len(a)]
    BY <1>1, <1>2, ConcatProperties
  <2>2. Len(a) + Len(b) = Len(s) - 1
    BY <1>1, <1>2
  <2> QED BY <2>1, <2>2, <1>1
<1>5. ASSUME NEW j \in 1..Len(s) - 1
      PROVE  (a \o b)[j] = IF j < i THEN s[j] ELSE s[j + 1]
  <2>1. CASE j < i
    BY <2>1, <1>1, <1>4
  <2>2. CASE ~(j < i)
    <3>1. (a \o b)[j] = b[j - (i - 1)]
      BY <2>2, <1>4
    <3>2. j - (i - 1) \in 1..Len(s) - i /\ i + (j - (i - 1)) = j + 1
      BY <2>2
    <3> QED BY <3>1, <3>2, <2>2, <1>2
  <2> QED BY <2>1, <2>2
<1> QED BY <1>3, <1>4, <1>5

\* RemoveAt takes one element out of a list and keeps the others.
LEMMA RemoveAtOnce ==
  ASSUME NEW S, NEW s \in Seq(S), Once(s), NEW i \in 1..Len(s)
  PROVE  /\ RemoveAt(s, i) \in Seq(S)
         /\ Once(RemoveAt(s, i))
         /\ \A x : Contains(RemoveAt(s, i), x) <=> Contains(s, x) /\ x # s[i]
<1> DEFINE r == RemoveAt(s, i)
<1>1. /\ r \in Seq(S) /\ Len(r) = Len(s) - 1
      /\ \A j \in 1..Len(s) - 1 : r[j] = IF j < i THEN s[j] ELSE s[j + 1]
  BY RemoveAtElements
<1> HIDE DEF r
<1>2. Once(r)
  BY <1>1 DEF Once
<1>3. ASSUME NEW x, Contains(r, x) PROVE Contains(s, x) /\ x # s[i]
  BY <1>1, <1>3 DEF Once, Contains
<1>4. ASSUME NEW x, Contains(s, x), x # s[i] PROVE Contains(r, x)
  <2>1. PICK j \in 1..Len(s) : s[j] = x
    BY <1>4 DEF Contains
  <2>2. CASE j < i
    <3>1. j \in 1..Len(r) /\ r[j] = x
      BY <2>1, <2>2, <1>1
    <3> QED BY <3>1 DEF Contains
  <2>3. CASE j > i
    <3>1. j - 1 \in 1..Len(r) /\ r[j - 1] = x
      BY <2>1, <2>3, <1>1
    <3> QED BY <3>1 DEF Contains
  <2> QED BY <2>1, <2>2, <2>3, <1>4
<1> QED BY <1>1, <1>2, <1>3, <1>4 DEF r

\* list_remove takes out the element it is given.
LEMMA WithoutOnce ==
  ASSUME NEW S, NEW s \in Seq(S), Once(s), NEW e, Contains(s, e)
  PROVE  /\ Without(s, e) \in Seq(S)
         /\ Once(Without(s, e))
         /\ \A x : Contains(Without(s, e), x) <=> Contains(s, x) /\ x # e
<1> DEFINE i == CHOOSE i \in 1..Len(s) : s[i] = e
<1>1. i \in 1..Len(s) /\ s[i] = e
  BY DEF Contains
<1>2. Without(s, e) = RemoveAt(s, i)
  BY DEF Without
<1> HIDE DEF i
<1> QED BY <1>1, <1>2, RemoveAtOnce

\* list_pop_front.
LEMMA TailOnce ==
  ASSUME NEW S, NEW s \in Seq(S), Once(s), s # <<>>
  PROVE  /\ Head(s) \in S /\ Contains(s, Head(s))
         /\ Tail(s) \in Seq(S)
         /\ Once(Tail(s))
         /\ \A x : Contains(Tail(s), x) <=> Contains(s, x) /\ x # Head(s)
<1>1. /\ Len(s) \in Nat \ {0}
      /\ Head(s) = s[1] /\ Head(s) \in S
      /\ Tail(s) \in Seq(S) /\ Len(Tail(s)) = Len(s) - 1
      /\ \A j \in 1..Len(s) - 1 : Tail(s)[j] = s[j + 1]
  OBVIOUS
<1>2. Once(Tail(s))
  BY <1>1 DEF Once
<1>3. ASSUME NEW x, Contains(Tail(s), x) PROVE Contains(s, x) /\ x # Head(s)
  BY <1>1, <1>3 DEF Once, Contains
<1>4. ASSUME NEW x, Contains(s, x), x # Head(s) PROVE Contains(Tail(s), x)
  <2>1. PICK j \in 1..Len(s) : s[j] = x
    BY <1>4 DEF Contains
  <2>2. j - 1 \in 1..Len(Tail(s)) /\ Tail(s)[j - 1] = x
    BY <2>1, <1>1, <1>4
  <2> QED BY <2>2 DEF Contains
<1>5. Contains(s, Head(s))
  BY <1>1 DEF Contains
<1> QED BY <1>1, <1>2, <1>3, <1>4, <1>5

-----------------------------------------------------------------------------
(* Putting an element in. *)

\* InsertAt moves down what is behind the new element.
LEMMA InsertAtElements ==
  ASSUME NEW S, NEW s \in Seq(S), NEW e \in S, NEW i \in 1..Len(s) + 1
  PROVE  /\ InsertAt(s, i, e) \in Seq(S)
         /\ Len(InsertAt(s, i, e)) = Len(s) + 1
         /\ \A j \in 1..Len(s) + 1 : InsertAt(s, i, e)[j] =
              IF j < i THEN s[j] ELSE IF j = i THEN e ELSE s[j - 1]
<1> DEFINE a == SubSeq(s, 1, i - 1)
           b == SubSeq(s, i, Len(s))
           c == a \o <<e>>
<1>1. /\ a \in Seq(S) /\ Len(a) = i - 1
      /\ \A j \in 1..i - 1 : a[j] = s[j]
  OBVIOUS
<1>2. /\ b \in Seq(S) /\ Len(b) = Len(s) - i + 1
      /\ \A j \in 1..Len(s) - i + 1 : b[j] = s[i + j - 1]
  OBVIOUS
<1>3. InsertAt(s, i, e) = c \o b
  BY DEF InsertAt
<1> HIDE DEF a, b
<1>4. /\ c \in Seq(S) /\ Len(c) = i
      /\ \A j \in 1..i - 1 : c[j] = s[j]
      /\ c[i] = e
  BY <1>1
<1> HIDE DEF c
<1>5. /\ c \o b \in Seq(S)
      /\ Len(c \o b) = Len(s) + 1
      /\ \A j \in 1..Len(s) + 1 : (c \o b)[j] = IF j <= i THEN c[j] ELSE b[j - i]
  <2>1. /\ c \o b \in Seq(S)
        /\ Len(c \o b) = Len(c) + Len(b)
        /\ \A j \in 1..Len(c) + Len(b) :
             (c \o b)[j] = IF j <= Len(c) THEN c[j] ELSE b[j - Len(c)]
    BY <1>2, <1>4, ConcatProperties
  <2>2. Len(c) + Len(b) = Len(s) + 1
    BY <1>2, <1>4
  <2> QED BY <2>1, <2>2, <1>4
<1>6. ASSUME NEW j \in 1..Len(s) + 1
      PROVE  (c \o b)[j] = IF j < i THEN s[j] ELSE IF j = i THEN e ELSE s[j - 1]
  <2>1. CASE j <= i
    BY <2>1, <1>4, <1>5
  <2>2. CASE ~(j <= i)
    <3>1. (c \o b)[j] = b[j - i]
      BY <2>2, <1>5
    <3>2. j - i \in 1..Len(s) - i + 1 /\ i + (j - i) - 1 = j - 1
      BY <2>2
    <3> QED BY <3>1, <3>2, <2>2, <1>2
  <2> QED BY <2>1, <2>2
<1> QED BY <1>3, <1>5, <1>6

\* list_insert keeps what is in the list.
LEMMA InsertAtOnce ==
  ASSUME NEW S, NEW s \in Seq(S), Once(s), NEW e \in S, ~Contains(s, e),
         NEW i \in 1..Len(s) + 1
  PROVE  /\ InsertAt(s, i, e) \in Seq(S)
         /\ InsertAt(s, i, e) # <<>>
         /\ Once(InsertAt(s, i, e))
         /\ \A x : Contains(InsertAt(s, i, e), x) <=> Contains(s, x) \/ x = e
<1> DEFINE r == InsertAt(s, i, e)
<1>1. /\ r \in Seq(S) /\ Len(r) = Len(s) + 1
      /\ \A j \in 1..Len(s) + 1 :
           r[j] = IF j < i THEN s[j] ELSE IF j = i THEN e ELSE s[j - 1]
  BY InsertAtElements
<1> HIDE DEF r
<1>2. \A j \in 1..Len(s) : s[j] # e
  BY DEF Contains
<1>3. Once(r)
  <2> SUFFICES ASSUME NEW j \in 1..Len(r), NEW k \in 1..Len(r), j < k, r[j] = r[k]
               PROVE  FALSE
    BY <1>1 DEF Once
  <2>1. CASE k < i
    BY <2>1, <1>1 DEF Once
  <2>2. CASE k = i
    <3>1. r[k] = e /\ j \in 1..Len(s) /\ r[j] = s[j]
      BY <2>2, <1>1
    <3> QED BY <3>1, <1>2
  <2>3. CASE k > i
    <3>1. k - 1 \in 1..Len(s) /\ s[k - 1] = r[j]
      BY <2>3, <1>1
    <3>2. CASE j < i
      BY SMTT(30), <3>1, <3>2, <2>3, <1>1 DEF Once
    <3>3. CASE j = i
      BY <3>1, <3>3, <1>1, <1>2
    <3>4. CASE j > i
      <4>1. j - 1 \in 1..Len(s) /\ s[j - 1] = s[k - 1] /\ j - 1 # k - 1
        BY <3>1, <3>4, <1>1
      <4> QED BY <4>1, <3>1 DEF Once
    <3> QED BY <3>2, <3>3, <3>4
  <2> QED BY <2>1, <2>2, <2>3
<1>4. ASSUME NEW x, Contains(r, x), x # e PROVE Contains(s, x)
  <2>1. PICK j \in 1..Len(r) : r[j] = x
    BY <1>4 DEF Contains
  <2>2. CASE j < i
    BY <2>1, <2>2, <1>1 DEF Contains
  <2>3. CASE j > i
    <3>1. j - 1 \in 1..Len(s) /\ s[j - 1] = x
      BY <2>1, <2>3, <1>1
    <3> QED BY <3>1 DEF Contains
  <2> QED BY <2>1, <2>2, <2>3, <1>1, <1>4
<1>5. ASSUME NEW x, Contains(s, x) PROVE Contains(r, x)
  <2>1. PICK j \in 1..Len(s) : s[j] = x
    BY <1>5 DEF Contains
  <2>2. CASE j < i
    <3>1. j \in 1..Len(r) /\ r[j] = x
      BY <2>1, <2>2, <1>1
    <3> QED BY <3>1 DEF Contains
  <2>3. CASE j >= i
    <3>1. j + 1 \in 1..Len(r) /\ r[j + 1] = x
      BY <2>1, <2>3, <1>1
    <3> QED BY <3>1 DEF Contains
  <2> QED BY <2>2, <2>3
<1>6. Contains(r, e) /\ r # <<>>
  <2>1. i \in 1..Len(r) /\ r[i] = e
    BY <1>1
  <2> QED BY <2>1, <1>1 DEF Contains
<1> QED BY <1>1, <1>3, <1>4, <1>5, <1>6 DEF r

\* list_insert_ordered puts a new element into the list, wherever that is.
LEMMA InsertOrderedOnce ==
  ASSUME NEW S, NEW s \in Seq(S), Once(s), NEW e \in S, ~Contains(s, e), NEW prio
  PROVE  /\ InsertOrdered(s, e, prio) \in Seq(S)
         /\ InsertOrdered(s, e, prio) # <<>>
         /\ Once(InsertOrdered(s, e, prio))
         /\ \A x : Contains(InsertOrdered(s, e, prio), x) <=> Contains(s, x) \/ x = e
<1> DEFINE before == {i \in 1..Len(s) : \A j \in 1..i : prio[s[j]] >= prio[e]}
<1>1. Len(s) \in Nat
  OBVIOUS
<1>2. IsFiniteSet(1..Len(s)) /\ Cardinality(1..Len(s)) = Len(s)
  BY <1>1, FS_Interval
<1>3. Cardinality(before) <= Len(s) /\ Cardinality(before) \in Nat
  BY <1>2, FS_Subset, FS_CardinalityType
<1>4. Cardinality(before) + 1 \in 1..Len(s) + 1
  BY <1>1, <1>3
<1>5. InsertOrdered(s, e, prio) = InsertAt(s, Cardinality(before) + 1, e)
  BY DEF InsertOrdered
<1> HIDE DEF before
<1> QED BY <1>4, <1>5, InsertAtOnce

\* list_push_back.
LEMMA AppendOnce ==
  ASSUME NEW S, NEW s \in Seq(S), Once(s), NEW e \in S, ~Contains(s, e)
  PROVE  /\ Append(s, e) \in Seq(S)
         /\ Once(Append(s, e))
         /\ \A x : Contains(Append(s, e), x) <=> Contains(s, x) \/ x = e
<1>1. /\ Append(s, e) \in Seq(S) /\ Len(Append(s, e)) = Len(s) + 1 /\ Len(s) \in Nat
      /\ \A j \in 1..Len(s) : Append(s, e)[j] = s[j]
      /\ Append(s, e)[Len(s) + 1] = e
  OBVIOUS
<1>2. \A j \in 1..Len(s) : s[j] # e
  BY DEF Contains
<1>3. Once(Append(s, e))
  BY <1>1, <1>2 DEF Once
<1> QED BY <1>1, <1>3 DEF Contains

\* list_push_front.
LEMMA PushFrontOnce ==
  ASSUME NEW S, NEW s \in Seq(S), Once(s), NEW e \in S, ~Contains(s, e)
  PROVE  /\ <<e>> \o s \in Seq(S)
         /\ Once(<<e>> \o s)
         /\ \A x : Contains(<<e>> \o s, x) <=> Contains(s, x) \/ x = e
<1> DEFINE r == <<e>> \o s
<1>1. /\ r \in Seq(S) /\ Len(r) = Len(s) + 1 /\ Len(s) \in Nat
      /\ r[1] = e
      /\ \A j \in 2..Len(s) + 1 : r[j] = s[j - 1]
  OBVIOUS
<1> HIDE DEF r
<1>2. \A j \in 1..Len(s) : s[j] # e
  BY DEF Contains
<1>3. Once(r)
  BY <1>1, <1>2 DEF Once
<1>4. ASSUME NEW x, Contains(s, x) PROVE Contains(r, x)
  <2>1. PICK j \in 1..Len(s) : s[j] = x
    BY <1>4 DEF Contains
  <2>2. j + 1 \in 1..Len(r) /\ r[j + 1] = x
    BY <2>1, <1>1
  <2> QED BY <2>2 DEF Contains
<1>5. Contains(r, e)
  BY <1>1 DEF Contains
<1>6. ASSUME NEW x, Contains(r, x), x # e PROVE Contains(s, x)
  <2>1. PICK j \in 1..Len(r) : r[j] = x
    BY <1>6 DEF Contains
  <2>2. j - 1 \in 1..Len(s) /\ s[j - 1] = x
    BY <2>1, <1>1, <1>6
  <2> QED BY <2>2 DEF Contains
<1> QED BY <1>1, <1>3, <1>4, <1>5, <1>6 DEF r

-----------------------------------------------------------------------------
(* Counting. *)

\* The places of an element in a list that holds it at most once.
LEMMA PlacesOnce ==
  ASSUME NEW S, NEW s \in Seq(S), Once(s), NEW e
  PROVE  Cardinality({i \in DOMAIN s : s[i] = e}) = IF Contains(s, e) THEN 1 ELSE 0
<1>1. DOMAIN s = 1..Len(s)
  OBVIOUS
<1>2. CASE Contains(s, e)
  <2>1. PICK i \in 1..Len(s) : s[i] = e
    BY <1>2 DEF Contains
  <2>2. {j \in DOMAIN s : s[j] = e} = {i}
    BY <2>1, <1>1 DEF Once
  <2> QED BY <2>2, <1>2, FS_Singleton
<1>3. CASE ~Contains(s, e)
  <2>1. {j \in DOMAIN s : s[j] = e} = {}
    BY <1>1, <1>3 DEF Contains
  <2> QED BY <2>1, <1>3, FS_EmptySet
<1> QED BY <1>2, <1>3

\* The empty list.
LEMMA EmptyOnce == Once(<<>>) /\ \A x : ~Contains(<<>>, x)
BY DEF Once, Contains

-----------------------------------------------------------------------------
(* Finite sets of numbers.                                                 *)

\* A finite set of integers that is not empty has a maximum.
LEMMA FiniteMax ==
  ASSUME NEW S \in SUBSET Int, IsFiniteSet(S), S # {}
  PROVE  /\ Max(S) \in S
         /\ \A x \in S : Max(S) >= x
<1> DEFINE above(x) == {y \in S : y > x}
           T == {above(x) : x \in S}
<1>1. T \subseteq FiniteSubsetsOf(S)
  <2>1. FiniteSubsetsOf(S) = SUBSET S
    BY FS_FiniteSubsetsOfFinite
  <2> QED BY <2>1
<1>2. PICK U \in T : \A V \in T : ~(<<V, U>> \in StrictSubsetOrdering(S))
  <2>1. IsWellFoundedOn(StrictSubsetOrdering(S), FiniteSubsetsOf(S))
    BY FS_StrictSubsetOrderingWellFounded
  <2>2. T # {}
    OBVIOUS
  <2> HIDE DEF T
  <2> QED BY <1>1, <2>1, <2>2, WFMin
<1>3. PICK x \in S : U = above(x)
  OBVIOUS
<1>4. ASSUME NEW y \in S, y > x PROVE FALSE
  <2>1. x \in Int /\ y \in Int /\ \A z \in S : z \in Int
    OBVIOUS
  <2>2. \A z \in S : z > y => z > x
    BY <2>1, <1>4
  <2>3. above(y) \subseteq above(x)
    BY <2>2
  <2>4. y \in above(x) /\ y \notin above(y)
    BY <2>1, <1>4
  <2>5. <<above(y), above(x)>> \in StrictSubsetOrdering(S)
    BY <2>3, <2>4 DEF StrictSubsetOrdering
  <2> QED BY <1>2, <1>3, <2>5
<1>5. \A y \in S : x >= y
  <2> HIDE DEF above, T
  <2> QED BY <1>4
<1> QED BY <1>5 DEF Max

\* The image of a finite set under a function.
LEMMA ImageFinite ==
  ASSUME NEW S, IsFiniteSet(S), NEW f
  PROVE  IsFiniteSet({f[x] : x \in S})
<1> DEFINE T == {f[x] : x \in S}
           g == [x \in S |-> f[x]]
<1>1. g \in Surjection(S, T)
  BY DEF Surjection
<1> HIDE DEF g, T
<1>2. IsFiniteSet(T)
  BY <1>1, FS_Surjection
<1> QED BY <1>2 DEF T

\* The elements of a list.
LEMMA ElementsFinite ==
  ASSUME NEW S, NEW s \in Seq(S)
  PROVE  IsFiniteSet(ToSet(s)) /\ ToSet(s) \subseteq S
<1>1. DOMAIN s = 1..Len(s) /\ Len(s) \in Nat
  OBVIOUS
<1>2. IsFiniteSet(DOMAIN s)
  BY <1>1, FS_Interval
<1>3. ToSet(s) = {s[i] : i \in DOMAIN s}
  BY DEF ToSet
<1> QED BY <1>1, <1>2, <1>3, ImageFinite

\* The maximum of two integers.
LEMMA MaxOfTwo ==
  ASSUME NEW a \in Int, NEW b \in Int
  PROVE  Max({a, b}) \in {a, b} /\ Max({a, b}) >= a /\ Max({a, b}) >= b
<1>1. \E m \in {a, b} : \A y \in {a, b} : m >= y
  OBVIOUS
<1> QED BY <1>1 DEF Max


\* A set of natural numbers that is not empty has a least element.
LEMMA LeastNatural ==
  ASSUME NEW S \in SUBSET Nat, S # {}
  PROVE  \E m \in S : \A x \in S : m <= x
<1>1. PICK n \in S : n \in Nat
  OBVIOUS
<1> DEFINE low == {x \in 0..n : x \in S}
           neg == [x \in low |-> -x]
           T == {neg[x] : x \in low}
<1>2. n \in low /\ low \subseteq Nat
  BY <1>1
<1>3. IsFiniteSet(low)
  <2>1. IsFiniteSet(0..n) /\ low \subseteq 0..n
    BY <1>1, FS_Interval
  <2> HIDE DEF low
  <2> QED BY <2>1, FS_Subset
<1>4. T \in SUBSET Int /\ T # {}
  BY <1>2
<1>5. IsFiniteSet(T)
  <2> HIDE DEF neg, low
  <2> QED BY <1>3, ImageFinite
<1>6. PICK y \in T : \A z \in T : y >= z
  <2> HIDE DEF T
  <2> QED BY <1>4, <1>5, FiniteMax
<1>7. PICK m \in low : y = -m
  OBVIOUS
<1>8. \A x \in low : -m >= -x
  BY <1>6, <1>7
<1> HIDE DEF T, neg
<1>9. \A x \in S : m <= x
  BY <1>1, <1>2, <1>8
<1> QED BY <1>9

\* A set of positions that holds every position before its own is a beginning.
LEMMA Beginning ==
  ASSUME NEW n \in Nat, NEW B \in SUBSET (1..n), \A i \in B : 1..i \subseteq B
  PROVE  /\ IsFiniteSet(B)
         /\ Cardinality(B) \in 0..n
         /\ B = 1..Cardinality(B)
<1>1. IsFiniteSet(B)
  <2>1. IsFiniteSet(1..n)
    BY FS_Interval
  <2> QED BY <2>1, FS_Subset
<1>2. CASE B = {}
  <2>1. Cardinality(B) = 0
    BY <1>2, FS_EmptySet
  <2> QED BY <1>1, <1>2, <2>1
<1>3. CASE B # {}
  <2>1. PICK m \in B : \A x \in B : m >= x
    <3>1. B \in SUBSET Int
      OBVIOUS
    <3> QED BY <1>1, <1>3, <3>1, FiniteMax
  <2>2. B = 1..m
    <3>1. \A x \in B : x \in 1..m
      BY <2>1
    <3>2. 1..m \subseteq B
      BY <2>1
    <3> QED BY <3>1, <3>2
  <2>3. m \in 1..n /\ Cardinality(1..m) = m
    BY FS_Interval
  <2> QED BY <1>1, <2>2, <2>3
<1> QED BY <1>2, <1>3

-----------------------------------------------------------------------------
(* The order of the priorities.                                            *)

\* No thread is in front of one of a higher priority.
Sorted(list, prio) ==
  \A i, j \in 1..Len(list) : i < j => prio[list[i]] >= prio[list[j]]

\* list_remove keeps the order.
LEMMA WithoutSorted ==
  ASSUME NEW S, NEW s \in Seq(S), NEW prio, Sorted(s, prio), NEW e, Contains(s, e)
  PROVE  Sorted(Without(s, e), prio)
<1> DEFINE i == CHOOSE i \in 1..Len(s) : s[i] = e
           r == Without(s, e)
<1>1. i \in 1..Len(s)
  BY DEF Contains
<1>2. r = RemoveAt(s, i)
  BY DEF Without
<1> HIDE DEF i, r
<1>3. /\ Len(r) = Len(s) - 1
      /\ \A j \in 1..Len(s) - 1 : r[j] = IF j < i THEN s[j] ELSE s[j + 1]
  BY <1>1, <1>2, RemoveAtElements
<1>4. Sorted(r, prio)
  <2> SUFFICES ASSUME NEW j \in 1..Len(r), NEW k \in 1..Len(r), j < k
               PROVE  prio[r[j]] >= prio[r[k]]
    BY DEF Sorted
  <2>1. CASE k < i
    <3>1. r[j] = s[j] /\ r[k] = s[k] /\ j \in 1..Len(s) /\ k \in 1..Len(s)
      BY <2>1, <1>1, <1>3
    <3> QED BY <3>1 DEF Sorted
  <2>2. CASE j < i /\ ~(k < i)
    <3>1. r[j] = s[j] /\ r[k] = s[k + 1] /\ j < k + 1 /\ j \in 1..Len(s) /\ k + 1 \in 1..Len(s)
      BY <2>2, <1>3
    <3> QED BY <3>1 DEF Sorted
  <2>3. CASE ~(j < i)
    <3>1. /\ r[j] = s[j + 1] /\ r[k] = s[k + 1] /\ j + 1 < k + 1
          /\ j + 1 \in 1..Len(s) /\ k + 1 \in 1..Len(s)
      BY <2>3, <1>1, <1>3
    <3> QED BY <3>1 DEF Sorted
  <2> QED BY <2>1, <2>2, <2>3, <1>1
<1> QED BY <1>4 DEF r

\* list_insert_ordered keeps the order.
LEMMA InsertOrderedSorted ==
  ASSUME NEW S, NEW s \in Seq(S), NEW prio \in [S -> Int], Sorted(s, prio), NEW e \in S
  PROVE  Sorted(InsertOrdered(s, e, prio), prio)
<1> DEFINE before == {i \in 1..Len(s) : \A j \in 1..i : prio[s[j]] >= prio[e]}
           n == Cardinality(before)
           r == InsertOrdered(s, e, prio)
<1>1. Len(s) \in Nat /\ \A i \in 1..Len(s) : s[i] \in S /\ prio[s[i]] \in Int
  OBVIOUS
<1>2. n \in 0..Len(s) /\ before = 1..n
  <2>1. before \in SUBSET (1..Len(s)) /\ \A i \in before : 1..i \subseteq before
    OBVIOUS
  <2> HIDE DEF before
  <2> QED BY <1>1, <2>1, Beginning
<1>3. \A i \in 1..n : prio[s[i]] >= prio[e]
  <2>1. ASSUME NEW i \in 1..n PROVE prio[s[i]] >= prio[e]
    <3>1. i \in before
      BY <1>2
    <3> QED BY <3>1
  <2> QED BY <2>1
<1>4. n < Len(s) => prio[s[n + 1]] < prio[e]
  <2> SUFFICES ASSUME n < Len(s), ~(prio[s[n + 1]] < prio[e]) PROVE FALSE
    OBVIOUS
  <2>1. n + 1 \in 1..Len(s) /\ n + 1 \notin before /\ prio[e] \in Int
    <3> HIDE DEF before, n
    <3> QED BY <1>1, <1>2
  <2>2. prio[s[n + 1]] >= prio[e]
    BY <1>1, <2>1
  <2>3. \A j \in 1..n + 1 : prio[s[j]] >= prio[e]
    <3> HIDE DEF before, n
    <3> QED BY <1>2, <1>3, <2>2
  <2> QED BY <2>1, <2>3
<1>5. r = InsertAt(s, n + 1, e)
  BY DEF InsertOrdered
<1> HIDE DEF before, n, r
<1>6. /\ Len(r) = Len(s) + 1
      /\ \A j \in 1..Len(s) + 1 :
           r[j] = IF j < n + 1 THEN s[j] ELSE IF j = n + 1 THEN e ELSE s[j - 1]
  <2>1. PICK i \in 1..Len(s) + 1 : i = n + 1
    BY <1>1, <1>2
  <2>2. r = InsertAt(s, i, e)
    BY <1>5, <2>1
  <2>3. /\ Len(InsertAt(s, i, e)) = Len(s) + 1
        /\ \A j \in 1..Len(s) + 1 : InsertAt(s, i, e)[j] =
             IF j < i THEN s[j] ELSE IF j = i THEN e ELSE s[j - 1]
    BY InsertAtElements
  <2> QED BY <2>1, <2>2, <2>3
<1>7. Sorted(r, prio)
  <2> SUFFICES ASSUME NEW j \in 1..Len(r), NEW k \in 1..Len(r), j < k
               PROVE  prio[r[j]] >= prio[r[k]]
    BY DEF Sorted
  <2>1. CASE k < n + 1
    <3>1. r[j] = s[j] /\ r[k] = s[k] /\ j \in 1..Len(s) /\ k \in 1..Len(s)
      BY <2>1, <1>1, <1>2, <1>6
    <3> QED BY <3>1 DEF Sorted
  <2>2. CASE k = n + 1
    <3>1. r[j] = s[j] /\ r[k] = e /\ j \in 1..n
      BY <2>2, <1>1, <1>2, <1>6
    <3> QED BY <3>1, <1>3
  <2>3. CASE k > n + 1
    <3>1. r[k] = s[k - 1] /\ k - 1 \in 1..Len(s)
      BY <2>3, <1>1, <1>2, <1>6
    <3>2. CASE j < n + 1
      <4>1. r[j] = s[j] /\ j \in 1..Len(s) /\ j < k - 1
        BY <3>2, <2>3, <1>1, <1>2, <1>6
      <4> QED BY <3>1, <4>1 DEF Sorted
    <3>3. CASE j = n + 1
      <4>1. r[j] = e /\ n + 1 \in 1..Len(s) /\ n + 1 <= k - 1
        BY <3>3, <2>3, <1>1, <1>2, <1>6
      <4>2. prio[s[n + 1]] >= prio[s[k - 1]]
        <5>1. CASE n + 1 = k - 1
          BY <5>1, <1>1, <4>1
        <5>2. CASE n + 1 # k - 1
          <6>1. n + 1 < k - 1
            BY <5>2, <4>1, <1>1, <1>2
          <6> QED BY <6>1, <3>1, <4>1 DEF Sorted
        <5> QED BY <5>1, <5>2
      <4>3. prio[e] \in Int /\ prio[s[n + 1]] \in Int /\ prio[s[k - 1]] \in Int /\ prio[s[n + 1]] < prio[e]
        BY <1>1, <1>2, <1>4, <3>1, <4>1
      <4> QED BY <3>1, <4>1, <4>2, <4>3
    <3>4. CASE j > n + 1
      <4>1. r[j] = s[j - 1] /\ j - 1 \in 1..Len(s) /\ j - 1 < k - 1
        BY <3>4, <1>1, <1>2, <1>6
      <4> QED BY <3>1, <4>1 DEF Sorted
    <3> QED BY <3>2, <3>3, <3>4, <1>2
  <2> QED BY <2>1, <2>2, <2>3, <1>2
<1> QED BY <1>7 DEF r

\* The head of an ordered list.
LEMMA HeadHighest ==
  ASSUME NEW S, NEW s \in Seq(S), NEW prio \in [S -> Int], Sorted(s, prio), s # <<>>
  PROVE  /\ Sorted(Tail(s), prio)
         /\ \A i \in 1..Len(s) : prio[s[i]] <= prio[Head(s)]
         /\ \A i \in 1..Len(Tail(s)) : prio[Tail(s)[i]] <= prio[Head(s)]
<1>1. /\ Len(s) \in Nat \ {0} /\ Head(s) = s[1] /\ Len(Tail(s)) = Len(s) - 1
      /\ \A j \in 1..Len(s) - 1 : Tail(s)[j] = s[j + 1]
      /\ \A j \in 1..Len(s) : s[j] \in S
  OBVIOUS
<1>2. ASSUME NEW i \in 1..Len(s) PROVE prio[s[i]] <= prio[Head(s)]
  <2>1. prio[s[i]] \in Int /\ prio[s[1]] \in Int
    BY <1>1
  <2>2. i # 1 => prio[s[1]] >= prio[s[i]]
    BY <1>1 DEF Sorted
  <2> QED BY <1>1, <2>1, <2>2
<1>3. ASSUME NEW i \in 1..Len(Tail(s)) PROVE prio[Tail(s)[i]] <= prio[Head(s)]
  <2>1. i + 1 \in 1..Len(s) /\ Tail(s)[i] = s[i + 1]
    BY <1>1
  <2> QED BY <1>2, <2>1
<1>4. Sorted(Tail(s), prio)
  <2> SUFFICES ASSUME NEW j \in 1..Len(Tail(s)), NEW k \in 1..Len(Tail(s)), j < k
               PROVE  prio[Tail(s)[j]] >= prio[Tail(s)[k]]
    BY DEF Sorted
  <2>1. /\ Tail(s)[j] = s[j + 1] /\ Tail(s)[k] = s[k + 1] /\ j + 1 < k + 1
        /\ j + 1 \in 1..Len(s) /\ k + 1 \in 1..Len(s)
    BY <1>1
  <2> QED BY <2>1 DEF Sorted
<1> QED BY <1>2, <1>3, <1>4

\* The order depends on the priorities of the elements only.
LEMMA SortedElsewhere ==
  ASSUME NEW S, NEW s \in Seq(S), NEW prio, NEW prio2, Sorted(s, prio),
         \A x : Contains(s, x) => prio2[x] = prio[x]
  PROVE  Sorted(s, prio2)
<1>1. \A i \in 1..Len(s) : prio2[s[i]] = prio[s[i]]
  BY DEF Contains
<1> QED BY <1>1 DEF Sorted
=============================================================================
