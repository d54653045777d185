-------------------------- MODULE SubsequenceProofs --------------------------
(***************************************************************************)
(* What the elements of a sequence at given indices are, for any sequence  *)
(* and any finite set of indices.                                          *)
(***************************************************************************)
EXTENDS Subsequence, FiniteSetTheorems, SequenceTheorems, WellFoundedInduction, TLAPS

\* A rank is a number from one to the number of the indices.
LEMMA RankType ==
  ASSUME NEW I, IsFiniteSet(I), NEW i \in I, I \subseteq Nat
  PROVE  Rank(I, i) \in 1..Cardinality(I)
<1> DEFINE J == {j \in I : j <= i}
<1>1. IsFiniteSet(J) /\ Cardinality(J) <= Cardinality(I) /\ Cardinality(J) \in Nat
  BY FS_Subset, FS_CardinalityType
<1>2. i \in J
  OBVIOUS
<1>3. Cardinality(J) # 0
  BY <1>1, <1>2, FS_EmptySet
<1> QED
  BY <1>1, <1>3, FS_CardinalityType DEF Rank

\* The rank tells the indices apart, and orders them.
LEMMA RankMonotonic ==
  ASSUME NEW I, IsFiniteSet(I), I \subseteq Nat, NEW i \in I, NEW j \in I, i < j
  PROVE  Rank(I, i) < Rank(I, j)
<1> DEFINE A == {k \in I : k <= i}
           B == {k \in I : k <= j}
<1>1. IsFiniteSet(A) /\ IsFiniteSet(B)
  BY FS_Subset
<1>2. A \in SUBSET B /\ j \in B /\ j \notin A
  <2>1. i \in Nat /\ j \in Nat /\ \A k \in I : k \in Nat
    OBVIOUS
  <2>2. \A k \in I : k <= i => k <= j
    BY <2>1
  <2>3. j <= j /\ ~(j <= i)
    BY <2>1
  <2> QED
    BY <2>2, <2>3
<1>3. Cardinality(A) <= Cardinality(B) /\ Cardinality(A) # Cardinality(B)
  BY <1>1, <1>2, FS_Subset
<1> QED
  BY <1>1, <1>3, FS_CardinalityType DEF Rank

\* Every rank up to the number of the indices is that of one index.
LEMMA RankOnto ==
  ASSUME NEW I, IsFiniteSet(I), I \subseteq Nat, NEW k \in 1..Cardinality(I)
  PROVE  \E i \in I : Rank(I, i) = k
<1> DEFINE T == 1..Cardinality(I)
           f == [i \in I |-> Rank(I, i)]
<1>1. Cardinality(I) \in Nat
  BY FS_CardinalityType
<1>2. IsFiniteSet(T) /\ Cardinality(T) = Cardinality(I)
  BY <1>1, FS_Interval
<1>3. f \in [I -> T]
  BY RankType
<1>4. \A i, j \in I : f[i] = f[j] => i = j
  <2> SUFFICES ASSUME NEW i \in I, NEW j \in I, i < j PROVE f[i] # f[j]
    OBVIOUS
  <2>1. Rank(I, i) < Rank(I, j)
    BY RankMonotonic
  <2> QED
    BY <1>3, <2>1, <1>1
<1>5. f \in Injection(I, T)
  BY <1>3, <1>4 DEF Injection, IsInjective
<1>6. f \in Surjection(I, T)
  BY <1>2, <1>5, FS_Injection
<1> QED
  BY <1>6 DEF Surjection

\* The k-th element is that at the index of rank k.
LEMMA AmongAt ==
  ASSUME NEW s, NEW I, IsFiniteSet(I), I \subseteq Nat, NEW i \in I
  PROVE  Rank(I, i) \in DOMAIN Among(s, I) /\ Among(s, I)[Rank(I, i)] = s[i]
<1> DEFINE k == Rank(I, i)
           j == CHOOSE h \in I : Rank(I, h) = k
<1>1. k \in 1..Cardinality(I)
  BY RankType
<1>2. j \in I /\ Rank(I, j) = k
  OBVIOUS
<1> HIDE DEF j
<1>3. ~(i < j) /\ ~(j < i)
  <2>1. i < j => Rank(I, i) < Rank(I, j)
    BY <1>2, RankMonotonic
  <2>2. j < i => Rank(I, j) < Rank(I, i)
    BY <1>2, RankMonotonic
  <2>3. Rank(I, i) \in Nat /\ Rank(I, j) = Rank(I, i)
    BY <1>1, <1>2, FS_CardinalityType
  <2> QED
    BY <2>1, <2>2, <2>3
<1>4. j = i
  BY <1>2, <1>3
<1>5. Among(s, I)[k] = s[j]
  BY <1>1 DEF Among, j
<1>6. k \in DOMAIN Among(s, I)
  BY <1>1 DEF Among
<1> QED
  BY <1>4, <1>5, <1>6

\* There are as many elements as indices, of the kind of what stands there.
LEMMA AmongType ==
  ASSUME NEW X, NEW s, NEW I, IsFiniteSet(I), I \subseteq Nat, \A i \in I : s[i] \in X
  PROVE  /\ Among(s, I) \in Seq(X)
         /\ Len(Among(s, I)) = Cardinality(I)
         /\ DOMAIN Among(s, I) = 1..Cardinality(I)
<1>1. Cardinality(I) \in Nat
  BY FS_CardinalityType
<1>2. \A k \in 1..Cardinality(I) : Among(s, I)[k] \in X
  <2> TAKE k \in 1..Cardinality(I)
  <2>1. PICK i \in I : Rank(I, i) = k
    BY RankOnto
  <2> QED
    BY <2>1, AmongAt
<1> DEFINE a == Among(s, I)
           n == Cardinality(I)
<1>3. a = [k \in 1..n |-> a[k]] /\ DOMAIN a = 1..n
  BY DEF Among
<1> HIDE DEF a, n
<1>4. a \in [1..n -> X]
  BY <1>2, <1>3 DEF a, n
<1>5. a \in Seq(X) /\ Len(a) = n
  BY <1>1, <1>4, SeqDef DEF n
<1> QED
  BY <1>3, <1>5 DEF a, n

\* No index, no element.
LEMMA AmongNone ==
  ASSUME NEW s PROVE Among(s, {}) = <<>>
BY FS_EmptySet DEF Among

\* Two sequences with the same elements at the indices.
LEMMA AmongEqual ==
  ASSUME NEW s, NEW t, NEW I, IsFiniteSet(I), I \subseteq Nat,
         \A i \in I : s[i] = t[i]
  PROVE  Among(s, I) = Among(t, I)
<1> DEFINE X == {s[i] : i \in I}
<1>1. \A k \in 1..Cardinality(I) : Among(s, I)[k] = Among(t, I)[k]
  <2> TAKE k \in 1..Cardinality(I)
  <2>1. PICK i \in I : Rank(I, i) = k
    BY RankOnto
  <2>2. Among(s, I)[Rank(I, i)] = s[i]
    BY AmongAt
  <2>3. Among(t, I)[Rank(I, i)] = t[i]
    BY AmongAt
  <2> QED
    BY <2>1, <2>2, <2>3
<1>2. \A i \in I : s[i] \in X /\ t[i] \in X
  OBVIOUS
<1> HIDE DEF X
<1>3. Among(s, I) \in Seq(X) /\ Len(Among(s, I)) = Cardinality(I)
  BY <1>2, AmongType
<1>4. Among(t, I) \in Seq(X) /\ Len(Among(t, I)) = Cardinality(I)
  BY <1>2, AmongType
<1> QED
  BY <1>1, <1>3, <1>4, SeqEqual

\* A new last element that is not among the indices changes nothing ...
LEMMA AmongAppendOther ==
  ASSUME NEW X, NEW s \in Seq(X), NEW e \in X, NEW I \in SUBSET (1..Len(s))
  PROVE  Among(Append(s, e), I) = Among(s, I)
<1>1. IsFiniteSet(I) /\ I \subseteq Nat
  <2>1. Len(s) \in Nat
    BY LenProperties
  <2>2. IsFiniteSet(1..Len(s))
    BY <2>1, FS_Interval
  <2>3. IsFiniteSet(I)
    BY <2>2, FS_Subset
  <2> QED
    BY <2>3
<1>2. \A i \in I : s[i] = Append(s, e)[i]
  BY AppendProperties, ElementOfSeq
<1> QED
  <2> DEFINE t == Append(s, e)
  <2>1. \A i \in I : s[i] = t[i]
    BY <1>2
  <2> HIDE DEF t
  <2>2. Among(t, I) = Among(s, I)
    BY <1>1, <2>1, AmongEqual
  <2> QED
    BY <2>2 DEF t

\* ... and one that is comes last.
LEMMA AmongAppend ==
  ASSUME NEW X, NEW s \in Seq(X), NEW e \in X, NEW I \in SUBSET (1..Len(s))
  PROVE  Among(Append(s, e), I \cup {Len(s) + 1}) = Append(Among(s, I), e)
<1> DEFINE n == Len(s) + 1
           J == I \cup {n}
           t == Append(s, e)
           k == Cardinality(I)
<1>1. IsFiniteSet(I) /\ I \subseteq Nat /\ n \notin I /\ n \in Nat
  <2>1. Len(s) \in Nat
    BY LenProperties
  <2>2. IsFiniteSet(I)
    <3>1. IsFiniteSet(1..Len(s))
      BY <2>1, FS_Interval
    <3> QED
      BY <3>1, FS_Subset
  <2> QED
    BY <2>1, <2>2
<1>2. IsFiniteSet(J) /\ J \subseteq Nat /\ Cardinality(J) = k + 1 /\ k \in Nat
  BY <1>1, FS_AddElement, FS_CardinalityType
<1>3. \A i \in J : t[i] \in X
  BY LenProperties, AppendProperties, ElementOfSeq
<1>4. \A i \in I : s[i] \in X
  BY ElementOfSeq
<1> HIDE DEF t, J
<1>5. Among(t, J) \in Seq(X) /\ Len(Among(t, J)) = k + 1
  BY <1>2, <1>3, AmongType, ZenonT(60)
<1>6. Among(s, I) \in Seq(X) /\ Len(Among(s, I)) = k
  BY <1>1, <1>4, AmongType
<1>7. \A i \in I : Rank(J, i) = Rank(I, i)
  <2> TAKE i \in I
  <2>1. {j \in J : j <= i} = {j \in I : j <= i}
    <3>1. i <= Len(s) /\ i \in Nat
      BY LenProperties
    <3> QED
      BY <1>1, <3>1, LenProperties DEF J
  <2> QED
    BY <2>1 DEF Rank
<1>8. Rank(J, n) = k + 1
  <2>1. {j \in J : j <= n} = J
    <3>1. \A j \in J : j <= n
      BY <1>1, LenProperties DEF J
    <3> QED
      BY <3>1
  <2> QED
    BY <2>1, <1>2 DEF Rank
<1>9. \A m \in 1..k : Among(t, J)[m] = Among(s, I)[m]
  <2> TAKE m \in 1..k
  <2>1. PICK i \in I : Rank(I, i) = m
    BY <1>1, RankOnto
  <2>2. Among(s, I)[m] = s[i]
    BY <2>1, <1>1, AmongAt
  <2>3. Among(t, J)[m] = t[i]
    <3>1. i \in J /\ Rank(J, i) = m
      BY <2>1, <1>7 DEF J
    <3> QED
      BY <3>1, <1>2, AmongAt
  <2> QED
    BY <2>2, <2>3, AppendProperties DEF t
<1>10. Among(t, J)[k + 1] = e
  <2>1. n \in J
    BY DEF J
  <2>2. Among(t, J)[k + 1] = t[n]
    <3>1. Among(t, J)[Rank(J, n)] = t[n]
      BY <2>1, <1>2, AmongAt
    <3> QED
      BY <3>1, <1>8
  <2> QED
    BY <2>2, AppendProperties DEF t
<1>11. /\ Append(Among(s, I), e) \in Seq(X)
       /\ Len(Append(Among(s, I), e)) = k + 1
       /\ \A m \in 1..k : Append(Among(s, I), e)[m] = Among(s, I)[m]
       /\ Append(Among(s, I), e)[k + 1] = e
  BY <1>6, AppendProperties
<1> DEFINE u == Among(t, J)
           v == Append(Among(s, I), e)
<1> HIDE DEF u, v
<1>12. \A m \in 1..(k + 1) : u[m] = v[m]
  <2> TAKE m \in 1..(k + 1)
  <2>1. CASE m = k + 1
    BY <2>1, <1>10, <1>11 DEF u, v
  <2>2. CASE m \in 1..k
    BY <2>2, <1>9, <1>11 DEF u, v
  <2> QED
    BY <2>1, <2>2, <1>2
<1>13. u = v
  BY <1>5, <1>11, <1>12, SeqEqual DEF u, v
<1> QED
  BY <1>13 DEF u, v, t, J

\* The elements between two indices.
LEMMA AmongInterval ==
  ASSUME NEW X, NEW s \in Seq(X), NEW a \in 1..(Len(s) + 1), NEW b \in 0..Len(s)
  PROVE  Among(s, a..b) = SubSeq(s, a, b)
<1> DEFINE I == a..b
           n == IF a <= b THEN b - a + 1 ELSE 0
<1>1. IsFiniteSet(I) /\ Cardinality(I) = n /\ n \in Nat /\ I \subseteq Nat
  <2>1. Len(s) \in Nat /\ a \in Nat /\ b \in Nat /\ a <= Len(s) + 1
    BY LenProperties
  <2>2. IsFiniteSet(I) /\ Cardinality(I) = IF a > b THEN 0 ELSE b - a + 1
    BY <2>1, FS_Interval
  <2> QED
    BY <2>1, <2>2
<1>2. \A i \in I : s[i] \in X
  BY ElementOfSeq
<1>3. Among(s, I) \in Seq(X) /\ Len(Among(s, I)) = n
  BY <1>1, <1>2, AmongType
<1>4. SubSeq(s, a, b) \in Seq(X) /\ Len(SubSeq(s, a, b)) = n
  BY <1>2, SubSeqProperties
<1>5. \A k \in 1..n : Among(s, I)[k] = SubSeq(s, a, b)[k]
  <2> TAKE k \in 1..n
  <2> DEFINE i == a + k - 1
  <2>1. i \in I /\ {j \in I : j <= i} = a..i
    OBVIOUS
  <2>2. Cardinality(a..i) = k
    BY FS_Interval, <2>1
  <2>3. Rank(I, i) = k
    BY <2>1, <2>2 DEF Rank
  <2>4. Among(s, I)[k] = s[i]
    BY <1>1, <2>1, <2>3, AmongAt
  <2>5. SubSeq(s, a, b)[k] = s[i]
    BY <1>2, SubSeqProperties
  <2> QED
    BY <2>4, <2>5
<1> QED
  BY <1>3, <1>4, <1>5, SeqEqual

\* Only the rank numbers the indices in their order without a gap.
LEMMA RankUnique ==
  ASSUME NEW I, IsFiniteSet(I), I \subseteq Nat, NEW m \in Nat, NEW f \in [I -> 1..m],
         \A i, j \in I : i < j => f[i] < f[j],
         \A k \in 1..m : \E i \in I : f[i] = k
  PROVE  Cardinality(I) = m /\ \A i \in I : Rank(I, i) = f[i]
<1>1. \A i, j \in I : f[i] = f[j] => i = j
  <2> SUFFICES ASSUME NEW i \in I, NEW j \in I, i # j PROVE f[i] # f[j]
    OBVIOUS
  <2>1. i \in Nat /\ j \in Nat /\ f[i] \in Nat /\ f[j] \in Nat
    OBVIOUS
  <2>2. i < j \/ j < i
    BY <2>1
  <2> QED
    BY <2>1, <2>2
<1>2. Cardinality(I) = m
  <2>1. f \in Bijection(I, 1..m)
    BY <1>1 DEF Bijection, Injection, Surjection, IsInjective
  <2>2. ExistsBijection(I, 1..m)
    BY <2>1 DEF ExistsBijection
  <2>3. Cardinality(1..m) = Cardinality(I)
    BY <2>2, FS_Bijection
  <2> QED
    BY <2>3, FS_Interval
<1>3. ASSUME NEW i \in I PROVE Rank(I, i) = f[i]
  <2> DEFINE J == {j \in I : j <= i}
             n == f[i]
             g == [j \in J |-> f[j]]
  <2>1. n \in 1..m /\ n \in Nat
    OBVIOUS
  <2>2. ASSUME NEW j \in J PROVE f[j] \in 1..n
    <3>1. j \in Nat /\ i \in Nat /\ f[j] \in 1..m
      OBVIOUS
    <3>2. j = i \/ j < i
      BY <3>1
    <3> QED
      BY <3>1, <3>2
  <2>3. ASSUME NEW k \in 1..n PROVE \E j \in J : f[j] = k
    <3>1. k \in 1..m
      BY <2>1
    <3>2. PICK j \in I : f[j] = k
      BY <3>1
    <3>3. ~(f[i] < f[j])
      BY <2>1, <3>2
    <3>4. ~(i < j)
      BY <3>3
    <3>5. j <= i
      BY <3>4
    <3> QED
      BY <3>2, <3>5
  <2>4. IsFiniteSet(J)
    BY FS_Subset
  <2> HIDE DEF n
  <2>5. g \in Bijection(J, 1..n)
    BY <1>1, <2>2, <2>3 DEF Bijection, Injection, Surjection, IsInjective
  <2>6. ExistsBijection(J, 1..n)
    BY <2>5 DEF ExistsBijection
  <2>7. Cardinality(1..n) = Cardinality(J)
    BY <2>4, <2>6, FS_Bijection
  <2>8. Cardinality(J) = n
    BY <2>1, <2>7, FS_Interval
  <2> QED
    BY <2>8 DEF Rank, n
<1> QED
  BY <1>2, <1>3

\* The indices, of those in I, at which v stands in s.
Places(s, I, v) == {i \in I : s[i] = v}

\* Counting a value among the elements is counting the indices at which it stands.
LEMMA AmongCount ==
  ASSUME NEW s, NEW I, IsFiniteSet(I), I \subseteq Nat, NEW v
  PROVE  Cardinality(Places(Among(s, I), DOMAIN Among(s, I), v)) = Cardinality(Places(s, I, v))
<1> DEFINE a == Among(s, I)
           J == Places(s, I, v)
           K == Places(a, DOMAIN a, v)
           g == [i \in J |-> Rank(I, i)]
<1>1. \A i \in I : Rank(I, i) \in DOMAIN a /\ a[Rank(I, i)] = s[i]
  BY AmongAt
<1>2. \A k \in DOMAIN a : \E i \in I : Rank(I, i) = k
  <2>1. DOMAIN a = 1..Cardinality(I)
    BY DEF Among
  <2> QED
    BY <2>1, RankOnto
<1>3. \A i, j \in I : Rank(I, i) = Rank(I, j) => i = j
  <2> SUFFICES ASSUME NEW i \in I, NEW j \in I, i < j PROVE Rank(I, i) # Rank(I, j)
    OBVIOUS
  <2>1. Rank(I, i) < Rank(I, j)
    BY RankMonotonic
  <2>2. Rank(I, i) \in Nat /\ Rank(I, j) \in Nat
    <3>1. Rank(I, i) \in 1..Cardinality(I) /\ Rank(I, j) \in 1..Cardinality(I)
      BY RankType
    <3> QED
      BY <3>1, FS_CardinalityType
  <2> QED
    BY <2>1, <2>2
<1> HIDE DEF a
<1>4. g \in Bijection(J, K)
  BY <1>1, <1>2, <1>3 DEF Bijection, Injection, Surjection, IsInjective, Places
<1>5. ExistsBijection(J, K)
  BY <1>4 DEF ExistsBijection
<1>6. IsFiniteSet(J)
  BY FS_Subset DEF Places
<1> QED
  BY <1>5, <1>6, FS_Bijection DEF a

==============================================================================
