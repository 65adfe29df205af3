------------------------ MODULE MemoryRecordsProofs ------------------------
(***************************************************************************)
(* Lemmas about the operators of MemoryRecords, for records and groups of  *)
(* any number and limits of any size: what a stable sort and a filter      *)
(* return, and what upsert_record and with_records keep.                   *)
(***************************************************************************)
EXTENDS MemoryRecords, SequenceTheorems, FiniteSetTheorems, TLAPS

----------------------------------------------------------------------------
(* A strict total order of a finite set, given by what is before each       *)

Orders(B, P) ==
  /\ B \in [P -> SUBSET P]
  /\ \A i \in P : i \notin B[i]
  /\ \A i, j \in P : j \in B[i] => B[j] \subseteq B[i]
  /\ \A i, j \in P : i # j => i \in B[j] \/ j \in B[i]

\* As many are before an element as have a lower place, and every place is taken.
LEMMA PlacesAreTaken ==
  ASSUME NEW P, IsFiniteSet(P), NEW B, Orders(B, P)
  PROVE  /\ Cardinality(P) \in Nat
         /\ \A i \in P : Cardinality(B[i]) \in 0..(Cardinality(P) - 1)
         /\ \A i, j \in P : j \in B[i] <=> Cardinality(B[j]) < Cardinality(B[i])
         /\ \A k \in 1..Cardinality(P) : \E i \in P : Cardinality(B[i]) = k - 1
<1> DEFINE n == Cardinality(P)
           place == [i \in P |-> Cardinality(B[i])]
<1>1. n \in Nat
  BY FS_CardinalityType
<1>2. \A i \in P : IsFiniteSet(B[i]) /\ Cardinality(B[i]) \in Nat
  BY FS_Subset, FS_CardinalityType DEF Orders
<1>3. ASSUME NEW i \in P PROVE Cardinality(B[i]) <= n - 1
  <2>1. IsFiniteSet(P \ {i}) /\ Cardinality(P \ {i}) = n - 1
    BY FS_RemoveElement
  <2>2. B[i] \in SUBSET (P \ {i})
    BY DEF Orders
  <2> QED  BY <2>1, <2>2, FS_Subset
<1>4. ASSUME NEW i \in P, NEW j \in P, j \in B[i]
      PROVE  Cardinality(B[j]) < Cardinality(B[i])
  <2>1. IsFiniteSet(B[i] \ {j}) /\ Cardinality(B[i] \ {j}) = Cardinality(B[i]) - 1
    BY <1>2, <1>4, FS_RemoveElement
  <2>2. B[j] \in SUBSET (B[i] \ {j})
    BY <1>4 DEF Orders
  <2>3. Cardinality(B[j]) <= Cardinality(B[i] \ {j})
    BY <2>1, <2>2, FS_Subset
  <2> QED  BY <1>2, <2>1, <2>3
<1>5. ASSUME NEW i \in P, NEW j \in P, Cardinality(B[j]) < Cardinality(B[i])
      PROVE  j \in B[i]
  <2>1. CASE i = j
    BY <1>2, <1>5, <2>1
  <2>2. CASE i \in B[j]
    BY <1>2, <1>4, <1>5, <2>2
  <2> QED  BY <2>1, <2>2 DEF Orders
<1>6. place \in Injection(P, 0..(n - 1))
  <2>1. place \in [P -> 0..(n - 1)]
    BY <1>1, <1>2, <1>3
  <2>2. \A i, j \in P : i # j => place[i] # place[j]
    BY <1>2, <1>4 DEF Orders
  <2> HIDE DEF place
  <2> QED  BY <2>1, <2>2 DEF Injection, IsInjective
<1>7. place \in Surjection(P, 0..(n - 1))
  <2>1. IsFiniteSet(0..(n - 1)) /\ Cardinality(0..(n - 1)) = n
    <3>1. 0 \in Int /\ n - 1 \in Int
      BY <1>1
    <3>2. IsFiniteSet(0..(n - 1)) /\ Cardinality(0..(n - 1)) = IF 0 > n - 1 THEN 0 ELSE n - 1 - 0 + 1
      BY <3>1, FS_Interval
    <3> HIDE DEF n
    <3> QED  BY <1>1, <3>2
  <2> HIDE DEF n, place
  <2>2. Cardinality(P) = n
    BY DEF n
  <2> QED  BY <1>6, <2>1, <2>2, FS_Injection
<1>8. \A k \in 1..n : \E i \in P : Cardinality(B[i]) = k - 1
  <2> SUFFICES ASSUME NEW k \in 1..n PROVE \E i \in P : Cardinality(B[i]) = k - 1
    OBVIOUS
  <2>1. k - 1 \in 0..(n - 1)
    BY <1>1
  <2>2. PICK i \in P : place[i] = k - 1
    <3> HIDE DEF n, place
    <3> QED  BY <1>7, <2>1 DEF Surjection
  <2> QED  BY <2>2
<1> QED  BY <1>1, <1>2, <1>3, <1>4, <1>5, <1>8

\* A sequence of the elements of P, each of them once.
Enumerates(at, P) ==
  /\ at \in [1..Cardinality(P) -> P]
  /\ \A k, l \in 1..Cardinality(P) : k # l => at[k] # at[l]
  /\ \A i \in P : \E k \in 1..Cardinality(P) : at[k] = i

LEMMA ArrangedInOrder ==
  ASSUME NEW P, IsFiniteSet(P), NEW B, Orders(B, P),
         NEW at, at = [k \in 1..Cardinality(P) |-> CHOOSE i \in P : Cardinality(B[i]) = k - 1]
  PROVE  /\ Enumerates(at, P)
         /\ \A k, l \in 1..Cardinality(P) : k < l => at[k] \in B[at[l]]
<1> DEFINE n == Cardinality(P)
<1>1. /\ n \in Nat
      /\ \A i \in P : Cardinality(B[i]) \in 0..(n - 1)
      /\ \A i, j \in P : j \in B[i] <=> Cardinality(B[j]) < Cardinality(B[i])
      /\ \A k \in 1..n : \E i \in P : Cardinality(B[i]) = k - 1
  BY PlacesAreTaken
<1>2. \A k \in 1..n : at[k] = CHOOSE i \in P : Cardinality(B[i]) = k - 1
  OBVIOUS
<1>3. \A k \in 1..n : at[k] \in P /\ Cardinality(B[at[k]]) = k - 1
  BY <1>1, <1>2
<1>4. at \in [1..n -> P]
  BY <1>3
<1>5. \A k, l \in 1..n : k < l => at[k] \in B[at[l]]
  <2> HIDE DEF n
  <2> QED  BY <1>1, <1>3
<1>6. \A k, l \in 1..n : k # l => at[k] # at[l]
  <2> HIDE DEF n
  <2> QED  BY <1>1, <1>3
<1>7. \A i \in P : \E k \in 1..n : at[k] = i
  <2> SUFFICES ASSUME NEW i \in P PROVE \E k \in 1..n : at[k] = i
    OBVIOUS
  <2> DEFINE k == Cardinality(B[i]) + 1
  <2>1. k \in 1..n /\ Cardinality(B[i]) = k - 1 /\ Cardinality(B[i]) \in Nat
    BY <1>1
  <2>2. at[k] \in P /\ Cardinality(B[at[k]]) = Cardinality(B[i])
    BY <1>3, <2>1
  <2>3. at[k] = i
    <3> HIDE DEF k
    <3> QED  BY <1>1, <2>1, <2>2 DEF Orders
  <2> QED  BY <2>1, <2>3
<1> QED  BY <1>4, <1>5, <1>6, <1>7 DEF Enumerates

----------------------------------------------------------------------------
(* What retain and sort return                                             *)

Rec == RecordOf(Nat, Stored)

\* The retention priority is a weak order.
LEMMA HigherIsOrder ==
  ASSUME NEW a \in Rec, NEW b \in Rec, NEW c \in Rec
  PROVE  /\ ~Higher(a, a)
         /\ ~(Higher(a, b) /\ Higher(b, a))
         /\ Higher(a, b) /\ Higher(b, c) => Higher(a, c)
         /\ ~Higher(a, b) /\ ~Higher(b, c) => ~Higher(a, c)
<1>1. /\ a.confidence \in Nat /\ b.confidence \in Nat /\ c.confidence \in Nat
      /\ a.updated \in Nat /\ b.updated \in Nat /\ c.updated \in Nat
  BY PolicyAssumption DEF Rec, RecordOf
<1> QED  BY <1>1 DEF Higher

LEMMA PickedInOrder ==
  ASSUME NEW rs, NEW P \in SUBSET Nat, IsFiniteSet(P)
  PROVE  \E at : /\ Enumerates(at, P)
                 /\ \A k, l \in 1..Cardinality(P) : k < l => at[k] < at[l]
                 /\ Picked(rs, P) = [k \in 1..Cardinality(P) |-> rs[at[k]]]
<1> DEFINE B  == [i \in P |-> {j \in P : j < i}]
           at == [k \in 1..Cardinality(P) |-> CHOOSE i \in P : Cardinality(B[i]) = k - 1]
<1>1. Orders(B, P)
  <2> DEFINE before(i, j) == i < j
  <2>1. \A i \in P : i \in Int /\ ~before(i, i)
    OBVIOUS
  <2>2. \A i, j, k \in P : before(k, j) /\ before(j, i) => before(k, i)
    BY <2>1
  <2>3. \A i, j \in P : i # j => before(i, j) \/ before(j, i)
    BY <2>1
  <2>4. B = [i \in P |-> {j \in P : before(j, i)}]
    OBVIOUS
  <2> HIDE DEF before, B
  <2> QED  BY <2>1, <2>2, <2>3, <2>4 DEF Orders
<1>2. /\ Enumerates(at, P)
      /\ \A k, l \in 1..Cardinality(P) : k < l => at[k] \in B[at[l]]
  <2> HIDE DEF B
  <2> QED  BY <1>1, ArrangedInOrder
<1>3. \A k, l \in 1..Cardinality(P) : k < l => at[k] < at[l]
  <2>1. \A k \in 1..Cardinality(P) : at[k] \in P
    BY <1>2 DEF Enumerates
  <2> HIDE DEF at
  <2> QED  BY <1>2, <2>1
<1>4. Picked(rs, P) = [k \in 1..Cardinality(P) |-> rs[at[k]]]
  <2>1. \A k \in 1..Cardinality(P) :
          at[k] = CHOOSE i \in P : Cardinality({j \in P : j < i}) = k - 1
    OBVIOUS
  <2> HIDE DEF at
  <2>2. [k \in 1..Cardinality(P) |-> rs[at[k]]] =
          [k \in 1..Cardinality(P) |-> rs[CHOOSE i \in P : Cardinality({j \in P : j < i}) = k - 1]]
    BY <2>1
  <2> QED  BY <2>2 DEF Picked, Arranged
<1> QED  BY <1>2, <1>3, <1>4

LEMMA SortedByPriority ==
  ASSUME NEW rs, NEW P \in SUBSET Nat, IsFiniteSet(P), \A i \in P : rs[i] \in Rec
  PROVE  \E at : /\ Enumerates(at, P)
                 /\ \A k, l \in 1..Cardinality(P) : k < l => ~Higher(rs[at[l]], rs[at[k]])
                 /\ Sorted(rs, P) = [k \in 1..Cardinality(P) |-> rs[at[k]]]
<1> DEFINE before(i, j) == Higher(rs[i], rs[j]) \/ (~Higher(rs[j], rs[i]) /\ i < j)
           B  == [i \in P |-> {j \in P : before(j, i)}]
           at == [k \in 1..Cardinality(P) |-> CHOOSE i \in P : Cardinality(B[i]) = k - 1]
<1>1. Orders(B, P)
  <2>1. \A i \in P : ~before(i, i)
    BY HigherIsOrder
  <2>2. ASSUME NEW i \in P, NEW j \in P, NEW k \in P, before(k, j), before(j, i)
        PROVE  before(k, i)
    BY <2>2, HigherIsOrder
  <2>3. \A i, j \in P : i # j => before(i, j) \/ before(j, i)
    OBVIOUS
  <2> HIDE DEF before
  <2> QED  BY <2>1, <2>2, <2>3 DEF Orders
<1>2. /\ Enumerates(at, P)
      /\ \A k, l \in 1..Cardinality(P) : k < l => at[k] \in B[at[l]]
  <2> HIDE DEF B
  <2> QED  BY <1>1, ArrangedInOrder
<1>3. \A k, l \in 1..Cardinality(P) : k < l => ~Higher(rs[at[l]], rs[at[k]])
  <2>1. \A k \in 1..Cardinality(P) : at[k] \in P
    BY <1>2 DEF Enumerates
  <2>2. \A i, j \in P : before(i, j) => ~Higher(rs[j], rs[i])
    BY HigherIsOrder
  <2> HIDE DEF at, before
  <2> QED  BY <1>2, <2>1, <2>2
<1>4. Sorted(rs, P) = [k \in 1..Cardinality(P) |-> rs[at[k]]]
  <2>1. \A k \in 1..Cardinality(P) :
          at[k] = CHOOSE i \in P : Cardinality({j \in P : before(j, i)}) = k - 1
    OBVIOUS
  <2> HIDE DEF at
  <2>2. [k \in 1..Cardinality(P) |-> rs[at[k]]] =
          [k \in 1..Cardinality(P) |-> rs[CHOOSE i \in P : Cardinality({j \in P : before(j, i)}) = k - 1]]
    BY <2>1
  <2> QED  BY <2>2 DEF Sorted, Arranged
<1> QED  BY <1>2, <1>3, <1>4

----------------------------------------------------------------------------
(* Counting                                                                *)

\* As many places hold an element of Q as Q has elements.
LEMMA CountsAlike ==
  ASSUME NEW P, IsFiniteSet(P), NEW at, Enumerates(at, P), NEW Q \in SUBSET P
  PROVE  Cardinality({k \in 1..Cardinality(P) : at[k] \in Q}) = Cardinality(Q)
<1> DEFINE K == {k \in 1..Cardinality(P) : at[k] \in Q}
           f == [k \in K |-> at[k]]
<1>1. /\ f \in [K -> Q]
      /\ \A k, l \in K : k # l => f[k] # f[l]
      /\ \A i \in Q : \E k \in K : f[k] = i
  BY DEF Enumerates
<1> HIDE DEF f, K
<1>2. f \in Bijection(K, Q)
  BY <1>1 DEF Bijection, Injection, Surjection, IsInjective
<1>3. IsFiniteSet(Q)
  BY FS_Subset
<1>4. IsFiniteSet(K)
  BY <1>2, <1>3, FS_Injection DEF Bijection
<1>5. ExistsBijection(K, Q)
  BY <1>2 DEF ExistsBijection
<1>6. Cardinality(Q) = Cardinality(K)
  BY <1>4, <1>5, FS_Bijection
<1> QED  BY <1>6 DEF K

LEMMA IntervalCounts ==
  ASSUME NEW n \in Nat
  PROVE  IsFiniteSet(1..n) /\ Cardinality(1..n) = n
<1>1. 1 \in Int /\ n \in Int
  OBVIOUS
<1>2. IsFiniteSet(1..n) /\ Cardinality(1..n) = IF 1 > n THEN 0 ELSE n - 1 + 1
  BY <1>1, FS_Interval
<1> QED  BY <1>2

LEMMA SpanCounts ==
  ASSUME NEW p \in Nat, NEW n \in Nat
  PROVE  Cardinality((p + 1)..(p + n)) = n
<1> DEFINE a == p + 1
           b == p + n
<1>1. a \in Int /\ b \in Int /\ b - a + 1 = n /\ (a > b <=> n = 0)
  OBVIOUS
<1> HIDE DEF a, b
<1>2. Cardinality(a..b) = IF a > b THEN 0 ELSE b - a + 1
  BY <1>1, FS_Interval
<1>3. Cardinality(a..b) = n
  BY <1>1, <1>2
<1> QED  BY <1>3 DEF a, b

\* A set of numbers from 1 on without a gap.
LEMMA NoGap ==
  ASSUME NEW n \in Nat, NEW K \in SUBSET (1..n), \A k \in K, l \in 1..n : l < k => l \in K
  PROVE  Cardinality(K) \in 0..n /\ K = 1..Cardinality(K)
<1> DEFINE c == Cardinality(K)
<1>1. IsFiniteSet(1..n) /\ Cardinality(1..n) = n
  BY IntervalCounts
<1>2. IsFiniteSet(K) /\ c <= n
  BY <1>1, FS_Subset
<1>3. c \in Nat
  BY <1>2, FS_CardinalityType
<1>4. IsFiniteSet(1..c) /\ Cardinality(1..c) = c
  BY <1>3, IntervalCounts
<1>5. ASSUME NEW k \in K PROVE k \in 1..c
  <2>1. 1..k \in SUBSET K
    OBVIOUS
  <2>2. k \in Nat /\ k >= 1
    OBVIOUS
  <2>3. Cardinality(1..k) = k
    BY <2>2, IntervalCounts
  <2>4. Cardinality(1..k) <= c
    BY <1>2, <2>1, FS_Subset
  <2> HIDE DEF c
  <2> QED  BY <1>3, <2>2, <2>3, <2>4
<1>6. K \in SUBSET (1..c)
  BY <1>5
<1>7. Cardinality(K) = c
  OBVIOUS
<1> HIDE DEF c
<1>8. K = 1..c
  BY <1>4, <1>6, <1>7, FS_Subset
<1> QED  BY <1>2, <1>3, <1>8 DEF c

\* Counting up to n.
LEMMA UpTo ==
  ASSUME NEW n \in Nat, NEW K, 0 \in K, \A k \in 0..n : k \in K /\ k # n => k + 1 \in K
  PROVE  \A k \in 0..n : k \in K
<1> DEFINE D == {k \in 1..n : \A l \in 1..k : l \in K}
           c == Cardinality(D)
<1>1. D \in SUBSET (1..n) /\ \A k \in D, l \in 1..n : l < k => l \in D
  <2>1. \A k \in 1..n, l \in 1..n : l < k => \A i \in 1..l : i \in 1..k
    OBVIOUS
  <2> QED  BY <2>1
<1> HIDE DEF D
<1>2. c \in 0..n /\ D = 1..c
  BY <1>1, NoGap
<1> HIDE DEF c
<1>3. c = n
  <2> SUFFICES ASSUME c # n PROVE FALSE
    OBVIOUS
  <2> DEFINE d == c + 1
  <2>1. d \in 1..n /\ d \notin 1..c /\ \A l \in 1..d : l \in 1..c \/ l = d
    BY <1>2
  <2>2. \A l \in 1..c : l \in K
    <3> SUFFICES ASSUME NEW l \in 1..c PROVE l \in K
      OBVIOUS
    <3>1. l \in D /\ l \in 1..l
      BY <1>2
    <3> QED  BY <3>1 DEF D
  <2>3. c \in K
    <3>1. CASE c = 0
      BY <3>1
    <3>2. CASE c # 0
      BY <1>2, <2>2, <3>2
    <3> QED  BY <3>1, <3>2
  <2>4. d \in K
    BY <1>2, <2>3
  <2>5. d \in D
    <3> HIDE DEF d
    <3> QED  BY <2>1, <2>2, <2>4 DEF D
  <2> QED  BY <1>2, <2>1, <2>5
<1>4. ASSUME NEW k \in 1..n PROVE k \in K
  <2>1. k \in D /\ k \in 1..k
    BY <1>2, <1>3
  <2> QED  BY <2>1 DEF D
<1> QED  BY <1>4

----------------------------------------------------------------------------
(* compact_scope_kind                                                      *)

\* In the order of the priority the keyed records come first.
LEMMA KeyedComeFirst ==
  ASSUME NEW rs, NEW P, IsFiniteSet(P), \A i \in P : rs[i] \in Rec,
         NEW at, Enumerates(at, P),
         \A k, l \in 1..Cardinality(P) : k < l => ~Higher(rs[at[l]], rs[at[k]])
  PROVE  /\ Cardinality(KeyedAt(rs, P)) \in 0..Cardinality(P)
         /\ \A k \in 1..Cardinality(P) : IsKeyed(rs[at[k]]) <=> k <= Cardinality(KeyedAt(rs, P))
<1> DEFINE n == Cardinality(P)
           c == Cardinality(KeyedAt(rs, P))
           K == {k \in 1..n : at[k] \in KeyedAt(rs, P)}
<1>1. n \in Nat
  BY FS_CardinalityType
<1>2. Cardinality(K) = c
  BY CountsAlike DEF KeyedAt
<1>3. \A k \in 1..n : at[k] \in P /\ (k \in K <=> IsKeyed(rs[at[k]]))
  BY DEF Enumerates, KeyedAt
<1>4. \A k \in K, l \in 1..n : l < k => l \in K
  <2> SUFFICES ASSUME NEW k \in K, NEW l \in 1..n, l < k, l \notin K PROVE FALSE
    OBVIOUS
  <2>1. Higher(rs[at[k]], rs[at[l]])
    BY <1>3 DEF Higher
  <2> QED  BY <2>1
<1>5. K \in SUBSET (1..n)
  OBVIOUS
<1> HIDE DEF K, c, n
<1>6. Cardinality(K) \in 0..n /\ K = 1..Cardinality(K)
  BY <1>1, <1>4, <1>5, NoGap
<1>7. c \in 0..n /\ \A k \in 1..n : IsKeyed(rs[at[k]]) <=> k <= c
  BY <1>1, <1>2, <1>3, <1>6
<1> QED  BY <1>7 DEF c, n

\* The places of unkeyed records among the first n.
LooseOf(rs, at, n) == {k \in 1..n : ~IsKeyed(rs[at[k]])}

\* What is kept of a group: at most so many and so many without a key, in the order
\* of the priority; and what is dropped ranks no higher and found no room.
IsCompacted(rs, P, at, n) ==
  /\ n \in 0..MaxRecords
  /\ at \in [1..n -> P]
  /\ \A k, l \in 1..n : k # l => at[k] # at[l]
  /\ \A k, l \in 1..n : k < l => ~Higher(rs[at[l]], rs[at[k]])
  /\ Cardinality(LooseOf(rs, at, n)) \in 0..MaxUnkeyed
  /\ \A i \in P :
       (\A k \in 1..n : at[k] # i) =>
          /\ \A k \in 1..n : ~Higher(rs[i], rs[at[k]])
          /\ n = MaxRecords \/ (~IsKeyed(rs[i]) /\ Cardinality(LooseOf(rs, at, n)) = MaxUnkeyed)

LEMMA PrefixIsKept ==
  ASSUME NEW N \in Nat, NEW n \in 0..N, NEW rs, NEW at, \A k \in 1..N : rs[at[k]] \in Rec
  PROVE  SubSeq([k \in 1..N |-> rs[at[k]]], 1, n) = [k \in 1..n |-> rs[at[k]]]
<1> DEFINE s == [k \in 1..N |-> rs[at[k]]]
<1>1. s \in Seq(Rec) /\ Len(s) = N /\ \A k \in 1..N : s[k] = rs[at[k]]
  OBVIOUS
<1> HIDE DEF s
<1>2. SubSeq(s, 1, n) = [k \in 1..n |-> s[k]]
  BY <1>1
<1>3. [k \in 1..n |-> s[k]] = [k \in 1..n |-> rs[at[k]]]
  BY <1>1
<1> QED  BY <1>2, <1>3 DEF s

LEMMA CompactGroupShape ==
  ASSUME NEW rs, NEW P \in SUBSET Nat, IsFiniteSet(P), \A i \in P : rs[i] \in Rec
  PROVE  \E at : /\ IsCompacted(rs, P, at, Kept(rs, P))
                 /\ CompactGroup(rs, P) = [k \in 1..Kept(rs, P) |-> rs[at[k]]]
<1>1. PICK all : /\ Enumerates(all, P)
                 /\ \A k, l \in 1..Cardinality(P) : k < l => ~Higher(rs[all[l]], rs[all[k]])
                 /\ Sorted(rs, P) = [k \in 1..Cardinality(P) |-> rs[all[k]]]
  BY SortedByPriority
<1> DEFINE N  == Cardinality(P)
           c  == Cardinality(KeyedAt(rs, P))
           n  == Kept(rs, P)
           at == [k \in 1..n |-> all[k]]
           L  == LooseOf(rs, at, n)
<1>2. N \in Nat /\ c \in 0..N /\ \A k \in 1..N : IsKeyed(rs[all[k]]) <=> k <= c
  BY <1>1, KeyedComeFirst, FS_CardinalityType
<1>3. MaxRecords \in Nat /\ MaxUnkeyed \in Nat
  BY PolicyAssumption
<1>4. /\ n \in 0..N /\ n <= MaxRecords /\ n <= c + MaxUnkeyed
      /\ n = N \/ n = MaxRecords \/ n = c + MaxUnkeyed
  <2>1. n = AtMost(AtMost(N, MaxRecords), c + MaxUnkeyed)
    BY DEF Kept
  <2> HIDE DEF n, N, c
  <2> QED  BY <1>2, <1>3, <2>1 DEF AtMost
<1>5. /\ all \in [1..N -> P]
      /\ \A k, l \in 1..N : k # l => all[k] # all[l]
      /\ \A i \in P : \E k \in 1..N : all[k] = i
      /\ \A k, l \in 1..N : k < l => ~Higher(rs[all[l]], rs[all[k]])
  BY <1>1 DEF Enumerates
<1>6. SubSeq([k \in 1..N |-> rs[all[k]]], 1, n) = [k \in 1..n |-> rs[all[k]]]
  <2> HIDE DEF n, N
  <2> QED  BY <1>2, <1>4, <1>5, PrefixIsKept
<1>7. CompactGroup(rs, P) = [k \in 1..n |-> rs[at[k]]]
  <2>1. CompactGroup(rs, P) = [k \in 1..n |-> rs[all[k]]]
    BY <1>1, <1>6 DEF CompactGroup
  <2> HIDE DEF n
  <2> QED  BY <2>1
<1>8. \A k \in 1..n : at[k] = all[k]
  OBVIOUS
<1> HIDE DEF at, N, c, n
<1>9. L = (c + 1)..n
  <2>1. L = {k \in 1..n : ~(k <= c)}
    BY <1>2, <1>4, <1>8 DEF LooseOf
  <2> HIDE DEF L
  <2> QED  BY <1>2, <1>4, <2>1
<1>10. Cardinality(L) = IF c + 1 > n THEN 0 ELSE n - (c + 1) + 1
  <2>1. c + 1 \in Int /\ n \in Int
    BY <1>2, <1>4
  <2> HIDE DEF L
  <2> QED  BY <1>9, <2>1, FS_Interval
<1>11. at \in [1..n -> P] /\ \A k \in 1..n : k \in 1..N /\ k \in Nat
  <2>1. at = [k \in 1..n |-> all[k]]
    BY DEF at
  <2> QED  BY <1>2, <1>4, <1>5, <2>1
<1>12. \A k, l \in 1..n : k # l => at[k] # at[l]
  BY <1>5, <1>8, <1>11
<1>13. \A k, l \in 1..n : k < l => ~Higher(rs[at[l]], rs[at[k]])
  BY <1>5, <1>8, <1>11
<1>14. ASSUME NEW i \in P, \A k \in 1..n : at[k] # i
       PROVE  /\ \A k \in 1..n : ~Higher(rs[i], rs[at[k]])
              /\ n = MaxRecords \/ (~IsKeyed(rs[i]) /\ Cardinality(L) = MaxUnkeyed)
  <2>1. PICK j \in 1..N : all[j] = i
    BY <1>5
  <2>2. j > n /\ n < N
    BY <1>2, <1>4, <1>8, <1>14, <2>1
  <2>3. \A k \in 1..n : ~Higher(rs[i], rs[at[k]])
    BY <1>4, <1>5, <1>8, <1>11, <2>1, <2>2
  <2>4. CASE n = c + MaxUnkeyed
    <3>1. ~(j <= c)
      BY <1>2, <1>3, <2>2, <2>4
    <3>2. ~IsKeyed(rs[i])
      BY <1>2, <2>1, <3>1
    <3> HIDE DEF L
    <3>3. Cardinality(L) = MaxUnkeyed
      BY <1>2, <1>3, <1>10, <2>4
    <3> QED  BY <2>3, <3>2, <3>3
  <2> QED  BY <1>2, <1>4, <2>2, <2>3, <2>4
<1>15. Cardinality(L) \in 0..MaxUnkeyed
  <2> HIDE DEF L
  <2> QED  BY <1>2, <1>3, <1>4, <1>10
<1>16. IsCompacted(rs, P, at, n)
  BY <1>2, <1>3, <1>4, <1>11, <1>12, <1>13, <1>14, <1>15 DEF IsCompacted
<1> QED  BY <1>7, <1>16 DEF n

----------------------------------------------------------------------------
(* What upsert_record makes of the records                                 *)

Loose(rs, g)     == {i \in InGroup(rs, g) : ~IsKeyed(rs[i])}
Regrouped(rs, g) == NotOfGroup(rs, g) \o CompactGroup(rs, InGroup(rs, g))

\* res has p records of m that are not of group g, all of them and in their order, and
\* then n of group g, in the order of the priority.
Regroups(m, g, res, p, n, at) ==
  /\ p \in Nat /\ n \in 0..MaxRecords
  /\ at \in [1..(p + n) -> DOMAIN m]
  /\ res = [k \in 1..(p + n) |-> m[at[k]]]
  /\ \A k, l \in 1..(p + n) : k # l => at[k] # at[l]
  /\ \A k \in 1..(p + n) : m[at[k]].group = g <=> k > p
  /\ \A k, l \in 1..(p + n) : k < l /\ l <= p => at[k] < at[l]
  /\ \A k, l \in 1..(p + n) : p < k /\ k < l => ~Higher(res[l], res[k])
  /\ \A i \in DOMAIN m \ InGroup(m, g) : \E k \in 1..(p + n) : at[k] = i

\* Nothing of group g was dropped that ranks higher, or had room.
DropsFairly(m, g, res, p, n, at) ==
  \A i \in InGroup(m, g) :
    (\A k \in 1..(p + n) : at[k] # i) =>
       /\ \A k \in InGroup(res, g) : ~Higher(m[i], res[k])
       /\ n = MaxRecords \/ (~IsKeyed(m[i]) /\ Cardinality(Loose(res, g)) = MaxUnkeyed)

LEMMA SeqIs ==
  ASSUME NEW S, NEW u \in Seq(S)
  PROVE  u = [k \in 1..Len(u) |-> u[k]]
BY LenProperties

LEMMA ConcatIs ==
  ASSUME NEW S, NEW s \in Seq(S), NEW t \in Seq(S)
  PROVE  s \o t = [k \in 1..(Len(s) + Len(t)) |-> IF k <= Len(s) THEN s[k] ELSE t[k - Len(s)]]
<1> DEFINE u == s \o t
           p == Len(s)
           n == Len(t)
<1>1. u \in Seq(S) /\ Len(u) = p + n
  BY ConcatProperties
<1>2. \A k \in 1..(p + n) : u[k] = IF k <= p THEN s[k] ELSE t[k - p]
  BY ConcatProperties
<1> HIDE DEF u, p, n
<1>3. u = [k \in 1..(p + n) |-> u[k]]
  BY <1>1, SeqIs
<1>4. u = [k \in 1..(p + n) |-> IF k <= p THEN s[k] ELSE t[k - p]]
  BY <1>2, <1>3
<1> QED  BY <1>4 DEF u, p, n

\* The two parts of a sequence of records.
LEMMA PartsOfConcat ==
  ASSUME NEW m \in Seq(Rec), NEW p \in Nat, NEW n \in Nat,
         NEW a \in [1..p -> DOMAIN m], NEW b \in [1..n -> DOMAIN m]
  PROVE  LET at == [k \in 1..(p + n) |-> IF k <= p THEN a[k] ELSE b[k - p]]
         IN  /\ at \in [1..(p + n) -> DOMAIN m]
             /\ [k \in 1..p |-> m[a[k]]] \o [k \in 1..n |-> m[b[k]]] = [k \in 1..(p + n) |-> m[at[k]]]
             /\ \A k \in 1..(p + n) : (k <= p /\ k \in 1..p /\ at[k] = a[k])
                                     \/ (k > p /\ k - p \in 1..n /\ at[k] = b[k - p])
             /\ \A k \in 1..p : k \in 1..(p + n) /\ at[k] = a[k]
             /\ \A k \in 1..n : k + p \in 1..(p + n) /\ at[k + p] = b[k]
<1> DEFINE at == [k \in 1..(p + n) |-> IF k <= p THEN a[k] ELSE b[k - p]]
           s == [k \in 1..p |-> m[a[k]]]
           t == [k \in 1..n |-> m[b[k]]]
<1>1. /\ s \in Seq(Rec) /\ Len(s) = p /\ \A k \in 1..p : s[k] = m[a[k]]
      /\ t \in Seq(Rec) /\ Len(t) = n /\ \A k \in 1..n : t[k] = m[b[k]]
  OBVIOUS
<1>2. \A k \in 1..(p + n) : (k <= p /\ k \in 1..p) \/ (k > p /\ k - p \in 1..n)
  OBVIOUS
<1>3. \A k \in 1..(p + n) : (k <= p /\ k \in 1..p /\ at[k] = a[k])
                            \/ (k > p /\ k - p \in 1..n /\ at[k] = b[k - p])
  BY <1>2
<1>4. at \in [1..(p + n) -> DOMAIN m]
  BY <1>2
<1>5. \A k \in 1..p : k \in 1..(p + n) /\ at[k] = a[k]
  OBVIOUS
<1>6. \A k \in 1..n : k + p \in 1..(p + n) /\ at[k + p] = b[k]
  <2> SUFFICES ASSUME NEW k \in 1..n PROVE k + p \in 1..(p + n) /\ at[k + p] = b[k]
    OBVIOUS
  <2>1. k + p \in 1..(p + n) /\ ~(k + p <= p) /\ (k + p) - p = k
    OBVIOUS
  <2> QED  BY <2>1
<1>7. s \o t = [k \in 1..(p + n) |-> m[at[k]]]
  <2> HIDE DEF s, t, at
  <2>1. s \o t = [k \in 1..(p + n) |-> IF k <= p THEN s[k] ELSE t[k - p]]
    <3>1. s \in Seq(Rec) /\ t \in Seq(Rec) /\ Len(s) = p /\ Len(t) = n
      BY <1>1
    <3>2. s \o t = [k \in 1..(Len(s) + Len(t)) |-> IF k <= Len(s) THEN s[k] ELSE t[k - Len(s)]]
      BY <3>1, ConcatIs, Zenon
    <3> QED  BY <3>1, <3>2
  <2>2. \A k \in 1..(p + n) : m[at[k]] = IF k <= p THEN s[k] ELSE t[k - p]
    BY <1>1, <1>3
  <2> QED  BY <2>1, <2>2
<1> QED  BY <1>3, <1>4, <1>5, <1>6, <1>7

LEMMA RegroupedShape ==
  ASSUME NEW m \in Seq(Rec), NEW g
  PROVE  \E p, n, at : /\ Regroups(m, g, Regrouped(m, g), p, n, at)
                       /\ InGroup(Regrouped(m, g), g) = (p + 1)..(p + n)
                       /\ Cardinality(Loose(Regrouped(m, g), g)) \in 0..MaxUnkeyed
                       /\ DropsFairly(m, g, Regrouped(m, g), p, n, at)
<1> DEFINE P == InGroup(m, g)
           Q == DOMAIN m \ P
           res == Regrouped(m, g)
           n == Kept(m, P)
           p == Cardinality(Q)
<1>1. DOMAIN m = 1..Len(m) /\ Len(m) \in Nat /\ \A i \in DOMAIN m : m[i] \in Rec
  OBVIOUS
<1>2. IsFiniteSet(DOMAIN m)
  BY <1>1, IntervalCounts
<1>3. P \in SUBSET DOMAIN m /\ Q \in SUBSET DOMAIN m
  BY DEF InGroup
<1>4. /\ IsFiniteSet(P) /\ P \in SUBSET Nat /\ \A i \in P : m[i] \in Rec
      /\ IsFiniteSet(Q) /\ Q \in SUBSET Nat
  BY <1>1, <1>2, <1>3, FS_Subset
<1>5. p \in Nat
  BY <1>4, FS_CardinalityType
<1>6. PICK a : /\ Enumerates(a, Q)
               /\ \A k, l \in 1..p : k < l => a[k] < a[l]
               /\ Picked(m, Q) = [k \in 1..p |-> m[a[k]]]
  <2> HIDE DEF Q
  <2> QED  BY <1>4, PickedInOrder
<1>7. PICK b : /\ IsCompacted(m, P, b, n)
               /\ CompactGroup(m, P) = [k \in 1..n |-> m[b[k]]]
  <2> HIDE DEF P
  <2> QED  BY <1>4, CompactGroupShape
<1>8. res = [k \in 1..p |-> m[a[k]]] \o [k \in 1..n |-> m[b[k]]]
  BY <1>6, <1>7 DEF Regrouped, NotOfGroup
<1> DEFINE at == [k \in 1..(p + n) |-> IF k <= p THEN a[k] ELSE b[k - p]]
<1>9. /\ \A i \in P : m[i].group = g
      /\ \A i \in Q : m[i].group # g
  BY DEF InGroup
<1> HIDE DEF P, Q, n, p, at, res
<1>10. /\ a \in [1..p -> Q] /\ b \in [1..n -> P] /\ n \in 0..MaxRecords /\ n \in Nat
       /\ \A k, l \in 1..p : k # l => a[k] # a[l]
       /\ \A i \in Q : \E k \in 1..p : a[k] = i
       /\ \A k, l \in 1..n : k # l => b[k] # b[l]
       /\ \A k, l \in 1..n : k < l => ~Higher(m[b[l]], m[b[k]])
  BY <1>6, <1>7, PolicyAssumption DEF Enumerates, IsCompacted, p
<1>11. /\ a \in [1..p -> DOMAIN m] /\ b \in [1..n -> DOMAIN m]
  BY <1>3, <1>10
<1>12. /\ at \in [1..(p + n) -> DOMAIN m]
       /\ res = [k \in 1..(p + n) |-> m[at[k]]]
       /\ \A k \in 1..(p + n) : (k <= p /\ k \in 1..p /\ at[k] = a[k])
                                 \/ (k > p /\ k - p \in 1..n /\ at[k] = b[k - p])
       /\ \A k \in 1..p : k \in 1..(p + n) /\ at[k] = a[k]
       /\ \A k \in 1..n : k + p \in 1..(p + n) /\ at[k + p] = b[k]
  <2>1. res = [k \in 1..p |-> m[a[k]]] \o [k \in 1..n |-> m[b[k]]]
    BY <1>8
  <2> QED  BY <1>5, <1>10, <1>11, <2>1, PartsOfConcat DEF at
<1>13. \A k \in 1..(p + n) : (k <= p /\ at[k] \in Q) \/ (k > p /\ at[k] \in P)
  BY <1>10, <1>12
<1>14. Regroups(m, g, res, p, n, at)
  <2>1. \A k, l \in 1..(p + n) : k # l => at[k] # at[l]
    <3> SUFFICES ASSUME NEW k \in 1..(p + n), NEW l \in 1..(p + n), k # l, at[k] = at[l]
                 PROVE  FALSE
      OBVIOUS
    <3>1. (k <= p /\ l <= p) \/ (k > p /\ l > p)
      BY <1>9, <1>13
    <3>2. CASE k <= p /\ l <= p
      BY <1>10, <1>12, <3>2
    <3>3. CASE k > p /\ l > p
      <4>1. k - p \in 1..n /\ l - p \in 1..n /\ at[k] = b[k - p] /\ at[l] = b[l - p]
        BY <1>5, <1>12, <3>3
      <4>2. k - p # l - p
        BY <1>5
      <4> QED  BY <1>10, <4>1, <4>2
    <3> QED  BY <3>1, <3>2, <3>3
  <2>2. \A k \in 1..(p + n) : m[at[k]].group = g <=> k > p
    BY <1>5, <1>9, <1>13
  <2>3. \A k, l \in 1..(p + n) : k < l /\ l <= p => at[k] < at[l]
    BY <1>5, <1>6, <1>12
  <2>4. \A k, l \in 1..(p + n) : p < k /\ k < l => ~Higher(res[l], res[k])
    <3> SUFFICES ASSUME NEW k \in 1..(p + n), NEW l \in 1..(p + n), p < k, k < l
                 PROVE  ~Higher(res[l], res[k])
      OBVIOUS
    <3>1. /\ k - p \in 1..n /\ l - p \in 1..n /\ k - p < l - p
          /\ at[k] = b[k - p] /\ at[l] = b[l - p]
      BY <1>5, <1>10, <1>12
    <3> QED  BY <1>10, <1>12, <3>1
  <2>5. \A i \in DOMAIN m \ InGroup(m, g) : \E k \in 1..(p + n) : at[k] = i
    BY <1>10, <1>12 DEF Q, P
  <2> QED  BY <1>5, <1>10, <1>12, <2>1, <2>2, <2>3, <2>4, <2>5 DEF Regroups
<1>15. InGroup(res, g) = (p + 1)..(p + n)
  <2>1. DOMAIN res = 1..(p + n) /\ \A k \in 1..(p + n) : res[k].group = g <=> k > p
    BY <1>12, <1>14 DEF Regroups
  <2> QED  BY <1>5, <1>10, <2>1 DEF InGroup
<1> DEFINE K == LooseOf(m, b, n)
<1>16. Cardinality(Loose(res, g)) = Cardinality(K)
  <2> DEFINE M == Loose(res, g)
             f == [k \in K |-> k + p]
  <2>1. K \in SUBSET (1..n) /\ \A k \in 1..n : k \in K <=> ~IsKeyed(m[b[k]])
    BY DEF LooseOf
  <2>2. \A k \in (p + 1)..(p + n) : k - p \in 1..n /\ res[k] = m[b[k - p]]
    BY <1>5, <1>10, <1>12
  <2> HIDE DEF K
  <2>3. /\ M \in SUBSET ((p + 1)..(p + n))
        /\ \A k \in (p + 1)..(p + n) : k \in M <=> k - p \in K
    BY <1>15, <2>1, <2>2 DEF Loose
  <2>4. ASSUME NEW k \in K PROVE k + p \in M /\ f[k] = k + p
    <3>1. k + p \in (p + 1)..(p + n) /\ (k + p) - p = k
      BY <1>5, <1>10, <2>1
    <3> QED  BY <2>3, <3>1
  <2>5. ASSUME NEW i \in M PROVE i - p \in K /\ f[i - p] = i
    <3>1. i \in (p + 1)..(p + n) /\ (i - p) + p = i
      BY <1>5, <1>10, <2>3
    <3>2. i - p \in K
      BY <2>3, <3>1
    <3> QED  BY <2>4, <3>1, <3>2
  <2>6. f \in [K -> M]
    BY <2>4
  <2>7. \A k, l \in K : k # l => f[k] # f[l]
    BY <1>5, <2>1, <2>4
  <2> HIDE DEF f, M
  <2>8. f \in Bijection(K, M)
    BY <2>5, <2>6, <2>7 DEF Bijection, Injection, Surjection, IsInjective
  <2>9. IsFiniteSet(K)
    BY <1>10, <2>1, IntervalCounts, FS_Subset
  <2>10. ExistsBijection(K, M)
    BY <2>8 DEF ExistsBijection
  <2>11. Cardinality(M) = Cardinality(K)
    BY <2>9, <2>10, FS_Bijection
  <2> QED  BY <2>11 DEF M
<1>17. Cardinality(Loose(res, g)) \in 0..MaxUnkeyed
  BY <1>7, <1>16 DEF IsCompacted
<1>18. DropsFairly(m, g, res, p, n, at)
  <2> SUFFICES ASSUME NEW i \in P, \A k \in 1..(p + n) : at[k] # i
               PROVE  /\ \A k \in (p + 1)..(p + n) : ~Higher(m[i], res[k])
                      /\ n = MaxRecords \/ (~IsKeyed(m[i]) /\ Cardinality(K) = MaxUnkeyed)
    BY <1>15, <1>16 DEF DropsFairly, P
  <2>1. \A k \in 1..n : b[k] # i
    BY <1>12
  <2>2. /\ \A k \in 1..n : ~Higher(m[i], m[b[k]])
        /\ n = MaxRecords \/ (~IsKeyed(m[i]) /\ Cardinality(K) = MaxUnkeyed)
    BY <1>7, <2>1 DEF IsCompacted
  <2>3. \A k \in (p + 1)..(p + n) : k - p \in 1..n /\ res[k] = m[b[k - p]]
    BY <1>5, <1>10, <1>12
  <2> QED  BY <2>2, <2>3
<1> QED  BY <1>14, <1>15, <1>17, <1>18 DEF res

----------------------------------------------------------------------------
(* What every store keeps                                                  *)

\* No id and no key of a group twice.
Distinct(rs) ==
  \A i, j \in DOMAIN rs : i # j => rs[i].id # rs[j].id /\ ~SameKey(rs[i], rs[j])

\* The records of a group follow each other, in the order of the priority.
Together(rs) ==
  \A i, j, k \in DOMAIN rs : i < j /\ j < k /\ rs[i].group = rs[k].group => rs[j].group = rs[i].group
Ranked(rs) ==
  \A i, j \in DOMAIN rs : i < j /\ rs[i].group = rs[j].group => ~Higher(rs[j], rs[i])

Bounded(rs) ==
  \A g \in Group : /\ Cardinality(InGroup(rs, g)) <= MaxRecords
                   /\ Cardinality(Loose(rs, g)) <= MaxUnkeyed

Good(rs) ==
  rs \in Seq(Rec) /\ Distinct(rs) /\ Together(rs) /\ Ranked(rs) /\ Bounded(rs)

Fresh(rs, r) == \A i \in DOMAIN rs : rs[i].id # r.id

\* The find of upsert_record overwrites a record of the group or pushes one.
LEMMA MergeShape ==
  ASSUME NEW rs \in Seq(Rec), Distinct(rs), NEW r \in Rec, Fresh(rs, r), NEW now \in Nat
  PROVE  /\ Merge(rs, r, now) \in Seq(Rec)
         /\ Distinct(Merge(rs, r, now))
         /\ DOMAIN rs \subseteq DOMAIN Merge(rs, r, now)
         /\ \A i \in DOMAIN rs : /\ Merge(rs, r, now)[i].group = rs[i].group
                                 /\ rs[i].group # r.group => Merge(rs, r, now)[i] = rs[i]
         /\ \A i \in DOMAIN Merge(rs, r, now) \ DOMAIN rs : Merge(rs, r, now)[i].group = r.group
<1> DEFINE m == Merge(rs, r, now)
<1>0. DOMAIN rs = 1..Len(rs) /\ Len(rs) \in Nat /\ \A i \in DOMAIN rs : rs[i] \in Rec
  OBVIOUS
<1>1. CASE \E i \in DOMAIN rs : SameKey(rs[i], r)
  <2> DEFINE First(i) == SameKey(rs[i], r) /\ \A j \in 1..(i - 1) : ~SameKey(rs[j], r)
             i == CHOOSE k \in DOMAIN rs : First(k)
             new == [r EXCEPT !.id = rs[i].id, !.updated = now]
  <2>1. PICK k \in DOMAIN rs : SameKey(rs[k], r)
    BY <1>1
  <2>2. First(k)
    <3>1. \A j \in 1..(k - 1) : j \in DOMAIN rs /\ j # k
      BY <1>0
    <3> QED  BY <2>1, <3>1 DEF SameKey, Distinct
  <2>3. i \in DOMAIN rs /\ SameKey(rs[i], r)
    <3>1. \E j \in DOMAIN rs : First(j)
      BY <2>2
    <3>2. i \in DOMAIN rs /\ First(i)
      <4> HIDE DEF First
      <4> QED  BY <3>1
    <3> QED  BY <3>2
  <2>4. m = [rs EXCEPT ![i] = new]
    BY <1>1 DEF Merge
  <2> HIDE DEF i
  <2>5. rs[i] \in Rec
    BY <1>0, <2>3
  <2>6. new \in Rec /\ new.id = rs[i].id /\ new.group = rs[i].group /\ new.key = rs[i].key
    BY <2>3, <2>5 DEF Rec, RecordOf, SameKey
  <2> HIDE DEF new, m
  <2>7. /\ m \in Seq(Rec) /\ DOMAIN m = DOMAIN rs /\ m[i] = new
        /\ \A j \in DOMAIN rs : j # i => m[j] = rs[j]
    BY <2>3, <2>4, <2>6
  <2>8. \A j \in DOMAIN m : m[j].id = rs[j].id /\ m[j].group = rs[j].group /\ m[j].key = rs[j].key
    BY <2>6, <2>7
  <2>9. Distinct(m)
    BY <2>7, <2>8 DEF Distinct, SameKey, IsKeyed
  <2>10. rs[i].group = r.group
    BY <2>3 DEF SameKey
  <2> QED  BY <2>7, <2>8, <2>9, <2>10 DEF m
<1>2. CASE ~\E i \in DOMAIN rs : SameKey(rs[i], r)
  <2>1. m = Append(rs, r)
    BY <1>2 DEF Merge
  <2> HIDE DEF m
  <2>2. /\ m \in Seq(Rec) /\ DOMAIN m = 1..(Len(rs) + 1) /\ m[Len(rs) + 1] = r
        /\ \A j \in DOMAIN rs : m[j] = rs[j]
    BY <2>1
  <2>3. \A j \in DOMAIN m : (j \in DOMAIN rs /\ m[j] = rs[j]) \/ m[j] = r
    BY <1>0, <2>2
  <2>4. \A i, j \in DOMAIN m : i # j => (i \in DOMAIN rs /\ m[i] = rs[i]) \/ (j \in DOMAIN rs /\ m[j] = rs[j])
    BY <1>0, <2>2
  <2>5. Distinct(m)
    BY <1>2, <2>3, <2>4 DEF Distinct, Fresh, SameKey, IsKeyed
  <2>6. DOMAIN rs \subseteq DOMAIN m
    BY <1>0, <2>2
  <2>7. \A i \in DOMAIN m \ DOMAIN rs : m[i] = r
    BY <2>3
  <2> QED  BY <2>2, <2>5, <2>6, <2>7 DEF m
<1> QED  BY <1>1, <1>2

\* m is what merging a record of group g made of rs.
Touches(rs, m, g) ==
  /\ DOMAIN rs \subseteq DOMAIN m
  /\ \A i \in DOMAIN rs : m[i].group = rs[i].group /\ (rs[i].group # g => m[i] = rs[i])
  /\ \A i \in DOMAIN m \ DOMAIN rs : m[i].group = g

LEMMA MapsInto ==
  ASSUME NEW K, NEW T, IsFiniteSet(T), NEW f \in [K -> T], \A k, l \in K : k # l => f[k] # f[l]
  PROVE  Cardinality(K) <= Cardinality(T)
<1>1. f \in Injection(K, T)
  BY DEF Injection, IsInjective
<1> QED  BY <1>1, FS_Injection

LEMMA RegroupingKeepsGood ==
  ASSUME NEW rs, Good(rs), NEW m \in Seq(Rec), Distinct(m), NEW g, Touches(rs, m, g),
         NEW res, NEW p, NEW n, NEW at, Regroups(m, g, res, p, n, at),
         InGroup(res, g) = (p + 1)..(p + n), Cardinality(Loose(res, g)) \in 0..MaxUnkeyed
  PROVE  Good(res)
<1>1. /\ p \in Nat /\ n \in 0..MaxRecords /\ n \in Nat
      /\ at \in [1..(p + n) -> DOMAIN m]
      /\ res = [k \in 1..(p + n) |-> m[at[k]]]
      /\ \A k, l \in 1..(p + n) : k # l => at[k] # at[l]
      /\ \A k \in 1..(p + n) : m[at[k]].group = g <=> k > p
      /\ \A k, l \in 1..(p + n) : k < l /\ l <= p => at[k] < at[l]
      /\ \A k, l \in 1..(p + n) : p < k /\ k < l => ~Higher(res[l], res[k])
  BY PolicyAssumption DEF Regroups
<1>2. /\ DOMAIN m = 1..Len(m) /\ Len(m) \in Nat /\ \A i \in DOMAIN m : m[i] \in Rec
      /\ DOMAIN rs = 1..Len(rs) /\ Len(rs) \in Nat
  BY DEF Good
<1>3. DOMAIN res = 1..(p + n) /\ \A k \in 1..(p + n) : res[k] = m[at[k]] /\ at[k] \in DOMAIN m
  BY <1>1
<1>4. ASSUME NEW k \in 1..(p + n), k <= p
      PROVE  at[k] \in DOMAIN rs /\ res[k] = rs[at[k]] /\ res[k].group # g
  <2>1. m[at[k]].group # g /\ at[k] \in DOMAIN m
    BY <1>1, <1>3, <1>4
  <2> QED  BY <1>3, <2>1 DEF Touches
<1>5. \A k \in 1..(p + n) : k > p => res[k].group = g
  BY <1>1, <1>3
<1>6. res \in Seq(Rec)
  BY <1>1, <1>2, <1>3
<1>7. Distinct(res)
  BY <1>1, <1>3 DEF Distinct
<1>8. Together(res)
  <2> SUFFICES ASSUME NEW i \in 1..(p + n), NEW j \in 1..(p + n), NEW k \in 1..(p + n),
                      i < j, j < k, res[i].group = res[k].group
               PROVE  res[j].group = res[i].group
    BY <1>3 DEF Together
  <2>1. CASE k <= p
    <3>1. i <= p /\ j <= p
      BY <1>1, <2>1
    <3>2. at[i] < at[j] /\ at[j] < at[k]
      BY <1>1, <2>1, <3>1
    <3> QED  BY <1>4, <2>1, <3>1, <3>2 DEF Good, Together
  <2>2. CASE k > p
    <3>1. i > p
      BY <1>1, <1>4, <1>5, <2>2
    <3>2. j > p
      BY <1>1, <3>1
    <3> QED  BY <1>5, <3>1, <3>2
  <2> QED  BY <1>1, <2>1, <2>2
<1>9. Ranked(res)
  <2> SUFFICES ASSUME NEW i \in 1..(p + n), NEW j \in 1..(p + n), i < j, res[i].group = res[j].group
               PROVE  ~Higher(res[j], res[i])
    BY <1>3 DEF Ranked
  <2>1. CASE j <= p
    <3>1. i <= p /\ at[i] < at[j]
      BY <1>1, <2>1
    <3> QED  BY <1>4, <2>1, <3>1 DEF Good, Ranked
  <2>2. CASE j > p
    <3>1. i > p
      BY <1>1, <1>4, <1>5, <2>2
    <3> QED  BY <1>1, <3>1
  <2> QED  BY <1>1, <2>1, <2>2
<1>10. Bounded(res)
  <2> SUFFICES ASSUME NEW h \in Group
               PROVE  /\ Cardinality(InGroup(res, h)) <= MaxRecords
                      /\ Cardinality(Loose(res, h)) <= MaxUnkeyed
    BY DEF Bounded
  <2>1. CASE h = g
    <3>1. Cardinality((p + 1)..(p + n)) = n
      BY <1>1, SpanCounts
    <3> QED  BY <1>1, <2>1, <3>1, PolicyAssumption
  <2>2. CASE h # g
    <3>1. \A k \in InGroup(res, h) :
            k \in 1..(p + n) /\ at[k] \in InGroup(rs, h) /\ res[k] = rs[at[k]]
      <4> SUFFICES ASSUME NEW k \in 1..(p + n), res[k].group = h
                   PROVE  at[k] \in InGroup(rs, h) /\ res[k] = rs[at[k]]
        BY <1>3 DEF InGroup
      <4>1. k <= p
        BY <1>1, <1>5, <2>2
      <4> QED  BY <1>4, <4>1 DEF InGroup
    <3>2. /\ Cardinality(InGroup(rs, h)) <= MaxRecords
          /\ Cardinality(Loose(rs, h)) <= MaxUnkeyed
      BY DEF Good, Bounded
    <3>3. IsFiniteSet(InGroup(rs, h)) /\ IsFiniteSet(Loose(rs, h))
      <4>1. IsFiniteSet(DOMAIN rs)
        BY <1>2, IntervalCounts
      <4>2. InGroup(rs, h) \in SUBSET DOMAIN rs /\ Loose(rs, h) \in SUBSET DOMAIN rs
        BY DEF InGroup, Loose
      <4> QED  BY <4>1, <4>2, FS_Subset
    <3>4. Cardinality(InGroup(res, h)) <= Cardinality(InGroup(rs, h))
      <4> DEFINE K == InGroup(res, h)
                 f == [k \in K |-> at[k]]
      <4>1. f \in [K -> InGroup(rs, h)] /\ \A k, l \in K : k # l => f[k] # f[l]
        BY <1>1, <3>1
      <4> HIDE DEF K, f
      <4>2. Cardinality(K) <= Cardinality(InGroup(rs, h))
        BY <3>3, <4>1, MapsInto
      <4> QED  BY <4>2 DEF K
    <3>5. Cardinality(Loose(res, h)) <= Cardinality(Loose(rs, h))
      <4> DEFINE K == Loose(res, h)
                 f == [k \in K |-> at[k]]
      <4>1. \A k \in K : k \in 1..(p + n) /\ at[k] \in Loose(rs, h)
        BY <3>1 DEF Loose
      <4>2. f \in [K -> Loose(rs, h)] /\ \A k, l \in K : k # l => f[k] # f[l]
        BY <1>1, <4>1
      <4> HIDE DEF K, f
      <4>3. Cardinality(K) <= Cardinality(Loose(rs, h))
        BY <3>3, <4>2, MapsInto
      <4> QED  BY <4>3 DEF K
    <3>6. /\ Cardinality(InGroup(res, h)) \in Int /\ Cardinality(InGroup(rs, h)) \in Int
          /\ Cardinality(Loose(res, h)) \in Int /\ Cardinality(Loose(rs, h)) \in Int
      <4>1. IsFiniteSet(DOMAIN res)
        BY <1>1, <1>3, IntervalCounts
      <4>2. InGroup(res, h) \in SUBSET DOMAIN res /\ Loose(res, h) \in SUBSET DOMAIN res
        BY DEF InGroup, Loose
      <4>3. IsFiniteSet(InGroup(res, h)) /\ IsFiniteSet(Loose(res, h))
        BY <4>1, <4>2, FS_Subset
      <4> QED  BY <3>3, <4>3, FS_CardinalityType
    <3> QED  BY <3>2, <3>4, <3>5, <3>6, PolicyAssumption
  <2> QED  BY <2>1, <2>2
<1> QED  BY <1>6, <1>7, <1>8, <1>9, <1>10 DEF Good

\* compact_record.
Compacted(rec) == [rec EXCEPT !.text = CompactText(@)]

LEMMA CompactedIsTyped ==
  ASSUME NEW rec \in RecordOf(Nat, Text), rec.text # "blank"
  PROVE  /\ Compacted(rec) \in Rec /\ Compacted(rec).text # "blank"
         /\ Compacted(rec).id = rec.id /\ Compacted(rec).group = rec.group
         /\ Compacted(rec).key = rec.key /\ Compacted(rec).confidence = rec.confidence
         /\ Compacted(rec).updated = rec.updated
BY DEF Compacted, CompactText, Rec, RecordOf, Text, Stored

\* An upsert drops a blank record; another one is merged, and its group comes last.
LEMMA UpsertShape ==
  ASSUME NEW rs, Good(rs), NEW rec \in RecordOf(Nat, Text), Fresh(rs, rec), NEW now \in Nat
  PROVE  \/ rec.text = "blank" /\ Upsert(rs, rec, now) = rs
         \/ LET m == Merge(rs, Compacted(rec), now)
            IN  /\ rec.text # "blank"
                /\ m \in Seq(Rec) /\ Distinct(m) /\ Touches(rs, m, rec.group)
                /\ Upsert(rs, rec, now) = Regrouped(m, rec.group)
<1> DEFINE r == Compacted(rec)
<1>1. CASE rec.text = "blank"
  <2>1. r.text = "blank"
    BY <1>1 DEF Compacted, CompactText, RecordOf
  <2> QED  BY <1>1, <2>1 DEF Upsert, Compacted
<1>2. CASE rec.text # "blank"
  <2>1. r \in Rec /\ r.text # "blank" /\ r.id = rec.id /\ r.group = rec.group
    BY <1>2, CompactedIsTyped
  <2>2. Upsert(rs, rec, now) = Regrouped(Merge(rs, r, now), r.group)
    BY <2>1 DEF Upsert, Compacted, Regrouped
  <2> HIDE DEF r
  <2>3. Fresh(rs, r)
    BY <2>1 DEF Fresh
  <2>4. /\ Merge(rs, r, now) \in Seq(Rec) /\ Distinct(Merge(rs, r, now))
        /\ Touches(rs, Merge(rs, r, now), r.group)
    BY <2>1, <2>3, MergeShape DEF Good, Touches
  <2> QED  BY <1>2, <2>1, <2>2, <2>4 DEF r
<1> QED  BY <1>1, <1>2

LEMMA NothingIsGood == Good(<<>>)
<1>1. \A g \in Group : InGroup(<<>>, g) = {} /\ Loose(<<>>, g) = {}
  BY DEF InGroup, Loose
<1>2. Bounded(<<>>)
  <2>1. Cardinality({}) = 0 /\ 0 <= MaxRecords /\ 0 <= MaxUnkeyed
    BY FS_EmptySet, PolicyAssumption
  <2>2. \A g \in Group : Cardinality(InGroup(<<>>, g)) = 0 /\ Cardinality(Loose(<<>>, g)) = 0
    BY <1>1, <2>1, Zenon
  <2> QED  BY <2>1, <2>2 DEF Bounded
<1> QED  BY <1>2 DEF Good, Distinct, Together, Ranked

\* upsert_record keeps every store in order, within its limits, and without doubles.
LEMMA UpsertKeepsGood ==
  ASSUME NEW rs, Good(rs), NEW rec \in RecordOf(Nat, Text), Fresh(rs, rec), NEW now \in Nat
  PROVE  Good(Upsert(rs, rec, now))
<1>1. CASE rec.text = "blank" /\ Upsert(rs, rec, now) = rs
  BY <1>1
<1>2. CASE LET m == Merge(rs, Compacted(rec), now)
           IN  /\ rec.text # "blank"
               /\ m \in Seq(Rec) /\ Distinct(m) /\ Touches(rs, m, rec.group)
               /\ Upsert(rs, rec, now) = Regrouped(m, rec.group)
  <2> DEFINE m == Merge(rs, Compacted(rec), now)
             g == rec.group
  <2>1. m \in Seq(Rec) /\ Distinct(m) /\ Touches(rs, m, g) /\ Upsert(rs, rec, now) = Regrouped(m, g)
    BY <1>2
  <2> HIDE DEF m, g
  <2>2. PICK p, n, at : /\ Regroups(m, g, Regrouped(m, g), p, n, at)
                        /\ InGroup(Regrouped(m, g), g) = (p + 1)..(p + n)
                        /\ Cardinality(Loose(Regrouped(m, g), g)) \in 0..MaxUnkeyed
    BY <2>1, RegroupedShape
  <2>3. Good(Regrouped(m, g))
    BY <2>1, <2>2, RegroupingKeepsGood
  <2> QED  BY <2>1, <2>3
<1> QED  BY <1>1, <1>2, UpsertShape

----------------------------------------------------------------------------
(* Upserting again what is there                                           *)

\* Picking neighbours.
LEMMA PickedSpan ==
  ASSUME NEW s, NEW p \in Nat, NEW n \in Nat
  PROVE  Picked(s, (p + 1)..(p + n)) = [k \in 1..n |-> s[p + k]]
<1> DEFINE P == (p + 1)..(p + n)
<1>1. Cardinality(P) = n
  BY SpanCounts
<1>2. ASSUME NEW i \in P PROVE Cardinality({j \in P : j < i}) = i - p - 1
  <2> DEFINE d == i - p - 1
  <2>1. d \in Nat /\ i \in Int
    OBVIOUS
  <2>2. {j \in P : j < i} = (p + 1)..(p + d)
    OBVIOUS
  <2> HIDE DEF d
  <2>3. Cardinality((p + 1)..(p + d)) = d
    BY <2>1, SpanCounts
  <2>4. Cardinality({j \in P : j < i}) = d
    BY <2>2, <2>3
  <2> QED  BY <2>4 DEF d
<1>3. ASSUME NEW k \in 1..n
      PROVE  (CHOOSE i \in P : Cardinality({j \in P : j < i}) = k - 1) = p + k
  <2>1. p + k \in P /\ \A i \in P : i - p - 1 = k - 1 <=> i = p + k
    OBVIOUS
  <2>2. \A i \in P : Cardinality({j \in P : j < i}) = k - 1 <=> i = p + k
    BY <1>2, <2>1
  <2> HIDE DEF P
  <2> QED  BY <2>1, <2>2
<1> DEFINE at(k) == CHOOSE i \in P : Cardinality({j \in P : j < i}) = k - 1
<1>4. Picked(s, P) = [k \in 1..Cardinality(P) |-> s[at(k)]]
  <2> HIDE DEF P
  <2> QED  BY DEF Picked, Arranged
<1>5. \A k \in 1..n : at(k) = p + k
  BY <1>3
<1> HIDE DEF P, at
<1>6. Picked(s, P) = [k \in 1..n |-> s[p + k]]
  BY <1>1, <1>4, <1>5
<1> QED  BY <1>6 DEF P

LEMMA PickedPrefix ==
  ASSUME NEW s, NEW n \in Nat
  PROVE  Picked(s, 1..n) = [k \in 1..n |-> s[k]]
<1> DEFINE z == 0
<1>1. z \in Nat /\ 1..n = (z + 1)..(z + n) /\ \A k \in 1..n : z + k = k
  OBVIOUS
<1> HIDE DEF z
<1>2. Picked(s, (z + 1)..(z + n)) = [k \in 1..n |-> s[z + k]]
  BY <1>1, PickedSpan
<1>3. [k \in 1..n |-> s[z + k]] = [k \in 1..n |-> s[k]]
  BY <1>1
<1> QED  BY <1>1, <1>2, <1>3

\* What is in order already, the stable sort leaves in it.
LEMMA SortedAlready ==
  ASSUME NEW s, NEW P \in SUBSET Nat, \A i \in P : s[i] \in Rec,
         \A i, j \in P : i < j => ~Higher(s[j], s[i])
  PROVE  Sorted(s, P) = Picked(s, P)
<1> DEFINE before(i, j) == Higher(s[i], s[j]) \/ (~Higher(s[j], s[i]) /\ i < j)
<1>1. ASSUME NEW i \in P, NEW j \in P PROVE before(j, i) <=> j < i
  <2>1. i \in Int /\ j \in Int /\ ~Higher(s[i], s[i])
    BY HigherIsOrder
  <2>2. i = j \/ i < j \/ j < i
    BY <2>1
  <2> QED  BY <2>1, <2>2
<1> HIDE DEF before
<1>2. \A i \in P : {j \in P : before(j, i)} = {j \in P : j < i}
  BY <1>1
<1> DEFINE at(k)   == CHOOSE i \in P : Cardinality({j \in P : before(j, i)}) = k - 1
           from(k) == CHOOSE i \in P : Cardinality({j \in P : j < i}) = k - 1
<1>3. \A k \in 1..Cardinality(P) : at(k) = from(k)
  BY <1>2
<1>4. Sorted(s, P) = [k \in 1..Cardinality(P) |-> s[at(k)]]
  BY DEF Sorted, Arranged, before
<1>5. Picked(s, P) = [k \in 1..Cardinality(P) |-> s[from(k)]]
  BY DEF Picked, Arranged
<1> HIDE DEF at, from
<1> QED  BY <1>3, <1>4, <1>5

\* A group within its limits is kept whole.
LEMMA GoodGroupIsKept ==
  ASSUME NEW s, Good(s), NEW g \in Group
  PROVE  Kept(s, InGroup(s, g)) = Cardinality(InGroup(s, g))
<1> DEFINE P == InGroup(s, g)
           K == KeyedAt(s, P)
           L == Loose(s, g)
<1>1. IsFiniteSet(P) /\ IsFiniteSet(K) /\ IsFiniteSet(L)
  <2>1. DOMAIN s = 1..Len(s) /\ Len(s) \in Nat
    BY DEF Good
  <2>2. IsFiniteSet(DOMAIN s)
    BY <2>1, IntervalCounts
  <2>3. P \in SUBSET DOMAIN s /\ K \in SUBSET DOMAIN s /\ L \in SUBSET DOMAIN s
    BY DEF InGroup, KeyedAt, Loose
  <2> QED  BY <2>2, <2>3, FS_Subset
<1>2. K \cup L = P /\ K \cap L = {}
  BY DEF KeyedAt, Loose
<1>3. /\ Cardinality(P) \in Nat /\ Cardinality(K) \in Nat /\ Cardinality(L) \in Nat
  BY <1>1, FS_CardinalityType
<1>4. Cardinality(P) <= MaxRecords /\ Cardinality(L) <= MaxUnkeyed
  BY DEF Good, Bounded
<1>5. Kept(s, P) = AtMost(AtMost(Cardinality(P), MaxRecords), Cardinality(K) + MaxUnkeyed)
  BY DEF Kept
<1> HIDE DEF P, K, L
<1>6. Cardinality(K \cup L) = Cardinality(K) + Cardinality(L) - Cardinality(K \cap L)
  BY <1>1, FS_Union
<1>7. Cardinality(P) = Cardinality(K) + Cardinality(L)
  <2>1. Cardinality({}) = 0
    BY FS_EmptySet
  <2>2. Cardinality(K \cap L) = 0
    BY <1>2, <2>1, Zenon
  <2>3. Cardinality(K \cup L) = Cardinality(P)
    BY <1>2, Zenon
  <2> QED  BY <1>3, <1>6, <2>2, <2>3
<1>8. Kept(s, P) = Cardinality(P)
  BY <1>3, <1>4, <1>5, <1>7, PolicyAssumption DEF AtMost
<1> QED  BY <1>8 DEF P

\* upsert_record leaves a group that is last and in order where and as it is.
LEMMA LastGroupStays ==
  ASSUME NEW s, Good(s), s # <<>>, NEW g \in Group, s[Len(s)].group = g
  PROVE  Regrouped(s, g) = s
<1> DEFINE N == Len(s)
           P == InGroup(s, g)
           Q == DOMAIN s \ P
           p == Cardinality(Q)
           n == N - p
<1>1. s \in Seq(Rec) /\ DOMAIN s = 1..N /\ N \in Nat /\ N \in DOMAIN s /\ \A i \in DOMAIN s : s[i] \in Rec
  BY DEF Good
<1>2. \A i \in 1..N : i \in Q <=> s[i].group # g
  BY <1>1 DEF InGroup
<1>3. \A k \in Q, l \in 1..N : l < k => l \in Q
  <2> SUFFICES ASSUME NEW k \in Q, NEW l \in 1..N, l < k, s[l].group = g PROVE FALSE
    BY <1>1, <1>2
  <2>1. k \in 1..N /\ s[k].group # g
    BY <1>1, <1>2
  <2>2. k < N
    BY <1>1, <2>1
  <2> QED  BY <1>1, <2>1, <2>2 DEF Good, Together
<1>4. p \in 0..N /\ Q = 1..p
  <2>1. Q \in SUBSET (1..N)
    BY <1>1
  <2> HIDE DEF Q, N
  <2> QED  BY <1>1, <1>3, <2>1, NoGap
<1>5. p \in Nat /\ n \in Nat /\ N = p + n
  <2> HIDE DEF p, N
  <2> QED  BY <1>1, <1>4
<1>6. P = (p + 1)..(p + n)
  <2>1. P \in SUBSET (1..N) /\ \A i \in 1..N : i \in P <=> ~(i \in Q)
    BY <1>1 DEF InGroup
  <2> HIDE DEF P, Q, p, n, N
  <2>2. \A i \in 1..N : i \in P <=> i > p
    BY <1>4, <1>5, <2>1
  <2>3. \A i \in (p + 1)..(p + n) : i \in 1..N /\ i > p
    BY <1>5
  <2>4. \A i \in 1..N : i > p => i \in (p + 1)..(p + n)
    BY <1>5
  <2> QED  BY <2>1, <2>2, <2>3, <2>4
<1>7. NotOfGroup(s, g) = [k \in 1..p |-> s[k]]
  <2>1. NotOfGroup(s, g) = Picked(s, Q)
    BY DEF NotOfGroup
  <2> HIDE DEF Q, p
  <2>2. Picked(s, 1..p) = [k \in 1..p |-> s[k]]
    BY <1>5, PickedPrefix
  <2> QED  BY <1>4, <2>1, <2>2
<1>8. Sorted(s, P) = [k \in 1..n |-> s[p + k]]
  <2>1. P \in SUBSET Nat /\ \A i \in P : i \in DOMAIN s /\ s[i] \in Rec /\ s[i].group = g
    BY <1>1 DEF InGroup
  <2>2. \A i, j \in P : i < j => ~Higher(s[j], s[i])
    BY <2>1 DEF Good, Ranked
  <2> HIDE DEF P, p, n
  <2>3. Sorted(s, P) = Picked(s, P)
    BY <2>1, <2>2, SortedAlready
  <2>4. Picked(s, (p + 1)..(p + n)) = [k \in 1..n |-> s[p + k]]
    BY <1>5, PickedSpan
  <2> QED  BY <1>6, <2>3, <2>4
<1>9. CompactGroup(s, P) = [k \in 1..n |-> s[p + k]]
  <2>1. Kept(s, P) = n
    <3>1. Kept(s, P) = Cardinality(P)
      BY GoodGroupIsKept
    <3> HIDE DEF P, p, n
    <3>2. Cardinality((p + 1)..(p + n)) = n
      BY <1>5, SpanCounts
    <3> QED  BY <1>6, <3>1, <3>2
  <2> DEFINE at == [k \in 1..n |-> p + k]
  <2> HIDE DEF P, p, n, N
  <2>2. \A k \in 1..n : at[k] = p + k /\ s[at[k]] \in Rec
    BY <1>1, <1>5
  <2> HIDE DEF at
  <2>3. [k \in 1..n |-> s[p + k]] = [k \in 1..n |-> s[at[k]]]
    BY <2>2
  <2>4. n \in 0..n
    BY <1>5
  <2>5. SubSeq([k \in 1..n |-> s[at[k]]], 1, n) = [k \in 1..n |-> s[at[k]]]
    BY <1>5, <2>2, <2>4, PrefixIsKept
  <2> QED  BY <1>8, <2>1, <2>3, <2>5 DEF CompactGroup
<1> DEFINE a == [k \in 1..p |-> k]
           b == [k \in 1..n |-> p + k]
           at == [k \in 1..(p + n) |-> IF k <= p THEN a[k] ELSE b[k - p]]
<1>10. Regrouped(s, g) = [k \in 1..p |-> s[k]] \o [k \in 1..n |-> s[p + k]]
  BY <1>7, <1>9 DEF Regrouped
<1> HIDE DEF P, Q, p, n, N
<1>11. /\ \A k \in 1..p : a[k] = k /\ a[k] \in DOMAIN s
       /\ \A k \in 1..n : b[k] = p + k /\ b[k] \in DOMAIN s
       /\ a \in [1..p -> DOMAIN s] /\ b \in [1..n -> DOMAIN s]
  BY <1>1, <1>5
<1>12. \A k \in 1..(p + n) : at[k] = k
  BY <1>5
<1>13. Regrouped(s, g) = [k \in 1..p |-> s[a[k]]] \o [k \in 1..n |-> s[b[k]]]
  <2> HIDE DEF a, b
  <2>1. [k \in 1..p |-> s[k]] = [k \in 1..p |-> s[a[k]]]
    BY <1>11
  <2>2. [k \in 1..n |-> s[p + k]] = [k \in 1..n |-> s[b[k]]]
    BY <1>11
  <2> QED  BY <1>10, <2>1, <2>2
<1>14. [k \in 1..p |-> s[a[k]]] \o [k \in 1..n |-> s[b[k]]] = [k \in 1..(p + n) |-> s[at[k]]]
  <2> HIDE DEF a, b
  <2> QED  BY <1>1, <1>5, <1>11, PartsOfConcat
<1> HIDE DEF a, b, at
<1>15. [k \in 1..(p + n) |-> s[at[k]]] = [k \in 1..N |-> s[k]]
  BY <1>5, <1>12
<1>16. s = [k \in 1..N |-> s[k]]
  BY <1>1, SeqIs DEF N
<1> QED  BY <1>13, <1>14, <1>15, <1>16

----------------------------------------------------------------------------
(* with_records                                                            *)

\* The first n records, as they are when they are compacted once more.
Renewed(rs, n) == [i \in 1..n |-> Compacted(rs[i])]

\* Compacting once more changes nothing a store is judged by.
LEMMA RenewedIsGood ==
  ASSUME NEW rs, Good(rs), NEW n \in 0..Len(rs)
  PROVE  Good(Renewed(rs, n)) /\ Len(Renewed(rs, n)) = n
<1> DEFINE s == Renewed(rs, n)
<1>1. /\ DOMAIN rs = 1..Len(rs) /\ Len(rs) \in Nat /\ \A i \in DOMAIN rs : rs[i] \in Rec
      /\ n \in Nat /\ \A i \in 1..n : i \in DOMAIN rs
  BY DEF Good
<1>2. ASSUME NEW r \in Rec
      PROVE  /\ Compacted(r) \in Rec
             /\ Compacted(r).id = r.id /\ Compacted(r).group = r.group
             /\ Compacted(r).key = r.key /\ Compacted(r).confidence = r.confidence
             /\ Compacted(r).updated = r.updated
  <2>1. r \in RecordOf(Nat, Text) /\ r.text # "blank"
    BY DEF Rec, RecordOf, Text, Stored
  <2> QED  BY <2>1, CompactedIsTyped
<1>3. DOMAIN s = 1..n /\ \A i \in 1..n : s[i] = Compacted(rs[i])
  BY DEF Renewed
<1>4. s \in Seq(Rec) /\ Len(s) = n
  <2>1. s \in [1..n -> Rec]
    <3>1. \A i \in 1..n : Compacted(rs[i]) \in Rec
      BY <1>1, <1>2
    <3> QED  BY <3>1 DEF Renewed
  <2> HIDE DEF s
  <2> QED  BY <1>1, <2>1
<1> HIDE DEF s
<1>5. \A i \in DOMAIN s : /\ i \in DOMAIN rs /\ s[i].id = rs[i].id
                          /\ s[i].group = rs[i].group /\ s[i].key = rs[i].key
                          /\ s[i].confidence = rs[i].confidence /\ s[i].updated = rs[i].updated
  BY <1>1, <1>2, <1>3
<1>6. \A i, j \in DOMAIN s : /\ SameKey(s[i], s[j]) <=> SameKey(rs[i], rs[j])
                             /\ Higher(s[i], s[j]) <=> Higher(rs[i], rs[j])
                             /\ IsKeyed(s[i]) <=> IsKeyed(rs[i])
  BY <1>5 DEF SameKey, IsKeyed, Higher
<1>7. Distinct(s) /\ Together(s) /\ Ranked(s)
  BY <1>5, <1>6 DEF Good, Distinct, Together, Ranked
<1>8. Bounded(s)
  <2> SUFFICES ASSUME NEW g \in Group
               PROVE  /\ Cardinality(InGroup(s, g)) <= MaxRecords
                      /\ Cardinality(Loose(s, g)) <= MaxUnkeyed
    BY DEF Bounded
  <2>1. InGroup(s, g) \subseteq InGroup(rs, g) /\ Loose(s, g) \subseteq Loose(rs, g)
    BY <1>5, <1>6 DEF InGroup, Loose
  <2>2. IsFiniteSet(InGroup(rs, g)) /\ IsFiniteSet(Loose(rs, g))
    <3>1. IsFiniteSet(DOMAIN rs)
      BY <1>1, IntervalCounts
    <3>2. InGroup(rs, g) \in SUBSET DOMAIN rs /\ Loose(rs, g) \in SUBSET DOMAIN rs
      BY DEF InGroup, Loose
    <3> QED  BY <3>1, <3>2, FS_Subset
  <2>3. /\ Cardinality(InGroup(s, g)) <= Cardinality(InGroup(rs, g))
        /\ Cardinality(Loose(s, g)) <= Cardinality(Loose(rs, g))
        /\ IsFiniteSet(InGroup(s, g)) /\ IsFiniteSet(Loose(s, g))
    BY <2>1, <2>2, FS_Subset
  <2>4. /\ Cardinality(InGroup(s, g)) \in Nat /\ Cardinality(InGroup(rs, g)) \in Nat
        /\ Cardinality(Loose(s, g)) \in Nat /\ Cardinality(Loose(rs, g)) \in Nat
    BY <2>2, <2>3, FS_CardinalityType
  <2>5. Cardinality(InGroup(rs, g)) <= MaxRecords /\ Cardinality(Loose(rs, g)) <= MaxUnkeyed
    BY DEF Good, Bounded
  <2> QED  BY <2>3, <2>4, <2>5, PolicyAssumption
<1> QED  BY <1>4, <1>7, <1>8 DEF Good, s

\* When the records before it are there again, the next one goes where it was.
LEMMA ReloadStep ==
  ASSUME NEW rs, Good(rs), NEW n \in 1..Len(rs), NEW now
  PROVE  Upsert(Renewed(rs, n - 1), rs[n], now) = Renewed(rs, n)
<1> DEFINE q == n - 1
           s == Renewed(rs, n)
           t == Renewed(rs, q)
           r == Compacted(rs[n])
<1>1. /\ DOMAIN rs = 1..Len(rs) /\ Len(rs) \in Nat /\ \A i \in DOMAIN rs : rs[i] \in Rec
      /\ n \in DOMAIN rs /\ q \in Nat /\ q \in 0..Len(rs) /\ n \in 0..Len(rs) /\ n = q + 1
  BY DEF Good
<1>2. Good(s) /\ Len(s) = n /\ Good(t) /\ Len(t) = q
  <2> HIDE DEF q
  <2> QED  BY <1>1, RenewedIsGood
<1>3. r \in Rec /\ r.text # "blank"
  <2>1. rs[n] \in RecordOf(Nat, Text) /\ rs[n].text # "blank"
    BY <1>1 DEF Rec, RecordOf, Text, Stored
  <2> QED  BY <2>1, CompactedIsTyped
<1>4. s[n] = r /\ (\A i \in 1..q : t[i] = s[i]) /\ DOMAIN s = 1..n /\ DOMAIN t = 1..q
  BY <1>1 DEF Renewed
<1> HIDE DEF q, s, t, r
<1>5. Merge(t, r, now) = s
  <2>1. ~\E i \in DOMAIN t : SameKey(t[i], r)
    <3> SUFFICES ASSUME NEW i \in 1..q, SameKey(t[i], r) PROVE FALSE
      BY <1>4
    <3>1. i \in DOMAIN s /\ n \in DOMAIN s /\ i # n
      BY <1>1, <1>4
    <3> QED  BY <1>2, <1>4, <3>1 DEF Good, Distinct
  <2>2. Merge(t, r, now) = Append(t, r)
    BY <2>1 DEF Merge
  <2>3. t \in Seq(Rec) /\ s \in Seq(Rec)
    BY <1>2 DEF Good
  <2>4. /\ Append(t, r) \in Seq(Rec) /\ Len(Append(t, r)) = n
        /\ \A i \in 1..n : Append(t, r)[i] = s[i]
    BY <1>1, <1>2, <1>3, <1>4, <2>3
  <2>5. Append(t, r) = [i \in 1..n |-> Append(t, r)[i]] /\ s = [i \in 1..n |-> s[i]]
    BY <1>2, <2>3, <2>4, SeqIs
  <2> QED  BY <2>2, <2>4, <2>5
<1>6. Upsert(t, rs[n], now) = Regrouped(s, r.group)
  BY <1>3, <1>5 DEF Upsert, Regrouped, r, Compacted
<1>7. s # <<>> /\ s[Len(s)].group = r.group /\ r.group \in Group
  <2>1. Len(<<>>) = 0 /\ n # 0
    BY <1>1
  <2> QED  BY <1>2, <1>3, <1>4, <2>1 DEF Rec, RecordOf
<1>8. Regrouped(s, r.group) = s
  BY <1>2, <1>7, LastGroupStays
<1> QED  BY <1>6, <1>8 DEF s, t, q

\* What is written and read back is there again, in the same order, compacted once
\* more: no record is dropped, merged or moved.
LEMMA ReloadIs ==
  ASSUME NEW rs, Good(rs), NEW now
  PROVE  Reload(rs, now) = Renewed(rs, Len(rs))
<1> DEFINE N == Len(rs)
           Loads(f) == f = [n \in 0..N |-> IF n = 0 THEN <<>> ELSE Upsert(f[n - 1], rs[n], now)]
           h == [n \in 0..N |-> Renewed(rs, n)]
           load == CHOOSE f : Loads(f)
<1>1. N \in Nat
  BY DEF Good
<1>2. Reload(rs, now) = load[N]
  BY DEF Reload
<1>3. Renewed(rs, 0) = <<>>
  <2>1. Len(Renewed(rs, 0)) = 0 /\ Renewed(rs, 0) \in Seq(Rec)
    <3>1. 0 \in 0..Len(rs)
      BY <1>1
    <3> QED  BY <3>1, RenewedIsGood DEF Good
  <2> QED  BY <2>1
<1>4. \A n \in 1..N : Upsert(h[n - 1], rs[n], now) = h[n]
  <2> SUFFICES ASSUME NEW n \in 1..N PROVE Upsert(h[n - 1], rs[n], now) = h[n]
    OBVIOUS
  <2>1. h[n - 1] = Renewed(rs, n - 1) /\ h[n] = Renewed(rs, n)
    BY <1>1
  <2>2. Upsert(Renewed(rs, n - 1), rs[n], now) = Renewed(rs, n)
    BY ReloadStep
  <2> QED  BY <2>1, <2>2, Zenon
<1>5. Loads(h)
  <2> DEFINE e == [n \in 0..N |-> IF n = 0 THEN <<>> ELSE Upsert(h[n - 1], rs[n], now)]
  <2>1. ASSUME NEW n \in 0..N PROVE h[n] = e[n]
    <3>1. CASE n = 0
      BY <1>3, <3>1
    <3>2. CASE n # 0
      <4>1. n \in 1..N
        BY <1>1, <3>2
      <4>2. e[n] = Upsert(h[n - 1], rs[n], now)
        BY <3>2
      <4> QED  BY <1>4, <4>1, <4>2
    <3> QED  BY <3>1, <3>2
  <2>2. h = [n \in 0..N |-> h[n]] /\ e = [n \in 0..N |-> e[n]]
    OBVIOUS
  <2> HIDE DEF h, e
  <2>3. h = e
    BY <2>1, <2>2
  <2> QED  BY <2>3 DEF e
<1>6. Loads(load)
  <2> HIDE DEF Loads, h
  <2> QED  BY <1>5
<1>7. /\ load[0] = h[0]
      /\ \A n \in 1..N : load[n] = Upsert(load[n - 1], rs[n], now)
  <2>1. \A n \in 0..N : load[n] = IF n = 0 THEN <<>> ELSE Upsert(load[n - 1], rs[n], now)
    BY <1>6
  <2>2. h[0] = <<>> /\ 0 \in 0..N
    BY <1>1, <1>3
  <2> HIDE DEF load, h
  <2>3. load[0] = h[0]
    BY <2>1, <2>2
  <2>4. \A n \in 1..N : n \in 0..N /\ n # 0
    BY <1>1
  <2> QED  BY <2>1, <2>3, <2>4
<1> DEFINE K == {k \in 0..N : load[k] = h[k]}
<1> HIDE DEF load, h, Loads, N
<1>8. 0 \in K
  BY <1>1, <1>7
<1>9. ASSUME NEW k \in 0..N, k \in K, k # N PROVE k + 1 \in K
  <2> DEFINE d == k + 1
  <2>1. d \in 1..N /\ d \in 0..N /\ d - 1 = k
    BY <1>1, <1>9
  <2> HIDE DEF d
  <2>2. load[d] = h[d]
    BY <1>4, <1>7, <1>9, <2>1
  <2> QED  BY <2>1, <2>2 DEF d
<1> HIDE DEF K
<1>10. \A k \in 0..N : k \in K
  BY <1>1, <1>8, <1>9, UpTo
<1>11. load[N] = h[N]
  BY <1>1, <1>10 DEF K
<1>12. h[N] = Renewed(rs, N)
  BY <1>1 DEF h
<1> QED  BY <1>2, <1>11, <1>12 DEF N

----------------------------------------------------------------------------
(* What a record is numbered with, and the records of one group            *)

Numbered(rs, S) == \A i \in DOMAIN rs : rs[i].id \in S /\ rs[i].content \in S

LEMMA MergeIsNumbered ==
  ASSUME NEW rs \in Seq(Rec), NEW r \in Rec, NEW now, NEW S, Numbered(rs, S),
         r.id \in S, r.content \in S
  PROVE  Numbered(Merge(rs, r, now), S)
<1>1. CASE \E i \in DOMAIN rs : SameKey(rs[i], r)
  <2> DEFINE First(i) == SameKey(rs[i], r) /\ \A j \in 1..(i - 1) : ~SameKey(rs[j], r)
             i == CHOOSE k \in DOMAIN rs : First(k)
             new == [r EXCEPT !.id = rs[i].id, !.updated = now]
  <2>1. Merge(rs, r, now) = [rs EXCEPT ![i] = new]
    BY <1>1 DEF Merge
  <2>2. i \in DOMAIN rs => new.id \in S /\ new.content \in S
    <3> HIDE DEF i
    <3> QED  BY DEF Numbered, Rec, RecordOf
  <2> HIDE DEF i, new
  <2>3. ASSUME NEW j \in DOMAIN rs
        PROVE  [rs EXCEPT ![i] = new][j].id \in S /\ [rs EXCEPT ![i] = new][j].content \in S
    <3>1. CASE j = i
      <4>1. [rs EXCEPT ![i] = new][j] = new
        BY <3>1
      <4> QED  BY <2>2, <3>1, <4>1
    <3>2. CASE j # i
      <4>1. [rs EXCEPT ![i] = new][j] = rs[j]
        BY <3>2
      <4> QED  BY <4>1 DEF Numbered
    <3> QED  BY <3>1, <3>2
  <2>4. DOMAIN [rs EXCEPT ![i] = new] = DOMAIN rs
    OBVIOUS
  <2> QED  BY <2>1, <2>3, <2>4 DEF Numbered
<1>2. CASE ~\E i \in DOMAIN rs : SameKey(rs[i], r)
  <2>1. Merge(rs, r, now) = Append(rs, r)
    BY <1>2 DEF Merge
  <2>2. \A i \in DOMAIN Append(rs, r) :
          \/ i \in DOMAIN rs /\ Append(rs, r)[i] = rs[i]
          \/ Append(rs, r)[i] = r
    OBVIOUS
  <2> QED  BY <2>1, <2>2 DEF Numbered
<1> QED  BY <1>1, <1>2

\* An upsert brings in no number but that of its record.
LEMMA UpsertIsNumbered ==
  ASSUME NEW rs, Good(rs), NEW rec \in RecordOf(Nat, Text), Fresh(rs, rec), NEW now \in Nat,
         NEW S, Numbered(rs, S), rec.id \in S, rec.content \in S
  PROVE  Numbered(Upsert(rs, rec, now), S)
<1>1. CASE rec.text = "blank" /\ Upsert(rs, rec, now) = rs
  BY <1>1
<1>2. CASE LET m == Merge(rs, Compacted(rec), now)
           IN  /\ rec.text # "blank"
               /\ m \in Seq(Rec) /\ Distinct(m) /\ Touches(rs, m, rec.group)
               /\ Upsert(rs, rec, now) = Regrouped(m, rec.group)
  <2> DEFINE r == Compacted(rec)
             m == Merge(rs, r, now)
             g == rec.group
  <2>1. m \in Seq(Rec) /\ Upsert(rs, rec, now) = Regrouped(m, g)
    BY <1>2
  <2>2. r \in Rec /\ r.id \in S /\ r.content \in S
    <3>1. r \in Rec /\ r.id = rec.id
      BY <1>2, CompactedIsTyped
    <3>2. r.content = rec.content
      BY DEF Compacted, RecordOf
    <3> QED  BY <3>1, <3>2
  <2> HIDE DEF r, g
  <2>3. Numbered(m, S)
    BY <2>2, MergeIsNumbered DEF Good
  <2> HIDE DEF m
  <2>4. PICK p, n, at : Regroups(m, g, Regrouped(m, g), p, n, at)
    BY <2>1, RegroupedShape
  <2> DEFINE res == Regrouped(m, g)
  <2> HIDE DEF res
  <2>5. \A k \in DOMAIN res : at[k] \in DOMAIN m /\ res[k] = m[at[k]]
    BY <2>4 DEF Regroups, res
  <2>6. Numbered(res, S)
    BY <2>3, <2>5 DEF Numbered
  <2> QED  BY <2>1, <2>6 DEF res
<1> QED  BY <1>1, <1>2, UpsertShape

\* s has the records of group g of rs, each once, and as many without a key.
Gathers(at, rs, g, s) ==
  /\ Enumerates(at, InGroup(rs, g)) /\ Cardinality(InGroup(rs, g)) \in Nat
  /\ s = [k \in 1..Cardinality(InGroup(rs, g)) |-> rs[at[k]]]
  /\ Len(s) = Cardinality(InGroup(rs, g))
  /\ Cardinality({k \in DOMAIN s : ~IsKeyed(s[k])}) = Cardinality(Loose(rs, g))

LEMMA OfGroupIs ==
  ASSUME NEW rs \in Seq(Rec), NEW g, NEW s, s = OfGroup(rs, g)
  PROVE  \E at : Gathers(at, rs, g, s)
<1> DEFINE P == InGroup(rs, g)
           n == Cardinality(P)
<1>1. P \in SUBSET Nat /\ IsFiniteSet(P) /\ n \in Nat
  <2>1. DOMAIN rs = 1..Len(rs) /\ Len(rs) \in Nat
    OBVIOUS
  <2>2. IsFiniteSet(DOMAIN rs)
    BY <2>1, IntervalCounts
  <2>3. P \in SUBSET DOMAIN rs
    BY DEF InGroup
  <2>4. IsFiniteSet(P)
    BY <2>2, <2>3, FS_Subset
  <2>5. DOMAIN rs \subseteq Nat
    BY <2>1
  <2> HIDE DEF P
  <2> QED  BY <2>3, <2>4, <2>5, FS_CardinalityType
<1> HIDE DEF P
<1>2. PICK at : Enumerates(at, P) /\ Picked(rs, P) = [k \in 1..n |-> rs[at[k]]]
  BY <1>1, PickedInOrder
<1>3. s = [k \in 1..n |-> rs[at[k]]]
  BY <1>2 DEF OfGroup, P
<1> HIDE DEF n
<1>4. \A k \in 1..n : at[k] \in P /\ at[k] \in DOMAIN rs /\ rs[at[k]] \in Rec
  BY <1>2 DEF Enumerates, n, P, InGroup
<1>5. DOMAIN s = 1..n /\ Len(s) = n /\ \A k \in 1..n : s[k] = rs[at[k]]
  <2>1. s \in [1..n -> Rec]
    BY <1>3, <1>4
  <2> QED  BY <1>1, <1>3, <2>1
<1>6. Cardinality({k \in DOMAIN s : ~IsKeyed(s[k])}) = Cardinality(Loose(rs, g))
  <2>1. {k \in DOMAIN s : ~IsKeyed(s[k])} = {k \in 1..n : at[k] \in Loose(rs, g)}
    BY <1>4, <1>5 DEF Loose, P
  <2>2. Loose(rs, g) \in SUBSET P
    BY DEF Loose, P
  <2>3. Cardinality({k \in 1..Cardinality(P) : at[k] \in Loose(rs, g)}) = Cardinality(Loose(rs, g))
    BY <1>1, <1>2, <2>2, CountsAlike
  <2> QED  BY <2>1, <2>3 DEF n
<1> QED  BY <1>1, <1>2, <1>3, <1>5, <1>6 DEF P, n, Gathers

\* The group of an upsert goes last, and what is before it keeps its order.
LEMMA UpsertGoesLast ==
  ASSUME NEW rs, Good(rs), NEW rec \in RecordOf(Nat, Text), Fresh(rs, rec), NEW now \in Nat,
         NEW res, res = Upsert(rs, rec, now)
  PROVE  \/ rec.text = "blank" /\ res = rs
         \/ /\ rec.text # "blank"
            /\ \A k, l \in DOMAIN res : k < l =>
                 \/ res[l].group = rec.group
                 \/ \E i, j \in DOMAIN rs : /\ i < j /\ rs[i] = res[k] /\ rs[j] = res[l]
                                            /\ rs[i].group # rec.group /\ rs[j].group # rec.group
<1>1. CASE rec.text = "blank" /\ Upsert(rs, rec, now) = rs
  BY <1>1
<1>2. CASE LET m == Merge(rs, Compacted(rec), now)
           IN  /\ rec.text # "blank"
               /\ m \in Seq(Rec) /\ Distinct(m) /\ Touches(rs, m, rec.group)
               /\ Upsert(rs, rec, now) = Regrouped(m, rec.group)
  <2> DEFINE m == Merge(rs, Compacted(rec), now)
             g == rec.group
  <2>1. m \in Seq(Rec) /\ Touches(rs, m, g) /\ res = Regrouped(m, g) /\ rec.text # "blank"
    BY <1>2
  <2> HIDE DEF m, g
  <2>2. PICK p, n, at : Regroups(m, g, res, p, n, at)
    BY <2>1, RegroupedShape
  <2>3. /\ p \in Nat /\ n \in Nat /\ DOMAIN res = 1..(p + n)
        /\ \A k \in 1..(p + n) : /\ at[k] \in DOMAIN m /\ res[k] = m[at[k]]
                                 /\ res[k].group = g <=> k > p
        /\ \A k, l \in 1..(p + n) : k < l /\ l <= p => at[k] < at[l]
    BY <2>2, PolicyAssumption DEF Regroups
  <2>4. \A k \in 1..(p + n) : k <= p => /\ at[k] \in DOMAIN rs /\ rs[at[k]] = res[k]
                                        /\ res[k].group # g
    <3> SUFFICES ASSUME NEW k \in 1..(p + n), k <= p
                 PROVE  at[k] \in DOMAIN rs /\ rs[at[k]] = res[k] /\ res[k].group # g
      OBVIOUS
    <3>1. at[k] \in DOMAIN m /\ res[k] = m[at[k]] /\ m[at[k]].group # g
      BY <2>3
    <3> QED  BY <2>1, <3>1 DEF Touches
  <2>5. ASSUME NEW k \in DOMAIN res, NEW l \in DOMAIN res, k < l, res[l].group # g
        PROVE  \E i, j \in DOMAIN rs : /\ i < j /\ rs[i] = res[k] /\ rs[j] = res[l]
                                       /\ rs[i].group # g /\ rs[j].group # g
    <3>1. k \in 1..(p + n) /\ l \in 1..(p + n) /\ l <= p /\ k <= p /\ at[k] < at[l]
      BY <2>3, <2>5
    <3> QED  BY <2>4, <3>1
  <2> QED  BY <2>1, <2>5 DEF g
<1> QED  BY <1>1, <1>2, UpsertShape
=============================================================================
