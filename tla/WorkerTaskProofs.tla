--------------------------- MODULE WorkerTaskProofs ---------------------------
(***************************************************************************)
(* The theorems about WorkerTask, and about CognitionCall, which it is     *)
(* composed with: the calls of the model are justified, a task is reported *)
(* once and in order, and what becomes of the skills is in the report and  *)
(* does it no harm.                                                        *)
(***************************************************************************)
EXTENDS WorkerTask, FiniteSetTheorems, NaturalsInduction, TLAPS

----------------------------------------------------------------------------
(* Counting                                                                *)

\* Induction up to n, with a set in the place of the predicate.
LEMMA UpTo ==
  ASSUME NEW n \in Nat, NEW K, 0 \in K, \A k \in 0..n : k \in K /\ k # n => k + 1 \in K
  PROVE  \A k \in 0..n : k \in K
<1> DEFINE T == {k \in 0..n : k \notin K}
<1> SUFFICES ASSUME T # {} PROVE FALSE
  OBVIOUS
<1>1. T \subseteq Nat
  OBVIOUS
<1>2. PICK least \in T : \A k \in T : <<k, least>> \notin OpToRel(<, Nat)
  <2> HIDE DEF T
  <2> QED  BY <1>1, NatLessThanWellFounded, WFMin, Zenon
<1>5. \A k \in T : ~(k < least)
  <2> HIDE DEF T
  <2> QED  BY <1>1, <1>2, Zenon DEF OpToRel
<1>3. least \in 1..n /\ least \notin K /\ least - 1 \in 0..n
  OBVIOUS
<1>4. least - 1 \notin T
  BY <1>1, <1>3, <1>5
<1> QED  BY <1>3, <1>4

----------------------------------------------------------------------------
(* Lists that grow                                                         *)

IsList(s) == \E T : s \in Seq(T)

\* b is a with some of the texts at its end.
Grown(a, b, texts) ==
  /\ IsList(b)
  /\ a # <<>> => b # <<>>
  /\ Joined(a) \subseteq Joined(b) /\ Joined(b) \subseteq Joined(a) \cup texts
  /\ \A text : Shows(a, text) => Shows(b, text)

LEMMA GrownSame == ASSUME NEW a, IsList(a), NEW texts PROVE Grown(a, a, texts)
  BY DEF Grown

LEMMA GrownOn ==
  ASSUME NEW a, NEW b, NEW c, NEW texts, Grown(a, b, texts), Grown(b, c, texts)
  PROVE  Grown(a, c, texts)
  BY DEF Grown

LEMMA Pushed ==
  ASSUME NEW items, IsList(items), NEW text, NEW texts, text \subseteq texts
  PROVE  /\ Grown(items, PushUnique(items, text), texts)
         /\ Shows(PushUnique(items, text), text)
<1> DEFINE pushed == PushUnique(items, text)
<1>1. CASE Shows(items, text)
  <2>1. pushed = items
    BY <1>1 DEF PushUnique, Shows
  <2> QED  BY <1>1, <2>1, GrownSame
<1>2. CASE ~Shows(items, text)
  <2>1. pushed = Append(items, text)
    BY <1>2 DEF PushUnique, Shows
  <2>2. PICK T : items \in Seq(T)
    BY DEF IsList
  <2> DEFINE U == T \cup {text}
  <2>3. items \in Seq(U) /\ text \in U
    <3>1. items \in [1..Len(items) -> U] /\ Len(items) \in Nat
      BY <2>2
    <3> HIDE DEF U
    <3>2. items \in Seq(U)
      BY <3>1, <2>2
    <3> QED  BY <3>2 DEF U
  <2> HIDE DEF U
  <2>4. /\ pushed \in Seq(U) /\ DOMAIN pushed = 1..(Len(items) + 1)
        /\ pushed[Len(items) + 1] = text
        /\ DOMAIN items = 1..Len(items)
        /\ \A i \in DOMAIN items : i \in DOMAIN pushed /\ pushed[i] = items[i]
        /\ pushed # <<>>
    BY <2>1, <2>3
  <2>5. \A i \in DOMAIN pushed : i \in DOMAIN items \/ pushed[i] = text
    BY <2>4, <2>3
  <2> HIDE DEF pushed
  <2>6. Joined(pushed) = Joined(items) \cup text
    <3>1. \A x \in Joined(pushed) : x \in Joined(items) \cup text
      BY <2>4, <2>5 DEF Joined
    <3>2. \A x \in Joined(items) \cup text : x \in Joined(pushed)
      <4>1. Len(items) + 1 \in DOMAIN pushed
        BY <2>4, <2>3
      <4> QED  BY <2>4, <4>1 DEF Joined
    <3> QED  BY <3>1, <3>2
  <2>7. Shows(pushed, text)
    BY <2>4, <2>3 DEF Shows
  <2>8. \A t : Shows(items, t) => Shows(pushed, t)
    BY <2>4 DEF Shows
  <2> QED  BY <2>4, <2>6, <2>7, <2>8 DEF Grown, IsList, pushed
<1> QED  BY <1>1, <1>2


----------------------------------------------------------------------------
(* What is picked                                                          *)

LEMMA PickedIsList ==
  ASSUME NEW s, NEW P, IsFiniteSet(P)
  PROVE  /\ Cardinality(P) \in Nat /\ IsList(Picked(s, P)) /\ Len(Picked(s, P)) = Cardinality(P)
         /\ DOMAIN Picked(s, P) = 1..Cardinality(P)
<1> DEFINE c == Cardinality(P)
           f == Picked(s, P)
           T == {f[k] : k \in 1..c}
<1>1. c \in Nat
  BY FS_CardinalityType
<1>2. f = [k \in 1..c |-> f[k]]
  BY DEF Picked, Arranged
<1> HIDE DEF f, c
<1>3. f \in [1..c -> T]
  BY <1>2
<1> HIDE DEF T
<1>4. f \in Seq(T) /\ Len(f) = c /\ DOMAIN f = 1..c
  BY <1>1, <1>3
<1> QED  BY <1>1, <1>4 DEF IsList, f, c

\* An element behind all others is appended.
LEMMA PickedNext ==
  ASSUME NEW s, NEW P \in SUBSET Nat, IsFiniteSet(P), NEW n \in Nat, \A i \in P : i < n
  PROVE  IsFiniteSet(P \cup {n}) /\ Picked(s, P \cup {n}) = Append(Picked(s, P), s[n])
<1> DEFINE Q == P \cup {n}
           c == Cardinality(P)
           below(S, i) == {j \in S : j < i}
<1>1. c \in Nat
  BY FS_CardinalityType
<1>2. IsFiniteSet(Q) /\ Cardinality(Q) = c + 1
  <2>1. n \notin P
    OBVIOUS
  <2> QED  BY <2>1, FS_AddElement
<1>3. \A i \in P : below(Q, i) = below(P, i)
  OBVIOUS
<1>4. below(Q, n) = P
  <2>1. ~(n < n)
    OBVIOUS
  <2>2. \A x : x \in below(Q, n) <=> x \in P
    BY <2>1
  <2> HIDE DEF below, Q
  <2> QED  BY <2>2
<1>5. \A i \in P : Cardinality(below(P, i)) \in Nat /\ Cardinality(below(P, i)) < c
  <2> SUFFICES ASSUME NEW i \in P
               PROVE  Cardinality(below(P, i)) \in Nat /\ Cardinality(below(P, i)) < c
    OBVIOUS
  <2> DEFINE R == P \ {i}
  <2>1. IsFiniteSet(R) /\ Cardinality(R) = c - 1
    BY FS_RemoveElement
  <2>2. below(P, i) \in SUBSET R
    OBVIOUS
  <2> HIDE DEF R, below
  <2>3. IsFiniteSet(below(P, i)) /\ Cardinality(below(P, i)) <= Cardinality(R)
    BY <2>1, <2>2, FS_Subset
  <2>4. Cardinality(below(P, i)) \in Nat
    BY <2>3, FS_CardinalityType
  <2> HIDE DEF c
  <2> QED  BY <1>1, <2>1, <2>3, <2>4
<1> DEFINE at(S, k) == CHOOSE i \in S : Cardinality(below(S, i)) = k - 1
<1>6. \A k \in 1..c : at(Q, k) = at(P, k)
  <2> SUFFICES ASSUME NEW k \in 1..c PROVE at(Q, k) = at(P, k)
    OBVIOUS
  <2> HIDE DEF c, below
  <2>1. \A i : /\ i \in Q /\ Cardinality(below(Q, i)) = k - 1
           <=> /\ i \in P /\ Cardinality(below(P, i)) = k - 1
    <3>1. Cardinality(below(Q, n)) # k - 1
      BY <1>1, <1>4 DEF c
    <3> QED  BY <1>3, <3>1
  <2> HIDE DEF Q
  <2> QED  BY <2>1
<1>7. at(Q, c + 1) = n
  <2>1. n \in Q /\ Cardinality(below(Q, n)) = (c + 1) - 1
    BY <1>1, <1>4
  <2>2. \A i \in Q : Cardinality(below(Q, i)) = (c + 1) - 1 => i = n
    BY <1>1, <1>3, <1>5
  <2> HIDE DEF Q, below, c
  <2> QED  BY <2>1, <2>2
<1>8. /\ Picked(s, Q) = [k \in 1..(c + 1) |-> s[at(Q, k)]]
      /\ Picked(s, P) = [k \in 1..c |-> s[at(P, k)]]
  BY <1>2 DEF Picked, Arranged
<1>9. IsList(Picked(s, P)) /\ Len(Picked(s, P)) = c
  BY PickedIsList
<1> HIDE DEF at, Q, c
<1>10. Append(Picked(s, P), s[n]) = [k \in 1..(c + 1) |-> IF k = c + 1 THEN s[n] ELSE Picked(s, P)[k]]
  BY <1>9 DEF IsList
<1>11. \A k \in 1..(c + 1) : s[at(Q, k)] = IF k = c + 1 THEN s[n] ELSE Picked(s, P)[k]
  BY <1>1, <1>6, <1>7, <1>8
<1>12. [k \in 1..(c + 1) |-> s[at(Q, k)]] =
         [k \in 1..(c + 1) |-> IF k = c + 1 THEN s[n] ELSE Picked(s, P)[k]]
  BY <1>11
<1> QED  BY <1>2, <1>8, <1>10, <1>12 DEF Q

\* Nothing is picked that is not there.
LEMMA PickedFrom ==
  ASSUME NEW s, NEW n \in Nat, NEW P \in SUBSET (1..n)
  PROVE  /\ IsFiniteSet(P)
         /\ \A j \in DOMAIN Picked(s, P) : \E i \in P : Picked(s, P)[j] = s[i]
<1> DEFINE Q(k) == P \cap 1..k
           Fine(k) == /\ IsFiniteSet(Q(k))
                      /\ \A j \in DOMAIN Picked(s, Q(k)) : \E i \in P : Picked(s, Q(k))[j] = s[i]
           K == {k \in 0..n : Fine(k)}
<1>1. Fine(0)
  <2>1. Q(0) = {}
    OBVIOUS
  <2>2. IsFiniteSet({}) /\ Cardinality({}) = 0
    BY FS_EmptySet
  <2>3. DOMAIN Picked(s, {}) = {}
    BY <2>2, PickedIsList
  <2> HIDE DEF Q
  <2> QED  BY <2>1, <2>2, <2>3
<1>2. ASSUME NEW k \in 0..n, Fine(k), k # n PROVE Fine(k + 1)
  <2> DEFINE old == Q(k)
             new == Q(k + 1)
  <2>1. CASE k + 1 \notin P
    <3>1. new = old
      BY <2>1
    <3> QED  BY <1>2, <3>1
  <2>2. CASE k + 1 \in P
    <3>1. /\ new = old \cup {k + 1} /\ old \in SUBSET Nat /\ k + 1 \in Nat
          /\ \A i \in old : i < k + 1
      BY <2>2
    <3> HIDE DEF Q
    <3>2. /\ IsFiniteSet(old)
          /\ \A j \in DOMAIN Picked(s, old) : \E i \in P : Picked(s, old)[j] = s[i]
      BY <1>2
    <3> HIDE DEF old, new
    <3>3. IsFiniteSet(new) /\ Picked(s, new) = Append(Picked(s, old), s[k + 1])
      BY <3>1, <3>2, PickedNext
    <3>4. IsList(Picked(s, old))
      BY <3>2, PickedIsList
    <3> DEFINE a == Picked(s, old)
               b == Picked(s, new)
    <3> HIDE DEF a, b
    <3>5. b = Append(a, s[k + 1]) /\ IsList(a)
      BY <3>3, <3>4 DEF a, b
    <3>6. \A j \in DOMAIN b : (j \in DOMAIN a /\ b[j] = a[j]) \/ b[j] = s[k + 1]
      BY <3>5 DEF IsList
    <3>7. \A j \in DOMAIN b : \E i \in P : b[j] = s[i]
      BY <2>2, <3>2, <3>6 DEF a
    <3> QED  BY <3>3, <3>7 DEF b, new
  <2> QED  BY <2>1, <2>2
<1> HIDE DEF Fine
<1>3. \A k \in 0..n : k \in K
  <2>1. 0 \in K /\ \A k \in 0..n : k \in K /\ k # n => k + 1 \in K
    BY <1>1, <1>2
  <2> HIDE DEF K
  <2> QED  BY <2>1, UpTo
<1>4. Fine(n)
  <2>1. n \in K
    BY <1>3
  <2> QED  BY <2>1
<1>5. Q(n) = P
  OBVIOUS
<1> HIDE DEF Q
<1> QED  BY <1>4, <1>5 DEF Fine

----------------------------------------------------------------------------
(* Merging the results of skills                                           *)

Success(r) == r.status = "Success"

\* What the evidence from the results says, and what the risks and the questions do.
CitedOf(rs) == UNION {EvidenceText(rs[i]) : i \in DOMAIN rs}

SaidOf(rs) ==
  UNION {RiskText(rs[i]) \cup QuestionText(rs[i]) : i \in DOMAIN rs}

\* merge_skill_results after the first k results: of the three lists each has grown,
\* or is what it was if none of these results is for it, and tells of each of them.
GrownLists(lists, merged, rs, k) ==
  /\ Grown(lists.evidence, merged.evidence, CitedOf(rs))
  /\ Grown(lists.risks, merged.risks, SaidOf(rs))
  /\ Grown(lists.open_questions, merged.open_questions, SaidOf(rs))
  /\ (\A i \in 1..k : ~Success(rs[i])) => merged.evidence = lists.evidence
  /\ (\A i \in 1..k : Success(rs[i])) =>
       merged.risks = lists.risks /\ merged.open_questions = lists.open_questions
  /\ \A i \in 1..k : IsShown(rs[i], merged)

ThreeLists == {"evidence", "risks", "open_questions"}

SameBesides(lists, merged) ==
  /\ DOMAIN merged = DOMAIN lists
  /\ \A f \in DOMAIN lists \ ThreeLists : merged[f] = lists[f]

\* The lists are those of a report or of a role output.
HasLists(lists) ==
  /\ ThreeLists \subseteq DOMAIN lists
  /\ IsList(lists.evidence) /\ IsList(lists.risks) /\ IsList(lists.open_questions)

MergedLists(lists, merged, rs, k) ==
  HasLists(merged) /\ SameBesides(lists, merged) /\ GrownLists(lists, merged, rs, k)

LEMMA MergedNone ==
  ASSUME NEW lists, HasLists(lists), NEW rs PROVE MergedLists(lists, lists, rs, 0)
<1>1. SameBesides(lists, lists)
  BY DEF SameBesides
<1>2. GrownLists(lists, lists, rs, 0)
  BY GrownSame DEF GrownLists, HasLists
<1> QED  BY <1>1, <1>2 DEF MergedLists

\* One turn of the loop.
LEMMA MergedNext ==
  ASSUME NEW rs, IsList(rs), NEW lists, NEW m, NEW k \in Nat, k + 1 \in DOMAIN rs,
         MergedLists(lists, m, rs, k)
  PROVE  MergedLists(lists, MergeInto(m, rs[k + 1]), rs, k + 1)
<1> DEFINE r == rs[k + 1]
           n == MergeInto(m, r)
           shown == CitedOf(rs)
           said == SaidOf(rs)
<1>1. /\ EvidenceText(r) \subseteq shown
      /\ RiskText(r) \subseteq said /\ QuestionText(r) \subseteq said
  BY DEF SaidOf, CitedOf
<1>2. /\ HasLists(m) /\ SameBesides(lists, m)
      /\ Grown(lists.evidence, m.evidence, shown)
      /\ Grown(lists.risks, m.risks, said)
      /\ Grown(lists.open_questions, m.open_questions, said)
      /\ (\A i \in 1..k : ~Success(rs[i])) => m.evidence = lists.evidence
      /\ (\A i \in 1..k : Success(rs[i])) =>
           m.risks = lists.risks /\ m.open_questions = lists.open_questions
      /\ \A i \in 1..k : IsShown(rs[i], m)
  BY DEF MergedLists, GrownLists
<1>3. 1..(k + 1) = 1..k \cup {k + 1}
  OBVIOUS
<1> HIDE DEF r, shown, said
<1> DEFINE e == IF Success(r) THEN PushUnique(m.evidence, EvidenceText(r)) ELSE m.evidence
           ri == IF Success(r) THEN m.risks ELSE PushUnique(m.risks, RiskText(r))
           q == IF Success(r) THEN m.open_questions
                ELSE PushUnique(m.open_questions, QuestionText(r))
<1>4. /\ n.evidence = e /\ n.risks = ri /\ n.open_questions = q
      /\ DOMAIN n = DOMAIN m
      /\ \A f \in DOMAIN m \ ThreeLists : n[f] = m[f]
  BY <1>2 DEF HasLists, ThreeLists, MergeInto, Success
<1>5. /\ Grown(m.evidence, e, shown)
      /\ Success(r) => Shows(e, EvidenceText(r))
  <2>1. IsList(m.evidence)
    BY <1>2 DEF HasLists
  <2> QED  BY <2>1, <1>1, Pushed, GrownSame
<1>6. /\ Grown(m.risks, ri, said)
      /\ ~Success(r) => Shows(ri, RiskText(r))
  <2>1. IsList(m.risks)
    BY <1>2 DEF HasLists
  <2> QED  BY <2>1, <1>1, Pushed, GrownSame
<1>7. /\ Grown(m.open_questions, q, said)
      /\ ~Success(r) => Shows(q, QuestionText(r))
  <2>1. IsList(m.open_questions)
    BY <1>2 DEF HasLists
  <2> QED  BY <2>1, <1>1, Pushed, GrownSame
<1> HIDE DEF n, e, ri, q
<1>8. HasLists(n) /\ SameBesides(lists, n)
  BY <1>2, <1>4, <1>5, <1>6, <1>7 DEF HasLists, SameBesides, Grown
<1>9. IsShown(r, n) /\ \A i \in 1..k : IsShown(rs[i], n)
  <2>1. IsShown(r, n)
    BY <1>4, <1>5, <1>6, <1>7 DEF IsShown, Success
  <2>2. \A text : /\ Shows(m.evidence, text) => Shows(n.evidence, text)
                  /\ Shows(m.risks, text) => Shows(n.risks, text)
                  /\ Shows(m.open_questions, text) => Shows(n.open_questions, text)
    BY <1>4, <1>5, <1>6, <1>7 DEF Grown
  <2> QED  BY <1>2, <2>1, <2>2 DEF IsShown
<1>10. /\ Grown(lists.evidence, n.evidence, shown)
       /\ Grown(lists.risks, n.risks, said)
       /\ Grown(lists.open_questions, n.open_questions, said)
  BY <1>2, <1>4, <1>5, <1>6, <1>7, GrownOn
<1>11. (\A i \in 1..(k + 1) : ~Success(rs[i])) => n.evidence = lists.evidence
  BY <1>2, <1>3, <1>4 DEF e, r
<1>12. (\A i \in 1..(k + 1) : Success(rs[i])) =>
         n.risks = lists.risks /\ n.open_questions = lists.open_questions
  BY <1>2, <1>3, <1>4 DEF ri, q, r
<1>13. \A i \in 1..(k + 1) : IsShown(rs[i], n)
  BY <1>3, <1>9 DEF r
<1>14. GrownLists(lists, n, rs, k + 1)
  BY <1>10, <1>11, <1>12, <1>13 DEF GrownLists, shown, said
<1> QED  BY <1>8, <1>14 DEF MergedLists, n, r

\* The loop: what the first k turns make of the lists.
IsMerging(f, lists, rs, k) ==
  f = [i \in 0..k |-> IF i = 0 THEN lists ELSE MergeInto(f[i - 1], rs[i])]

LEMMA MergingExists ==
  ASSUME NEW lists, NEW rs, NEW n \in Nat
  PROVE  \E f : IsMerging(f, lists, rs, n)
<1> DEFINE K == {k \in 0..n : \E f : IsMerging(f, lists, rs, k)}
<1>1. 0 \in K
  <2>1. IsMerging([i \in 0..0 |-> lists], lists, rs, 0)
    BY DEF IsMerging
  <2> QED  BY <2>1
<1>2. ASSUME NEW k \in 0..n, k \in K, k # n PROVE k + 1 \in K
  <2>1. PICK f : IsMerging(f, lists, rs, k)
    BY <1>2
  <2> DEFINE g == [i \in 0..(k + 1) |->
                     IF i = k + 1 THEN MergeInto(f[k], rs[k + 1]) ELSE f[i]]
  <2>2. ASSUME NEW i \in 0..(k + 1)
        PROVE  g[i] = IF i = 0 THEN lists ELSE MergeInto(g[i - 1], rs[i])
    <3>1. CASE i = k + 1
      BY <3>1
    <3>2. CASE i # k + 1
      <4>1. i \in 0..k /\ (i # 0 => i - 1 \in 0..k /\ i - 1 # k + 1 /\ i - 1 \in 0..(k + 1))
        BY <3>2
      <4>2. f[i] = IF i = 0 THEN lists ELSE MergeInto(f[i - 1], rs[i])
        BY <2>1, <4>1 DEF IsMerging
      <4> QED  BY <3>2, <4>1, <4>2
    <3> QED  BY <3>1, <3>2
  <2>3. IsMerging(g, lists, rs, k + 1)
    <3>1. g = [i \in 0..(k + 1) |-> g[i]]
      OBVIOUS
    <3> HIDE DEF g
    <3>2. [i \in 0..(k + 1) |-> g[i]] =
            [i \in 0..(k + 1) |-> IF i = 0 THEN lists ELSE MergeInto(g[i - 1], rs[i])]
      BY <2>2
    <3> QED  BY <3>1, <3>2 DEF IsMerging
  <2> QED  BY <1>2, <2>3
<1> HIDE DEF K
<1>3. n \in K
  BY <1>1, <1>2, UpTo
<1> QED  BY <1>3 DEF K

\* merge_skill_results of all results, as far as the three lists are concerned.
LEMMA MergedIs ==
  ASSUME NEW rs, IsList(rs), NEW lists, HasLists(lists)
  PROVE  MergedLists(lists, Merged(lists, rs), rs, Len(rs))
<1> DEFINE n == Len(rs)
           after == CHOOSE f : IsMerging(f, lists, rs, n)
<1>1. n \in Nat /\ DOMAIN rs = 1..n
  BY DEF IsList
<1>2. Merged(lists, rs) = after[n]
  BY Zenon DEF Merged, IsMerging
<1>3. IsMerging(after, lists, rs, n)
  <2>1. \E f : IsMerging(f, lists, rs, n)
    BY <1>1, MergingExists
  <2> QED  BY <2>1
<1> HIDE DEF n, after
<1>4. \A i \in 0..n : after[i] = IF i = 0 THEN lists ELSE MergeInto(after[i - 1], rs[i])
  BY <1>3 DEF IsMerging
<1> DEFINE K == {k \in 0..n : MergedLists(lists, after[k], rs, k)}
<1>5. 0 \in K
  BY <1>1, <1>4, MergedNone
<1>6. ASSUME NEW k \in 0..n, k \in K, k # n PROVE k + 1 \in K
  <2>1. k + 1 \in 0..n /\ k + 1 # 0 /\ (k + 1) - 1 = k /\ k + 1 \in DOMAIN rs
    BY <1>1, <1>6
  <2>2. after[k + 1] = MergeInto(after[k], rs[k + 1])
    BY <1>4, <2>1
  <2>3. MergedLists(lists, MergeInto(after[k], rs[k + 1]), rs, k + 1)
    BY <1>6, <2>1, MergedNext
  <2> QED  BY <2>1, <2>2, <2>3
<1> HIDE DEF K
<1>7. n \in K
  <2>1. \A k \in 0..n : k \in K /\ k # n => k + 1 \in K
    BY <1>6
  <2>2. \A k \in 0..n : k \in K
    BY <1>1, <1>5, <2>1, UpTo
  <2> QED  BY <1>1, <2>2
<1> QED  BY <1>2, <1>7 DEF K, n


----------------------------------------------------------------------------
(* Reports                                                                 *)

\* Two texts listed one after the other, an output and what is read of it.
LEMMA ParsedIs ==
  ASSUME NEW v, IsCognitionOutput(v)
  PROVE  /\ \/ ParseRoleWorkOutput(v) = <<>>
            \/ \E o \in RoleWorkOutput : ParseRoleWorkOutput(v) = <<o>>
         /\ HasLists(Parse(v))
         /\ Parse(v).role_output = ParseRoleWorkOutput(v)
         /\ LET o == ParseRoleWorkOutput(v)
            IN  o # <<>> /\ FormatContent(o[1]) # {} => Parse(v).content = FormatContent(o[1])
<1>1. v.inner \in RoleWorkOutput /\ v.outer \in RoleWorkOutput /\ EmptyOutput \in RoleWorkOutput
  <2>1. EmptyOutput \in RoleWorkOutput
    BY DEF EmptyOutput, RoleWorkOutput
  <2> QED  BY <2>1 DEF IsCognitionOutput
<1> DEFINE source == IF v.kind = "flat" THEN v.outer ELSE v.inner
           text == [EmptyOutput EXCEPT
                      !.summary = v.inner.summary, !.evidence = v.outer.evidence,
                      !.risks = v.outer.risks, !.open_questions = v.outer.open_questions]
           object == [source EXCEPT
                        !.summary = IF @ # {} THEN @ ELSE v.outer.summary,
                        !.evidence = Both(v, source, "evidence"),
                        !.risks = Both(v, source, "risks"),
                        !.open_questions = Both(v, source, "open_questions")]
           parsed == ParseRoleWorkOutput(v)
<1>2. text \in RoleWorkOutput
  BY <1>1 DEF RoleWorkOutput
<1>3. object \in RoleWorkOutput
  <2>1. source \in RoleWorkOutput
    BY <1>1
  <2> HIDE DEF source
  <2>2. \A name \in ThreeLists :
          source[name] \in Seq(SUBSET STRING) /\ v.outer[name] \in Seq(SUBSET STRING)
    BY <1>1, <2>1 DEF ThreeLists, RoleWorkOutput
  <2>3. \A name \in ThreeLists : Both(v, source, name) \in Seq(SUBSET STRING)
    BY <2>2 DEF Both
  <2> QED  BY <1>1, <2>1, <2>3 DEF RoleWorkOutput, ThreeLists
<1>4. parsed = <<>> \/ parsed = <<text>> \/ parsed = <<object>>
  BY DEF ParseRoleWorkOutput
<1> HIDE DEF text, object, source
<1>5. parsed = <<>> \/ \E o \in RoleWorkOutput : parsed = <<o>>
  BY <1>2, <1>3, <1>4
<1> HIDE DEF parsed
<1>6. /\ Parse(v).role_output = parsed
      /\ parsed # <<>> /\ FormatContent(parsed[1]) # {} => Parse(v).content = FormatContent(parsed[1])
  BY DEF Parse, parsed
<1>7. HasLists(Parse(v))
  <2> DEFINE Listed(name) ==
               IF parsed # <<>> /\ parsed[1][name] # <<>> THEN parsed[1][name] ELSE v.outer[name]
  <2>1. \A name \in ThreeLists : IsList(Listed(name))
    BY <1>1, <1>5 DEF ThreeLists, RoleWorkOutput, IsList
  <2>2. /\ Parse(v).evidence = Listed("evidence")
        /\ Parse(v).risks = Listed("risks")
        /\ Parse(v).open_questions = Listed("open_questions")
    BY DEF Parse, parsed
  <2>3. ThreeLists \subseteq DOMAIN Parse(v)
    BY DEF Parse, ThreeLists
  <2> HIDE DEF Listed
  <2> QED  BY <2>1, <2>2, <2>3 DEF HasLists, ThreeLists
<1> QED  BY <1>5, <1>6, <1>7 DEF parsed

\* The output that the results are merged into.
MergedInto(p) == IF p.role_output = <<>> THEN EmptyOutput ELSE p.role_output[1]

\* merge_skill_results as a whole: the lists of the report and of its output have
\* grown, the rest of the output is the same, and the content is read from it.
LEMMA FullIs ==
  ASSUME NEW v, IsCognitionOutput(v), NEW rs, IsList(rs), rs # <<>>,
         NEW p, p = Parse(v), NEW m, m = MergeSkillResults(p, rs)
  PROVE  LET o == m.role_output[1]
         IN  /\ m.role_output = <<o>>
             /\ MergedLists(MergedInto(p), o, rs, Len(rs))
             /\ GrownLists(p, m, rs, Len(rs))
             /\ FormatContent(o) # {} => m.content = FormatContent(o)
<1> DEFINE base == MergedInto(p)
           o == Merged(base, rs)
           whole == Merged(p, rs)
<1>1. HasLists(p) /\ {"role_output", "content"} \subseteq DOMAIN p
  BY ParsedIs DEF Parse
<1>2. HasLists(base)
  <2>1. EmptyOutput \in RoleWorkOutput
    BY DEF EmptyOutput, RoleWorkOutput
  <2>2. base \in RoleWorkOutput
    BY <2>1, ParsedIs DEF MergedInto
  <2> HIDE DEF base
  <2> QED  BY <2>2 DEF HasLists, ThreeLists, RoleWorkOutput, IsList
<1>3. m = [whole EXCEPT !.role_output = <<o>>,
                        !.content = IF FormatContent(o) # {} THEN FormatContent(o) ELSE @]
  BY DEF MergeSkillResults, MergedInto
<1> HIDE DEF base
<1>4. MergedLists(base, o, rs, Len(rs))
  BY <1>2, MergedIs
<1>5. MergedLists(p, whole, rs, Len(rs))
  BY <1>1, MergedIs
<1>6. DOMAIN whole = DOMAIN p
  BY <1>5 DEF MergedLists, SameBesides
<1> HIDE DEF o, whole
<1>7. /\ m.role_output = <<o>>
      /\ m.evidence = whole.evidence /\ m.risks = whole.risks
      /\ m.open_questions = whole.open_questions
      /\ FormatContent(o) # {} => m.content = FormatContent(o)
  BY <1>1, <1>3, <1>6 DEF HasLists, ThreeLists
<1>8. GrownLists(p, m, rs, Len(rs))
  BY <1>5, <1>7 DEF MergedLists, GrownLists, IsShown
<1> QED  BY <1>4, <1>7, <1>8 DEF base


----------------------------------------------------------------------------
(* What the results make of the reasons of evaluate_report                 *)

\* The report a is the report b with more in the lists of its output.
Fuller(b, a, shown, said) ==
  /\ a.status = b.status /\ a.role = b.role
  /\ b.role_output = <<b.role_output[1]>> /\ a.role_output = <<a.role_output[1]>>
  /\ LET bo == b.role_output[1]
         ao == a.role_output[1]
     IN  /\ ao.summary = bo.summary /\ ao.findings = bo.findings
         /\ ao.recommendations = bo.recommendations
         /\ Grown(bo.evidence, ao.evidence, shown)
         /\ Grown(bo.risks, ao.risks, said)
         /\ Grown(bo.open_questions, ao.open_questions, said)
         /\ FormatContent(bo) # {} => b.content = FormatContent(bo)
         /\ FormatContent(ao) # {} => a.content = FormatContent(ao)
  /\ Grown(b.open_questions, a.open_questions, said)
  /\ said \cap Betraying = {}

\* More questions of the runtime do not block what was not blocked, as long as there
\* is a summary and something found.
LEMMA MoreQuestions ==
  ASSUME NEW bo, NEW ao, NEW bq, NEW aq, NEW said, Grown(bq, aq, said),
         said \cap Betraying = {}, ao.summary = bo.summary, ao.findings = bo.findings,
         ao.recommendations = bo.recommendations
  PROVE  /\ OpenQuestionsAreBlocking(<<bo>>, bq) => OpenQuestionsAreBlocking(<<ao>>, aq)
         /\ OpenQuestionsAreBlocking(<<ao>>, aq) =>
              \/ OpenQuestionsAreBlocking(<<bo>>, bq)
              \/ bo.summary = {}
              \/ bo.findings = <<>> /\ bo.recommendations = <<>>
<1>1. /\ bq # <<>> => aq # <<>>
      /\ "blocking" \in Joined(bq) => "blocking" \in Joined(aq)
      /\ "blocking" \in Joined(aq) => "blocking" \in Joined(bq)
  BY DEF Grown, Betraying
<1>2. "blocking" \in Joined(bq) => bq # <<>>
  BY DEF Joined
<1> QED  BY <1>1, <1>2 DEF OpenQuestionsAreBlocking

\* The content of the report, without the words of the results the same.
LEMMA MoreContent ==
  ASSUME NEW b, NEW a, NEW shown, NEW said, Fuller(b, a, shown, said),
         b.role_output[1].summary # {}
  PROVE  /\ b.content # {} /\ a.content # {}
         /\ b.content \subseteq a.content /\ a.content \subseteq b.content \cup said
<1> DEFINE bo == b.role_output[1]
           ao == a.role_output[1]
<1>1. /\ FormatContent(bo) # {} /\ FormatContent(ao) # {}
      /\ FormatContent(bo) \subseteq FormatContent(ao)
      /\ FormatContent(ao) \subseteq FormatContent(bo) \cup said
  BY DEF Fuller, FormatContent, Grown
<1> QED  BY <1>1 DEF Fuller

LEMMA RoleReasons ==
  ASSUME NEW b, NEW a, NEW shown, NEW said, Fuller(b, a, shown, said)
  PROVE  LET bo == b.role_output[1]
             ao == a.role_output[1]
             before == EvaluateRoleOutput(b.role, bo)
             after == EvaluateRoleOutput(a.role, ao)
         IN  /\ before = {} /\ (bo.findings # <<>> \/ bo.recommendations # <<>>) => after = {}
             /\ after = {} => before \subseteq {"risks"}
             /\ after = {} /\ ao.risks = bo.risks => before = {}
<1> DEFINE bo == b.role_output[1]
           ao == a.role_output[1]
           blocked(o) == OpenQuestionsAreBlocking(<<o>>, o.open_questions)
<1>1. /\ a.role = b.role /\ ao.summary = bo.summary /\ ao.findings = bo.findings
      /\ ao.recommendations = bo.recommendations
      /\ bo.risks # <<>> => ao.risks # <<>>
  BY DEF Fuller, Grown
<1>2. /\ blocked(bo) => blocked(ao)
      /\ blocked(ao) => \/ blocked(bo) \/ bo.summary = {}
                        \/ bo.findings = <<>> /\ bo.recommendations = <<>>
  BY <1>1, MoreQuestions DEF Fuller
<1> HIDE DEF bo, ao
<1> DEFINE thin == bo.summary = {}
           tool == "tool" \in bo.summary \cup Joined(bo.findings) \cup Joined(bo.recommendations)
           few == b.role = "data" /\ Len(bo.findings) < 2
           short == b.role = "ops" /\ Len(bo.recommendations) < 3
           idle == b.role \in NeedsRecommendation /\ bo.recommendations = <<>>
           strayed == b.role \in DomainInFindings
                        /\ "domain" \notin bo.summary \cup Joined(bo.findings)
           strays == b.role \in DomainInRecommendations
                        /\ "domain" \notin bo.summary \cup Joined(bo.recommendations)
           OfRole(o) ==
             When(thin, "summary empty") \cup When(blocked(o), "open questions")
             \cup When(tool, "claims a tool") \cup When(few, "findings")
             \cup When(short, "recommendations") \cup When(idle, "recommendations")
             \cup When(b.role \in NeedsRisk /\ o.risks = <<>>, "risks")
             \cup When(strayed, "off topic") \cup When(strays, "off topic")
<1>3. /\ EvaluateRoleOutput(b.role, bo) = OfRole(bo)
      /\ EvaluateRoleOutput(a.role, ao) = OfRole(ao)
  BY <1>1 DEF EvaluateRoleOutput
<1> HIDE DEF tool, few, short, idle, strayed, strays, blocked
<1>4. \A x : x \in OfRole(bo) => x \in OfRole(ao) \/ (x = "risks" /\ ao.risks # bo.risks)
  BY <1>1, <1>2 DEF When
<1>5. \A x : x \in OfRole(ao) => \/ x \in OfRole(bo)
                                 \/ "summary empty" \in OfRole(bo)
                                 \/ bo.findings = <<>> /\ bo.recommendations = <<>>
  BY <1>1, <1>2 DEF When
<1> HIDE DEF OfRole
<1> QED  BY <1>3, <1>4, <1>5 DEF bo, ao

LEMMA QualityReasons ==
  ASSUME NEW b, NEW a, NEW shown, NEW said, Fuller(b, a, shown, said),
         b.role_output[1].summary # {}
  PROVE  LET bo == b.role_output[1]
             ao == a.role_output[1]
             before == EvaluateQualityContract(b, bo)
             after == EvaluateQualityContract(a, ao)
         IN  /\ before = {} => after = {}
             /\ before = {} => bo.findings # <<>> \/ bo.recommendations # <<>>
             /\ after = {} => before \subseteq {"risks", "refusal"}
             /\ after = {} /\ ao.risks = bo.risks /\ ao.open_questions = bo.open_questions
                  => before = {}
<1> DEFINE bo == b.role_output[1]
           ao == a.role_output[1]
           content(r, o) == o.summary \cup Joined(o.findings) \cup Joined(o.recommendations)
                              \cup Joined(o.risks) \cup r.content
           cb == content(b, bo)
           ca == content(a, ao)
<1>1. /\ a.role = b.role /\ ao.summary = bo.summary /\ ao.findings = bo.findings
      /\ ao.recommendations = bo.recommendations
      /\ bo.risks # <<>> => ao.risks # <<>>
      /\ bo.open_questions # <<>> => ao.open_questions # <<>>
  BY DEF Fuller, Grown
<1>2. cb \subseteq ca /\ ca \subseteq cb \cup said
  <2>1. b.content \subseteq a.content /\ a.content \subseteq b.content \cup said
    BY MoreContent
  <2>2. Joined(bo.risks) \subseteq Joined(ao.risks) /\ Joined(ao.risks) \subseteq Joined(bo.risks) \cup said
    BY DEF Fuller, Grown
  <2> HIDE DEF bo, ao
  <2> QED  BY <1>1, <2>1, <2>2
<1>3. /\ "external" \in cb <=> "external" \in ca
      /\ "refusal" \in cb <=> "refusal" \in ca
  BY <1>2 DEF Fuller, Betraying
<1>4. /\ EvaluateQualityContract(b, bo) =
           When("full" \notin bo.summary, "summary thin")
           \cup When(bo.findings = <<>> /\ bo.recommendations = <<>>, "nothing found")
           \cup When("external" \in cb, "fabrication")
           \cup When(IsActionOrientedRole(b.role) /\ bo.recommendations = <<>>, "recommendations")
           \cup When(IsRiskSensitiveRole(b.role) /\ bo.risks = <<>>, "risks")
           \cup When("refusal" \in cb /\ bo.open_questions = <<>>, "refusal")
      /\ EvaluateQualityContract(a, ao) =
           When("full" \notin ao.summary, "summary thin")
           \cup When(ao.findings = <<>> /\ ao.recommendations = <<>>, "nothing found")
           \cup When("external" \in ca, "fabrication")
           \cup When(IsActionOrientedRole(a.role) /\ ao.recommendations = <<>>, "recommendations")
           \cup When(IsRiskSensitiveRole(a.role) /\ ao.risks = <<>>, "risks")
           \cup When("refusal" \in ca /\ ao.open_questions = <<>>, "refusal")
  BY DEF EvaluateQualityContract
<1> DEFINE before == EvaluateQualityContract(b, bo)
           after == EvaluateQualityContract(a, ao)
<1> HIDE DEF bo, ao, ca, cb, before, after
<1>5. \A x : x \in after => x \in before
  BY <1>1, <1>3, <1>4 DEF When, before, after
<1>6. \A x : x \in before =>
        \/ x \in after
        \/ x = "risks" /\ ao.risks # bo.risks
        \/ x = "refusal" /\ ao.open_questions # bo.open_questions
  BY <1>1, <1>3, <1>4 DEF When, before, after
<1>7. before = {} => bo.findings # <<>> \/ bo.recommendations # <<>>
  BY <1>4 DEF When, before
<1> QED  BY <1>5, <1>6, <1>7 DEF bo, ao, before, after


LEMMA CitationReasons ==
  ASSUME NEW bo, NEW ao, NEW texts, Grown(bo.evidence, ao.evidence, texts),
         NEW inputs, NEW roleOf
  PROVE  LET before == EvaluateUpstreamEvidence(inputs, roleOf, bo)
             after == EvaluateUpstreamEvidence(inputs, roleOf, ao)
         IN  /\ before = {} => after = {}
             /\ before \subseteq {"citation"}
             /\ ao.evidence = bo.evidence => after = before
<1>1. Joined(bo.evidence) \subseteq Joined(ao.evidence)
  BY DEF Grown
<1>2. ao.evidence = bo.evidence => Joined(bo.evidence) = Joined(ao.evidence)
  BY DEF Joined
<1> QED  BY <1>1, <1>2 DEF EvaluateUpstreamEvidence, When

\* A summary without which no report passes.
LEMMA NoSummary ==
  ASSUME NEW r, NEW inputs, NEW roleOf, r.role_output = <<>> \/ r.role_output[1].summary = {}
  PROVE  EvaluateReport(r, inputs, roleOf) # {}
<1>1. CASE r.role_output = <<>>
  <2>1. "no role output" \in EvaluateReport(r, inputs, roleOf)
    BY <1>1 DEF EvaluateReport
  <2> QED  BY <2>1
<1>2. CASE r.role_output # <<>>
  <2>1. "summary empty" \in EvaluateRoleOutput(r.role, r.role_output[1])
    BY <1>2 DEF EvaluateRoleOutput, When
  <2>2. "summary empty" \in EvaluateReport(r, inputs, roleOf)
    BY <1>2, <2>1 DEF EvaluateReport
  <2> QED  BY <2>2
<1> QED  BY <1>1, <1>2

\* What is merged into a report only fills gaps of it.
LEMMA FewerReasons ==
  ASSUME NEW b, NEW a, NEW shown, NEW said, Fuller(b, a, shown, said),
         b.status = "Completed", b.role_output[1].summary # {}, NEW inputs, NEW roleOf
  PROVE  LET before == EvaluateReport(b, inputs, roleOf)
             after == EvaluateReport(a, inputs, roleOf)
             bo == b.role_output[1]
             ao == a.role_output[1]
         IN  /\ before = {} => after = {}
             /\ after = {} =>
                  /\ before \subseteq {"citation", "risks", "refusal"}
                  /\ ao.evidence = bo.evidence => "citation" \notin before
                  /\ ao.risks = bo.risks /\ ao.open_questions = bo.open_questions =>
                       before \cap {"risks", "refusal"} = {}
<1> DEFINE bo == b.role_output[1]
           ao == a.role_output[1]
           Parts(r, o) ==
             EvaluateRoleOutput(r.role, o) \cup EvaluateQualityContract(r, o)
               \cup EvaluateUpstreamEvidence(inputs, roleOf, o)
           Own(r) ==
             When(r.status = "Failed", "failed") \cup When(r.content = {}, "content empty")
             \cup When(OpenQuestionsAreBlocking(r.role_output, r.open_questions), "open questions")
             \cup When("placeholder" \in r.content, "placeholder")
<1>1. /\ a.status = "Completed" /\ b.role_output = <<bo>> /\ a.role_output = <<ao>>
      /\ ao.summary = bo.summary /\ ao.findings = bo.findings
      /\ ao.recommendations = bo.recommendations /\ said \cap Betraying = {}
      /\ Grown(b.open_questions, a.open_questions, said)
      /\ Grown(bo.evidence, ao.evidence, shown)
  BY DEF Fuller
<1>2. /\ EvaluateReport(b, inputs, roleOf) = Own(b) \cup Parts(b, bo)
      /\ EvaluateReport(a, inputs, roleOf) = Own(a) \cup Parts(a, ao)
  <2>1. b.role_output # <<>> /\ a.role_output # <<>>
    BY <1>1
  <2> QED  BY <2>1 DEF EvaluateReport
<1>3. /\ OpenQuestionsAreBlocking(b.role_output, b.open_questions) =>
           OpenQuestionsAreBlocking(a.role_output, a.open_questions)
      /\ OpenQuestionsAreBlocking(a.role_output, a.open_questions) =>
           \/ OpenQuestionsAreBlocking(b.role_output, b.open_questions)
           \/ bo.findings = <<>> /\ bo.recommendations = <<>>
  <2> HIDE DEF bo, ao
  <2>1. bo.summary # {}
    BY DEF bo
  <2> QED  BY <1>1, <2>1, MoreQuestions
<1>4. /\ b.content # {} /\ a.content # {}
      /\ "placeholder" \in b.content <=> "placeholder" \in a.content
  BY <1>1, MoreContent DEF Betraying
<1>5. /\ Own(b) = {} /\ (bo.findings # <<>> \/ bo.recommendations # <<>>) => Own(a) = {}
      /\ Own(a) = {} => Own(b) = {}
  BY <1>1, <1>3, <1>4 DEF When
<1>6. LET before == EvaluateRoleOutput(b.role, bo)
          after == EvaluateRoleOutput(a.role, ao)
      IN  /\ before = {} /\ (bo.findings # <<>> \/ bo.recommendations # <<>>) => after = {}
          /\ after = {} => before \subseteq {"risks"}
          /\ after = {} /\ ao.risks = bo.risks => before = {}
  BY RoleReasons
<1>7. LET before == EvaluateQualityContract(b, bo)
          after == EvaluateQualityContract(a, ao)
      IN  /\ before = {} => after = {}
          /\ before = {} => bo.findings # <<>> \/ bo.recommendations # <<>>
          /\ after = {} => before \subseteq {"risks", "refusal"}
          /\ after = {} /\ ao.risks = bo.risks /\ ao.open_questions = bo.open_questions
               => before = {}
  BY QualityReasons
<1>8. LET before == EvaluateUpstreamEvidence(inputs, roleOf, bo)
          after == EvaluateUpstreamEvidence(inputs, roleOf, ao)
      IN  /\ before = {} => after = {}
          /\ before \subseteq {"citation"}
          /\ ao.evidence = bo.evidence => after = before
  BY <1>1, CitationReasons
<1> HIDE DEF Own, bo, ao
<1> QED  BY <1>2, <1>5, <1>6, <1>7, <1>8 DEF bo, ao


----------------------------------------------------------------------------
(* The skills in the report                                                *)

\* What may become of a skill that is registered.
Fates == {"Success", "Deferred", "PendingApproval", "ValidationError", "Failed"}

LEMMA ExecutedIs ==
  ASSUME NEW id, id \in SkillIds, NEW input, NEW r, r = Execute(TRUE, id, input)
  PROVE  r.id = id /\ r.status \in Fates
<1>1. \A status : StatusFromOutput(status) \in {"Success", "Deferred", "PendingApproval"}
  BY DEF StatusFromOutput
<1> HIDE DEF SkillIds
<1> QED  BY <1>1 DEF Execute, Refused, Result, Fates

\* Every request has a result, in order.
LEMMA ResultsAre ==
  ASSUME NEW v, IsCognitionOutput(v), NEW w,
         NEW wanted, wanted = ParseSkillRequests(v), NEW told, told = RunRequested(w, wanted)
  PROVE  /\ IsList(told) /\ Len(told) = Len(wanted) /\ Len(told) \in Nat
         /\ DOMAIN told = 1..Len(told) /\ DOMAIN wanted = DOMAIN told
         /\ wanted = <<>> <=> told = <<>>
         /\ \A i \in DOMAIN told :
              /\ told[i].id = wanted[i].id
              /\ ~RoleCanUse(w, told[i].id) => told[i].status = "ValidationError"
              /\ told[i].status \in Fates
<1> DEFINE P == {i \in DOMAIN v.requests : v.requests[i].id # ""}
           c == Cardinality(P)
           n == Len(v.requests)
<1>1. n \in Nat /\ P \in SUBSET (1..n)
  <2>1. PICK T : v.requests \in Seq(T)
    BY DEF IsCognitionOutput
  <2>2. n \in Nat /\ DOMAIN v.requests = 1..n
    BY <2>1
  <2> QED  BY <2>2
<1>2. /\ IsFiniteSet(P)
      /\ \A j \in DOMAIN Picked(v.requests, P) : \E i \in P : Picked(v.requests, P)[j] = v.requests[i]
  <2> HIDE DEF P, n
  <2> QED  BY <1>1, PickedFrom
<1>3. wanted = Picked(v.requests, P)
  BY DEF ParseSkillRequests
<1>5. IsList(wanted) /\ Len(wanted) = c /\ c \in Nat /\ DOMAIN wanted = 1..c
  <2> HIDE DEF P
  <2> QED  BY <1>2, <1>3, PickedIsList
<1> HIDE DEF c
<1>6. told = [i \in 1..c |-> IF RoleCanUse(w, wanted[i].id)
                             THEN Execute(TRUE, wanted[i].id, wanted[i].input)
                             ELSE NotAllowed(wanted[i].id)]
  BY <1>5 DEF RunRequested
<1>7. IsList(told) /\ Len(told) = c /\ DOMAIN told = 1..c
  <2> DEFINE T == {told[i] : i \in 1..c}
  <2>1. told \in [1..c -> T]
    BY <1>6
  <2> HIDE DEF T
  <2>2. told \in Seq(T)
    BY <1>5, <2>1
  <2> QED  BY <1>5, <2>1, <2>2 DEF IsList
<1>8. wanted = <<>> <=> told = <<>>
  <2>1. \A s : IsList(s) => (s = <<>> <=> Len(s) = 0)
    BY DEF IsList
  <2> QED  BY <1>5, <1>7, <2>1
<1>9. ASSUME NEW i \in DOMAIN told
      PROVE  /\ told[i].id = wanted[i].id
             /\ ~RoleCanUse(w, told[i].id) => told[i].status = "ValidationError"
             /\ told[i].status \in Fates
  <2>1. CASE RoleCanUse(w, wanted[i].id)
    <3>1. wanted[i].id \in SkillIds
      BY <2>1 DEF RoleCanUse
    <3>2. told[i] = Execute(TRUE, wanted[i].id, wanted[i].input)
      BY <1>6, <1>7, <2>1
    <3>3. /\ told[i].id = wanted[i].id
          /\ told[i].status \in Fates
      <4> DEFINE id == wanted[i].id
                 input == wanted[i].input
      <4>1. id \in SkillIds /\ told[i] = Execute(TRUE, id, input)
        BY <3>1, <3>2
      <4> HIDE DEF id, input
      <4>2. /\ told[i].id = id
            /\ told[i].status \in Fates
        BY <4>1, ExecutedIs
      <4> QED  BY <4>2 DEF id
    <3> QED  BY <2>1, <3>3
  <2>2. CASE ~RoleCanUse(w, wanted[i].id)
    <3>1. told[i] = NotAllowed(wanted[i].id)
      BY <1>6, <1>7, <2>2
    <3> QED  BY <3>1 DEF NotAllowed, Refused, Result, Fates
  <2> QED  BY <2>1, <2>2
<1> QED  BY <1>5, <1>7, <1>8, <1>9

\* What is said of the results betrays nothing.
LEMMA SaidIsHarmless ==
  ASSUME NEW told,
         \A i \in DOMAIN told :
           /\ told[i].id \notin Betraying
           /\ told[i].status \in Fates
  PROVE  SaidOf(told) \cap Betraying = {}
<1>1. ASSUME NEW i \in DOMAIN told
      PROVE  (RiskText(told[i]) \cup QuestionText(told[i])) \cap Betraying = {}
  <2>1. told[i].id \notin Betraying /\ told[i].status \notin Betraying
    BY DEF Betraying, Fates
  <2>2. {"some", "full", "incomplete"} \cap Betraying = {}
    BY DEF Betraying
  <2> HIDE DEF Betraying
  <2> QED  BY <2>1, <2>2 DEF RiskText, QuestionText
<1> QED  BY <1>1 DEF SaidOf

----------------------------------------------------------------------------
(* The call of the model                                                   *)

\* How far the loop is: every call but the one under way has an entry in asked.
Counted ==
  /\ attempt <= Call!MaxAttempts(policy)
  /\ outcome = "idle" => Len(asked) = 0
  /\ outcome = "waiting" => Len(asked) = attempt - 1
  /\ outcome \in {"success", "failure"} => Len(asked) = attempt

\* The inductive invariant.
CallInv == Call!TypeOK /\ Counted /\ Call!RetriesAreJustified

\* A policy allows one attempt at least, as max_attempts says.
LEMMA SomeAttempt == ASSUME NEW p \in Policies PROVE Call!MaxAttempts(p) \in Nat /\ Call!MaxAttempts(p) >= 1
  BY WorkerPolicies DEF Call!MaxAttempts, Call!CognitionRetryPolicy

\* The kind of a reply and what it says of the reply.
LEMMA Kinds ==
  ASSUME NEW r \in Call!Reply
  PROVE  /\ Call!KindOf(r) \in Call!Failures \cup {"decoded"}
         /\ Call!KindOf(r) = "decoded" => r # Call!NoAnswer /\ r[1] \in Value
  BY AnswersAreSorted DEF Call!KindOf, Call!Failures, Call!Reply, Call!NoAnswer

\* The note for the next attempt names the failure of this one.
LEMMA Notes ==
  ASSUME NEW r \in Call!Reply, NEW n \in Nat, Call!KindOf(r) # "decoded"
  PROVE  LET note == Call!NoteFor(Call!KindOf(r), r, n)
         IN  /\ Len(note) = 1
             /\ note[1].attempt = n
             /\ note[1].says = (IF Call!KindOf(r) = "undecodable" THEN "repair" ELSE Call!KindOf(r))
             /\ Call!KindOf(r) = "undecodable" => note[1].about = r
  BY Kinds DEF Call!NoteFor, Call!Failures

LEMMA CallInit == Call!Init => CallInv
<1> SUFFICES ASSUME Call!Init PROVE CallInv
  OBVIOUS
<1>1. Call!TypeOK
  <2>1. Call!NoAnswer \in Call!Reply /\ asked \in Seq(Call!Failures \cup {"decoded"})
    BY DEF Call!Init, Call!Reply
  <2> QED  BY <2>1 DEF Call!Init, Call!TypeOK
<1>2. Counted
  BY SomeAttempt DEF Call!Init, Counted
<1>3. Call!RetriesAreJustified
  BY SomeAttempt DEF Call!Init, Call!RetriesAreJustified, Call!PromptTellsLastFailure
<1> QED  BY <1>1, <1>2, <1>3 DEF CallInv

LEMMA BeginKeeps == CallInv /\ Call!Begin => CallInv'
<1> SUFFICES ASSUME CallInv, Call!Begin PROVE CallInv'
  OBVIOUS
<1>1. Call!MaxAttempts(policy) \in Nat /\ Call!MaxAttempts(policy) >= 1
  BY SomeAttempt DEF CallInv, Call!TypeOK
<1>2. policy' = policy /\ Call!MaxAttempts(policy)' = Call!MaxAttempts(policy)
  BY DEF Call!Begin, Call!MaxAttempts
<1>3. Call!TypeOK'
  <2>1. Call!NoAnswer \in Call!Reply /\ asked' \in Seq(Call!Failures \cup {"decoded"})
    BY DEF Call!Begin, Call!Reply
  <2> QED  BY <2>1 DEF CallInv, Call!TypeOK, Call!Begin
<1>4. Counted'
  BY <1>1, <1>2 DEF Call!Begin, Counted
<1>5. Call!RetriesAreJustified'
  BY <1>1, <1>2 DEF Call!Begin, Call!RetriesAreJustified, Call!PromptTellsLastFailure
<1> QED  BY <1>3, <1>4, <1>5 DEF CallInv

LEMMA ChatOnceKeeps == ASSUME NEW r \in Call!Reply PROVE CallInv /\ Call!ChatOnce(r) => CallInv'
<1> SUFFICES ASSUME CallInv, Call!ChatOnce(r) PROVE CallInv'
  OBVIOUS
<1> DEFINE kind == Call!KindOf(r)
           n == Len(asked)
<1>1. /\ Call!MaxAttempts(policy) \in Nat /\ Call!MaxAttempts(policy) >= 1
      /\ policy' = policy /\ Call!MaxAttempts(policy)' = Call!MaxAttempts(policy)
  BY SomeAttempt DEF CallInv, Call!TypeOK, Call!ChatOnce, Call!MaxAttempts
<1>2. kind \in Call!Failures \cup {"decoded"} /\ (kind = "decoded" => r # Call!NoAnswer /\ r[1] \in Value)
  BY Kinds
<1>3. /\ outcome = "waiting" /\ raw' = r /\ asked' = Append(asked, kind)
      /\ attempt \in Nat \ {0} /\ asked \in Seq(Call!Failures \cup {"decoded"})
      /\ n = attempt - 1 /\ attempt <= Call!MaxAttempts(policy)
  BY DEF CallInv, Call!TypeOK, Counted, Call!ChatOnce
<1>4. /\ asked' \in Seq(Call!Failures \cup {"decoded"})
      /\ Len(asked') = n + 1 /\ asked'[n + 1] = kind
      /\ \A i \in 1..n : asked'[i] = asked[i]
  BY <1>2, <1>3
<1>5. \A i \in 1..n : asked[i] # "decoded" /\ Call!Wanted(policy, asked[i])
  BY <1>3 DEF CallInv, Call!RetriesAreJustified
<1>6. CASE kind = "decoded"
  <2>1. /\ outcome' = "success" /\ attempt' = attempt /\ failure' = failure /\ prompt' = <<>>
    BY <1>6 DEF Call!ChatOnce
  <2>2. Call!TypeOK'
    BY <1>1, <1>3, <1>4, <2>1 DEF CallInv, Call!TypeOK
  <2>3. Counted'
    BY <1>1, <1>3, <1>4, <2>1 DEF Counted
  <2>4. \A i \in 1..(n + 1) : asked'[i] = "decoded" => i = n + 1
    BY <1>3, <1>4, <1>5
  <2>5. \A i \in 1..(n + 1) : i < n + 1 => Call!Wanted(policy, asked'[i])
    BY <1>3, <1>4, <1>5
  <2>6. Call!RetriesAreJustified'
    BY <1>1, <1>2, <1>3, <1>4, <1>6, <2>1, <2>4, <2>5
       DEF Call!RetriesAreJustified, Call!PromptTellsLastFailure
  <2> QED  BY <2>2, <2>3, <2>6 DEF CallInv
<1>7. CASE kind # "decoded" /\ attempt < Call!MaxAttempts(policy) /\ Call!Wanted(policy, kind)
  <2>1. /\ outcome' = "waiting" /\ attempt' = attempt + 1
        /\ failure' = [why |-> kind, at |-> attempt] /\ prompt' = Call!NoteFor(kind, r, attempt + 1)
    BY <1>7, <1>3 DEF Call!ChatOnce
  <2>2. Call!TypeOK'
    BY <1>1, <1>2, <1>3, <1>4, <1>7, <2>1 DEF CallInv, Call!TypeOK
  <2>3. Counted'
    BY <1>1, <1>3, <1>4, <1>7, <2>1 DEF Counted
  <2>4. \A i \in 1..(n + 1) : asked'[i] # "decoded" /\ Call!Wanted(policy, asked'[i])
    BY <1>3, <1>4, <1>5, <1>7
  <2>5. Call!PromptTellsLastFailure'
    BY <1>3, <1>7, <2>1, Notes DEF Call!PromptTellsLastFailure
  <2>6. Call!RetriesAreJustified'
    BY <1>1, <1>3, <1>4, <1>7, <2>1, <2>4, <2>5 DEF Call!RetriesAreJustified
  <2> QED  BY <2>2, <2>3, <2>6 DEF CallInv
<1>8. CASE kind # "decoded" /\ ~(attempt < Call!MaxAttempts(policy) /\ Call!Wanted(policy, kind))
  <2>1. /\ outcome' = "failure" /\ attempt' = attempt
        /\ failure' = [why |-> kind, at |-> attempt] /\ prompt' = <<>>
    BY <1>8, <1>3 DEF Call!ChatOnce
  <2>2. Call!TypeOK'
    BY <1>1, <1>2, <1>3, <1>4, <1>8, <2>1 DEF CallInv, Call!TypeOK
  <2>3. Counted'
    BY <1>1, <1>3, <1>4, <2>1 DEF Counted
  <2>4. \A i \in 1..(n + 1) : asked'[i] # "decoded"
    BY <1>3, <1>4, <1>5, <1>8
  <2>5. \A i \in 1..(n + 1) : i < n + 1 => Call!Wanted(policy, asked'[i])
    BY <1>3, <1>4, <1>5
  <2>6. Call!RetriesAreJustified'
    BY <1>1, <1>3, <1>4, <1>8, <2>1, <2>4, <2>5
       DEF Call!RetriesAreJustified, Call!PromptTellsLastFailure
  <2> QED  BY <2>2, <2>3, <2>6 DEF CallInv
<1> QED  BY <1>6, <1>7, <1>8


\* What is in a call goes on with the worker between two steps of the call.
LEMMA CallStays == CallInv /\ UNCHANGED callVars => CallInv'
  BY DEF CallInv, Call!TypeOK, Counted, Call!RetriesAreJustified, Call!PromptTellsLastFailure,
         Call!MaxAttempts, Call!Wanted, callVars

LEMMA ReturnedKeeps == CallInv /\ Returned => CallInv'
<1> SUFFICES ASSUME CallInv, Returned PROVE CallInv'
  OBVIOUS
<1>1. policy \in Policies /\ policy' = policy
  BY DEF CallInv, Call!TypeOK, Returned
<1>2. Call!MaxAttempts(policy) \in Nat /\ Call!MaxAttempts(policy) >= 1
      /\ Call!MaxAttempts(policy)' = Call!MaxAttempts(policy)
  BY <1>1, SomeAttempt DEF Call!MaxAttempts
<1>3. Call!TypeOK'
  <2>1. Call!NoAnswer \in Call!Reply /\ asked' \in Seq(Call!Failures \cup {"decoded"})
    BY DEF Returned, Call!Reply
  <2> QED  BY <1>1, <2>1 DEF Call!TypeOK, Returned
<1>4. Counted'
  BY <1>1, <1>2 DEF Returned, Counted
<1>5. Call!RetriesAreJustified'
  BY <1>1, <1>2 DEF Returned, Call!RetriesAreJustified, Call!PromptTellsLastFailure
<1> QED  BY <1>3, <1>4, <1>5 DEF CallInv

----------------------------------------------------------------------------
(* What is announced and what is told                                      *)

\* What is picked depends on what stands at the places only.
LEMMA PickedSame ==
  ASSUME NEW n \in Nat, NEW P \in SUBSET (1..n), NEW s, NEW t, \A i \in P : s[i] = t[i]
  PROVE  Picked(s, P) = Picked(t, P)
<1> DEFINE Q(k) == P \cap 1..k
           Fine(k) == IsFiniteSet(Q(k)) /\ Picked(s, Q(k)) = Picked(t, Q(k))
           K == {k \in 0..n : Fine(k)}
<1>1. Fine(0)
  <2>1. Q(0) = {}
    OBVIOUS
  <2>2. IsFiniteSet({}) /\ Cardinality({}) = 0
    BY FS_EmptySet
  <2>3. Picked(s, {}) = Picked(t, {})
    <3>1. 1..0 = {}
      OBVIOUS
    <3> QED  BY <2>2, <3>1 DEF Picked, Arranged
  <2> HIDE DEF Q
  <2> QED  BY <2>1, <2>2, <2>3
<1>2. ASSUME NEW k \in 0..n, Fine(k), k # n PROVE Fine(k + 1)
  <2> DEFINE old == Q(k)
             new == Q(k + 1)
  <2>1. CASE k + 1 \notin P
    <3>1. new = old
      BY <2>1
    <3> QED  BY <1>2, <3>1
  <2>2. CASE k + 1 \in P
    <3>1. /\ new = old \cup {k + 1} /\ old \in SUBSET Nat /\ k + 1 \in Nat
          /\ \A i \in old : i < k + 1
      BY <2>2
    <3> HIDE DEF Q
    <3>2. IsFiniteSet(old) /\ Picked(s, old) = Picked(t, old)
      BY <1>2
    <3> HIDE DEF old, new
    <3>3. /\ IsFiniteSet(new) /\ Picked(s, new) = Append(Picked(s, old), s[k + 1])
          /\ Picked(t, new) = Append(Picked(t, old), t[k + 1])
      BY <3>1, <3>2, PickedNext
    <3> QED  BY <2>2, <3>2, <3>3 DEF new
  <2> QED  BY <2>1, <2>2
<1> HIDE DEF Fine
<1>3. \A k \in 0..n : k \in K
  <2>1. 0 \in K /\ \A k \in 0..n : k \in K /\ k # n => k + 1 \in K
    BY <1>1, <1>2
  <2> HIDE DEF K
  <2> QED  BY <2>1, UpTo
<1>4. Fine(n)
  <2>1. n \in K
    BY <1>3
  <2> QED  BY <2>1
<1>5. Q(n) = P
  OBVIOUS
<1> HIDE DEF Q
<1> QED  BY <1>4, <1>5 DEF Fine

TasksOf(messages, kinds) ==
  Tasks(Picked(messages, {i \in DOMAIN messages : messages[i].kind \in kinds}))

LEMMA TasksAppended ==
  ASSUME NEW q, IsList(q), NEW m
  PROVE  /\ Tasks(Append(q, m)) = Append(Tasks(q), m.task)
         /\ IsList(Tasks(q)) /\ Len(Tasks(q)) = Len(q) /\ Len(q) \in Nat
<1> DEFINE n == Len(q)
           T == {q[i].task : i \in 1..n}
<1>1. n \in Nat /\ DOMAIN q = 1..n
  BY DEF IsList
<1>2. Tasks(q) = [i \in 1..n |-> q[i].task]
  BY <1>1 DEF Tasks
<1>3. Tasks(q) \in Seq(T) /\ Len(Tasks(q)) = n
  <2>1. Tasks(q) \in [1..n -> T]
    BY <1>2
  <2> HIDE DEF T, n
  <2> QED  BY <1>1, <1>2, <2>1
<1> DEFINE longer == Append(q, m)
<1>4. /\ DOMAIN longer = 1..(n + 1)
      /\ \A i \in 1..(n + 1) : longer[i] = IF i = n + 1 THEN m ELSE q[i]
  BY <1>1 DEF IsList
<1> HIDE DEF longer, T, n
<1>5. Tasks(longer) = [i \in 1..(n + 1) |-> IF i = n + 1 THEN m.task ELSE q[i].task]
  <2>1. Tasks(longer) = [i \in 1..(n + 1) |-> longer[i].task]
    BY <1>4 DEF Tasks
  <2>2. \A i \in 1..(n + 1) : longer[i].task = IF i = n + 1 THEN m.task ELSE q[i].task
    BY <1>4
  <2>3. [i \in 1..(n + 1) |-> longer[i].task] =
          [i \in 1..(n + 1) |-> IF i = n + 1 THEN m.task ELSE q[i].task]
    BY <2>2
  <2> QED  BY <2>1, <2>3
<1>6. Append(Tasks(q), m.task) = [i \in 1..(n + 1) |-> IF i = n + 1 THEN m.task ELSE q[i].task]
  <2>1. Append(Tasks(q), m.task) = [i \in 1..(n + 1) |-> IF i = n + 1 THEN m.task ELSE Tasks(q)[i]]
    BY <1>1, <1>3
  <2>2. \A i \in 1..(n + 1) : (IF i = n + 1 THEN m.task ELSE Tasks(q)[i])
                               = (IF i = n + 1 THEN m.task ELSE q[i].task)
    BY <1>1, <1>2
  <2> QED  BY <2>1, <2>2
<1> QED  BY <1>1, <1>3, <1>5, <1>6 DEF IsList, longer, n


LEMMA TasksOfNext ==
  ASSUME NEW o, IsList(o), NEW m, NEW kinds
  PROVE  /\ IsList(Append(o, m))
         /\ TasksOf(Append(o, m), kinds) =
              IF m.kind \in kinds THEN Append(TasksOf(o, kinds), m.task) ELSE TasksOf(o, kinds)
<1>0. PICK next : next = Append(o, m)
  OBVIOUS
<1> DEFINE n == Len(o)
           P == {i \in DOMAIN o : o[i].kind \in kinds}
           N == {i \in DOMAIN next : next[i].kind \in kinds}
<1>1. n \in Nat /\ DOMAIN o = 1..n
  BY DEF IsList
<1>2. /\ DOMAIN next = 1..(n + 1) /\ next[n + 1] = m
      /\ \A i \in 1..n : next[i] = o[i]
      /\ IsList(next)
  <2>1. PICK T : o \in Seq(T)
    BY DEF IsList
  <2> DEFINE U == T \cup {m}
  <2>2. o \in [1..n -> U]
    BY <2>1
  <2>3. m \in U
    OBVIOUS
  <2> HIDE DEF U
  <2>4. o \in Seq(U)
    BY <1>1, <2>2
  <2> QED  BY <1>0, <2>3, <2>4 DEF IsList
<1>3. P \in SUBSET (1..n) /\ P \in SUBSET Nat /\ \A i \in P : i < n + 1
  BY <1>1
<1>4. N = IF m.kind \in kinds THEN P \cup {n + 1} ELSE P
  BY <1>1, <1>2
<1>5. Picked(next, P) = Picked(o, P) /\ IsFiniteSet(P)
  <2>1. \A i \in P : next[i] = o[i]
    BY <1>2, <1>3
  <2> HIDE DEF P, n
  <2> QED  BY <1>1, <1>3, <2>1, PickedSame, PickedFrom
<1>6. n + 1 \in Nat
  BY <1>1
<1> DEFINE q == Picked(o, P)
<1>7. IsList(q) /\ Picked(next, P \cup {n + 1}) = Append(q, m)
  <2> HIDE DEF P, n
  <2>1. IsList(Picked(o, P))
    BY <1>5, PickedIsList
  <2>2. Picked(next, P \cup {n + 1}) = Append(Picked(next, P), next[n + 1])
    BY <1>3, <1>5, <1>6, PickedNext
  <2> QED  BY <1>2, <1>5, <2>1, <2>2
<1>8. TasksOf(o, kinds) = Tasks(q) /\ TasksOf(next, kinds) = Tasks(Picked(next, N))
  BY DEF TasksOf
<1> HIDE DEF q, P, N, n
<1>9. /\ Tasks(Append(q, m)) = Append(Tasks(q), m.task)
      /\ IsList(Tasks(q)) /\ Len(Tasks(q)) \in Nat
  BY <1>7, TasksAppended
<1> QED  BY <1>0, <1>2, <1>4, <1>5, <1>7, <1>8, <1>9 DEF q

----------------------------------------------------------------------------
(* The worker                                                              *)

Taken == TasksOf(out, {"started"})
Told == TasksOf(out, {"report", "finished", "failed"})

TypeInv ==
  /\ state \in {"Idle", "Running", "Paused", "Shutdown"}
  /\ phase \in {"Thinking", "Acting", "Finished", "Failed"}
  /\ task = NoTask \/ task.id \in 1..MaxMessages
  /\ sent \in 0..MaxMessages
  /\ mailbox \in Seq([kind : Message, id : 1..MaxMessages])
  /\ IsList(out)

\* A task is worked on by a running worker only, and nothing is left of its call when
\* it is done.
Busy ==
  /\ task # NoTask => state = "Running" /\ report = <<>>
  /\ task = NoTask => phase = "Thinking"
  /\ task = NoTask \/ phase # "Thinking" => outcome = "idle"

\* What the cognition returned and what became of the skills that it asked for.
Remembers(v) ==
  LET wanted == ParseSkillRequests(v)
  IN  /\ output = <<v>>
      /\ results = IF wanted = <<>> THEN <<>> ELSE <<RunRequested(role, wanted)>>

Memory ==
  /\ task # NoTask /\ phase = "Thinking" => results = <<>>
  /\ phase \in {"Acting", "Finished"} => \E v \in Value : Remembers(v)
  /\ ReportIsOut => /\ \E v \in Value : Remembers(v)
                    /\ report = <<AsReport(Full, "Completed")>>

\* Every announced task but the one at work is told of.
Accounts ==
  /\ task = NoTask => Told = Taken
  /\ task # NoTask => Taken = Append(Told, task.id)

IInv == TypeInv /\ CallInv /\ Busy /\ Memory /\ Accounts


LEMMA NothingSaid == \A kinds : TasksOf(<<>>, kinds) = <<>>
<1> SUFFICES ASSUME NEW kinds PROVE TasksOf(<<>>, kinds) = <<>>
  OBVIOUS
<1> DEFINE P == {i \in DOMAIN <<>> : <<>>[i].kind \in kinds}
<1>1. P = {}
  OBVIOUS
<1>2. IsFiniteSet({}) /\ Cardinality({}) = 0
  BY FS_EmptySet
<1>3. DOMAIN Picked(<<>>, P) = 1..0 /\ IsList(Picked(<<>>, P)) /\ Len(Picked(<<>>, P)) = 0
  BY <1>1, <1>2, PickedIsList
<1>4. Picked(<<>>, P) = <<>>
  BY <1>3 DEF IsList
<1> HIDE DEF P
<1>5. Tasks(<<>>) = <<>>
  BY DEF Tasks
<1> QED  BY <1>4, <1>5 DEF TasksOf, P

LEMMA InitHolds == Init => IInv
<1> SUFFICES ASSUME Init PROVE IInv
  OBVIOUS
<1>1. CallInv
  BY CallInit DEF Init
<1>2. TypeInv
  <2>1. IsList(<<>>)
    BY DEF IsList
  <2> QED  BY <2>1, MessagesAreCounted DEF Init, TypeInv
<1>3. Busy
  BY DEF Init, Busy, Call!Init
<1>4. Memory
  BY DEF Init, Memory, ReportIsOut
<1>5. Accounts
  BY NothingSaid DEF Init, Accounts, Taken, Told
<1> QED  BY <1>1, <1>2, <1>3, <1>4, <1>5 DEF IInv

\* Steps that report nothing and leave the memory alone.
LEMMA MemoryStays ==
  /\ Memory /\ UNCHANGED <<role, memory, out, report>>
  /\ task' # NoTask /\ phase' = "Thinking" => results = <<>>
  /\ phase' \in {"Acting", "Finished"} => phase \in {"Acting", "Finished"}
  => Memory'
  BY DEF Memory, memory, Remembers, ReportIsOut, Full, Bare, AsReport

LEMMA AccountsStay == Accounts /\ UNCHANGED <<task, out>> => Accounts'
  BY DEF Accounts, Taken, Told

\* A message of the worker announces a task or tells of one.
LEMMA Said ==
  ASSUME NEW m, IsList(out), out' = Append(out, m)
  PROVE  /\ IsList(out')
         /\ m.kind = "started" => Taken' = Append(Taken, m.task) /\ Told' = Told
         /\ m.kind \in {"report", "finished", "failed"} =>
              Told' = Append(Told, m.task) /\ Taken' = Taken
<1>1. PICK ends, starts : ends = {"report", "finished", "failed"} /\ starts = {"started"}
  OBVIOUS
<1>2. /\ Told = TasksOf(out, ends) /\ Taken = TasksOf(out, starts)
      /\ Told' = TasksOf(out', ends) /\ Taken' = TasksOf(out', starts)
  BY <1>1 DEF Told, Taken
<1>3. \A kinds : TasksOf(out', kinds) =
        IF m.kind \in kinds THEN Append(TasksOf(out, kinds), m.task) ELSE TasksOf(out, kinds)
  BY TasksOfNext
<1>4. /\ m.kind = "started" => m.kind \in starts /\ m.kind \notin ends
      /\ m.kind \in {"report", "finished", "failed"} => m.kind \in ends /\ m.kind \notin starts
  BY <1>1
<1>5. IsList(out')
  BY TasksOfNext
<1> QED  BY <1>2, <1>3, <1>4, <1>5

LEMMA SendKeeps == ASSUME NEW kind \in Message PROVE IInv /\ Send(kind) => IInv'
<1> SUFFICES ASSUME IInv, Send(kind) PROVE IInv'
  OBVIOUS
<1>1. CallInv'
  BY CallStays DEF IInv, Send
<1>2. TypeInv'
  <2>1. sent + 1 \in 1..MaxMessages
    BY MessagesAreCounted DEF IInv, TypeInv, Send
  <2>2. mailbox' \in Seq([kind : Message, id : 1..MaxMessages])
    BY <2>1 DEF IInv, TypeInv, Send
  <2> QED  BY <2>1, <2>2 DEF IInv, TypeInv, Send
<1>3. Busy'
  BY DEF IInv, Busy, Send, callVars
<1>4. Memory'
  BY MemoryStays DEF IInv, Send, Memory
<1>5. Accounts'
  BY AccountsStay DEF IInv, Send
<1> QED  BY <1>1, <1>2, <1>3, <1>4, <1>5 DEF IInv

\* A message is looked at only between two tasks.
LEMMA Received ==
  ASSUME IInv, NEW kind \in Message, Receive(kind)
  PROVE  /\ task = NoTask /\ CallInv' /\ outcome' = "idle"
         /\ Head(mailbox).id \in 1..MaxMessages
         /\ mailbox' \in Seq([kind : Message, id : 1..MaxMessages])
<1>1. task = NoTask /\ outcome = "idle"
  BY DEF IInv, Busy, Receive
<1>2. CallInv' /\ outcome' = "idle"
  BY <1>1, CallStays DEF IInv, Receive, callVars
<1> DEFINE S == [kind : Message, id : 1..MaxMessages]
<1>3. mailbox \in Seq(S) /\ mailbox # <<>> /\ mailbox' = Tail(mailbox)
  BY DEF IInv, TypeInv, Receive
<1>4. Head(mailbox) \in S /\ mailbox' \in Seq(S)
  <2> HIDE DEF S
  <2>1. Head(mailbox) \in S /\ Tail(mailbox) \in Seq(S)
    BY <1>3
  <2> QED  BY <1>3, <2>1
<1> QED  BY <1>1, <1>2, <1>4

LEMMA TakeTaskKeeps == IInv /\ TakeTask => IInv'
<1> SUFFICES ASSUME IInv, TakeTask PROVE IInv'
  OBVIOUS
<1> DEFINE m == Head(mailbox)
<1>1. PICK kind \in Message : Receive(kind)
  BY DEF TakeTask, Message
<1>2. /\ task = NoTask /\ CallInv' /\ outcome' = "idle" /\ m.id \in 1..MaxMessages
      /\ mailbox' \in Seq([kind : Message, id : 1..MaxMessages])
  BY <1>1, Received
<1>3. StartTask(m)
  BY DEF TakeTask
<1> DEFINE said == [kind |-> "started", task |-> m.id]
<1>4. out' = Append(out, said) /\ said.kind = "started" /\ said.task = m.id /\ IsList(out)
  BY <1>3 DEF StartTask, IInv, TypeInv
<1>5. task'.id = m.id /\ task' # NoTask
  <2>1. task'.id = m.id
    BY <1>3 DEF StartTask
  <2> QED  BY <1>2, <2>1 DEF NoTask
<1> HIDE DEF said, m
<1>6. IsList(out') /\ Told' = Told /\ Taken' = Append(Taken, m.id)
  BY <1>4, Said
<1>7. TypeInv'
  BY <1>1, <1>2, <1>3, <1>5, <1>6 DEF TypeInv, IInv, StartTask, Receive
<1>8. Busy'
  BY <1>2, <1>3, <1>5 DEF Busy, StartTask
<1>9. Memory'
  BY <1>3 DEF Memory, ReportIsOut, StartTask
<1>10. Accounts'
  BY <1>2, <1>5, <1>6 DEF Accounts, IInv
<1> QED  BY <1>2, <1>7, <1>8, <1>9, <1>10 DEF IInv

LEMMA ControlKeeps ==
  ASSUME NEW kind \in Message, NEW newState \in {"Idle", "Running", "Paused", "Shutdown"}
  PROVE  IInv /\ Receive(kind) /\ Control(newState) => IInv'
<1> SUFFICES ASSUME IInv, Receive(kind), Control(newState) PROVE IInv'
  OBVIOUS
<1>1. /\ task = NoTask /\ CallInv' /\ outcome' = "idle"
      /\ mailbox' \in Seq([kind : Message, id : 1..MaxMessages])
  BY Received
<1>2. TypeInv'
  BY <1>1 DEF TypeInv, IInv, Control, Receive
<1>3. Busy'
  BY <1>1 DEF Busy, IInv, Control
<1>4. Memory'
  BY MemoryStays DEF IInv, Control, Receive, Memory
<1>5. Accounts'
  BY AccountsStay DEF IInv, Control
<1> QED  BY <1>1, <1>2, <1>3, <1>4, <1>5 DEF IInv

LEMMA NothingToDoKeeps == IInv /\ NothingToDo => IInv'
<1> SUFFICES ASSUME IInv, NothingToDo PROVE IInv'
  OBVIOUS
<1>1. CallInv'
  BY CallStays DEF IInv, NothingToDo
<1>2. TypeInv'
  BY DEF IInv, TypeInv, NothingToDo, Step
<1>3. Busy'
  BY DEF IInv, Busy, NothingToDo, Step, callVars
<1>4. Memory'
  BY MemoryStays DEF IInv, NothingToDo, Step, Memory
<1>5. Accounts'
  BY AccountsStay DEF IInv, NothingToDo
<1> QED  BY <1>1, <1>2, <1>3, <1>4, <1>5 DEF IInv

\* The steps of the call: the worker stays as it is, in the middle of a task.
LEMMA AskingKeeps ==
  ASSUME IInv, CallInv', Step("Thinking"), task # NoTask,
         UNCHANGED <<state, phase, task, action, memory, out, report>>
  PROVE  IInv'
<1>1. TypeInv'
  BY DEF IInv, TypeInv, Step
<1>2. Busy'
  BY DEF IInv, Busy, Step
<1>3. Memory'
  BY MemoryStays DEF IInv, Step, Memory
<1>4. Accounts'
  BY AccountsStay DEF IInv
<1> QED  BY <1>1, <1>2, <1>3, <1>4 DEF IInv

LEMMA AskKeeps == IInv /\ Ask => IInv'
<1> SUFFICES ASSUME IInv, Ask PROVE IInv'
  OBVIOUS
<1>1. CallInv'
  BY BeginKeeps DEF IInv, Ask
<1> QED  BY <1>1, AskingKeeps DEF Ask

LEMMA AnsweredKeeps == ASSUME NEW r \in Call!Reply PROVE IInv /\ Answered(r) => IInv'
<1> SUFFICES ASSUME IInv, Answered(r) PROVE IInv'
  OBVIOUS
<1>1. CallInv'
  BY ChatOnceKeeps DEF IInv, Answered
<1>2. task # NoTask
  BY DEF IInv, Busy, Answered, Call!ChatOnce
<1> QED  BY <1>1, <1>2, AskingKeeps DEF Answered

LEMMA ThoughtKeeps == IInv /\ Thought => IInv'
<1> SUFFICES ASSUME IInv, Thought PROVE IInv'
  OBVIOUS
<1>0. PICK v : v = raw[1]
  OBVIOUS
<1> DEFINE wanted == ParseSkillRequests(v)
<1>1. CallInv' /\ outcome' = "idle"
  BY ReturnedKeeps DEF IInv, Thought, Returned
<1>2. v \in Value
  BY <1>0 DEF IInv, CallInv, Call!RetriesAreJustified, Thought
<1>3. /\ task # NoTask /\ phase = "Thinking" /\ results = <<>> /\ report = <<>>
      /\ task' = task /\ report' = report
      /\ phase' \in {"Acting", "Finished"}
  BY DEF IInv, Busy, Memory, Thought, Step
<1>4. Remembers(v)'
  <2>1. output' = <<v>> /\ results' = IF wanted = <<>> THEN <<>> ELSE <<RunRequested(role, wanted)>>
    BY <1>0, <1>3 DEF Thought
  <2>2. role' = role
    BY DEF Thought, Step
  <2> QED  BY <2>1, <2>2 DEF Remembers
<1>5. TypeInv'
  BY <1>3 DEF IInv, TypeInv, Thought, Step
<1>6. Busy'
  BY <1>1, <1>3 DEF IInv, Busy, Thought
<1>7. Memory'
  BY <1>2, <1>3, <1>4 DEF Memory, ReportIsOut
<1>8. Accounts'
  BY AccountsStay DEF IInv, Thought
<1> QED  BY <1>1, <1>5, <1>6, <1>7, <1>8 DEF IInv

LEMMA GaveUpKeeps == IInv /\ GaveUp => IInv'
<1> SUFFICES ASSUME IInv, GaveUp PROVE IInv'
  OBVIOUS
<1>1. CallInv' /\ outcome' = "idle"
  BY ReturnedKeeps DEF IInv, GaveUp, Returned
<1>2. /\ task # NoTask /\ report = <<>> /\ task' = task /\ report' = report /\ phase' = "Failed"
  BY DEF IInv, Busy, GaveUp, Step
<1>3. TypeInv'
  BY DEF IInv, TypeInv, GaveUp, Step
<1>4. Busy'
  BY <1>1, <1>2 DEF IInv, Busy, GaveUp
<1>5. Memory'
  BY <1>2 DEF Memory, ReportIsOut
<1>6. Accounts'
  BY AccountsStay DEF IInv, GaveUp
<1> QED  BY <1>1, <1>3, <1>4, <1>5, <1>6 DEF IInv

LEMMA ActKeeps == IInv /\ Act => IInv'
<1> SUFFICES ASSUME IInv, Act PROVE IInv'
  OBVIOUS
<1>1. CallInv' /\ outcome' = outcome
  BY CallStays DEF IInv, Act, callVars
<1>2. /\ task # NoTask /\ report = <<>> /\ task' = task /\ report' = report
      /\ phase = "Acting" /\ phase' \in {"Finished", "Failed"}
  BY DEF IInv, Busy, Act, Step
<1>3. TypeInv'
  BY <1>2 DEF IInv, TypeInv, Act, Step
<1>4. Busy'
  BY <1>1, <1>2 DEF IInv, Busy, Act
<1>5. Memory'
  <2>1. PICK v \in Value : Remembers(v)
    BY <1>2 DEF IInv, Memory
  <2>2. Remembers(v)'
    BY <2>1 DEF Remembers, Act, Step
  <2> QED  BY <1>2, <2>2 DEF Memory, ReportIsOut
<1>6. Accounts'
  BY AccountsStay DEF IInv, Act
<1> QED  BY <1>1, <1>3, <1>4, <1>5, <1>6 DEF IInv

\* The end of a task: the message tells of it.
LEMMA ToldOf ==
  ASSUME IInv, task # NoTask, task' = NoTask,
         NEW kind \in {"report", "finished", "failed"},
         out' = Append(out, [kind |-> kind, task |-> task.id])
  PROVE  /\ IsList(out') /\ out'[Len(out')].kind = kind /\ Accounts'
         /\ Told' = Append(Told, task.id) /\ Taken' = Taken
<1>1. PICK m : m = [kind |-> kind, task |-> task.id]
  OBVIOUS
<1>2. m.kind = kind /\ m.task = task.id /\ out' = Append(out, m) /\ IsList(out)
  BY <1>1 DEF IInv, TypeInv
<1>3. IsList(out') /\ Told' = Append(Told, task.id) /\ Taken' = Taken
  BY <1>2, Said
<1>4. out'[Len(out')] = m
  <2>1. PICK T : out \in Seq(T)
    BY <1>2 DEF IsList
  <2> QED  BY <1>2, <2>1
<1>5. Accounts'
  BY <1>3 DEF IInv, Accounts
<1> QED  BY <1>2, <1>3, <1>4, <1>5

LEMMA HandleTaskFinishedKeeps == IInv /\ HandleTaskFinished => IInv'
<1> SUFFICES ASSUME IInv, HandleTaskFinished PROVE IInv'
  OBVIOUS
<1>1. CallInv' /\ outcome' = outcome
  BY CallStays DEF IInv, HandleTaskFinished, callVars
<1>2. /\ task # NoTask /\ task' = NoTask /\ phase = "Finished" /\ outcome = "idle"
  BY DEF IInv, Busy, HandleTaskFinished, Step
<1>3. PICK kind \in {"report", "finished", "failed"} :
        /\ out' = Append(out, [kind |-> kind, task |-> task.id])
        /\ kind = "report" => task.assigned
  BY DEF HandleTaskFinished
<1>4. IsList(out') /\ out'[Len(out')].kind = kind /\ Accounts'
  BY <1>2, <1>3, ToldOf
<1>5. TypeInv'
  BY <1>2, <1>4 DEF IInv, TypeInv, HandleTaskFinished, Step
<1>6. Busy'
  BY <1>1, <1>2 DEF Busy, HandleTaskFinished
<1>7. Memory'
  <2>1. PICK v \in Value : Remembers(v)
    BY <1>2 DEF IInv, Memory
  <2>2. role' = role /\ output' = output /\ results' = results
    BY DEF HandleTaskFinished, Step, memory
  <2>3. Remembers(v)'
    BY <2>1, <2>2 DEF Remembers
  <2>4. ASSUME ReportIsOut' PROVE report' = <<AsReport(Full, "Completed")>>'
    <3>1. task.assigned
      BY <1>3, <1>4, <2>4 DEF ReportIsOut
    <3>2. report' = <<AsReport(Full, "Completed")>>
      BY <3>1 DEF HandleTaskFinished
    <3>3. Full' = Full
      BY <2>2 DEF Full, Bare
    <3> QED  BY <2>2, <3>2, <3>3 DEF AsReport
  <2> QED  BY <1>2, <2>3, <2>4 DEF Memory, HandleTaskFinished
<1> QED  BY <1>1, <1>4, <1>5, <1>6, <1>7 DEF IInv

LEMMA HandleTaskFailedKeeps == IInv /\ HandleTaskFailed => IInv'
<1> SUFFICES ASSUME IInv, HandleTaskFailed PROVE IInv'
  OBVIOUS
<1>1. CallInv' /\ outcome' = outcome
  BY CallStays DEF IInv, HandleTaskFailed, callVars
<1>2. /\ task # NoTask /\ task' = NoTask /\ outcome = "idle"
  BY DEF IInv, Busy, HandleTaskFailed, Step
<1>3. PICK kind \in {"report", "finished", "failed"} :
        out' = Append(out, [kind |-> kind, task |-> task.id])
  BY DEF HandleTaskFailed
<1>4. IsList(out') /\ Accounts'
  BY <1>2, <1>3, ToldOf
<1>5. TypeInv'
  BY <1>2, <1>4 DEF IInv, TypeInv, HandleTaskFailed, Step
<1>6. Busy'
  BY <1>1, <1>2 DEF Busy, HandleTaskFailed
<1>7. Memory'
  <2>1. report'[1].status = "Failed"
    BY DEF HandleTaskFailed, FailureReport, AsReport
  <2> QED  BY <1>2, <2>1 DEF Memory, ReportIsOut, HandleTaskFailed
<1> QED  BY <1>1, <1>4, <1>5, <1>6, <1>7 DEF IInv

LEMMA HandleMessageKeeps == IInv /\ HandleMessage => IInv'
<1> SUFFICES ASSUME IInv, HandleMessage PROVE IInv'
  OBVIOUS
<1>1. CASE TakeTask
  BY <1>1, TakeTaskKeeps
<1>2. CASE ControlStart
  <2>1. Receive("start") /\ task = NoTask /\ Control(state)
    BY <1>2, Received DEF ControlStart, Message
  <2>2. state \in {"Idle", "Running", "Paused", "Shutdown"}
    BY DEF IInv, TypeInv
  <2> QED  BY <2>1, <2>2, ControlKeeps DEF Message
<1>3. CASE ControlPause
  BY <1>3, ControlKeeps DEF ControlPause, Message
<1>4. CASE ControlResume
  BY <1>4, ControlKeeps DEF ControlResume, Message
<1>5. CASE ControlShutdown
  BY <1>5, ControlKeeps DEF ControlShutdown, Message
<1> QED  BY <1>1, <1>2, <1>3, <1>4, <1>5 DEF HandleMessage

LEMMA RuntimeStepKeeps == IInv /\ RuntimeStep => IInv'
<1> SUFFICES ASSUME IInv, RuntimeStep PROVE IInv'
  OBVIOUS
<1>1. CASE AnswerComes
  <2>1. PICK r \in Call!Reply : Answered(r)
    <3>1. /\ Call!NoAnswer \in Call!Reply
          /\ \A a \in Other \cup Value \cup Later : <<a>> \in Call!Reply
      BY AnswersAreSorted DEF Call!Reply
    <3> QED  BY <1>1, <3>1 DEF AnswerComes
  <2> QED  BY <2>1, AnsweredKeeps
<1> QED  BY <1>1, NothingToDoKeeps, AskKeeps, ThoughtKeeps, GaveUpKeeps, ActKeeps,
            HandleTaskFinishedKeeps, HandleTaskFailedKeeps DEF RuntimeStep

LEMMA StutterKeeps == IInv /\ UNCHANGED vars => IInv'
<1> SUFFICES ASSUME IInv, UNCHANGED vars PROVE IInv'
  OBVIOUS
<1>1. CallInv'
  BY CallStays DEF IInv, vars
<1>2. TypeInv' /\ Busy'
  BY DEF IInv, TypeInv, Busy, vars, callVars
<1>3. Memory'
  BY MemoryStays DEF IInv, vars, Memory
<1>4. Accounts'
  BY AccountsStay DEF IInv, vars
<1> QED  BY <1>1, <1>2, <1>3, <1>4 DEF IInv

LEMMA StepKeeps == IInv /\ [Next]_vars => IInv'
  BY HandleMessageKeeps, RuntimeStepKeeps, SendKeeps, StutterKeeps DEF Next

----------------------------------------------------------------------------
(* The theorems                                                            *)

\* evaluate by itself, whatever the model answers: the attempts are counted, and every
\* call of the model is justified by the policy and by what went wrong before.
THEOREM CallInvariant == Call!Spec => []CallInv
<1>1. CallInv /\ [Call!Next]_(Call!vars) => CallInv'
  <2> SUFFICES ASSUME CallInv, [Call!Next]_(Call!vars) PROVE CallInv'
    OBVIOUS
  <2>1. CASE UNCHANGED Call!vars
    BY <2>1, CallStays DEF Call!vars, callVars
  <2> QED  BY <2>1, BeginKeeps, ChatOnceKeeps DEF Call!Next
<1> QED  BY CallInit, <1>1, PTL DEF Call!Spec

\* CognitionEngine::evaluate: what RetriesAreJustified says, for every policy and every
\* sequence of answers.
THEOREM EveryRetryIsJustified == Call!Spec => []Call!RetriesAreJustified
<1>1. CallInv => Call!RetriesAreJustified
  BY DEF CallInv
<1> QED  BY CallInvariant, <1>1, PTL

\* The worker: the types, what is left of a call, what the memory holds for the
\* report, and that every announced task but the one at work was told of.
THEOREM WorkerInvariant == Spec => []IInv
<1> QED  BY InitHolds, StepKeeps, PTL DEF Spec

\* The calls a worker makes are justified like any.
THEOREM WorkerRetriesAreJustified == Spec => []RetriesAreJustified
<1>1. IInv => RetriesAreJustified
  BY DEF IInv, CallInv, RetriesAreJustified
<1> QED  BY WorkerInvariant, <1>1, PTL

----------------------------------------------------------------------------
(* What the report of an assignment is made of                             *)

Reported(v, wanted, told, p, m) ==
  /\ IsCognitionOutput(v) /\ output = <<v>>
  /\ wanted = ParseSkillRequests(v) /\ told = RunRequested(role, wanted)
  /\ results = IF told = <<>> THEN <<>> ELSE <<told>>
  /\ p = Parse(v) /\ p = Bare
  /\ m = MergeSkillResults(p, told) /\ report = <<AsReport(m, "Completed")>>

LEMMA ReportIs ==
  ASSUME IInv, ReportIsOut
  PROVE  \E v, wanted, told, p, m : Reported(v, wanted, told, p, m)
<1>1. PICK v \in Value : Remembers(v)
  BY DEF IInv, Memory
<1>2. report = <<AsReport(Full, "Completed")>> /\ IsCognitionOutput(v)
  BY ValuesAreOutputs DEF IInv, Memory
<1>3. PICK wanted, told : wanted = ParseSkillRequests(v) /\ told = RunRequested(role, wanted)
  OBVIOUS
<1>4. wanted = <<>> <=> told = <<>>
  BY <1>2, <1>3, ResultsAre
<1>5. output = <<v>> /\ results = IF told = <<>> THEN <<>> ELSE <<told>>
  BY <1>1, <1>3, <1>4 DEF Remembers
<1>6. Bare = Parse(v)
  BY <1>5 DEF Bare
<1>7. Full = MergeSkillResults(Parse(v), told)
  BY <1>5, <1>6 DEF Full
<1> QED  BY <1>2, <1>3, <1>5, <1>6, <1>7 DEF Reported

\* The report and its role output tell of every skill.
LEMMA EverySkillIsShown ==
  ASSUME NEW v, NEW wanted, NEW told, NEW p, NEW m, Reported(v, wanted, told, p, m),
         NEW i \in DOMAIN told
  PROVE  /\ report[1].role_output # <<>>
         /\ IsShown(told[i], report[1]) /\ IsShown(told[i], report[1].role_output[1])
<1>1. IsCognitionOutput(v) /\ p = Parse(v) /\ m = MergeSkillResults(p, told)
  BY DEF Reported
<1>2. IsList(told) /\ DOMAIN told = 1..Len(told) /\ told # <<>>
  BY ResultsAre DEF Reported
<1>3. PICK o : /\ m.role_output = <<o>>
               /\ MergedLists(MergedInto(p), o, told, Len(told))
               /\ GrownLists(p, m, told, Len(told))
  BY <1>1, <1>2, FullIs
<1>4. IsShown(told[i], o) /\ IsShown(told[i], m)
  BY <1>2, <1>3 DEF MergedLists, GrownLists
<1>5. /\ report[1].role_output = m.role_output /\ report[1].evidence = m.evidence
      /\ report[1].risks = m.risks /\ report[1].open_questions = m.open_questions
  BY DEF Reported, AsReport
<1>6. IsShown(told[i], report[1])
  BY <1>4, <1>5 DEF IsShown
<1> QED  BY <1>3, <1>4, <1>5, <1>6

\* execute_requested_skills and merge_skill_results: the report of an assignment tells
\* of the skills the cognition asked for in this task, of all of them and of no others,
\* for whatever the cognition returns and however many tasks there were before.
THEOREM EverySkillIsAccountedFor == Spec => []SkillsAreAccountedFor
<1>1. IInv => SkillsAreAccountedFor
  <2> SUFFICES ASSUME IInv, ReportIsOut PROVE SkillsAreAccountedFor
    BY DEF SkillsAreAccountedFor
  <2>1. PICK v, wanted, told, p, m : Reported(v, wanted, told, p, m)
    BY ReportIs
  <2>2. /\ output[1] = v /\ ParseSkillRequests(v) = wanted
        /\ told = IF results = <<>> THEN <<>> ELSE results[1]
    BY <2>1 DEF Reported
  <2>3. /\ Len(told) = Len(wanted)
        /\ \A i \in DOMAIN told :
             /\ told[i].id = wanted[i].id
             /\ ~RoleCanUse(role, told[i].id) => told[i].status = "ValidationError"
    BY <2>1, ResultsAre DEF Reported
  <2>4. \A i \in DOMAIN told :
          /\ report[1].role_output # <<>>
          /\ IsShown(told[i], report[1]) /\ IsShown(told[i], report[1].role_output[1])
    BY <2>1, EverySkillIsShown
  <2> QED  BY <2>2, <2>3, <2>4 DEF SkillsAreAccountedFor
<1> QED  BY WorkerInvariant, <1>1, PTL

\* Without a summary the report does not pass, with the results or without.
LEMMA NoSummaryNoPass ==
  ASSUME NEW v, IsCognitionOutput(v), NEW rs, IsList(rs), rs # <<>>,
         NEW p, p = Parse(v), NEW m, m = MergeSkillResults(p, rs),
         p.role_output = <<>> \/ p.role_output[1].summary = {}
  PROVE  Reasons(AsReport(p, "Completed")) # {} /\ Reasons(AsReport(m, "Completed")) # {}
<1>1. PICK o : m.role_output = <<o>> /\ MergedLists(MergedInto(p), o, rs, Len(rs))
  BY FullIs
<1>2. "summary" \in DOMAIN MergedInto(p) \ ThreeLists /\ MergedInto(p).summary = {}
  <2>1. CASE p.role_output = <<>>
    BY <2>1 DEF MergedInto, EmptyOutput, ThreeLists
  <2>2. CASE p.role_output # <<>>
    <3>1. PICK w \in RoleWorkOutput : p.role_output = <<w>>
      BY <2>2, ParsedIs
    <3>2. MergedInto(p) = w
      BY <3>1 DEF MergedInto
    <3>3. "summary" \in DOMAIN w /\ w.summary = {}
      BY <3>1 DEF RoleWorkOutput
    <3> QED  BY <3>2, <3>3 DEF ThreeLists
  <2> QED  BY <2>1, <2>2
<1>3. o.summary = {}
  BY <1>1, <1>2 DEF MergedLists, SameBesides
<1>4. Reasons(AsReport(p, "Completed")) # {}
  <2>1. PICK b : b = AsReport(p, "Completed")
    OBVIOUS
  <2>2. b.role_output = <<>> \/ b.role_output[1].summary = {}
    BY <2>1 DEF AsReport
  <2> QED  BY <2>1, <2>2, NoSummary DEF Reasons
<1>5. Reasons(AsReport(m, "Completed")) # {}
  <2>1. PICK a : a = AsReport(m, "Completed")
    OBVIOUS
  <2>2. a.role_output[1].summary = {}
    BY <1>1, <1>3, <2>1 DEF AsReport
  <2> QED  BY <2>1, <2>2, NoSummary DEF Reasons
<1> QED  BY <1>4, <1>5

FullerBy(b, a, rs) ==
  /\ Fuller(b, a, CitedOf(rs), SaidOf(rs))
  /\ (\A i \in 1..Len(rs) : ~Success(rs[i])) =>
       a.role_output[1].evidence = b.role_output[1].evidence
  /\ (\A i \in 1..Len(rs) : Success(rs[i])) =>
       /\ a.role_output[1].risks = b.role_output[1].risks
       /\ a.role_output[1].open_questions = b.role_output[1].open_questions

\* With one, the report with the results says more, and nothing that betrays a bad one.
LEMMA ReportIsFuller ==
  ASSUME NEW v, IsCognitionOutput(v), NEW rs, IsList(rs), rs # <<>>,
         NEW p, p = Parse(v), NEW m, m = MergeSkillResults(p, rs),
         p.role_output # <<>>, SaidOf(rs) \cap Betraying = {},
         NEW b, b = AsReport(p, "Completed"), NEW a, a = AsReport(m, "Completed")
  PROVE  FullerBy(b, a, rs)
<1>1. PICK o : /\ m.role_output = <<o>> /\ MergedLists(MergedInto(p), o, rs, Len(rs))
               /\ GrownLists(p, m, rs, Len(rs))
               /\ FormatContent(o) # {} => m.content = FormatContent(o)
  BY FullIs
<1>2. PICK w \in RoleWorkOutput : p.role_output = <<w>>
  BY ParsedIs
<1>3. MergedInto(p) = w
  BY <1>2 DEF MergedInto
<1>4. FormatContent(w) # {} => p.content = FormatContent(w)
  BY <1>2, ParsedIs
<1>5. o.summary = w.summary /\ o.findings = w.findings /\ o.recommendations = w.recommendations
  <2>1. {"summary", "findings", "recommendations"} \subseteq DOMAIN w \ ThreeLists
    BY DEF RoleWorkOutput, ThreeLists
  <2> QED  BY <1>1, <1>3, <2>1 DEF MergedLists, SameBesides
<1>6. GrownLists(w, o, rs, Len(rs))
  BY <1>1, <1>3 DEF MergedLists
<1>7. /\ b.role_output = <<w>> /\ a.role_output = <<o>> /\ a.status = b.status /\ a.role = b.role
      /\ b.content = p.content /\ a.content = m.content
      /\ b.open_questions = p.open_questions /\ a.open_questions = m.open_questions
  BY <1>1, <1>2 DEF AsReport
<1>8. b.role_output[1] = w /\ a.role_output[1] = o
  BY <1>7
<1>9. Grown(p.open_questions, m.open_questions, SaidOf(rs))
  BY <1>1 DEF GrownLists
<1> QED  BY <1>1, <1>4, <1>5, <1>6, <1>7, <1>8, <1>9 DEF FullerBy, Fuller, GrownLists

\* merge_skill_results and evaluate_report: whatever becomes of the skills, a report that
\* would pass without their results passes with them, and they make one pass only by the
\* citation, the risk or the open question it lacked.
THEOREM SkillsDoNoHarm == Spec => []SkillsOnlyFill
<1>1. IInv => SkillsOnlyFill
  <2> SUFFICES ASSUME IInv, ReportIsOut, results # <<>>,
                      \A i \in DOMAIN results[1] : results[1][i].id \notin Betraying
               PROVE  SkillsOnlyFill
    BY DEF SkillsOnlyFill
  <2>1. PICK v, wanted, told, p, m : Reported(v, wanted, told, p, m)
    BY ReportIs
  <2>2. /\ IsCognitionOutput(v) /\ p = Parse(v) /\ p = Bare /\ m = MergeSkillResults(p, told)
        /\ told # <<>> /\ results[1] = told /\ report[1] = AsReport(m, "Completed")
    BY <2>1 DEF Reported
  <2>3. /\ IsList(told) /\ DOMAIN told = 1..Len(told)
        /\ \A i \in DOMAIN told : told[i].status \in Fates
    BY <2>1, ResultsAre DEF Reported
  <2>4. SaidOf(told) \cap Betraying = {}
    <3>1. \A i \in DOMAIN told : told[i].id \notin Betraying
      BY <2>2
    <3> QED  BY <2>3, <3>1, SaidIsHarmless
  <2>5. PICK b, a : b = AsReport(p, "Completed") /\ a = AsReport(m, "Completed")
    OBVIOUS
  <2>6. PICK before, after : before = Reasons(b) /\ after = Reasons(a)
    OBVIOUS
  <2> DEFINE some(statuses) == \E i \in DOMAIN told : told[i].status \in statuses
             undone == {"Deferred", "PendingApproval", "ValidationError", "Failed"}
  <2>7. /\ before = {} => after = {}
        /\ after = {} => /\ before \subseteq {"citation", "risks", "refusal"}
                         /\ "citation" \in before => some({"Success"})
                         /\ before \cap {"risks", "refusal"} # {} => some(undone)
    <3>1. CASE p.role_output = <<>> \/ p.role_output[1].summary = {}
      BY <2>2, <2>3, <2>5, <2>6, <3>1, NoSummaryNoPass
    <3>2. CASE p.role_output # <<>> /\ p.role_output[1].summary # {}
      <4> DEFINE bo == b.role_output[1]
                 ao == a.role_output[1]
      <4>1. /\ Fuller(b, a, CitedOf(told), SaidOf(told))
            /\ (\A i \in 1..Len(told) : ~Success(told[i])) => ao.evidence = bo.evidence
            /\ (\A i \in 1..Len(told) : Success(told[i])) =>
                 ao.risks = bo.risks /\ ao.open_questions = bo.open_questions
        <5>1. FullerBy(b, a, told)
          BY <2>2, <2>3, <2>4, <2>5, <3>2, ReportIsFuller
        <5> QED  BY <5>1 DEF FullerBy
      <4>2. b.status = "Completed" /\ bo.summary # {}
        BY <2>5, <3>2 DEF AsReport
      <4>3. before = EvaluateReport(b, DOMAIN Inputs, Inputs) /\ after = EvaluateReport(a, DOMAIN Inputs, Inputs)
        BY <2>6 DEF Reasons
      <4>4. /\ before = {} => after = {}
            /\ after = {} =>
                 /\ before \subseteq {"citation", "risks", "refusal"}
                 /\ ao.evidence = bo.evidence => "citation" \notin before
                 /\ ao.risks = bo.risks /\ ao.open_questions = bo.open_questions =>
                      before \cap {"risks", "refusal"} = {}
        BY <4>1, <4>2, <4>3, FewerReasons
      <4>5. (\A i \in 1..Len(told) : ~Success(told[i])) \/ some({"Success"})
        BY <2>3 DEF Success
      <4>6. (\A i \in 1..Len(told) : Success(told[i])) \/ some(undone)
        BY <2>3 DEF Success, Fates
      <4> QED  BY <4>1, <4>4, <4>5, <4>6
    <3> QED  BY <3>1, <3>2
  <2>8. before = Reasons(AsReport(Bare, "Completed")) /\ after = Reasons(report[1])
    BY <2>2, <2>5, <2>6
  <2> QED  BY <2>2, <2>7, <2>8 DEF SkillsOnlyFill
<1> QED  BY WorkerInvariant, <1>1, PTL

----------------------------------------------------------------------------
(* The promise                                                             *)

LEMMA LastIsNew ==
  ASSUME NEW o, IsList(o), NEW kinds, NEW t
  PROVE  Append(TasksOf(o, kinds), t) # TasksOf(o, kinds)
<1> DEFINE n == Len(o)
           P == {i \in DOMAIN o : o[i].kind \in kinds}
           q == Picked(o, P)
<1>1. n \in Nat /\ P \in SUBSET (1..n)
  BY DEF IsList
<1>2. IsFiniteSet(P)
  <2> HIDE DEF P, n
  <2> QED  BY <1>1, PickedFrom
<1>3. IsList(q)
  <2> HIDE DEF P
  <2> QED  BY <1>2, PickedIsList
<1>4. IsList(Tasks(q))
  <2> HIDE DEF q
  <2> QED  BY <1>3, TasksAppended
<1>5. \A s : IsList(s) => Append(s, t) # s
  BY DEF IsList
<1>6. TasksOf(o, kinds) = Tasks(q)
  BY DEF TasksOf
<1> HIDE DEF q
<1> QED  BY <1>4, <1>5, <1>6

TakesTask == \E t \in 1..MaxMessages : Told = Taken /\ Taken' = Append(Taken, t) /\ Told' = Told
TellsTask == Told # Taken /\ Told' = Taken /\ Taken' = Taken

LEMMA TakeIsTake == IInv /\ TakeTask => TakesTask
<1> SUFFICES ASSUME IInv, TakeTask PROVE TakesTask
  OBVIOUS
<1>1. PICK kind \in Message : Receive(kind)
  BY DEF TakeTask, Message
<1>2. task = NoTask /\ Head(mailbox).id \in 1..MaxMessages
  BY <1>1, Received
<1>3. PICK m : m = [kind |-> "started", task |-> Head(mailbox).id]
  OBVIOUS
<1>4. /\ out' = Append(out, m) /\ m.kind = "started" /\ IsList(out)
      /\ m.task \in 1..MaxMessages
  BY <1>2, <1>3 DEF TakeTask, StartTask, IInv, TypeInv
<1>5. Taken' = Append(Taken, m.task) /\ Told' = Told
  BY <1>4, Said
<1> QED  BY <1>2, <1>4, <1>5 DEF TakesTask, IInv, Accounts

LEMMA EndIsTell == IInv /\ (HandleTaskFinished \/ HandleTaskFailed) => TellsTask
<1> SUFFICES ASSUME IInv, HandleTaskFinished \/ HandleTaskFailed PROVE TellsTask
  OBVIOUS
<1>1. task # NoTask /\ task' = NoTask
  BY DEF IInv, Busy, HandleTaskFinished, HandleTaskFailed, Step
<1>2. PICK kind \in {"report", "finished", "failed"} :
        out' = Append(out, [kind |-> kind, task |-> task.id])
  BY DEF HandleTaskFinished, HandleTaskFailed
<1>3. Told' = Append(Told, task.id) /\ Taken' = Taken
  BY <1>1, <1>2, ToldOf
<1>4. Taken = Append(Told, task.id)
  BY <1>1 DEF IInv, Accounts
<1>5. Append(Told, task.id) # Told
  BY LastIsNew DEF IInv, TypeInv, Told
<1> QED  BY <1>3, <1>4, <1>5 DEF TellsTask

\* The worker implements its promise: a task is announced only when the one before it
\* was told of, and then told of itself before the next.
THEOREM WorkerImplementsPromise == Spec => KeepsWorkerPromise
<1>1. /\ Taken = Tasks(Of({"started"}))
      /\ Told = Tasks(Of({"report", "finished", "failed"}))
      /\ Taken' = Tasks(Of({"started"}))'
      /\ Told' = Tasks(Of({"report", "finished", "failed"}))'
  BY DEF Taken, Told, TasksOf, Of
<1>2. Init => Promise!Init
  <2> SUFFICES ASSUME Init PROVE Promise!Init
    OBVIOUS
  <2>1. out = <<>>
    BY DEF Init
  <2>2. Taken = <<>> /\ Told = <<>>
    BY <2>1, NothingSaid DEF Taken, Told
  <2> QED  BY <1>1, <2>2 DEF Promise!Init
<1>3. IInv /\ [Next]_vars => [Promise!Next]_<<Tasks(Of({"started"})), Tasks(Of({"report", "finished", "failed"}))>>
  <2> SUFFICES ASSUME IInv, [Next]_vars
               PROVE  [Promise!Next]_<<Tasks(Of({"started"})), Tasks(Of({"report", "finished", "failed"}))>>
    OBVIOUS
  <2>1. CASE TakeTask
    <3>1. TakesTask
      BY <2>1, TakeIsTake
    <3>2. PICK t \in 1..MaxMessages : Told = Taken /\ Taken' = Append(Taken, t) /\ Told' = Told
      BY <3>1 DEF TakesTask
    <3>3. Promise!Take(t)
      BY <1>1, <3>2 DEF Promise!Take
    <3> QED  BY <3>3 DEF Promise!Next
  <2>2. CASE HandleTaskFinished \/ HandleTaskFailed
    <3>1. TellsTask
      BY <2>2, EndIsTell
    <3>2. Promise!Tell
      BY <1>1, <3>1 DEF TellsTask, Promise!Tell
    <3> QED  BY <3>2 DEF Promise!Next
  <2>3. CASE UNCHANGED out
    BY <2>3 DEF Of, Tasks
  <2>4. TakeTask \/ HandleTaskFinished \/ HandleTaskFailed \/ UNCHANGED out
    BY DEF Next, RuntimeStep, HandleMessage, Send, ControlStart, ControlPause, ControlResume,
           ControlShutdown, Control, NothingToDo, Ask, Thought, GaveUp, Act, AnswerComes,
           Answered, vars
  <2> QED  BY <2>1, <2>2, <2>3, <2>4
<1> QED  BY <1>2, <1>3, WorkerInvariant, PTL DEF Spec, KeepsWorkerPromise, Promise!Spec
=============================================================================
