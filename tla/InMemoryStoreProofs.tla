------------------------- MODULE InMemoryStoreProofs -------------------------
(***************************************************************************)
(* Theorems about InMemoryStore for any scopes and kinds, keys, confidences*)
(* and limits of the retention, and any number of upserts.                 *)
(***************************************************************************)
EXTENDS InMemoryStore, MemoryRecordsProofs

\* What the last upsert chose from and what it kept.
LastUpsert ==
  /\ offered \in Seq(Rec)
  /\ records = offered \/ \E g \in Group : records = Regrouped(offered, g)

\* The group that was written last is the last one.
LatestLast ==
  \A i, j \in DOMAIN records :
    i < j => written[records[i].group] <= written[records[j].group]

\* The records are in order, each one is numbered by the upsert it came with, and
\* what the last upsert dropped it dropped in compacting the group.
IInv ==
  /\ upserts \in 0..MaxUpserts /\ clock \in 0..upserts
  /\ written \in [Group -> 0..upserts]
  /\ Good(records)
  /\ Numbered(records, 1..upserts)
  /\ LastUpsert
  /\ LatestLast

LEMMA InitIInv == Init => IInv
<1> SUFFICES ASSUME Init PROVE IInv
  OBVIOUS
<1>1. records = <<>> /\ offered = <<>> /\ upserts = 0 /\ clock = 0 /\ written = [g \in Group |-> 0]
  BY DEF Init
<1>2. Good(records) /\ Numbered(records, 1..upserts)
  BY <1>1, NothingIsGood DEF Numbered
<1>3. LastUpsert /\ LatestLast
  BY <1>1 DEF LastUpsert, LatestLast
<1>4. /\ upserts \in 0..MaxUpserts /\ clock \in 0..upserts
      /\ written \in [Group -> 0..upserts]
  BY <1>1, UpsertBound
<1> QED  BY <1>2, <1>3, <1>4 DEF IInv

\* What UpsertRecord knows of the record it is called with.
LEMMA NextUpsert ==
  ASSUME IInv, UpsertRecord
  PROVE  /\ upserts \in Nat /\ upserts' = upserts + 1 /\ upserts' \in 1..MaxUpserts
         /\ clock' \in 0..upserts' /\ clock' \in Nat
         /\ \E r \in RecordOf(Nat, Text) :
              /\ r.id = upserts' /\ r.content = upserts' /\ Fresh(records, r)
              /\ records' = Upsert(records, r, clock')
              /\ offered' = Offered(records, r, clock')
              /\ written' = IF r.text = "blank" THEN written
                            ELSE [written EXCEPT ![r.group] = upserts']
<1>1. /\ upserts \in 0..MaxUpserts /\ clock \in 0..upserts /\ Numbered(records, 1..upserts)
      /\ upserts < MaxUpserts /\ upserts' = upserts + 1 /\ clock' \in {clock, clock + 1}
  BY DEF IInv, UpsertRecord
<1>2. /\ upserts \in Nat /\ upserts' \in Nat /\ upserts' \in 1..MaxUpserts /\ upserts' \notin 1..upserts
      /\ clock' \in 0..upserts' /\ clock' \in Nat
  BY <1>1, UpsertBound
<1>3. PICK r \in [id : {upserts'}, group : Group, key : Key \cup {NoKey},
                  confidence : 0..MaxConfidence, updated : {clock'},
                  content : {upserts'}, text : {"blank", "fits", "long"}] :
              /\ records' = Upsert(records, r, clock')
              /\ offered' = Offered(records, r, clock')
              /\ written' = IF r.text = "blank" THEN written
                            ELSE [written EXCEPT ![r.group] = upserts']
  BY DEF UpsertRecord
<1>4. r \in RecordOf(Nat, Text) /\ r.id = upserts' /\ r.content = upserts'
  BY <1>2 DEF RecordOf, Text
<1>5. Fresh(records, r)
  BY <1>1, <1>2, <1>4 DEF Fresh, Numbered
<1> QED  BY <1>1, <1>2, <1>3, <1>4, <1>5

LEMMA NextIInv == IInv /\ [Next]_vars => IInv'
<1> SUFFICES ASSUME IInv, [Next]_vars PROVE IInv'
  OBVIOUS
<1>1. CASE UNCHANGED vars
  BY <1>1 DEF IInv, LastUpsert, LatestLast, Good, Distinct, Together, Ranked, Bounded, vars
<1>2. CASE UpsertRecord
  <2>1. /\ upserts \in Nat /\ upserts' = upserts + 1 /\ upserts' \in 1..MaxUpserts
        /\ clock' \in 0..upserts' /\ clock' \in Nat
    BY <1>2, NextUpsert
  <2>2. PICK r \in RecordOf(Nat, Text) :
              /\ r.id = upserts' /\ r.content = upserts' /\ Fresh(records, r)
              /\ records' = Upsert(records, r, clock')
              /\ offered' = Offered(records, r, clock')
              /\ written' = IF r.text = "blank" THEN written
                            ELSE [written EXCEPT ![r.group] = upserts']
    BY <1>2, NextUpsert
  <2>3. /\ Good(records) /\ Numbered(records, 1..upserts)
        /\ written \in [Group -> 0..upserts]
    BY DEF IInv
  <2>4. upserts' \in 0..MaxUpserts /\ written' \in [Group -> 0..upserts']
    <3>1. /\ upserts' \in 0..MaxUpserts /\ upserts' \in 0..upserts'
          /\ written \in [Group -> 0..upserts']
      BY <2>1, <2>3, UpsertBound
    <3>2. r.group \in Group
      BY DEF RecordOf
    <3> QED  BY <2>2, <3>1, <3>2
  <2>5. Good(records')
    BY <2>1, <2>2, <2>3, UpsertKeepsGood
  <2>6. Numbered(records', 1..upserts')
    <3>1. Numbered(records, 1..upserts')
      BY <2>1, <2>3 DEF Numbered
    <3>2. r.id \in 1..upserts' /\ r.content \in 1..upserts'
      BY <2>1, <2>2
    <3> QED  BY <2>1, <2>2, <2>3, <3>1, <3>2, UpsertIsNumbered
  <2>7. LastUpsert'
    <3>1. CASE r.text = "blank" /\ Upsert(records, r, clock') = records
      <4>1. offered' = records
        BY <2>2, <3>1 DEF Offered, CompactText, RecordOf
      <4> QED  BY <2>2, <2>3, <3>1, <4>1 DEF LastUpsert, Good
    <3>2. CASE LET m == Merge(records, Compacted(r), clock')
               IN  /\ r.text # "blank"
                   /\ m \in Seq(Rec) /\ Distinct(m) /\ Touches(records, m, r.group)
                   /\ Upsert(records, r, clock') = Regrouped(m, r.group)
      <4>1. Compacted(r).text # "blank"
        BY <3>2, CompactedIsTyped
      <4>2. offered' = Merge(records, Compacted(r), clock')
        BY <2>2, <4>1 DEF Offered, Compacted
      <4>3. r.group \in Group
        BY DEF RecordOf
      <4> QED  BY <2>2, <3>2, <4>2, <4>3 DEF LastUpsert
    <3> QED  BY <2>1, <2>2, <2>3, <3>1, <3>2, UpsertShape
  <2>8. LatestLast'
    <3>1. CASE r.text = "blank" /\ records' = records
      BY <2>2, <3>1 DEF IInv, LatestLast
    <3>2. CASE /\ r.text # "blank"
               /\ \A k, l \in DOMAIN records' : k < l =>
                    \/ records'[l].group = r.group
                    \/ \E i, j \in DOMAIN records :
                         /\ i < j /\ records[i] = records'[k] /\ records[j] = records'[l]
                         /\ records[i].group # r.group /\ records[j].group # r.group
      <4> SUFFICES ASSUME NEW k \in DOMAIN records', NEW l \in DOMAIN records', k < l
                   PROVE  written'[records'[k].group] <= written'[records'[l].group]
        BY DEF LatestLast
      <4>1. /\ written' = [written EXCEPT ![r.group] = upserts'] /\ r.group \in Group
            /\ \A h \in Group : h # r.group => written'[h] = written[h]
            /\ written'[r.group] = upserts'
        BY <2>2, <2>3, <3>2 DEF RecordOf
      <4>2. records'[k].group \in Group /\ records'[l].group \in Group
        <5>1. records'[k] \in Rec /\ records'[l] \in Rec
          BY <2>5 DEF Good
        <5> QED  BY <5>1 DEF Rec, RecordOf
      <4>3. CASE records'[l].group = r.group
        <5>1. written'[records'[k].group] \in 0..upserts'
          BY <2>4, <4>2
        <5> QED  BY <4>1, <4>3, <5>1
      <4>4. CASE \E i, j \in DOMAIN records :
                   /\ i < j /\ records[i] = records'[k] /\ records[j] = records'[l]
                   /\ records[i].group # r.group /\ records[j].group # r.group
        <5>1. PICK i, j \in DOMAIN records :
                   /\ i < j /\ records[i] = records'[k] /\ records[j] = records'[l]
                   /\ records[i].group # r.group /\ records[j].group # r.group
          BY <4>4
        <5>2. written[records[i].group] <= written[records[j].group]
          BY <5>1 DEF IInv, LatestLast
        <5> QED  BY <4>1, <4>2, <5>1, <5>2
      <4> QED  BY <3>2, <4>3, <4>4
    <3> QED  BY <2>1, <2>2, <2>3, <3>1, <3>2, UpsertGoesLast
  <2> QED  BY <2>1, <2>4, <2>5, <2>6, <2>7, <2>8 DEF IInv
<1> QED  BY <1>1, <1>2 DEF Next

LEMMA Inductive == Spec => []IInv
BY InitIInv, NextIInv, PTL DEF Spec

\* The types.
THEOREM TypesHold == Spec => []TypeOK
<1>1. IInv => TypeOK
  <2> SUFFICES ASSUME IInv PROVE TypeOK
    OBVIOUS
  <2>1. /\ upserts \in 0..MaxUpserts /\ clock \in 0..upserts
        /\ written \in [Group -> 0..upserts] /\ records \in Seq(Rec)
        /\ Numbered(records, 1..upserts)
    BY DEF IInv, Good
  <2>2. /\ 0..upserts \subseteq 0..MaxUpserts /\ 1..upserts \subseteq 1..MaxUpserts
    BY <2>1, UpsertBound
  <2>3. \A i \in DOMAIN records : records[i] \in RecordOf(1..MaxUpserts, Stored)
    <3> SUFFICES ASSUME NEW i \in DOMAIN records
                 PROVE  records[i] \in RecordOf(1..MaxUpserts, Stored)
      OBVIOUS
    <3> DEFINE r == records[i]
    <3>1. r \in Rec /\ r.id \in 1..MaxUpserts /\ r.content \in 1..MaxUpserts
      BY <2>1, <2>2 DEF Numbered
    <3> HIDE DEF r
    <3>2. r \in RecordOf(1..MaxUpserts, Stored)
      BY <3>1 DEF Rec, RecordOf
    <3> QED  BY <3>2 DEF r
  <2>4. records \in Seq(RecordOf(1..MaxUpserts, Stored))
    <3>1. Len(records) \in Nat /\ DOMAIN records = 1..Len(records)
      BY <2>1
    <3>2. records = [i \in 1..Len(records) |-> records[i]]
      BY <2>1, SeqIs
    <3> QED  BY <2>3, <3>1, <3>2
  <2> QED  BY <2>1, <2>2, <2>4 DEF TypeOK
<1> QED  BY <1>1, Inductive, PTL

\* A scope and kind never holds more records than the policy allows, nor more without a
\* key, and no store holds an id or a key of a group twice.
THEOREM LimitsHold == Spec => []GroupsAreBounded
<1>1. IInv => GroupsAreBounded
  <2> SUFFICES ASSUME IInv PROVE GroupsAreBounded
    OBVIOUS
  <2>1. records \in Seq(Rec) /\ Bounded(records) /\ Distinct(records)
    BY DEF IInv, Good
  <2>2. ASSUME NEW g \in Group, NEW s, s = OfGroup(records, g)
        PROVE  Len(s) <= MaxRecords /\ Cardinality({i \in DOMAIN s : ~IsKeyed(s[i])}) <= MaxUnkeyed
    <3>1. \E at : Gathers(at, records, g, s)
      BY <2>1, <2>2, OfGroupIs
    <3>2. /\ Cardinality(InGroup(records, g)) <= MaxRecords
          /\ Cardinality(Loose(records, g)) <= MaxUnkeyed
      BY <2>1 DEF Bounded
    <3> QED  BY <3>1, <3>2 DEF Gathers
  <2> QED  BY <2>1, <2>2 DEF GroupsAreBounded, Distinct
<1> QED  BY <1>1, Inductive, PTL

\* with_records, given what the store holds, makes a store that holds the same.
THEOREM ReloadIsFaithful == Spec => []ReloadKeepsRecords
<1>1. IInv => ReloadKeepsRecords
  <2> SUFFICES ASSUME IInv PROVE ReloadKeepsRecords
    OBVIOUS
  <2>1. Good(records) /\ DOMAIN records = 1..Len(records)
    BY DEF IInv, Good
  <2>2. Reload(records, clock) = Renewed(records, Len(records))
    BY <2>1, ReloadIs
  <2>3. Renewed(records, Len(records)) = Normalized(records)
    BY <2>1 DEF Renewed, Normalized, Compacted
  <2> QED  BY <2>2, <2>3 DEF ReloadKeepsRecords
<1> QED  BY <1>1, Inductive, PTL

\* r is among the records that stay, or had to go.
FairTo(r, stay) ==
  (\A j \in DOMAIN stay : stay[j].id # r.id) =>
    /\ \A j \in DOMAIN stay : ~Higher(r, stay[j])
    /\ \/ Len(stay) = MaxRecords
       \/ ~IsKeyed(r) /\ Cardinality({j \in DOMAIN stay : ~IsKeyed(stay[j])}) = MaxUnkeyed

\* What regrouping drops of a group ranks no higher than what it keeps, and found no
\* room; nothing else is dropped.
LEMMA RegroupingIsFair ==
  ASSUME NEW m \in Seq(Rec), NEW g, NEW res \in Seq(Rec), res = Regrouped(m, g),
         NEW i \in DOMAIN m, NEW h, h = m[i].group, NEW stay, stay = OfGroup(res, h)
  PROVE  FairTo(m[i], stay)
<1> SUFFICES ASSUME \A j \in DOMAIN stay : stay[j].id # m[i].id
             PROVE  /\ \A j \in DOMAIN stay : ~Higher(m[i], stay[j])
                    /\ \/ Len(stay) = MaxRecords
                       \/ /\ ~IsKeyed(m[i])
                          /\ Cardinality({j \in DOMAIN stay : ~IsKeyed(stay[j])}) = MaxUnkeyed
  BY DEF FairTo
<1> DEFINE c == Cardinality(InGroup(res, h))
<1>0. PICK to : Gathers(to, res, h, stay)
  BY OfGroupIs
<1>1. /\ Enumerates(to, InGroup(res, h)) /\ c \in Nat
      /\ stay = [k \in 1..c |-> res[to[k]]] /\ Len(stay) = c
      /\ Cardinality({k \in DOMAIN stay : ~IsKeyed(stay[k])}) = Cardinality(Loose(res, h))
  BY <1>0 DEF Gathers
<1>2. PICK p, n, at : /\ Regroups(m, g, res, p, n, at)
                      /\ InGroup(res, g) = (p + 1)..(p + n)
                      /\ DropsFairly(m, g, res, p, n, at)
  BY RegroupedShape
<1>3. /\ p \in Nat /\ n \in 0..MaxRecords /\ n \in Nat
      /\ res = [k \in 1..(p + n) |-> m[at[k]]]
      /\ \A j \in DOMAIN m \ InGroup(m, g) : \E k \in 1..(p + n) : at[k] = j
  BY <1>2, PolicyAssumption DEF Regroups
<1> HIDE DEF c
<1>4. DOMAIN stay = 1..c /\ \A k \in 1..c : to[k] \in InGroup(res, h) /\ stay[k] = res[to[k]]
  BY <1>1 DEF Enumerates, c
<1>5. \A j \in InGroup(res, h) : res[j].id # m[i].id
  <2> SUFFICES ASSUME NEW j \in InGroup(res, h) PROVE res[j].id # m[i].id
    OBVIOUS
  <2>1. PICK k \in 1..c : to[k] = j
    BY <1>1 DEF Enumerates, c
  <2> QED  BY <1>4, <2>1
<1>6. \A k \in 1..(p + n) : at[k] # i
  <2> SUFFICES ASSUME NEW k \in 1..(p + n), at[k] = i PROVE FALSE
    OBVIOUS
  <2>1. res[k] = m[i] /\ k \in DOMAIN res
    BY <1>3
  <2>2. k \in InGroup(res, h)
    BY <2>1 DEF InGroup
  <2> QED  BY <1>5, <2>1, <2>2
<1>7. i \in InGroup(m, g) /\ h = g
  BY <1>3, <1>6 DEF InGroup
<1>8. /\ \A k \in InGroup(res, g) : ~Higher(m[i], res[k])
      /\ n = MaxRecords \/ (~IsKeyed(m[i]) /\ Cardinality(Loose(res, g)) = MaxUnkeyed)
  BY <1>2, <1>6, <1>7 DEF DropsFairly
<1>9. c = n
  <2>1. Cardinality((p + 1)..(p + n)) = n
    BY <1>3, SpanCounts
  <2> QED  BY <1>2, <1>7, <2>1 DEF c
<1>10. \A j \in DOMAIN stay : ~Higher(m[i], stay[j])
  BY <1>4, <1>7, <1>8
<1> QED  BY <1>1, <1>7, <1>8, <1>9, <1>10

\* compact_scope_kind drops the record of the lowest priority, and only for want of room.
THEOREM RetentionHolds == Spec => []RetentionIsFair
<1>1. IInv => RetentionIsFair
  <2> SUFFICES ASSUME IInv, NEW i \in DOMAIN offered, NEW h, h = offered[i].group,
                      NEW stay, stay = OfGroup(records, h)
               PROVE  FairTo(offered[i], stay)
    BY DEF RetentionIsFair, FairTo
  <2>1. records \in Seq(Rec) /\ offered \in Seq(Rec)
    BY DEF IInv, Good, LastUpsert
  <2>2. CASE records = offered
    <3> DEFINE c == Cardinality(InGroup(records, h))
    <3>1. PICK to : Gathers(to, records, h, stay)
      BY <2>1, OfGroupIs
    <3>2. i \in InGroup(records, h)
      BY <2>2 DEF InGroup
    <3>3. PICK k \in 1..c : to[k] = i
      BY <3>1, <3>2 DEF Enumerates, Gathers
    <3>4. k \in DOMAIN stay /\ stay[k] = offered[i]
      <4> HIDE DEF c
      <4> QED  BY <2>2, <3>1, <3>3 DEF Gathers, c
    <3> QED  BY <3>4 DEF FairTo
  <2>3. ASSUME NEW g \in Group, records = Regrouped(offered, g) PROVE FairTo(offered[i], stay)
    BY <2>1, <2>3, RegroupingIsFair
  <2> QED  BY <2>2, <2>3 DEF IInv, LastUpsert
<1> QED  BY <1>1, Inductive, PTL

----------------------------------------------------------------------------
(* load_bundle                                                             *)

\* The sums of the first so many of n numbers.
Sums(f, n, v) == f[0] = 0 /\ \A i \in 1..n : f[i] = f[i - 1] + v[i]

LEMMA SumsExist ==
  ASSUME NEW n \in Nat, NEW v \in [1..n -> Nat]
  PROVE  \E f \in [0..n -> Nat] : Sums(f, n, v)
<1> DEFINE K == {k \in 0..n : \E f \in [0..k -> Nat] : Sums(f, k, v)}
<1>1. 0 \in K
  <2> DEFINE f == [i \in 0..0 |-> 0]
  <2>1. f \in [0..0 -> Nat] /\ f[0] = 0 /\ 1..0 = {}
    OBVIOUS
  <2> HIDE DEF f
  <2>2. Sums(f, 0, v)
    BY <2>1 DEF Sums
  <2>3. \E g \in [0..0 -> Nat] : Sums(g, 0, v)
    BY <2>1, <2>2
  <2> QED  BY <2>3
<1>2. ASSUME NEW k \in 0..n, k \in K, k # n PROVE k + 1 \in K
  <2>1. PICK f \in [0..k -> Nat] : Sums(f, k, v)
    BY <1>2
  <2> DEFINE d == k + 1
  <2>2. d \in 1..n /\ d \in 0..n /\ k \in Nat /\ d - 1 = k /\ k \in 0..k /\ 0 \in 0..k /\ d # 0
    BY <1>2
  <2>3. \A i \in 0..d : i \in 0..k \/ i = d
    BY <2>2
  <2>4. \A i \in 1..d : (i \in 1..k \/ i = d) /\ (i \in 1..k => i - 1 \in 0..k /\ i - 1 # d /\ i # d)
    BY <2>2
  <2> DEFINE h == [i \in 0..d |-> IF i = d THEN f[k] + v[d] ELSE f[i]]
  <2>5. h \in [0..d -> Nat]
    <3> HIDE DEF d
    <3>1. f[k] + v[d] \in Nat
      BY <2>2
    <3> QED  BY <2>3, <3>1
  <2>6. Sums(h, d, v)
    <3>1. d \in 0..d /\ 0 \in 0..d /\ (\A i \in 1..d : i \in 0..d /\ i - 1 \in 0..d) /\ k # d /\ k \in 0..d
      BY <2>2
    <3> HIDE DEF d
    <3>2. h[0] = 0
      BY <2>1, <2>2, <3>1 DEF Sums
    <3>3. ASSUME NEW i \in 1..d PROVE h[i] = h[i - 1] + v[i]
      <4>1. CASE i = d
        BY <2>2, <3>1, <4>1
      <4>2. CASE i \in 1..k
        <5>1. h[i] = f[i] /\ h[i - 1] = f[i - 1]
          BY <2>4, <3>1, <4>2
        <5> QED  BY <2>1, <4>2, <5>1 DEF Sums
      <4> QED  BY <2>4, <4>1, <4>2
    <3> HIDE DEF h
    <3> QED  BY <3>2, <3>3 DEF Sums
  <2> HIDE DEF h
  <2>7. \E g \in [0..d -> Nat] : Sums(g, d, v)
    BY <2>5, <2>6
  <2> HIDE DEF d
  <2>8. d \in K
    BY <2>2, <2>7
  <2> QED  BY <2>8 DEF d
<1> HIDE DEF K
<1>3. \A k \in 0..n : k \in K
  BY <1>1, <1>2, UpTo
<1>4. n \in K
  BY <1>3
<1> QED  BY <1>4 DEF K

LEMMA SumsGrow ==
  ASSUME NEW n \in Nat, NEW v \in [1..n -> Nat], NEW f, Sums(f, n, v)
  PROVE  \A i \in 0..n : f[i] \in Nat /\ \A j \in 0..i : f[j] \in Nat /\ f[j] <= f[i]
<1> DEFINE K == {k \in 0..n : f[k] \in Nat /\ \A j \in 0..k : f[j] \in Nat /\ f[j] <= f[k]}
<1>1. 0 \in K
  BY DEF Sums
<1>2. ASSUME NEW k \in 0..n, k \in K, k # n PROVE k + 1 \in K
  <2> DEFINE d == k + 1
  <2>1. d \in 1..n /\ d \in 0..n /\ d - 1 = k /\ \A j \in 0..d : j \in 0..k \/ j = d
    BY <1>2
  <2> HIDE DEF d
  <2>2. f[d] = f[k] + v[d] /\ v[d] \in Nat
    BY <2>1 DEF Sums
  <2>3. f[k] \in Nat /\ \A j \in 0..k : f[j] \in Nat /\ f[j] <= f[k]
    BY <1>2
  <2>4. f[d] \in Nat /\ \A j \in 0..d : f[j] \in Nat /\ f[j] <= f[d]
    BY <2>1, <2>2, <2>3
  <2>5. d \in K
    BY <2>1, <2>4
  <2> QED  BY <2>5 DEF d
<1> HIDE DEF K
<1>3. \A k \in 0..n : k \in K
  BY <1>1, <1>2, UpTo
<1> QED  BY <1>3 DEF K

\* left: what there is of the budget of q after so many of the n records of a bundle,
\* taken from the front of fs.
Fills(b, fs, q, n, left) ==
  /\ n \in 0..Len(fs) /\ left \in [0..n -> Nat]
  /\ b = [i \in 1..n |-> [record |-> fs[i], chars |-> left[i - 1] - left[i]]]
  /\ left[0] = q.chars
  /\ \A i \in 1..n : left[i] <= left[i - 1]
  /\ n <= q.limit
  /\ n = Len(fs) \/ n = q.limit \/ left[n] = 0

\* The records that are found are taken from the front until one of the limits is
\* reached or none is left.
LEMMA WithinFills ==
  ASSUME NEW fs \in Seq(Rec), NEW q \in Query
  PROVE  \E n, left : Fills(Within(fs, q), fs, q, n, left)
<1> DEFINE N == Len(fs)
           v == [i \in 1..N |-> Chars[fs[i].text]]
           step(f) == [i \in 0..N |-> IF i = 0 THEN 0 ELSE f[i - 1] + Chars[fs[i].text]]
           need == CHOOSE f : f = step(f)
           left(i) == q.chars - AtMost(q.chars, need[i])
           taken == {i \in DOMAIN fs : i <= q.limit /\ left(i - 1) > 0}
           n == Cardinality(taken)
           rest == [i \in 0..n |-> left(i)]
<1>1. DOMAIN fs = 1..N /\ N \in Nat /\ \A i \in 1..N : fs[i] \in Rec
  OBVIOUS
<1>2. q.chars \in Nat /\ q.limit \in Nat
  BY DEF Query
<1>3. v \in [1..N -> Nat] /\ \A i \in 1..N : v[i] = Chars[fs[i].text]
  <2>1. ASSUME NEW r \in Rec PROVE Chars[r.text] \in Nat
    <3>1. r.text = "fits" \/ r.text = "cut" \/ r.text = "recut"
      BY DEF Rec, RecordOf, Stored
    <3> QED  BY <3>1 DEF Chars
  <2>2. \A i \in 1..N : Chars[fs[i].text] \in Nat
    BY <1>1, <2>1
  <2> QED  BY <2>2
<1>4. Sums(need, N, v)
  <2>1. PICK h \in [0..N -> Nat] : Sums(h, N, v)
    <3> HIDE DEF N, v
    <3> QED  BY <1>1, <1>3, SumsExist
  <2> HIDE DEF N, v
  <2>2. \A i \in 0..N : h[i] = step(h)[i]
    <3> SUFFICES ASSUME NEW i \in 0..N PROVE h[i] = step(h)[i]
      OBVIOUS
    <3>1. CASE i = 0
      BY <2>1, <3>1 DEF Sums
    <3>2. CASE i # 0
      <4>1. i \in 1..N
        BY <1>1, <3>2
      <4> QED  BY <1>3, <2>1, <3>2, <4>1 DEF Sums
    <3> QED  BY <3>1, <3>2
  <2>3. h = step(h)
    <3>1. h = [i \in 0..N |-> h[i]] /\ step(h) = [i \in 0..N |-> step(h)[i]]
      BY <2>1
    <3> HIDE DEF step
    <3> QED  BY <2>2, <3>1
  <2>4. need = step(need)
    <3> HIDE DEF step
    <3> QED  BY <2>3
  <2> HIDE DEF need
  <2>5. \A i \in 0..N : need[i] = IF i = 0 THEN 0 ELSE need[i - 1] + Chars[fs[i].text]
    BY <2>4
  <2>6. 0 \in 0..N /\ \A i \in 1..N : i \in 0..N /\ i # 0
    BY <1>1
  <2> QED  BY <1>3, <2>5, <2>6 DEF Sums
<1>5. Within(fs, q) = [i \in taken |-> [record |-> fs[i], chars |-> left(i - 1) - left(i)]]
  BY DEF Within
<1> HIDE DEF need, v, N
<1>6. \A i \in 0..N : need[i] \in Nat /\ \A j \in 0..i : need[j] \in Nat /\ need[j] <= need[i]
  BY <1>1, <1>3, <1>4, SumsGrow
<1>7. \A i \in 0..N : left(i) \in Nat /\ \A j \in 0..i : left(j) \in Nat /\ left(j) >= left(i)
  BY <1>2, <1>6 DEF AtMost
<1>8. left(0) = q.chars
  BY <1>2, <1>4 DEF Sums, AtMost
<1> HIDE DEF left
<1>9. /\ taken \in SUBSET (1..N)
      /\ \A i \in 1..N : i \in taken <=> i <= q.limit /\ left(i - 1) > 0
  BY <1>1
<1>10. \A k \in taken, l \in 1..N : l < k => l \in taken
  <2> SUFFICES ASSUME NEW k \in taken, NEW l \in 1..N, l < k PROVE l \in taken
    OBVIOUS
  <2>1. k \in 1..N /\ k <= q.limit /\ left(k - 1) > 0
    BY <1>9
  <2> DEFINE i == k - 1
             j == l - 1
  <2>2. i \in 0..N /\ j \in 0..i /\ j \in 0..N /\ l <= q.limit
    BY <1>1, <1>2, <2>1
  <2> HIDE DEF i, j
  <2>3. left(i) \in Nat /\ left(j) \in Nat /\ left(j) >= left(i)
    BY <1>7, <2>2
  <2>4. left(j) > 0
    BY <2>1, <2>3 DEF i
  <2> QED  BY <1>9, <2>2, <2>4 DEF j
<1> HIDE DEF taken
<1>11. n \in 0..N /\ taken = 1..n
  BY <1>1, <1>9, <1>10, NoGap
<1> HIDE DEF n
<1>12. \A i \in 0..n : i \in 0..N /\ rest[i] = left(i) /\ left(i) \in Nat
  BY <1>1, <1>7, <1>11
<1>13. rest \in [0..n -> Nat] /\ rest[0] = q.chars
  BY <1>1, <1>8, <1>11, <1>12
<1>14. \A i \in 1..n : i \in 0..n /\ i - 1 \in 0..n /\ i - 1 \in 0..i
  BY <1>1, <1>11
<1> HIDE DEF rest
<1>15. \A i \in 1..n : rest[i] <= rest[i - 1]
  BY <1>7, <1>12, <1>14
<1>16. Within(fs, q) = [i \in 1..n |-> [record |-> fs[i], chars |-> rest[i - 1] - rest[i]]]
  BY <1>5, <1>11, <1>12, <1>14
<1>17. n <= q.limit
  <2>1. CASE n = 0
    BY <1>2, <2>1
  <2>2. CASE n # 0
    <3>1. n \in taken /\ n \in 1..N
      BY <1>1, <1>11, <2>2
    <3> QED  BY <1>9, <3>1
  <2> QED  BY <2>1, <2>2
<1>18. n = N \/ n = q.limit \/ rest[n] = 0
  <2> SUFFICES ASSUME n # N, n # q.limit PROVE rest[n] = 0
    OBVIOUS
  <2> DEFINE d == n + 1
  <2>1. d \in 1..N /\ d \notin 1..n /\ d - 1 = n /\ d <= q.limit /\ n \in 0..n
    BY <1>1, <1>2, <1>11, <1>17
  <2> HIDE DEF d
  <2>2. ~(left(n) > 0)
    BY <1>9, <1>11, <2>1
  <2> QED  BY <1>12, <2>1, <2>2
<1>19. Fills(Within(fs, q), fs, q, n, rest)
  BY <1>11, <1>13, <1>15, <1>16, <1>17, <1>18 DEF Fills, N
<1> QED  BY <1>19

\* What a bundle holds is what of the budget is gone.
LEMMA SizeIs ==
  ASSUME NEW b, NEW fs, NEW q, NEW n, NEW left, Fills(b, fs, q, n, left), Len(fs) \in Nat
  PROVE  Len(b) = n /\ Size(b) = left[0] - left[n] /\ left[0] - left[n] \in Nat
<1> DEFINE N == Len(b)
           step(f) == [i \in 0..N |-> IF i = 0 THEN 0 ELSE f[i - 1] + b[i].chars]
           sum == CHOOSE f : f = step(f)
           h == [i \in 0..N |-> left[0] - left[i]]
<1>1. /\ n \in Nat /\ left \in [0..n -> Nat] /\ \A i \in 1..n : left[i] <= left[i - 1]
      /\ DOMAIN b = 1..n /\ \A i \in 1..n : b[i].chars = left[i - 1] - left[i]
      /\ b = [i \in 1..n |-> [record |-> fs[i], chars |-> left[i - 1] - left[i]]]
  BY DEF Fills
<1>2. N = n
  BY <1>1
<1>3. Size(b) = sum[N]
  BY DEF Size
<1> HIDE DEF N
<1>4. /\ 0 \in 0..n
      /\ \A i \in 1..n : i \in 0..n /\ i - 1 \in 0..n /\ i # 0
      /\ \A i \in 0..n : left[i] \in Nat
  BY <1>1
<1>5. h = step(h)
  <2>1. \A i \in 0..N : h[i] = step(h)[i]
    <3> SUFFICES ASSUME NEW i \in 0..N PROVE h[i] = step(h)[i]
      OBVIOUS
    <3>1. CASE i = 0
      BY <1>2, <1>4, <3>1
    <3>2. CASE i # 0
      <4>1. i \in 1..n
        BY <1>1, <1>2, <3>2
      <4>2. h[i] = left[0] - left[i] /\ h[i - 1] = left[0] - left[i - 1]
        BY <1>2, <1>4, <4>1
      <4>3. step(h)[i] = h[i - 1] + b[i].chars
        BY <1>2, <1>4, <3>2, <4>1
      <4> QED  BY <1>1, <1>4, <4>1, <4>2, <4>3
    <3> QED  BY <3>1, <3>2
  <2>2. h = [i \in 0..N |-> h[i]] /\ step(h) = [i \in 0..N |-> step(h)[i]]
    OBVIOUS
  <2> HIDE DEF step, h
  <2> QED  BY <2>1, <2>2
<1>6. sum = step(sum)
  <2> HIDE DEF step, h
  <2> QED  BY <1>5
<1> HIDE DEF sum
<1>7. sum[0] = 0 /\ \A i \in 1..n : sum[i] = sum[i - 1] + b[i].chars
  <2>1. \A i \in 0..N : sum[i] = IF i = 0 THEN 0 ELSE sum[i - 1] + b[i].chars
    BY <1>6
  <2> QED  BY <1>2, <1>4, <2>1
<1> DEFINE K == {k \in 0..n : sum[k] = left[0] - left[k] /\ left[0] - left[k] \in Nat}
<1>8. 0 \in K
  BY <1>4, <1>7
<1>9. ASSUME NEW k \in 0..n, k \in K, k # n PROVE k + 1 \in K
  <2> DEFINE d == k + 1
  <2>1. d \in 1..n /\ d \in 0..n /\ d - 1 = k
    BY <1>1, <1>9
  <2> HIDE DEF d
  <2>2. sum[d] = sum[k] + (left[k] - left[d]) /\ left[d] <= left[k]
    BY <1>1, <1>7, <2>1
  <2>3. sum[d] = left[0] - left[d] /\ left[0] - left[d] \in Nat
    BY <1>4, <1>9, <2>1, <2>2
  <2> QED  BY <2>1, <2>3 DEF d
<1> HIDE DEF K
<1>10. \A k \in 0..n : k \in K
  BY <1>1, <1>8, <1>9, UpTo
<1>11. n \in K
  BY <1>1, <1>10
<1> QED  BY <1>2, <1>3, <1>11 DEF K, N

Hits(q) == {i \in DOMAIN records : Matches(records[i], q)}

\* The hits of q, the last one first.
FromTheEnd(fs, at, q) ==
  LET c == Cardinality(Hits(q))
  IN  /\ c \in Nat /\ Len(fs) = c /\ Enumerates(at, Hits(q))
      /\ \A k, l \in 1..c : k < l => at[k] < at[l]
      /\ \A i \in 1..c : fs[i] = records[at[c + 1 - i]]

LEMMA BundleFills ==
  ASSUME NEW q \in Query, records \in Seq(Rec)
  PROVE  \E fs, at : /\ FromTheEnd(fs, at, q)
                     /\ \E n, left : Fills(LoadBundle(q), fs, q, n, left)
<1> DEFINE P == Hits(q)
           c == Cardinality(P)
           found == Found(q)
           fs == [i \in DOMAIN found |-> found[Len(found) + 1 - i]]
<1>1. P \in SUBSET Nat /\ IsFiniteSet(P) /\ c \in Nat /\ P \subseteq DOMAIN records
  <2>1. DOMAIN records = 1..Len(records) /\ Len(records) \in Nat
    OBVIOUS
  <2>2. IsFiniteSet(DOMAIN records)
    BY <2>1, IntervalCounts
  <2>3. P \in SUBSET DOMAIN records
    BY DEF Hits
  <2> HIDE DEF P
  <2>4. IsFiniteSet(P)
    BY <2>2, <2>3, FS_Subset
  <2>5. DOMAIN records \subseteq Nat
    BY <2>1
  <2> QED  BY <2>3, <2>4, <2>5, FS_CardinalityType
<1>2. found = Picked(records, P)
  BY DEF Found, Hits
<1>3. LoadBundle(q) = Within(fs, q)
  BY DEF LoadBundle
<1> HIDE DEF P, found
<1>4. PICK at : /\ Enumerates(at, P) /\ Picked(records, P) = [k \in 1..c |-> records[at[k]]]
                /\ \A k, l \in 1..c : k < l => at[k] < at[l]
  BY <1>1, PickedInOrder
<1>5. \A k \in 1..c : at[k] \in P /\ records[at[k]] \in Rec
  <2>1. \A k \in 1..c : at[k] \in P
    BY <1>4 DEF Enumerates
  <2>2. \A i \in DOMAIN records : records[i] \in Rec
    OBVIOUS
  <2> QED  BY <1>1, <2>1, <2>2
<1> HIDE DEF c
<1>6. found \in Seq(Rec) /\ Len(found) = c /\ DOMAIN found = 1..c /\ \A k \in 1..c : found[k] = records[at[k]]
  <2>1. found \in [1..c -> Rec]
    BY <1>2, <1>4, <1>5
  <2> QED  BY <1>1, <1>2, <1>4, <2>1 DEF c
<1>7. /\ \A i \in 1..c : c + 1 - i \in 1..c
      /\ \A i \in 1..c : fs[i] = records[at[c + 1 - i]]
      /\ fs \in [1..c -> Rec]
  BY <1>1, <1>5, <1>6 DEF c
<1> HIDE DEF fs
<1>8. fs \in Seq(Rec) /\ Len(fs) = c
  BY <1>1, <1>7 DEF c
<1>9. \E n, left : Fills(LoadBundle(q), fs, q, n, left)
  BY <1>3, <1>8, WithinFills
<1>10. FromTheEnd(fs, at, q)
  BY <1>1, <1>4, <1>7, <1>8 DEF FromTheEnd, P, c
<1> QED  BY <1>9, <1>10

\* A bundle never holds more records or characters than were asked for, takes the groups
\* written last first, and leaves a record out only when it is full.
THEOREM BundleHolds == Spec => []BundleIsLatest
<1>1. IInv => BundleIsLatest
  <2> SUFFICES ASSUME IInv, NEW q \in Queries, NEW bundle, bundle = LoadBundle(q)
               PROVE  /\ Len(bundle) <= q.limit /\ Size(bundle) <= q.chars
                      /\ \A i, j \in DOMAIN bundle :
                           i < j => written[bundle[i].record.group] >= written[bundle[j].record.group]
                      /\ \A k \in DOMAIN records :
                           /\ Matches(records[k], q)
                           /\ \A i \in DOMAIN bundle : bundle[i].record # records[k]
                           => /\ Len(bundle) = q.limit \/ Size(bundle) = q.chars
                              /\ \A i \in DOMAIN bundle :
                                   written[bundle[i].record.group] >= written[records[k].group]
    BY DEF BundleIsLatest
  <2>1. /\ q \in Query /\ q.limit \in Nat /\ q.chars \in Nat
        /\ records \in Seq(Rec) /\ LatestLast
        /\ \A i \in DOMAIN records : written[records[i].group] \in Nat
    <3>1. q \in Query
      BY QueriesAreQueries
    <3>2. records \in Seq(Rec) /\ LatestLast /\ written \in [Group -> 0..upserts] /\ upserts \in 0..MaxUpserts
      BY DEF IInv, Good
    <3>3. \A i \in DOMAIN records : records[i] \in Rec
      BY <3>2
    <3>4. \A i \in DOMAIN records : records[i].group \in Group
      BY <3>3 DEF Rec, RecordOf
    <3> QED  BY <3>1, <3>2, <3>4 DEF Query
  <2>2. PICK fs, at : FromTheEnd(fs, at, q) /\ \E n, left : Fills(bundle, fs, q, n, left)
    BY <2>1, BundleFills
  <2>3. PICK n, left : Fills(bundle, fs, q, n, left)
    BY <2>2
  <2> DEFINE c == Cardinality(Hits(q))
  <2>4. /\ c \in Nat /\ Len(fs) = c
        /\ \A i \in 1..c : at[i] \in DOMAIN records
        /\ \A k, l \in 1..c : k < l => at[k] < at[l]
        /\ \A i \in Hits(q) : \E k \in 1..c : at[k] = i
        /\ \A i \in 1..c : fs[i] = records[at[c + 1 - i]]
    BY <2>2 DEF FromTheEnd, Enumerates, Hits
  <2> HIDE DEF c
  <2>5. Len(bundle) = n /\ Size(bundle) = left[0] - left[n] /\ left[0] - left[n] \in Nat
    BY <2>3, <2>4, SizeIs
  <2>6. /\ n \in 0..c /\ n \in Nat /\ left \in [0..n -> Nat] /\ left[0] = q.chars /\ n <= q.limit
        /\ n = c \/ n = q.limit \/ left[n] = 0
        /\ DOMAIN bundle = 1..n /\ \A i \in 1..n : bundle[i].record = fs[i]
    BY <2>3, <2>4 DEF Fills
  <2>7. left[n] \in Nat /\ 0 \in 0..n
    BY <2>6
  <2>8. ASSUME NEW i \in 1..c, NEW j \in 1..c, i < j
        PROVE  written[fs[i].group] >= written[fs[j].group]
    <3> DEFINE k == c + 1 - i
               l == c + 1 - j
    <3>1. k \in 1..c /\ l \in 1..c /\ l < k
      BY <2>4, <2>8
    <3>2. fs[i] = records[at[k]] /\ fs[j] = records[at[l]]
      BY <2>4
    <3> HIDE DEF k, l
    <3>3. at[l] < at[k] /\ at[l] \in DOMAIN records /\ at[k] \in DOMAIN records
      BY <2>4, <3>1
    <3>4. written[records[at[l]].group] <= written[records[at[k]].group]
      BY <2>1, <3>3 DEF LatestLast
    <3> QED  BY <2>1, <3>2, <3>3, <3>4
  <2>9. \A i \in 1..n : i \in 1..c
    BY <2>4, <2>6
  <2>10. Len(bundle) <= q.limit /\ Size(bundle) <= q.chars
    BY <2>1, <2>5, <2>6, <2>7
  <2>11. \A i, j \in DOMAIN bundle :
           i < j => written[bundle[i].record.group] >= written[bundle[j].record.group]
    BY <2>6, <2>8, <2>9
  <2>12. ASSUME NEW k \in DOMAIN records, Matches(records[k], q),
                \A i \in DOMAIN bundle : bundle[i].record # records[k]
         PROVE  /\ Len(bundle) = q.limit \/ Size(bundle) = q.chars
                /\ \A i \in DOMAIN bundle :
                     written[bundle[i].record.group] >= written[records[k].group]
    <3>1. k \in Hits(q)
      BY <2>12 DEF Hits
    <3>2. PICK l \in 1..c : at[l] = k
      BY <2>4, <3>1
    <3> DEFINE j == c + 1 - l
    <3>3. j \in 1..c /\ c + 1 - j = l
      BY <2>4
    <3> HIDE DEF j
    <3>4. fs[j] = records[k]
      BY <2>4, <3>2, <3>3
    <3>5. j \notin 1..n
      BY <2>6, <2>12, <3>4
    <3>6. n < j /\ n # c
      BY <2>4, <2>6, <3>3, <3>5
    <3>7. Len(bundle) = q.limit \/ Size(bundle) = q.chars
      BY <2>1, <2>5, <2>6, <2>7, <3>6
    <3>8. \A i \in 1..n : i < j
      BY <2>6, <3>3, <3>6
    <3> QED  BY <2>6, <2>8, <2>9, <3>3, <3>4, <3>7, <3>8
  <2> QED  BY <2>10, <2>11, <2>12
<1> QED  BY <1>1, Inductive, PTL
=============================================================================
