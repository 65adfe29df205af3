--------------------------- MODULE InMemoryStore ---------------------------
(***************************************************************************)
(* A store of session memory: records are upserted one at a time under the *)
(* write lock, by persist_session or by a user of the store, and loaded as *)
(* the bundle a session starts with.                                       *)
(*                                                                         *)
(* Code: agent_session/memory/in_memory.rs.                                *)
(***************************************************************************)
EXTENDS MemoryRecords

CONSTANTS
  MaxUpserts,   \* bound: upserts
  Queries       \* what is asked for

\* groups: the scopes and kinds that match.  text: the upsert whose content has the
\* text that is looked for, 0 for none.  limit: of records, of the query or its budget.
Query == [groups : SUBSET Group, text : Nat, limit : Nat, chars : Nat]

ASSUME UpsertBound == MaxUpserts \in Nat
ASSUME QueriesAreQueries == Queries \subseteq Query

VARIABLES
  records,   \* InMemoryMemoryStore.records
  upserts,   \* how many there were: numbers ids and contents
  clock,     \* SystemTime::now()
  offered,   \* the records the last upsert had to choose from
  written    \* written[g]: the last upsert into group g, 0 if there was none

vars == <<records, upserts, clock, offered, written>>

\* What upsert_record leaves before it compacts the group.
Offered(rs, rec, now) ==
  LET r == [rec EXCEPT !.text = CompactText(@)]
  IN  IF r.text = "blank" THEN rs ELSE Merge(rs, r, now)

\* upsert_record; two upserts may read the same time.
UpsertRecord ==
  /\ upserts < MaxUpserts
  /\ upserts' = upserts + 1
  /\ clock' \in {clock, clock + 1}
  /\ \E r \in [id : {upserts'}, group : Group, key : Key \cup {NoKey},
               confidence : 0..MaxConfidence, updated : {clock'},
               content : {upserts'}, text : {"blank", "fits", "long"}] :
       /\ records' = Upsert(records, r, clock')
       /\ offered' = Offered(records, r, clock')
       /\ written' = IF r.text = "blank" THEN written ELSE [written EXCEPT ![r.group] = upserts']

\* The characters of a content, as far as a budget tells contents apart.
Chars == [fits |-> 1, cut |-> 3, recut |-> 2]

Matches(r, q) == r.group \in q.groups /\ q.text \in {0, r.content}

\* From the records in the order they are looked at: as many as the limit allows,
\* the first that the budget does not cover is cut to what is left of it, and
\* nothing is taken after that.
Within(rs, q) ==
  LET need[i \in 0..Len(rs)] == IF i = 0 THEN 0 ELSE need[i - 1] + Chars[rs[i].text]
      left(i) == q.chars - AtMost(q.chars, need[i])
      taken == {i \in DOMAIN rs : i <= q.limit /\ left(i - 1) > 0}
  IN  [i \in taken |-> [record |-> rs[i], chars |-> left(i - 1) - left(i)]]

Found(q) == Picked(records, {i \in DOMAIN records : Matches(records[i], q)})

FaultyLoadBundle(q) == Within(Found(q), q)   \* from the front

\* load_bundle: backwards, since an upsert puts its group last.
LoadBundle(q) ==
  LET found == Found(q)
  IN  Within([i \in DOMAIN found |-> found[Len(found) + 1 - i]], q)

Init ==
  /\ records = <<>> /\ upserts = 0 /\ clock = 0 /\ offered = <<>>
  /\ written = [g \in Group |-> 0]

Next == UpsertRecord
Spec == Init /\ [][Next]_vars
----------------------------------------------------------------------------
(* Properties                                                              *)

TypeOK ==
  /\ upserts \in 0..MaxUpserts /\ clock \in 0..MaxUpserts
  /\ records \in Seq(RecordOf(1..MaxUpserts, Stored))
  /\ written \in [Group -> 0..MaxUpserts]

\* However keys, confidences and times are interleaved, a scope and kind keeps at
\* most so many records and so many without a key, and no key and no id twice.
GroupsAreBounded ==
  /\ \A g \in Group :
       LET s == OfGroup(records, g)
       IN  /\ Len(s) <= MaxRecords
           /\ Cardinality({i \in DOMAIN s : ~IsKeyed(s[i])}) <= MaxUnkeyed
  /\ \A i, j \in DOMAIN records :
       i # j => /\ records[i].id # records[j].id
                /\ ~SameKey(records[i], records[j])

\* Reloading what was stored keeps every record, its place and all of it but the
\* blank lines around the marker of a cut content.
Normalized(rs) == [i \in DOMAIN rs |-> [rs[i] EXCEPT !.text = CompactText(@)]]

ReloadKeepsRecords == Reload(records, clock) = Normalized(records)

\* The characters of a bundle.
Size(bundle) ==
  LET sum[i \in 0..Len(bundle)] == IF i = 0 THEN 0 ELSE sum[i - 1] + bundle[i].chars
  IN  sum[Len(bundle)]

\* A session starts from what was written last: its bundle holds to both limits,
\* goes from the group written last to the one written first, and leaves a record
\* out only when it is full, and then none of a group written later than one it
\* holds.
BundleIsLatest ==
  \A q \in Queries :
    LET bundle == LoadBundle(q)
        when(i) == written[bundle[i].record.group]
    IN  /\ Len(bundle) <= q.limit /\ Size(bundle) <= q.chars
        /\ \A i, j \in DOMAIN bundle : i < j => when(i) >= when(j)
        /\ \A k \in DOMAIN records :
             Matches(records[k], q) /\ (\A i \in DOMAIN bundle : bundle[i].record # records[k]) =>
               /\ Len(bundle) = q.limit \/ Size(bundle) = q.chars
               /\ \A i \in DOMAIN bundle : when(i) >= written[records[k].group]

\* A record that has to go, be it the new one, ranks no higher than any of its
\* group that stays, and none has to go while its group has room for it.
RetentionIsFair ==
  \A i \in DOMAIN offered :
    LET gone == offered[i]
        stay == OfGroup(records, gone.group)
        unkeyed == {j \in DOMAIN stay : ~IsKeyed(stay[j])}
    IN  (\A j \in DOMAIN stay : stay[j].id # gone.id) =>
          /\ \A j \in DOMAIN stay : ~Higher(gone, stay[j])
          /\ \/ Len(stay) = MaxRecords
             \/ ~IsKeyed(gone) /\ Cardinality(unkeyed) = MaxUnkeyed
=============================================================================
