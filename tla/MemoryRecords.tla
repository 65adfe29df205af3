--------------------------- MODULE MemoryRecords ---------------------------
(***************************************************************************)
(* What a memory store does to its records: the operators of               *)
(* DeterministicMemoryCompactor and of upsert_record, and the reload of a  *)
(* store from records.                                                     *)
(*                                                                         *)
(* Code: agent_session/memory/compaction.rs, in_memory.rs.                 *)
(***************************************************************************)
EXTENDS Naturals, Sequences, FiniteSets, Positions

CONSTANTS
  Group,          \* pairs of scope and kind, compared with scope_identity_eq
  Key,            \* keys of records
  MaxConfidence,  \* confidences are 0..MaxConfidence
  MaxRecords,     \* max_records_per_scope_kind
  MaxUnkeyed      \* max_unkeyed_records_per_scope_kind

ASSUME PolicyAssumption ==
  MaxConfidence \in Nat /\ MaxRecords \in Nat /\ MaxUnkeyed \in Nat

NoKey == "no key"

\* Contents by what compact_record does to them: fit or not, cut by
\* truncate_head_tail around a marker of blank lines, or cut with the blank
\* lines of the marker normalized away.
Text == {"blank", "fits", "long", "cut", "recut"}
Stored == {"fits", "cut", "recut"}

\* content: the number of the upsert that wrote it; updated: updated_at.
RecordOf(I, T) ==
  [id : I, group : Group, key : Key \cup {NoKey}, confidence : 0..MaxConfidence,
   updated : Nat, content : I, text : T]

IsKeyed(r) == r.key # NoKey

----------------------------------------------------------------------------
\* compact_record of a text; what becomes blank is dropped by Upsert.
CompactText(t) == CASE t = "long" -> "cut"
                    [] t = "cut"  -> "recut"
                    [] OTHER      -> t

FaultyHigher(a, b) ==   \* keys are not looked at
  \/ a.confidence > b.confidence
  \/ a.confidence = b.confidence /\ a.updated > b.updated

\* compare_memory_retention_priority: keyed first, then confidence, then the
\* later update.  Of two records updated at the same time each compares
\* Greater to the other, so that the sort leaves them in order.
Higher(a, b) ==
  \/ IsKeyed(a) /\ ~IsKeyed(b)
  \/ /\ IsKeyed(a) <=> IsKeyed(b)
     /\ \/ a.confidence > b.confidence
        \/ a.confidence = b.confidence /\ a.updated > b.updated

\* The stable sort by that order, of the records of rs at P.
Sorted(rs, P) ==
  LET before(i, j) == Higher(rs[i], rs[j]) \/ (~Higher(rs[j], rs[i]) /\ i < j)
  IN  Arranged(rs, P, before)

AtMost(n, m) == IF n <= m THEN n ELSE m

FaultyCompactGroup(rs, P) ==   \* the group is cut, the unkeyed ones are not counted
  SubSeq(Sorted(rs, P), 1, AtMost(Cardinality(P), MaxRecords))

KeyedAt(rs, P) == {i \in P : IsKeyed(rs[i])}

\* Keyed records come first, so what is kept is a prefix.
Kept(rs, P) ==
  AtMost(AtMost(Cardinality(P), MaxRecords), Cardinality(KeyedAt(rs, P)) + MaxUnkeyed)

FaultyOrder(rs, P) ==   \* the group is cut in the order it was written
  SubSeq(Picked(rs, P), 1, Kept(rs, P))

\* compact_scope_kind of the records of rs at P.
CompactGroup(rs, P) == SubSeq(Sorted(rs, P), 1, Kept(rs, P))

InGroup(rs, g)    == {i \in DOMAIN rs : rs[i].group = g}
OfGroup(rs, g)    == Picked(rs, InGroup(rs, g))
NotOfGroup(rs, g) == Picked(rs, DOMAIN rs \ InGroup(rs, g))

SameKey(a, b) == IsKeyed(a) /\ a.group = b.group /\ a.key = b.key

FaultyMerge(rs, r, now) == Append(rs, r)   \* never merged

\* A record with the key of r in its group is overwritten but keeps its id and is
\* updated now; otherwise r is pushed.
Merge(rs, r, now) ==
  IF \E i \in DOMAIN rs : SameKey(rs[i], r)
  THEN LET i == CHOOSE i \in DOMAIN rs : /\ SameKey(rs[i], r)
                                         /\ \A j \in 1..(i - 1) : ~SameKey(rs[j], r)
       IN  [rs EXCEPT ![i] = [r EXCEPT !.id = rs[i].id, !.updated = now]]
  ELSE Append(rs, r)

\* upsert_record: the group of r is compacted and goes to the end.
Upsert(rs, rec, now) ==
  LET r == [rec EXCEPT !.text = CompactText(@)]
      merged == Merge(rs, r, now)
  IN  IF r.text = "blank" THEN rs
      ELSE NotOfGroup(merged, r.group) \o CompactGroup(merged, InGroup(merged, r.group))

FaultyReload(rs, now) ==   \* newest first
  LET load[n \in 0..Len(rs)] ==
        IF n = 0 THEN <<>> ELSE Upsert(load[n - 1], rs[Len(rs) + 1 - n], now)
  IN  load[Len(rs)]

\* with_records: what was written is upserted again, one record at a time.
Reload(rs, now) ==
  LET load[n \in 0..Len(rs)] ==
        IF n = 0 THEN <<>> ELSE Upsert(load[n - 1], rs[n], now)
  IN  load[Len(rs)]
=============================================================================
