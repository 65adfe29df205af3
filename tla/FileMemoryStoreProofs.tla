------------------------- MODULE FileMemoryStoreProofs -------------------------
(***************************************************************************)
(* Theorems about FileMemoryStore for any number of writers, upserts,      *)
(* failing writes and crashes: the file is whole, what a caller was told   *)
(* is in it, it never goes back, and in the end it has what memory has.    *)
(* For all but the last of these only the upserts matter that a content    *)
(* stands for, and not what the records are.                               *)
(***************************************************************************)
EXTENDS FileMemoryStore, MemoryRecordsProofs

\* A content as far as these theorems look at it.
IsContent(c) == c.version \in Nat

Places == {"idle", "upsert", "lock", "panicked"} \cup Flushing

VersionsOK ==
  /\ upserts \in Nat /\ version \in Nat /\ acked \in Nat
  /\ mine \in [Writer -> Nat]
  /\ pc \in [Writer -> Places]
  /\ IsContent(snap) /\ IsContent(file) /\ IsContent(tmp)

\* One writer at a time is in flush, the one that holds the lock.
Locked ==
  /\ flushLock \in Writer \cup {NoOne}
  /\ \A w \in Writer : pc[w] \in Flushing <=> flushLock = w

\* Versions only grow on the way from a caller to memory and to the file.
Ordered ==
  /\ file.whole
  /\ acked <= file.version /\ file.version <= version /\ version <= upserts
  /\ \A w \in Writer : mine[w] <= version

\* How far the writer in flush has brought the records of its caller: the snapshot
\* holds them and is no older than the file, then so does the temporary file, then
\* the file.
Carried(w) ==
  /\ pc[w] \in {"open", "write", "rename"} =>
       /\ snap.whole /\ mine[w] <= snap.version
       /\ file.version <= snap.version /\ snap.version <= version
  /\ pc[w] = "rename" => tmp = snap
  /\ pc[w] = "return" => mine[w] <= file.version

\* The inductive invariant.
IInv == VersionsOK /\ Locked /\ Ordered /\ \A w \in Writer : Carried(w)

----------------------------------------------------------------------------
LEMMA InitHolds == Init => IInv
<1> SUFFICES ASSUME Init PROVE IInv
  OBVIOUS
<1>1. VersionsOK
  BY DEF Init, VersionsOK, IsContent, NoFile, Places
<1>2. Locked
  BY NoOneIsNoWriter DEF Init, Locked, Flushing
<1>3. Ordered
  BY DEF Init, Ordered, NoFile
<1>4. \A w \in Writer : Carried(w)
  BY DEF Init, Carried
<1> QED  BY <1>1, <1>2, <1>3, <1>4 DEF IInv

\* Before flush a call changes only the version, and that upwards.
LEMMA CallKeeps ==
  ASSUME NEW w \in Writer
  PROVE  IInv /\ ((\E n \in 1..MaxSession : Persist(w, n)) \/ UpsertOne(w) \/ EndUpserts(w)) => IInv'
<1> SUFFICES ASSUME IInv, (\E n \in 1..MaxSession : Persist(w, n)) \/ UpsertOne(w) \/ EndUpserts(w)
             PROVE  IInv'
  OBVIOUS
<1> USE DEF IInv
<1>1. CASE (\E n \in 1..MaxSession : Persist(w, n)) \/ EndUpserts(w)
  <2>1. /\ pc[w] \in {"idle", "upsert"}
        /\ \E q \in {"idle", "upsert", "lock"} : pc' = [pc EXCEPT ![w] = q]
        /\ UNCHANGED <<flushLock, snap, file, tmp, upserts, version, mine, acked>>
    BY <1>1 DEF Persist, EndUpserts, disk, bounds, ghosts
  <2>2. VersionsOK'
    BY <2>1 DEF VersionsOK, IsContent, Places
  <2>3. Locked'
    BY <2>1 DEF Locked, VersionsOK, Flushing
  <2>4. Ordered'
    BY <2>1 DEF Ordered
  <2>5. \A x \in Writer : Carried(x)'
    BY <2>1 DEF Carried, VersionsOK
  <2> QED  BY <2>2, <2>3, <2>4, <2>5
<1>2. CASE UpsertOne(w)
  <2>1. /\ pc[w] = "upsert" /\ upserts' = upserts + 1
        /\ UNCHANGED <<flushLock, pc, snap, file, tmp, acked>>
        /\ \/ version' = version /\ mine' = mine
           \/ version' = upserts' /\ mine' = [mine EXCEPT ![w] = upserts']
    BY <1>2 DEF UpsertOne, disk
  <2>2. VersionsOK'
    BY <2>1 DEF VersionsOK, IsContent
  <2>3. Locked'
    BY <2>1 DEF Locked
  <2>4. version <= version' /\ version' <= upserts'
    BY <2>1 DEF VersionsOK, Ordered
  <2>5. Ordered'
    BY <2>1, <2>4 DEF Ordered, VersionsOK, IsContent
  <2>6. \A x \in Writer : pc[x] \in {"open", "write", "rename", "return"} => mine'[x] = mine[x]
    BY <2>1 DEF VersionsOK
  <2>7. \A x \in Writer : Carried(x)'
    BY <2>1, <2>4, <2>6 DEF Carried, VersionsOK, IsContent
  <2> QED  BY <2>2, <2>3, <2>5, <2>7
<1> QED  BY <1>1, <1>2

\* The holder of the lock goes its way alone.
LEMMA FlushKeeps ==
  ASSUME NEW w \in Writer
  PROVE  IInv /\ (AcquireLock(w) \/ Snapshot(w) \/ OpenTmp(w) \/ WriteTmp(w) \/ Rename(w)) => IInv'
<1> SUFFICES ASSUME IInv, AcquireLock(w) \/ Snapshot(w) \/ OpenTmp(w) \/ WriteTmp(w) \/ Rename(w)
             PROVE  IInv'
  OBVIOUS
<1> USE DEF IInv
<1>1. \A x \in Writer : x # w => pc'[x] \notin Flushing /\ pc'[x] = pc[x]
  BY NoOneIsNoWriter DEF AcquireLock, Snapshot, OpenTmp, WriteTmp, Rename, Locked, VersionsOK,
     Flushing
<1>2. UNCHANGED <<upserts, version, mine, acked>> /\ flushLock' = w
  BY DEF AcquireLock, Snapshot, OpenTmp, WriteTmp, Rename, bounds, ghosts, Locked, Flushing
<1>3. Locked'
  <2>1. pc'[w] \in Flushing
    BY DEF AcquireLock, Snapshot, OpenTmp, WriteTmp, Rename, VersionsOK, Flushing
  <2> QED  BY <1>1, <1>2, <2>1 DEF Locked
<1>4. \A x \in Writer : x # w => Carried(x)'
  BY <1>1 DEF Carried, Flushing
<1>5. CASE AcquireLock(w) \/ Snapshot(w) \/ OpenTmp(w) \/ WriteTmp(w)
  <2>1. file' = file
    BY <1>5 DEF AcquireLock, Snapshot, OpenTmp, WriteTmp, disk
  <2>2. VersionsOK'
    <3>1. IsContent(snap)'
      BY <1>5 DEF AcquireLock, Snapshot, OpenTmp, WriteTmp, VersionsOK, IsContent, disk
    <3>2. IsContent(tmp)'
      BY <1>5 DEF AcquireLock, Snapshot, OpenTmp, WriteTmp, VersionsOK, IsContent, Torn, disk
    <3>3. \E q \in Places : pc' = [pc EXCEPT ![w] = q]
      BY <1>5 DEF AcquireLock, Snapshot, OpenTmp, WriteTmp, Places, Flushing
    <3> QED  BY <1>2, <2>1, <3>1, <3>2, <3>3 DEF VersionsOK, IsContent
  <2>3. Ordered'
    BY <1>2, <2>1 DEF Ordered
  <2>4. Carried(w)'
    BY <1>2, <1>5, <2>1 DEF AcquireLock, Snapshot, OpenTmp, WriteTmp, Carried, VersionsOK, Ordered
  <2> QED  BY <1>3, <1>4, <2>2, <2>3, <2>4
<1>6. CASE Rename(w)
  <2>1. /\ pc[w] = "rename" /\ pc' = [pc EXCEPT ![w] = "return"]
        /\ file' = snap /\ tmp' = NoFile /\ snap' = snap
    BY <1>6 DEF Rename, Carried
  <2>2. VersionsOK'
    BY <1>2, <2>1 DEF VersionsOK, IsContent, Places, Flushing, NoFile
  <2>3. Ordered'
    BY <1>2, <2>1 DEF Ordered, Carried, VersionsOK, IsContent
  <2>4. Carried(w)'
    BY <1>2, <2>1 DEF Carried, VersionsOK
  <2> QED  BY <1>3, <1>4, <2>2, <2>3, <2>4
<1> QED  BY <1>5, <1>6

\* The lock is given back, with an answer to the caller or without.
LEMMA ReleaseKeeps ==
  ASSUME NEW w \in Writer
  PROVE  IInv /\ (Return(w) \/ WriteFails(w)) => IInv'
<1> SUFFICES ASSUME IInv, Return(w) \/ WriteFails(w) PROVE IInv'
  OBVIOUS
<1> USE DEF IInv
<1>1. /\ pc[w] \in Flushing /\ flushLock' = NoOne
      /\ \E q \in {"idle", "panicked"} : pc' = [pc EXCEPT ![w] = q]
      /\ UNCHANGED <<snap, file, tmp, upserts, version, mine>>
  BY DEF Return, WriteFails, Flushing, disk, bounds, ghosts
<1>2. acked' \in Nat /\ acked' <= file.version
  BY DEF Return, WriteFails, ghosts, Carried, Ordered, VersionsOK
<1>3. \A x \in Writer : pc'[x] \notin Flushing
  BY <1>1 DEF Locked, VersionsOK, Flushing
<1>4. VersionsOK'
  BY <1>1, <1>2 DEF VersionsOK, IsContent, Places
<1>5. Locked'
  BY <1>1, <1>3, NoOneIsNoWriter DEF Locked
<1>6. Ordered'
  BY <1>1, <1>2 DEF Ordered
<1>7. \A x \in Writer : Carried(x)'
  BY <1>3 DEF Carried, Flushing
<1> QED  BY <1>4, <1>5, <1>6, <1>7

\* The next process starts with what the file stands for.
LEMMA CrashKeeps == IInv /\ CrashAndOpen => IInv'
<1> SUFFICES ASSUME IInv, CrashAndOpen PROVE IInv'
  OBVIOUS
<1> USE DEF IInv
<1>1. /\ version' = file.version /\ flushLock' = NoOne
      /\ pc' = [w \in Writer |-> "idle"] /\ mine' = [w \in Writer |-> 0]
      /\ snap' = NoFile /\ UNCHANGED <<file, tmp, upserts, acked>>
  BY DEF CrashAndOpen, disk
<1>2. VersionsOK'
  BY <1>1 DEF VersionsOK, IsContent, NoFile, Places
<1>3. Locked'
  BY <1>1, NoOneIsNoWriter DEF Locked, Flushing
<1>4. Ordered'
  BY <1>1 DEF Ordered, VersionsOK, IsContent
<1>5. \A w \in Writer : Carried(w)'
  BY <1>1 DEF Carried
<1> QED  BY <1>2, <1>3, <1>4, <1>5

----------------------------------------------------------------------------
LEMMA StutterKeeps == IInv /\ UNCHANGED vars => IInv'
  BY DEF IInv, VersionsOK, IsContent, Locked, Ordered, Carried, vars

LEMMA NextKeeps == IInv /\ [Next]_vars => IInv'
<1> SUFFICES ASSUME IInv, [Next]_vars PROVE IInv'
  OBVIOUS
<1>1. ASSUME NEW w \in Writer,
             (\E n \in 1..MaxSession : Persist(w, n)) \/ UpsertOne(w) \/ EndUpserts(w)
      PROVE  IInv'
  BY <1>1, CallKeeps
<1>2. ASSUME NEW w \in Writer,
             AcquireLock(w) \/ Snapshot(w) \/ OpenTmp(w) \/ WriteTmp(w) \/ Rename(w)
      PROVE  IInv'
  BY <1>2, FlushKeeps
<1>3. ASSUME NEW w \in Writer, Return(w) \/ WriteFails(w) PROVE IInv'
  BY <1>3, ReleaseKeeps
<1>4. CASE CrashAndOpen
  BY <1>4, CrashKeeps
<1>5. CASE UNCHANGED vars
  BY <1>5, StutterKeeps
<1> QED  BY <1>1, <1>2, <1>3, <1>4, <1>5 DEF Next

\* The inductive invariant holds whatever is written, fails or crashes.
THEOREM StoreInvariant == Spec => []IInv
  BY InitHolds, NextKeeps, PTL DEF Spec

\* open always finds no file or a complete one (write_atomic).
THEOREM FileStaysWhole == Spec => []FileIsWhole
<1>1. IInv => FileIsWhole
  BY DEF IInv, Ordered, FileIsWhole
<1> QED  BY <1>1, StoreInvariant, PTL

\* What a caller was told is persisted is in the file from then on (flush before
\* persist_session returns).
THEOREM AckedStaysDurable == Spec => []AckedIsDurable
<1>1. IInv => AckedIsDurable
  BY DEF IInv, Ordered, AckedIsDurable
<1> QED  BY <1>1, StoreInvariant, PTL

\* The lock is taken before the records are read, so that no flush undoes another.
THEOREM FileOnlyAdvances == Spec => FileNeverGoesBack
<1>1. IInv /\ [Next]_vars => [file.whole /\ file'.whole => file'.version >= file.version]_vars
  <2> SUFFICES ASSUME IInv, Next PROVE file'.version >= file.version
    OBVIOUS
  <2>1. ASSUME NEW w \in Writer, Rename(w) PROVE file'.version >= file.version
    BY <2>1 DEF Rename, IInv, Carried, VersionsOK, IsContent
  <2>2. (\E w \in Writer : Rename(w)) \/ file' = file
    BY DEF Next, Persist, UpsertOne, EndUpserts, AcquireLock, Snapshot, OpenTmp, WriteTmp,
       Return, WriteFails, CrashAndOpen, disk
  <2> QED  BY <2>1, <2>2 DEF IInv, VersionsOK, IsContent
<1> QED  BY <1>1, StoreInvariant, PTL DEF Spec, FileNeverGoesBack

----------------------------------------------------------------------------
(* The records behind the versions                                         *)

\* What a process has of rs when it has loaded them.
Settled(rs) == Renewed(rs, Len(rs))

\* What is loaded is a store again, and what is loaded again is the same.
LEMMA SettledOnce ==
  ASSUME NEW rs, Good(rs), NEW S, Numbered(rs, S)
  PROVE  Good(Settled(rs)) /\ Numbered(Settled(rs), S) /\ Settled(Settled(rs)) = Settled(rs)
<1> DEFINE N == Len(rs)
           t == Settled(rs)
<1>1. /\ N \in Nat /\ N \in 0..N /\ DOMAIN rs = 1..N
      /\ \A i \in 1..N : rs[i] \in Rec /\ rs[i].id \in S /\ rs[i].content \in S
  BY DEF Good, Numbered
<1>2. Good(t) /\ Len(t) = N
  BY <1>1, RenewedIsGood DEF Settled
<1>3. DOMAIN t = 1..N /\ \A i \in 1..N : t[i] = Compacted(rs[i])
  BY DEF Settled, Renewed
<1>4. ASSUME NEW r \in Rec
      PROVE  /\ Compacted(Compacted(r)) = Compacted(r)
             /\ Compacted(r).id = r.id /\ Compacted(r).content = r.content
  BY DEF Compacted, CompactText, Rec, RecordOf, Stored
<1> HIDE DEF t, N
<1>5. Numbered(t, S)
  BY <1>1, <1>3, <1>4 DEF Numbered
<1>6. Settled(t) = [i \in 1..N |-> Compacted(t[i])]
  BY <1>2 DEF Settled, Renewed
<1>7. \A i \in 1..N : Compacted(t[i]) = Compacted(rs[i])
  BY <1>1, <1>3, <1>4
<1>8. [i \in 1..N |-> Compacted(t[i])] = [i \in 1..N |-> Compacted(rs[i])]
  BY <1>7
<1>9. t = [i \in 1..N |-> Compacted(rs[i])]
  BY DEF t, Settled, Renewed, N
<1> QED  BY <1>2, <1>5, <1>6, <1>8, <1>9 DEF t

IsStore(rs, n) == Good(rs) /\ Numbered(rs, 1..n)

\* Contents that stand for the same upserts have the same records.
Faithful ==
  /\ IsStore(records, upserts) /\ IsStore(snap.records, upserts) /\ IsStore(file.records, upserts)
  /\ file.version = version => Settled(file.records) = Settled(records)
  /\ \A w \in Writer : pc[w] \in {"open", "write", "rename"} /\ snap.version = version =>
       Settled(snap.records) = Settled(records)

\* w will yet bring to the file all that is in memory.
Brings(w) ==
  \/ pc[w] = "upsert" /\ written[w]
  \/ pc[w] \in {"lock", "snapshot"}
  \/ pc[w] \in {"open", "write", "rename"} /\ snap.version = version

\* Unless a write failed, what is not in the file somebody is on the way with.
UnderWay ==
  /\ DOMAIN written = Writer /\ failures \in Nat
  /\ failures = 0 /\ file.version # version => \E w \in Writer : Brings(w)

LEMMA InitIsFaithful == Init => Faithful /\ UnderWay
<1> SUFFICES ASSUME Init PROVE Faithful /\ UnderWay
  OBVIOUS
<1>1. /\ records = <<>> /\ snap.records = <<>> /\ file.records = <<>> /\ upserts = 0
      /\ file.version = 0 /\ version = 0 /\ \A w \in Writer : pc[w] = "idle"
  BY DEF Init, NoFile
<1>2. IsStore(<<>>, upserts)
  BY NothingIsGood DEF IsStore, Numbered
<1>3. Faithful
  BY <1>1, <1>2 DEF Faithful
<1>4. UnderWay
  BY <1>1 DEF UnderWay, Init
<1> QED  BY <1>3, <1>4

\* An upsert makes records that no content stands for yet.
LEMMA UpsertIsFaithful ==
  ASSUME NEW w \in Writer
  PROVE  IInv /\ Faithful /\ UnderWay /\ UpsertOne(w) => Faithful' /\ UnderWay'
<1> SUFFICES ASSUME IInv, Faithful, UnderWay, UpsertOne(w) PROVE Faithful' /\ UnderWay'
  OBVIOUS
<1>1. /\ pc[w] = "upsert" /\ upserts' = upserts + 1
      /\ UNCHANGED <<pc, snap, file, failures>>
      /\ upserts \in Nat /\ file.version \in Nat /\ snap.version \in Nat /\ version \in Nat
      /\ file.version <= upserts
  BY DEF UpsertOne, disk, IInv, VersionsOK, IsContent, Ordered
<1>2. \A x \in Writer : pc[x] \in {"open", "write", "rename"} => snap.version <= upserts
  BY DEF IInv, Carried, Ordered, VersionsOK, IsContent
<1>3. PICK r \in [id : {upserts'}, group : Group, key : Key \cup {NoKey},
                  confidence : 0..MaxConfidence, updated : {upserts'},
                  content : {upserts'}, text : {"blank", "fits", "long"}] :
         /\ records' = Upsert(records, r, upserts')
         /\ written' = [written EXCEPT ![w] = Written(w, r)]
         /\ version' = IF r.text = "blank" THEN version ELSE upserts'
  BY DEF UpsertOne
<1>4. r \in RecordOf(Nat, Text) /\ r.id = upserts' /\ r.content = upserts' /\ upserts' \in Nat
  BY <1>1 DEF RecordOf, Text
<1>5. Good(records) /\ Numbered(records, 1..upserts) /\ Fresh(records, r)
  <2>1. Good(records) /\ Numbered(records, 1..upserts)
    BY DEF Faithful, IsStore
  <2> QED  BY <1>1, <1>4, <2>1 DEF Fresh, Numbered
<1>6. \A rs : IsStore(rs, upserts) => IsStore(rs, upserts')
  BY <1>1 DEF IsStore, Numbered
<1>7. IsStore(records', upserts')
  <2>1. Good(records')
    BY <1>3, <1>4, <1>5, UpsertKeepsGood
  <2>2. Numbered(records, 1..upserts') /\ upserts' \in 1..upserts'
    BY <1>1, <1>5 DEF Numbered
  <2>3. Numbered(records', 1..upserts')
    BY <1>3, <1>4, <1>5, <2>2, UpsertIsNumbered
  <2> QED  BY <2>1, <2>3 DEF IsStore
<1>8. IsStore(snap.records, upserts)' /\ IsStore(file.records, upserts)'
  BY <1>1, <1>6 DEF Faithful
<1>9. CASE r.text = "blank" /\ records' = records
  <2>1. version' = version /\ \A x \in Writer : written[x] => written'[x]
    BY <1>3, <1>9 DEF Written, UnderWay
  <2>2. Faithful'
    BY <1>1, <1>7, <1>8, <1>9, <2>1 DEF Faithful
  <2>3. \A x \in Writer : Brings(x) => Brings(x)'
    BY <1>1, <2>1 DEF Brings
  <2>4. UnderWay'
    BY <1>1, <1>3, <2>1, <2>3 DEF UnderWay
  <2> QED  BY <2>2, <2>4
<1>10. CASE r.text # "blank"
  <2>1. version' = upserts' /\ file'.version # version' /\ written'[w]
    <3>1. version' = upserts' /\ file'.version # version'
      BY <1>1, <1>3, <1>10
    <3>2. written'[w] = Written(w, r)
      BY <1>3 DEF UnderWay
    <3>3. Written(w, r)
      BY <1>10 DEF Written
    <3> QED  BY <3>1, <3>2, <3>3
  <2>2. \A x \in Writer : pc'[x] \in {"open", "write", "rename"} => snap'.version # version'
    BY <1>1, <1>2, <2>1
  <2>3. Faithful'
    BY <1>7, <1>8, <2>1, <2>2 DEF Faithful
  <2>4. Brings(w)'
    BY <1>1, <2>1 DEF Brings
  <2>5. UnderWay'
    BY <1>1, <1>3, <2>4 DEF UnderWay
  <2> QED  BY <2>3, <2>5
<1> QED  BY <1>3, <1>4, <1>5, <1>9, <1>10, UpsertGoesLast

\* The other steps of a call leave the records alone.
LEMMA CallIsFaithful ==
  ASSUME NEW w \in Writer
  PROVE  /\ IInv /\ Faithful /\ UnderWay
         /\ (\E n \in 1..MaxSession : Persist(w, n)) \/ EndUpserts(w)
         => Faithful' /\ UnderWay'
<1> SUFFICES ASSUME IInv, Faithful, UnderWay,
                    (\E n \in 1..MaxSession : Persist(w, n)) \/ EndUpserts(w)
             PROVE  Faithful' /\ UnderWay'
  OBVIOUS
<1>1. /\ UNCHANGED <<records, snap, file, upserts, version, failures>>
      /\ \A x \in Writer : x # w => pc'[x] = pc[x] /\ written'[x] = written[x]
      /\ DOMAIN written' = Writer /\ pc'[w] \notin {"open", "write", "rename"}
  BY DEF Persist, EndUpserts, disk, bounds, ghosts, IInv, VersionsOK, UnderWay
<1>2. Brings(w) => Brings(w)'
  BY DEF Persist, EndUpserts, Brings, IInv, VersionsOK
<1>3. \A x \in Writer : Brings(x) => Brings(x)'
  BY <1>1, <1>2 DEF Brings
<1>4. \A x \in Writer : pc'[x] \in {"open", "write", "rename"} => pc[x] \in {"open", "write", "rename"}
  BY <1>1
<1>5. Faithful'
  BY <1>1, <1>4 DEF Faithful, IsStore
<1>6. UnderWay'
  BY <1>1, <1>3 DEF UnderWay
<1> QED  BY <1>5, <1>6

LEMMA FlushIsFaithful ==
  ASSUME NEW w \in Writer
  PROVE  /\ IInv /\ Faithful /\ UnderWay
         /\ AcquireLock(w) \/ Snapshot(w) \/ OpenTmp(w) \/ WriteTmp(w) \/ Rename(w)
         => Faithful' /\ UnderWay'
<1> SUFFICES ASSUME IInv, Faithful, UnderWay,
                    AcquireLock(w) \/ Snapshot(w) \/ OpenTmp(w) \/ WriteTmp(w) \/ Rename(w)
             PROVE  Faithful' /\ UnderWay'
  OBVIOUS
<1>1. /\ UNCHANGED <<records, upserts, version, failures, written>>
      /\ \A x \in Writer : x # w => pc'[x] = pc[x]
      /\ \A x \in Writer : x # w => pc'[x] \notin {"open", "write", "rename"}
  BY NoOneIsNoWriter DEF AcquireLock, Snapshot, OpenTmp, WriteTmp, Rename, bounds, ghosts,
     IInv, Locked, VersionsOK, Flushing
<1>2. \A x \in Writer : x # w => (Brings(x) => Brings(x)')
  BY <1>1 DEF Brings, IInv, Locked, Flushing, AcquireLock, Snapshot, OpenTmp, WriteTmp, Rename
<1>3. CASE Snapshot(w)
  <2>1. /\ snap'.records = records /\ snap'.version = version /\ file' = file
        /\ pc'[w] = "open"
    BY <1>3 DEF Snapshot, disk, IInv, VersionsOK
  <2>2. Faithful'
    BY <1>1, <2>1 DEF Faithful, IsStore
  <2>3. Brings(w)'
    BY <1>1, <2>1 DEF Brings
  <2>4. UnderWay'
    BY <1>1, <2>3 DEF UnderWay
  <2> QED  BY <2>2, <2>4
<1>4. CASE AcquireLock(w) \/ OpenTmp(w) \/ WriteTmp(w)
  <2>1. snap' = snap /\ file' = file
    BY <1>4 DEF AcquireLock, OpenTmp, WriteTmp, disk
  <2>2. pc'[w] \in {"open", "write", "rename"} => pc[w] \in {"open", "write", "rename"}
    BY <1>4 DEF AcquireLock, OpenTmp, WriteTmp, IInv, VersionsOK
  <2>3. Faithful'
    BY <1>1, <2>1, <2>2 DEF Faithful, IsStore
  <2>4. Brings(w) => Brings(w)'
    BY <1>1, <1>4, <2>1 DEF Brings, AcquireLock, OpenTmp, WriteTmp, IInv, VersionsOK
  <2>5. UnderWay'
    BY <1>1, <1>2, <2>1, <2>4 DEF UnderWay
  <2> QED  BY <2>3, <2>5
<1>5. CASE Rename(w)
  <2>1. /\ pc[w] = "rename" /\ pc'[w] = "return" /\ file' = snap /\ snap' = snap
    BY <1>5 DEF Rename, IInv, Carried, VersionsOK
  <2>2. snap.version = version => Settled(snap.records) = Settled(records)
    BY <2>1 DEF Faithful
  <2>3. Faithful'
    BY <1>1, <2>1, <2>2 DEF Faithful, IsStore
  <2>4. UnderWay'
    <3>1. ASSUME failures = 0, file'.version # version PROVE \E x \in Writer : Brings(x)'
      <4>1. CASE file.version # version
        <5>1. PICK x \in Writer : Brings(x)
          BY <3>1, <4>1 DEF UnderWay
        <5>2. x # w
          BY <2>1, <3>1, <5>1 DEF Brings
        <5> QED  BY <1>2, <5>1, <5>2
      <4>2. CASE file.version = version
        <5>1. snap.version = version
          BY <2>1, <4>2 DEF IInv, Carried, Ordered, VersionsOK, IsContent
        <5> QED  BY <2>1, <3>1, <5>1
      <4> QED  BY <4>1, <4>2
    <3> QED  BY <1>1, <3>1 DEF UnderWay
  <2> QED  BY <2>3, <2>4
<1> QED  BY <1>3, <1>4, <1>5

LEMMA ReleaseIsFaithful ==
  ASSUME NEW w \in Writer
  PROVE  IInv /\ Faithful /\ UnderWay /\ (Return(w) \/ WriteFails(w)) => Faithful' /\ UnderWay'
<1> SUFFICES ASSUME IInv, Faithful, UnderWay, Return(w) \/ WriteFails(w)
             PROVE  Faithful' /\ UnderWay'
  OBVIOUS
<1>1. /\ UNCHANGED <<records, snap, file, upserts, version, written>>
      /\ \A x \in Writer : x # w => pc'[x] = pc[x]
      /\ pc'[w] \in {"idle", "panicked"}
  BY DEF Return, WriteFails, disk, ghosts, bounds, IInv, VersionsOK
<1>2. Faithful'
  BY <1>1 DEF Faithful, IsStore
<1>3. CASE Return(w)
  <2>1. failures' = failures /\ ~Brings(w)
    BY <1>3 DEF Return, bounds, Brings
  <2>2. \A x \in Writer : Brings(x) => Brings(x)'
    BY <1>1, <2>1 DEF Brings
  <2> QED  BY <1>1, <1>2, <2>1, <2>2 DEF UnderWay
<1>4. CASE WriteFails(w)
  <2>1. failures' = failures + 1 /\ failures \in Nat
    BY <1>4 DEF WriteFails, UnderWay
  <2> QED  BY <1>1, <1>2, <2>1 DEF UnderWay
<1> QED  BY <1>3, <1>4

\* The next process has what the file has, compacted once more.
LEMMA CrashIsFaithful == IInv /\ Faithful /\ UnderWay /\ CrashAndOpen => Faithful' /\ UnderWay'
<1> SUFFICES ASSUME IInv, Faithful, UnderWay, CrashAndOpen PROVE Faithful' /\ UnderWay'
  OBVIOUS
<1>1. /\ version' = file.version /\ records' = Reload(file.records, upserts)
      /\ \A w \in Writer : pc'[w] = "idle"
      /\ snap' = NoFile /\ UNCHANGED <<file, upserts, failures>>
      /\ written' = [w \in Writer |-> FALSE]
  BY DEF CrashAndOpen, disk
<1>2. Good(file.records) /\ Numbered(file.records, 1..upserts)
  BY DEF Faithful, IsStore
<1>3. records' = Settled(file.records)
  BY <1>1, <1>2, ReloadIs DEF Settled
<1>4. IsStore(records, upserts)' /\ Settled(records') = Settled(file.records)
  BY <1>1, <1>2, <1>3, SettledOnce DEF IsStore
<1>5. IsStore(snap.records, upserts)'
  <2>1. snap'.records = <<>>
    BY <1>1 DEF NoFile
  <2> QED  BY <2>1, NothingIsGood DEF IsStore, Numbered
<1>6. IsStore(file.records, upserts)'
  BY <1>1, <1>2 DEF IsStore
<1>7. Faithful'
  BY <1>1, <1>4, <1>5, <1>6 DEF Faithful
<1>8. UnderWay'
  BY <1>1 DEF UnderWay
<1> QED  BY <1>7, <1>8

LEMMA NextIsFaithful == IInv /\ Faithful /\ UnderWay /\ [Next]_vars => Faithful' /\ UnderWay'
<1> SUFFICES ASSUME IInv, Faithful, UnderWay, [Next]_vars PROVE Faithful' /\ UnderWay'
  OBVIOUS
<1>1. ASSUME NEW w \in Writer, (\E n \in 1..MaxSession : Persist(w, n)) \/ EndUpserts(w)
      PROVE  Faithful' /\ UnderWay'
  BY <1>1, CallIsFaithful
<1>2. ASSUME NEW w \in Writer, UpsertOne(w) PROVE Faithful' /\ UnderWay'
  BY <1>2, UpsertIsFaithful
<1>3. ASSUME NEW w \in Writer,
             AcquireLock(w) \/ Snapshot(w) \/ OpenTmp(w) \/ WriteTmp(w) \/ Rename(w)
      PROVE  Faithful' /\ UnderWay'
  BY <1>3, FlushIsFaithful
<1>4. ASSUME NEW w \in Writer, Return(w) \/ WriteFails(w) PROVE Faithful' /\ UnderWay'
  BY <1>4, ReleaseIsFaithful
<1>5. CASE CrashAndOpen
  BY <1>5, CrashIsFaithful
<1>6. CASE UNCHANGED vars
  BY <1>6 DEF Faithful, IsStore, UnderWay, Brings, vars
<1> QED  BY <1>1, <1>2, <1>3, <1>4, <1>5, <1>6 DEF Next

\* Once nobody is writing and no write has failed, the file has every upsert there was,
\* and the next process loads from it what this one would load from its own records.
THEOREM FileCaughtUp == Spec => []FileCatchesUp
<1>1. Spec => [](IInv /\ Faithful /\ UnderWay)
  BY InitHolds, NextKeeps, InitIsFaithful, NextIsFaithful, PTL DEF Spec
<1>2. IInv /\ Faithful /\ UnderWay => FileCatchesUp
  <2> SUFFICES ASSUME Faithful, UnderWay, \A w \in Writer : pc[w] = "idle", failures = 0
               PROVE  Reload(file.records, upserts) = Reload(records, upserts)
    BY DEF FileCatchesUp
  <2>1. \A w \in Writer : ~Brings(w)
    BY DEF Brings
  <2>2. Settled(file.records) = Settled(records)
    BY <2>1 DEF UnderWay, Faithful
  <2>3. Good(file.records) /\ Good(records)
    BY DEF Faithful, IsStore
  <2>4. /\ Reload(file.records, upserts) = Settled(file.records)
        /\ Reload(records, upserts) = Settled(records)
    BY <2>3, ReloadIs DEF Settled
  <2> QED  BY <2>2, <2>4
<1> QED  BY <1>1, <1>2, PTL
=============================================================================
