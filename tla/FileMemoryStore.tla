-------------------------- MODULE FileMemoryStore --------------------------
(***************************************************************************)
(* A memory store kept in a file.  Each persist_session or upsert_record   *)
(* updates the records in memory, then writes all of them to a temporary   *)
(* file that is renamed over the store's own.  Sessions that end together  *)
(* do so at the same time; a write may fail, and the process may be killed *)
(* between any two steps.  The loss of data the system has not yet put on  *)
(* the disk (there is no fsync) is not modelled.                           *)
(*                                                                         *)
(* Code: agent_session/memory/file_store.rs, in_memory.rs.                 *)
(***************************************************************************)
EXTENDS MemoryRecords

CONSTANTS
  Writer,        \* threads that share the store
  MaxSession,    \* bound: records of one persist_session
  MaxUpserts,    \* bound: upserts
  MaxCrashes,    \* bound: crashes
  MaxFailures    \* bound: failing writes

ASSUME StoreBounds ==
  {MaxSession, MaxUpserts, MaxCrashes, MaxFailures} \subseteq Nat

NoOne == "no one"

ASSUME NoOneIsNoWriter == NoOne \notin Writer

\* load_records takes no file for an empty store; it fails on a file that is
\* still being written.
NoFile == [whole |-> TRUE, version |-> 0, records |-> <<>>]
Torn   == [whole |-> FALSE, version |-> 0, records |-> <<>>]

VARIABLES
  records,    \* inner.records
  flushLock,  \* who holds flush_lock
  pc,         \* where each writer is in persist_session
  todo,       \* records it has still to upsert
  written,    \* outcome.written > 0
  snap,       \* envelope of the writer that holds flush_lock
  file,       \* content of path
  tmp,        \* content of tmp_path
  upserts, crashes, failures,   \* how many there were
  version,    \* upserts that the records in memory stand for
  mine,       \* version after each writer's last upsert
  acked       \* highest version whose writer has returned

vars == <<records, flushLock, pc, todo, written, snap, file, tmp,
          upserts, crashes, failures, version, mine, acked>>
disk   == <<file, tmp>>
bounds == <<upserts, crashes, failures>>
ghosts == <<version, mine, acked>>

Flushing == {"snapshot", "open", "write", "rename", "return"}

----------------------------------------------------------------------------
(* persist_session and upsert_record                                       *)

\* A call with n records.
Persist(w, n) ==
  /\ pc[w] = "idle" /\ upserts < MaxUpserts
  /\ pc' = [pc EXCEPT ![w] = "upsert"]
  /\ todo' = [todo EXCEPT ![w] = n]
  /\ written' = [written EXCEPT ![w] = FALSE]
  /\ UNCHANGED <<records, flushLock, snap, disk, bounds, ghosts>>

FaultyWritten(w, r) == r.text # "blank"   \* the last outcome counts

\* outcome.written > 0, outcomes added up.
Written(w, r) == written[w] \/ r.text # "blank"

\* One record of the session, under the write lock of records; each upsert
\* takes that lock anew.
UpsertOne(w) ==
  /\ pc[w] = "upsert" /\ todo[w] > 0 /\ upserts < MaxUpserts
  /\ upserts' = upserts + 1
  /\ todo' = [todo EXCEPT ![w] = @ - 1]
  /\ \E r \in [id : {upserts'}, group : Group, key : Key \cup {NoKey},
               confidence : 0..MaxConfidence, updated : {upserts'},
               content : {upserts'}, text : {"blank", "fits", "long"}] :
       /\ records' = Upsert(records, r, upserts')
       /\ written' = [written EXCEPT ![w] = Written(w, r)]
       /\ version' = IF r.text = "blank" THEN version ELSE upserts'
       /\ mine' = IF r.text = "blank" THEN mine ELSE [mine EXCEPT ![w] = upserts']
  /\ UNCHANGED <<flushLock, pc, snap, disk, crashes, failures, acked>>

\* A flush if anything was written; a session of blank records just returns.
EndUpserts(w) ==
  /\ pc[w] = "upsert" /\ (todo[w] = 0 \/ upserts = MaxUpserts)
  /\ todo' = [todo EXCEPT ![w] = 0]
  /\ pc' = [pc EXCEPT ![w] = IF written[w] THEN "lock" ELSE "idle"]
  /\ UNCHANGED <<records, flushLock, written, snap, disk, bounds, ghosts>>

----------------------------------------------------------------------------
(* flush                                                                   *)

FaultyAcquireLock(w) ==   \* without the lock
  /\ pc[w] = "lock"
  /\ flushLock' = w
  /\ pc' = [pc EXCEPT ![w] = "snapshot"]
  /\ UNCHANGED <<records, todo, written, snap, disk, bounds, ghosts>>

AcquireLock(w) ==
  /\ pc[w] = "lock" /\ flushLock = NoOne
  /\ flushLock' = w
  /\ pc' = [pc EXCEPT ![w] = "snapshot"]
  /\ UNCHANGED <<records, todo, written, snap, disk, bounds, ghosts>>

\* inner.records() and to_vec_pretty.
Snapshot(w) ==
  /\ pc[w] = "snapshot"
  /\ snap' = [whole |-> TRUE, version |-> version, records |-> records]
  /\ pc' = [pc EXCEPT ![w] = "open"]
  /\ UNCHANGED <<records, flushLock, todo, written, disk, bounds, ghosts>>

FaultyOpenTmp(w) ==   \* the file is written in place
  /\ pc[w] = "open"
  /\ file' = Torn
  /\ pc' = [pc EXCEPT ![w] = "write"]
  /\ UNCHANGED <<records, flushLock, todo, written, snap, tmp, bounds, ghosts>>

\* fs::write truncates the temporary file ...
OpenTmp(w) ==
  /\ pc[w] = "open"
  /\ tmp' = Torn
  /\ pc' = [pc EXCEPT ![w] = "write"]
  /\ UNCHANGED <<records, flushLock, todo, written, snap, file, bounds, ghosts>>

\* ... and fills it.
WriteTmp(w) ==
  /\ pc[w] = "write"
  /\ tmp' = snap
  /\ pc' = [pc EXCEPT ![w] = "rename"]
  /\ UNCHANGED <<records, flushLock, todo, written, snap, file, bounds, ghosts>>

Rename(w) ==
  /\ pc[w] = "rename"
  /\ file' = tmp /\ tmp' = NoFile
  /\ pc' = [pc EXCEPT ![w] = "return"]
  /\ UNCHANGED <<records, flushLock, todo, written, snap, bounds, ghosts>>

\* The guard is dropped and the caller has its outcome.
Return(w) ==
  /\ pc[w] = "return"
  /\ flushLock' = NoOne
  /\ pc' = [pc EXCEPT ![w] = "idle"]
  /\ acked' = IF mine[w] > acked THEN mine[w] ELSE acked
  /\ UNCHANGED <<records, todo, written, snap, disk, bounds, version, mine>>

FaultyWriteFails(w) ==   \* the error is dropped
  /\ pc[w] \in {"open", "write", "rename"} /\ failures < MaxFailures
  /\ failures' = failures + 1
  /\ pc' = [pc EXCEPT ![w] = "return"]
  /\ UNCHANGED <<records, flushLock, todo, written, snap, disk, upserts, crashes, ghosts>>

\* An I/O error leaves flush, which drops the guard, and then panics in expect:
\* the lock is not poisoned, the records stay in memory, and what there is of the
\* temporary file stays too.
WriteFails(w) ==
  /\ pc[w] \in {"open", "write", "rename"} /\ failures < MaxFailures
  /\ failures' = failures + 1
  /\ flushLock' = NoOne
  /\ pc' = [pc EXCEPT ![w] = "panicked"]
  /\ UNCHANGED <<records, todo, written, snap, disk, upserts, crashes, ghosts>>

----------------------------------------------------------------------------
(* A crash, and open by the next process                                   *)

\* The file is one that open can read; the temporary file is ignored.
CrashAndOpen ==
  /\ crashes < MaxCrashes /\ file.whole
  /\ crashes' = crashes + 1
  /\ records' = Reload(file.records, upserts)
  /\ version' = file.version
  /\ flushLock' = NoOne
  /\ pc' = [w \in Writer |-> "idle"]
  /\ todo' = [w \in Writer |-> 0]
  /\ written' = [w \in Writer |-> FALSE]
  /\ mine' = [w \in Writer |-> 0]
  /\ snap' = NoFile
  /\ UNCHANGED <<disk, upserts, failures, acked>>

Init ==
  /\ records = <<>> /\ flushLock = NoOne
  /\ pc = [w \in Writer |-> "idle"]
  /\ todo = [w \in Writer |-> 0] /\ written = [w \in Writer |-> FALSE]
  /\ snap = NoFile /\ file = NoFile /\ tmp = NoFile
  /\ upserts = 0 /\ crashes = 0 /\ failures = 0
  /\ version = 0 /\ mine = [w \in Writer |-> 0] /\ acked = 0

Next ==
  \/ \E w \in Writer :
       \/ \E n \in 1..MaxSession : Persist(w, n)
       \/ UpsertOne(w) \/ EndUpserts(w)
       \/ AcquireLock(w) \/ Snapshot(w) \/ OpenTmp(w) \/ WriteTmp(w)
       \/ Rename(w) \/ Return(w) \/ WriteFails(w)
  \/ CrashAndOpen

Spec == Init /\ [][Next]_vars

----------------------------------------------------------------------------
(* Properties                                                              *)

Envelope == [whole : BOOLEAN, version : 0..MaxUpserts,
             records : Seq(RecordOf(1..MaxUpserts, Stored))]

\* The lock is held by the one writer that is in flush.
TypeOK ==
  /\ records \in Seq(RecordOf(1..MaxUpserts, Stored))
  /\ pc \in [Writer -> {"idle", "upsert", "lock", "panicked"} \cup Flushing]
  /\ todo \in [Writer -> 0..MaxSession] /\ written \in [Writer -> BOOLEAN]
  /\ {snap, file, tmp} \subseteq Envelope
  /\ {upserts, version, acked} \subseteq 0..MaxUpserts
  /\ crashes \in 0..MaxCrashes /\ failures \in 0..MaxFailures
  /\ mine \in [Writer -> 0..MaxUpserts]
  /\ \A w \in Writer : pc[w] \in Flushing <=> flushLock = w

\* Whenever the process is killed, open finds no file or a complete one.
FileIsWhole == file.whole

\* What a caller was told is persisted survives every later crash: the file stands
\* for at least as many upserts as any session that returned.
AckedIsDurable == file.whole => file.version >= acked

\* Of two sessions that end together the later writer never puts back the
\* records of the earlier one.
FileNeverGoesBack ==
  [][file.whole /\ file'.whole => file'.version >= file.version]_vars

\* Once no call is under way and no write has failed, the next process would load
\* the records this one has.
FileCatchesUp ==
  (\A w \in Writer : pc[w] = "idle") /\ failures = 0 =>
    Reload(file.records, upserts) = Reload(records, upserts)
=============================================================================
