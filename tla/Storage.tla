------------------------------- MODULE Storage -------------------------------
(***************************************************************************)
(* Where an acknowledged write of easy-lsm lives: the write path appends   *)
(* it to the WAL and inserts it into the memtable of db.current            *)
(* (src/lib.rs), rotate_memtable freezes memtables, flush_memtables and    *)
(* compact_l0 move them into SSTables and drop their WALs, garbage_collect *)
(* deletes files (src/compact.rs), and Db::new rebuilds everything from    *)
(* the last manifest after a crash (src/lib.rs recover_state).             *)
(*                                                                         *)
(* A write is its number in the order of the WAL appends; a file and a     *)
(* memtable are the sets of writes they hold.  Files have inodes, so that  *)
(* an open handle outlives the name and a file that is created again is    *)
(* truncated.  apply_atomic_update is one step for the compaction thread   *)
(* and a snapshot and a commit for the rotation, whose stale snapshot      *)
(* overwrites next_sstable_id.                                             *)
(***************************************************************************)
EXTENDS Naturals, Sequences, FiniteSets, FiniteSetsExt

CONSTANTS
    MemLimit,      \* max_memtable_size, in writes
    FlushTrigger,  \* flush when the manifest lists more WALs than this (4)
    L0Trigger,     \* compact L0 when it holds this many files
    Clients,       \* the threads that write
    IoErrors,      \* a subset of {"rotate", "reopen", "flush", "compact"}
    MaxWrites,     \* bound: writes
    MaxJobs,       \* bound: flushes and compactions
    MaxRestarts,   \* bound: crashes
    MaxId          \* bound: the ids of WALs and SSTables

ASSUME ConstantsAssumption ==
    /\ {MemLimit, FlushTrigger, L0Trigger, Clients} \subseteq Nat \ {0}
    /\ IoErrors \subseteq {"rotate", "reopen", "flush", "compact"}
    /\ {MaxWrites, MaxJobs, MaxRestarts, MaxId} \subseteq Nat /\ MaxRestarts < MaxId

VARIABLES
    \* the directory
    data,       \* the contents of each inode; {} in an SSTable: not a readable one
    walDir,     \* the inode of each <id>.wal, or 0
    sstDir,     \* the inode of each <id>.sst, or 0
    previous,   \* the files of the manifest before the last one
    \* the process
    alive,      \* FALSE: Db::new failed
    manifest,   \* the Manifest; the part without next ids is also the last one on disk
    current,    \* db.current, a DbVersion
    tables,     \* the memtables by number
    nextLsn,
    \* the writers
    lsn,        \* the LSN of each write
    pending,    \* the writes that are in the WAL and wait for the memtable
    leader,     \* the write whose leader is rotating the memtable, or 0
    acked,      \* the writes whose callers were told of success
    rot, rotSnap, rotWal, rotSeen,
    \* the compaction thread
    thread, job, seen,
    jobs,       \* flushes and compactions that have begun
    restarts

diskVars   == <<data, walDir, sstDir>>
writeVars  == <<lsn, nextLsn, pending, leader, acked>>
rotVars    == <<rot, rotSnap, rotWal, rotSeen>>
threadVars == <<thread, job, seen, jobs>>
vars == <<diskVars, previous, alive, manifest, current, tables, writeVars, rotVars,
          threadVars, restarts>>

Ids    == 0 .. MaxId
Writes == 1 .. MaxWrites
NoJob  == [tables |-> <<>>, wals |-> <<>>, ids |-> <<>>, l0 |-> {}, l1 |-> {},
           walsSeen |-> {}, sstsSeen |-> {}]

Version == [wal: Nat \ {0}, mutable: Nat \ {0}, frozen: Seq(Nat \ {0}),
            l0: SUBSET (Ids \X Nat), l1: SUBSET (Ids \X Nat)]
Manifest == [wals: Seq(Ids), l0: SUBSET Ids, l1: SUBSET Ids,
             next_wal_id: Ids, next_sstable_id: Nat, version: Nat]

DirectoryOK ==
    /\ data \in Seq(SUBSET Writes)
    /\ walDir \in [Ids -> 0 .. Len(data)] /\ sstDir \in [Ids -> 0 .. Len(data)]

\* A version names inodes up to n and memtables up to t, the mutable one last.
IsVersion(v, n, t) ==
    /\ v \in Version
    /\ v.wal <= n /\ v.mutable <= t
    /\ \A i \in DOMAIN v.frozen : v.frozen[i] < v.mutable

MemoryOK ==
    /\ tables \in Seq(SUBSET Writes)
    /\ IsVersion(current, Len(data), Len(tables))

ManifestOK ==
    /\ manifest \in Manifest
    /\ previous.wals \subseteq Ids /\ previous.ssts \subseteq Ids

WritersOK ==
    /\ lsn \in Seq(Nat) /\ nextLsn \in Nat
    /\ pending \in Seq(Writes)
    /\ leader \in 0 .. MaxWrites
    /\ acked \subseteq Writes
    /\ rot \in {"Idle", "Open", "Commit", "Reopen", "Load", "Store"}

ThreadOK ==
    /\ thread \in {"Rest", "FlushWrite", "FlushCommit", "FlushLoad", "FlushStore",
                   "CompactWrite", "CompactCommit", "CompactLoad", "CompactStore",
                   "GcList", "GcDelete"}
    /\ jobs \in 0 .. MaxJobs

\* Every number that names an inode, a memtable or a file is in range.
TypeOK ==
    /\ DirectoryOK /\ MemoryOK /\ ManifestOK /\ WritersOK /\ ThreadOK
    /\ alive \in BOOLEAN /\ restarts \in 0 .. MaxRestarts

\* The files of a manifest.
Refs(m) == [wals |-> {m.wals[i] : i \in DOMAIN m.wals}, ssts |-> m.l0 \cup m.l1]

\* Manifest::prepare_pristine_start and Db::new in an empty directory.
Init ==
    /\ data = <<{}>>
    /\ walDir = [i \in Ids |-> IF i = 0 THEN 1 ELSE 0]
    /\ sstDir = [i \in Ids |-> 0]
    /\ previous = [wals |-> {}, ssts |-> {}]
    /\ alive = TRUE
    /\ manifest = [wals |-> <<0>>, l0 |-> {}, l1 |-> {}, next_wal_id |-> 1,
                   next_sstable_id |-> 0, version |-> 0]
    /\ current = [wal |-> 1, mutable |-> 1, frozen |-> <<>>, l0 |-> {}, l1 |-> {}]
    /\ tables = <<{}>>
    /\ nextLsn = 1
    /\ lsn = <<>> /\ pending = <<>> /\ leader = 0 /\ acked = {}
    /\ rot = "Idle" /\ rotSnap = manifest /\ rotWal = 1 /\ rotSeen = current
    /\ thread = "Rest" /\ job = NoJob /\ seen = current
    /\ jobs = 0 /\ restarts = 0
-----------------------------------------------------------------------------
(* The writers.  Their queues, tickets and errors are in module WritePath: *)
(* here one leader at a time appends to the WAL and one at a time inserts  *)
(* into the memtable, in the same order.                                   *)

FlushDue   == Len(manifest.wals) > FlushTrigger
CompactDue == Cardinality(manifest.l0) >= L0Trigger

\* The calls of Db::write that have not returned.
Calls == Len(pending) + (IF leader = 0 THEN 0 ELSE 1)

\* write_wal: append to the WAL of db.current and sync.
WriteWal ==
    /\ alive /\ Len(lsn) < MaxWrites /\ Calls < Clients
    /\ LET w == Len(lsn) + 1 IN
         /\ data' = [data EXCEPT ![current.wal] = @ \cup {w}]
         /\ lsn' = Append(lsn, nextLsn)
         /\ nextLsn' = nextLsn + 1
         /\ pending' = Append(pending, w)
    /\ UNCHANGED <<walDir, sstDir, previous, alive, manifest, current, tables, leader,
                   acked, rotVars, threadVars, restarts>>

\* write_memtable, and the decision to rotate.  Without a rotation the group is
\* notified at once.
WriteMemtable ==
    /\ alive /\ pending # <<>> /\ rot = "Idle"
    /\ tables' = [tables EXCEPT ![current.mutable] = @ \cup {Head(pending)}]
    /\ pending' = Tail(pending)
    /\ IF Cardinality(tables'[current.mutable]) >= MemLimit
       THEN rot' = "Open" /\ leader' = Head(pending) /\ UNCHANGED acked
       ELSE acked' = acked \cup {Head(pending)} /\ UNCHANGED <<rot, leader>>
    /\ UNCHANGED <<diskVars, previous, alive, manifest, current, lsn, nextLsn, rotSnap,
                   rotWal, rotSeen, threadVars, restarts>>
-----------------------------------------------------------------------------
(* rotate_memtable *)

\* Wal::open: create the file unless it is there.
OpenWal(id) ==
    IF walDir[id] = 0
    THEN data' = Append(data, {}) /\ walDir' = [walDir EXCEPT ![id] = Len(data) + 1]
    ELSE UNCHANGED <<data, walDir>>

\* The end of the leader's memtable stage.  The LSN of the group was set after the
\* WAL write, so its members are told of success even when the rotation failed.
LeaveMemStage ==
    /\ acked' = acked \cup {leader}
    /\ leader' = 0
    /\ rot' = "Idle"

\* apply_atomic_update: the snapshot, and the closure, which opens the new WAL.
RotateOpen ==
    /\ alive /\ rot = "Open"
    /\ rotSnap' = manifest
    /\ OpenWal(manifest.next_wal_id)
    /\ rot' = "Commit"
    /\ UNCHANGED <<sstDir, previous, alive, manifest, current, tables, writeVars, rotWal,
                   rotSeen, threadVars, restarts>>

\* The commit; next_wal_id is left as it was.
RotateCommit ==
    /\ alive /\ rot = "Commit" /\ manifest.version = rotSnap.version
    /\ manifest' = [rotSnap EXCEPT !.wals = Append(@, rotSnap.next_wal_id), !.version = @ + 1]
    /\ previous' = Refs(manifest)
    /\ rot' = "Reopen"
    /\ UNCHANGED <<diskVars, alive, current, tables, writeVars, rotSnap, rotWal, rotSeen,
                   threadVars, restarts>>

\* The version has changed since the snapshot: try again.
RotateRetry ==
    /\ alive /\ rot = "Commit" /\ manifest.version # rotSnap.version
    /\ rot' = "Open"
    /\ UNCHANGED <<diskVars, previous, alive, manifest, current, tables, writeVars, rotSnap,
                   rotWal, rotSeen, threadVars, restarts>>

\* An error before the commit: of Wal::open, of the manifest file, or of the third
\* conflict (module ManifestUpdate counts them).
RotateFails ==
    /\ alive /\ rot \in {"Open", "Commit"} /\ "rotate" \in IoErrors
    /\ LeaveMemStage
    /\ UNCHANGED <<diskVars, previous, alive, manifest, current, tables, lsn, nextLsn,
                   pending, rotSnap, rotWal, rotSeen, threadVars, restarts>>

\* Wal::open of the last WAL of the committed manifest.
RotateReopen ==
    /\ alive /\ rot = "Reopen"
    /\ OpenWal(rotSnap.next_wal_id)
    /\ rotWal' = walDir'[rotSnap.next_wal_id]
    /\ rot' = "Load"
    /\ UNCHANGED <<sstDir, previous, alive, manifest, current, tables, writeVars, rotSnap,
                   rotSeen, threadVars, restarts>>

RotateReopenFails ==
    /\ alive /\ rot = "Reopen" /\ "reopen" \in IoErrors
    /\ LeaveMemStage
    /\ UNCHANGED <<diskVars, previous, alive, manifest, current, tables, lsn, nextLsn,
                   pending, rotSnap, rotWal, rotSeen, threadVars, restarts>>

RotateLoad ==
    /\ alive /\ rot = "Load"
    /\ rotSeen' = current
    /\ rot' = "Store"
    /\ UNCHANGED <<diskVars, previous, alive, manifest, current, tables, writeVars, rotSnap,
                   rotWal, threadVars, restarts>>

\* Mutant: the memtable is frozen and written to further on.
RotateStore_keepsMutable ==
    /\ alive /\ rot = "Store"
    /\ tables' = Append(tables, {})
    /\ current' = [rotSeen EXCEPT !.wal = rotWal, !.frozen = Append(@, rotSeen.mutable)]
    /\ LeaveMemStage
    /\ UNCHANGED <<diskVars, previous, alive, manifest, lsn, nextLsn, pending, rotSnap,
                   rotWal, rotSeen, threadVars, restarts>>

\* The new DbVersion replaces db.current, whatever that is by now.
RotateStore ==
    /\ alive /\ rot = "Store"
    /\ tables' = Append(tables, {})
    /\ current' = [rotSeen EXCEPT !.wal = rotWal, !.mutable = Len(tables) + 1,
                                  !.frozen = Append(@, rotSeen.mutable)]
    /\ LeaveMemStage
    /\ UNCHANGED <<diskVars, previous, alive, manifest, lsn, nextLsn, pending, rotSnap,
                   rotWal, rotSeen, threadVars, restarts>>
-----------------------------------------------------------------------------
(* flush_memtables *)

\* Phase 1: which memtables and which WALs, and one reserved file id.
FlushPrepare ==
    /\ alive /\ thread = "Rest" /\ FlushDue /\ current.frozen # <<>>
    /\ manifest.next_sstable_id + Len(current.frozen) <= MaxId + 1
    /\ jobs < MaxJobs /\ jobs' = jobs + 1
    /\ manifest' = [manifest EXCEPT !.next_sstable_id = @ + 1]
    /\ LET n == Len(current.frozen) IN
         IF Len(manifest.wals) < n
         THEN UNCHANGED <<thread, job>>
         ELSE /\ thread' = "FlushWrite"
              /\ job' = [NoJob EXCEPT
                           !.tables = current.frozen,
                           !.wals = SubSeq(manifest.wals, 1, n),
                           !.ids = [i \in 1 .. n |-> manifest.next_sstable_id + i - 1]]
    /\ UNCHANGED <<diskVars, previous, alive, current, tables, writeVars, rotVars, seen,
                   restarts>>

\* SstableWriter::new, write and finalize: a file that exists is truncated.
WriteSst(id, writes) ==
    IF sstDir[id] = 0
    THEN data' = Append(data, writes) /\ sstDir' = [sstDir EXCEPT ![id] = Len(data) + 1]
    ELSE data' = [data EXCEPT ![sstDir[id]] = writes] /\ UNCHANGED sstDir

\* Phase 2, one file at a time: job.tables holds what is still to be written.
FlushWrite ==
    LET i == Len(job.ids) - Len(job.tables) + 1 IN
    /\ alive /\ thread = "FlushWrite"
    /\ WriteSst(job.ids[i], tables[Head(job.tables)])
    /\ job' = [job EXCEPT !.tables = Tail(@)]
    /\ thread' = IF Len(job.tables) = 1 THEN "FlushCommit" ELSE "FlushWrite"
    /\ UNCHANGED <<walDir, previous, alive, manifest, current, tables, writeVars, rotVars,
                   seen, jobs, restarts>>

IdsOf(s) == {s[i] : i \in DOMAIN s}

\* Sstable::new rejects a file without entries.
Opens(ids) == \A id \in ids : sstDir[id] # 0 /\ data[sstDir[id]] # {}

\* Mutant: the WALs leave the manifest before their files are in it.
FlushCommit_walsOnly ==
    LET n == Len(job.wals) IN
    /\ alive /\ thread = "FlushCommit" /\ Opens(IdsOf(job.ids))
    /\ SubSeq(manifest.wals, 1, n) = job.wals
    /\ manifest' = [manifest EXCEPT !.wals = SubSeq(@, n + 1, Len(@)), !.version = @ + 1]
    /\ previous' = Refs(manifest)
    /\ thread' = "FlushLoad"
    /\ UNCHANGED <<diskVars, alive, current, tables, writeVars, rotVars, job, seen, jobs,
                   restarts>>

\* Phase 3: the files come into L0 and their WALs leave the manifest, at once.
FlushCommit ==
    LET n == Len(job.wals) IN
    /\ alive /\ thread = "FlushCommit" /\ Opens(IdsOf(job.ids))
    /\ SubSeq(manifest.wals, 1, n) = job.wals
    /\ manifest' = [manifest EXCEPT !.wals = SubSeq(@, n + 1, Len(@)),
                                    !.l0 = @ \cup IdsOf(job.ids), !.version = @ + 1]
    /\ previous' = Refs(manifest)
    /\ thread' = "FlushLoad"
    /\ UNCHANGED <<diskVars, alive, current, tables, writeVars, rotVars, job, seen, jobs,
                   restarts>>

\* An error of phase 2 or of the commit: the files stay, the one that was being
\* written may be created, truncated or cut short, and the manifest is unchanged.
FlushFails ==
    /\ alive
    /\ \/ /\ thread \in {"FlushWrite", "FlushCommit"} /\ "flush" \in IoErrors
          /\ UNCHANGED <<data, sstDir>>
       \/ /\ thread = "FlushWrite" /\ "flush" \in IoErrors
          /\ WriteSst(job.ids[Len(job.ids) - Len(job.tables) + 1], {})
       \/ /\ thread = "FlushCommit" /\ ~ Opens(IdsOf(job.ids))
          /\ UNCHANGED <<data, sstDir>>
    /\ thread' = "Rest" /\ job' = NoJob
    /\ UNCHANGED <<walDir, previous, alive, manifest, current, tables, writeVars, rotVars,
                   seen, jobs, restarts>>

\* db_current.load(), in flush_memtables and in execute_compaction.
LoadVersion ==
    /\ alive /\ thread \in {"FlushLoad", "CompactLoad"}
    /\ seen' = current
    /\ thread' = IF thread = "FlushLoad" THEN "FlushStore" ELSE "CompactStore"
    /\ UNCHANGED <<diskVars, previous, alive, manifest, current, tables, writeVars, rotVars,
                   job, jobs, restarts>>

\* The Sstable objects of the new files.
Objects(ids) == {<<id, sstDir[id]>> : id \in ids}

\* Mutant: the flushed memtables go, their files are not opened.
FlushStore_noFiles ==
    LET n == Len(job.wals) IN
    /\ alive /\ thread = "FlushStore"
    /\ current' = [seen EXCEPT !.frozen = SubSeq(@, n + 1, Len(@))]
    /\ thread' = "GcList"
    /\ UNCHANGED <<diskVars, previous, alive, manifest, tables, writeVars, rotVars, job,
                   seen, jobs, restarts>>

FlushStore ==
    LET n == Len(job.wals) IN
    /\ alive /\ thread = "FlushStore"
    /\ current' = [seen EXCEPT !.frozen = SubSeq(@, n + 1, Len(@)),
                               !.l0 = @ \cup Objects(IdsOf(job.ids))]
    /\ thread' = "GcList"
    /\ UNCHANGED <<diskVars, previous, alive, manifest, tables, writeVars, rotVars, job,
                   seen, jobs, restarts>>
-----------------------------------------------------------------------------
(* compact_l0 and execute_compaction.  Which files of L1 overlap L0, and so *)
(* take part, is left open; the output is one file of all their entries.    *)

CompactSelect ==
    /\ alive /\ thread = "Rest" /\ ~ FlushDue /\ CompactDue
    /\ manifest.next_sstable_id <= MaxId
    /\ jobs < MaxJobs /\ jobs' = jobs + 1
    /\ \E overlap \in SUBSET manifest.l1 :
         job' = [NoJob EXCEPT !.l0 = manifest.l0, !.l1 = overlap]
    /\ thread' = "CompactWrite"
    /\ UNCHANGED <<diskVars, previous, alive, manifest, current, tables, writeVars, rotVars,
                   seen, restarts>>

\* The output gets the next id.  When that is the id of an input, creating it
\* truncates the input, and only what was read before is merged: its first entry
\* at least, and the block that holds it.
CompactWrite ==
    LET inputs == job.l0 \cup job.l1
        id == manifest.next_sstable_id
        own == IF id \in inputs THEN data[sstDir[id]] ELSE {} IN
    /\ alive /\ thread = "CompactWrite" /\ Opens(inputs)
    /\ manifest' = [manifest EXCEPT !.next_sstable_id = @ + 1]
    /\ \E read \in SUBSET own :
         /\ id \in inputs => read # {}
         /\ WriteSst(id, read \cup UNION {data[sstDir[i]] : i \in inputs \ {id}})
    /\ job' = [job EXCEPT !.ids = <<id>>]
    /\ thread' = "CompactCommit"
    /\ UNCHANGED <<walDir, previous, alive, current, tables, writeVars, rotVars, seen, jobs,
                   restarts>>

CompactCommit ==
    /\ alive /\ thread = "CompactCommit" /\ Opens(IdsOf(job.ids))
    /\ manifest' = [manifest EXCEPT !.l0 = @ \ job.l0,
                                    !.l1 = (@ \ job.l1) \cup IdsOf(job.ids),
                                    !.version = @ + 1]
    /\ previous' = Refs(manifest)
    /\ thread' = "CompactLoad"
    /\ UNCHANGED <<diskVars, alive, current, tables, writeVars, rotVars, job, seen, jobs,
                   restarts>>

\* An input that cannot be opened or an I/O error, before or after the output has taken
\* its id and been created; or an input that the output truncated.
CompactFails ==
    LET inputs == job.l0 \cup job.l1
        id == manifest.next_sstable_id
        reserved == [manifest EXCEPT !.next_sstable_id = @ + 1] IN
    /\ alive /\ thread \in {"CompactWrite", "CompactCommit"}
    /\ \/ /\ "compact" \in IoErrors \/ (thread = "CompactWrite" /\ ~ Opens(inputs))
          /\ UNCHANGED <<data, sstDir, manifest>>
       \/ /\ thread = "CompactWrite" /\ Opens(inputs) /\ "compact" \in IoErrors
          /\ manifest' = reserved /\ UNCHANGED <<data, sstDir>>
       \/ /\ thread = "CompactWrite" /\ Opens(inputs)
          /\ "compact" \in IoErrors \/ id \in inputs
          /\ manifest' = reserved /\ WriteSst(id, {})
    /\ thread' = "Rest" /\ job' = NoJob
    /\ UNCHANGED <<walDir, previous, alive, current, tables, writeVars, rotVars, seen, jobs,
                   restarts>>

CompactStore ==
    /\ alive /\ thread = "CompactStore"
    /\ current' = [seen EXCEPT !.l0 = {o \in @ : o[1] \notin job.l0},
                               !.l1 = {o \in @ : o[1] \notin job.l1}
                                        \cup Objects(IdsOf(job.ids))]
    /\ thread' = "GcList"
    /\ UNCHANGED <<diskVars, previous, alive, manifest, tables, writeVars, rotVars, job,
                   seen, jobs, restarts>>
-----------------------------------------------------------------------------
(* prepare_gc_snapshot and garbage_collect *)

Named(dir) == {id \in Ids : dir[id] # 0}

\* Mutant: only the previous manifest is read.
Obsolete_ofPrevious(dir, kind) ==
    Named(dir) \ (IF kind = "wal" THEN previous.wals ELSE previous.ssts)

\* The files of a kind that neither of the last two manifests lists.
Obsolete(dir, kind) ==
    Named(dir) \ (IF kind = "wal" THEN Refs(manifest).wals \cup previous.wals
                                  ELSE Refs(manifest).ssts \cup previous.ssts)

\* The snapshot of the manifest, the listing of the directory and the reading of
\* the last two manifests.  (A manifest committed after the snapshot and before
\* the listing is read with the last two, so the three are one step.)
GcList ==
    /\ alive /\ thread = "GcList"
    /\ job' = [job EXCEPT !.walsSeen = Obsolete(walDir, "wal"),
                          !.sstsSeen = Obsolete(sstDir, "sst")]
    /\ thread' = "GcDelete"
    /\ UNCHANGED <<diskVars, previous, alive, manifest, current, tables, writeVars, rotVars,
                   seen, jobs, restarts>>

\* remove_file takes the name away; an open file keeps its inode.
GcDelete ==
    /\ alive /\ thread = "GcDelete"
    /\ walDir' = [i \in Ids |-> IF i \in job.walsSeen THEN 0 ELSE walDir[i]]
    /\ sstDir' = [i \in Ids |-> IF i \in job.sstsSeen THEN 0 ELSE sstDir[i]]
    /\ thread' = "Rest" /\ job' = NoJob
    /\ UNCHANGED <<data, previous, alive, manifest, current, tables, writeVars, rotVars,
                   seen, jobs, restarts>>
-----------------------------------------------------------------------------
(* A crash, and Db::new: Manifest::try_open and recover_state. *)

\* The next id after the ones in use; with none in use, unwrap_or(0) + 1.
NextId(ids) == 1 + Max(ids \cup {0})

\* recover_state finds a WAL and every file of the manifest, and opens its SSTables.
FilesExist ==
    /\ manifest.wals # <<>>
    /\ \A id \in Refs(manifest).wals : walDir[id] # 0
    /\ Opens(Refs(manifest).ssts)

\* Mutant: the entries of the last WAL are counted.
LastLsn_counts(writes) == Cardinality(writes)

\* replay_mutable_wal: the LSN of the last entry of the last WAL, or 0.
LastLsn(writes) == IF writes = {} THEN 0 ELSE lsn[Max(writes)]

Restart ==
    LET wals == manifest.wals
        inode(i) == walDir[wals[i]]
        m == [manifest EXCEPT !.next_wal_id = NextId(Refs(manifest).wals),
                              !.next_sstable_id = NextId(Refs(manifest).ssts)]
        v == [wal |-> inode(Len(wals)), mutable |-> Len(wals),
              frozen |-> [i \in 1 .. Len(wals) - 1 |-> i],
              l0 |-> Objects(m.l0), l1 |-> Objects(m.l1)] IN
    /\ alive /\ restarts < MaxRestarts
    /\ restarts' = restarts + 1
    /\ alive' = FilesExist
    /\ IF alive'
       THEN /\ manifest' = m /\ current' = v
            /\ tables' = [i \in DOMAIN wals |-> data[inode(i)]]
            /\ nextLsn' = LastLsn(data[inode(Len(wals))]) + 1
            /\ rotSnap' = m /\ rotWal' = v.wal /\ rotSeen' = v /\ seen' = v
       ELSE UNCHANGED <<manifest, current, tables, nextLsn, rotSnap, rotWal, rotSeen, seen>>
    /\ pending' = <<>> /\ leader' = 0 /\ rot' = "Idle"
    /\ thread' = "Rest" /\ job' = NoJob
    /\ UNCHANGED <<diskVars, previous, lsn, acked, jobs>>
-----------------------------------------------------------------------------
Next ==
    \/ WriteWal \/ WriteMemtable
    \/ RotateOpen \/ RotateCommit \/ RotateRetry \/ RotateFails \/ RotateReopen
    \/ RotateReopenFails \/ RotateLoad \/ RotateStore
    \/ FlushPrepare \/ FlushWrite \/ FlushCommit \/ FlushFails \/ LoadVersion \/ FlushStore
    \/ CompactSelect \/ CompactWrite \/ CompactCommit \/ CompactFails \/ CompactStore
    \/ GcList \/ GcDelete
    \/ Restart

Spec == Init /\ [][Next]_vars
-----------------------------------------------------------------------------
(* Nothing in the code prevents four races, each of which breaks a property *)
(* below.  A step condition for each rules its outcome out, and nothing     *)
(* else: under CarefulSpec TLC finds out whether they are the only causes.  *)

\* No rotation has come between the two loads of db.current: the memtable that
\* takes the write belongs to the WAL that has it.
LoggedHere == WriteMemtable => Head(pending) \in data[current.wal]

\* db.current is still the version that was loaded when its successor is stored.
ReplacesLoaded ==
    /\ RotateStore => current = rotSeen
    /\ FlushStore \/ CompactStore => current = seen

\* No output gets the id of an SSTable of the manifest.
FreshOutput == \A id \in Refs(manifest).ssts : data'[sstDir[id]] = data[sstDir[id]]

\* No WAL that was obsolete when garbage_collect listed it is in use by now.
NoLateDelete ==
    GcDelete => job.walsSeen \cap
        (Refs(manifest).wals \cup IF rot = "Commit" THEN {rotSnap.next_wal_id} ELSE {}) = {}

Careful == LoggedHere /\ ReplacesLoaded /\ FreshOutput /\ NoLateDelete

CarefulSpec == Init /\ [][Next /\ Careful]_vars
-----------------------------------------------------------------------------
(* Properties. *)

\* What a crash in this state would leave: the WALs and the SSTables of the manifest.
OnDisk ==
    UNION ({data[walDir[id]] : id \in {i \in Refs(manifest).wals : walDir[i] # 0}} \cup
           {data[sstDir[id]] : id \in {i \in Refs(manifest).ssts : sstDir[i] # 0}})

\* What Db::get looks at.
InMemory ==
    UNION ({tables[current.mutable]} \cup {tables[t] : t \in IdsOf(current.frozen)} \cup
           {data[o[2]] : o \in current.l0 \cup current.l1})

\* A crash at any moment loses no acknowledged write.
AckedRecoverable == acked \subseteq OnDisk

\* Every acknowledged write is in a memtable or SSTable of db.current.
AckedReadable == alive => acked \subseteq InMemory

\* Db::new succeeds after a crash at any moment: no file of the last manifest has
\* been deleted or not been created yet.
CanRestart == alive /\ FilesExist

\* An SSTable of the manifest is never written to again: SstableWriter::new, which
\* truncates, only ever gets an unused id.
SstablesImmutable ==
    [][\A id \in Refs(manifest).ssts :
         sstDir'[id] = sstDir[id] => data'[sstDir[id]] = data[sstDir[id]]]_vars

\* The LSNs follow the order of the appends in each WAL, which several generations and
\* several processes may share: the last entry of a replay has its largest LSN.
LsnsFollowWal ==
    \A id \in Named(walDir) : \A v, w \in data[walDir[id]] : v < w => lsn[v] < lsn[w]

\* Every SSTable of the manifest has a name in the directory: rotations, which put an
\* older manifest back with its snapshot's next ids, and garbage collection lose none.
SstablesKept == \A id \in Refs(manifest).ssts : sstDir[id] # 0
=============================================================================
