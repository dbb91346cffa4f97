# easy-lsm in TLA+

easy-lsm is an embedded key-value store built as a log-structured merge tree. A
write goes through a pipelined group commit into a write-ahead log (WAL) and a
memtable; full memtables are frozen, flushed to SSTables in level 0 and compacted
downwards by one background thread; a manifest records which files make up the
database, and a restart rebuilds everything from it. This directory models those
mechanisms and the data they move in TLA+, checks them with TLC and proves the
central facts about the write path, the manifest, the compaction thread, the tree and
the WAL file with TLAPS. Source paths are relative to the root of the repository.

## 1. The system

| Component | Source | State | Operations |
|---|---|---|---|
| Write path | `src/write_req.rs`, `src/lib.rs` (`WriteSyncs`, `write`, `write_wal`, `write_memtable`) | `write_queue`, `wal_busy`, `ticket_to_mem`, `next_ticket`, `next_lsn` under one mutex; a result cell per request; three condition variables | enqueue, become leader or follower, take the WAL stage, append and sync, wait for the ticket, insert, rotate, notify |
| Manifest | `src/data_stores/manifest.rs` | the `Manifest` behind `manifest_lock`; files `<version>.mf` and `<version>.mf.tmp` | `apply_atomic_update` (optimistic, three attempts), `recover_or_init`, `try_open` |
| Versions | `src/lib.rs` (`DbVersion`, `rotate_memtable`) | `db.current`, an `ArcSwap` with the WAL, the memtables and the open SSTables | load, copy, store, by rotation, flush and compaction |
| Flush, compaction, garbage collection | `src/compact.rs` | files of the directory, the manifest, `db.current` | `flush_memtables`, `compact_l0`, `compact_ln`, `execute_compaction`, `garbage_collect` |
| Compaction thread | `src/compact.rs` (`run`), `src/lib.rs` (`ensure_compaction_thread`, `Drop`) | join handle, `shutdown` flag, `compaction_cv` | trigger loop, restart after a panic, shutdown |
| Recovery | `src/lib.rs` (`recover_state`, replay) | the directory | open manifest, SSTables, WALs; compute the next ids and the next LSN |
| Read path | `src/lib.rs` (`get`), `src/data_stores/memtable.rs` | none of its own | search memtables, then levels |
| WAL file | `src/data_stores/wal.rs`, `src/data_stores/manifest.rs` (`prepare_pristine_start`) | one append-only file and a `BufWriter` for each version that has it open | create, append and sync, replay, open again |
| SSTable, blocks, Bloom filter, keys | `src/data_stores/sstable.rs`, `bloom_filter.rs`, `key.rs` | entries in blocks, an index, a filter | write, finalize, iterate, search |

**Interaction.** Application threads meet in the write path: one leader drains the
queue, and its followers wait for it. The leader that fills the memtable also runs
`rotate_memtable`, which commits to the manifest, stores a new `db.current` and
wakes the compaction thread. That thread commits to the same manifest and stores
the same `db.current`. Everything else that must survive a crash is in the
directory, and the only bridge from the directory to the next process is the last
manifest file.

**What is hard.** Leaders overlap (one in the WAL stage, one in the memtable
stage), are woken through three condition variables and clean up in `Drop`
guards on every error path; `ticket_to_mem` is incremented by whoever drops a
ticket. The manifest is changed by two threads on snapshots. `db.current` is
changed by two threads without any lock. Files are created before they are in the
manifest and deleted by a directory listing. A crash can fall between any two of
these steps, and in the middle of a WAL entry. A get works on a version that is
being written to and replaced, and its search order decides which of several
versions of a key it finds. `PROJECT.json` lists every such hazard at its line with the
properties that cover it.

**What makes each part correct.**

* Write path: one leader per stage; the memtable sees the order of the WAL; a
  success means logged, synced and inserted; a failed write is not visible; every
  call returns.
* Manifest: updates are atomic and survive a crash; ids are never reused; the loop
  ends.
* Compaction thread: one thread; no wakeup is lost; levels settle; `drop` returns.
* Rotation to recovery: every acknowledged write is readable now and recoverable
  after a crash at any moment; SSTables never change; the database can be opened
  again.
* The tree: flushes and compactions lose and invent no version of a key; levels
  below L0 do not overlap; a get finds the newest version.
* WAL file: a replay gives back every acknowledged write, in the order of the LSNs;
  a torn tail is no reason to refuse it.

## 2. Modules

| Module | Models | Extended by |
|---|---|---|
| `WritePath` | `write_req.rs` and its callers in `lib.rs` | `MCWritePath`, `WritePathProofs`, `WriteOrderProofs` |
| `AtomicManifest` | what `apply_atomic_update` promises (abstract) | instantiated by `ManifestUpdate` |
| `ManifestUpdate` | `apply_atomic_update`, its callers, `recover_or_init` | `MCManifestUpdate`, `ManifestUpdateProofs` |
| `CompactionThread` | `run`, `ensure_compaction_thread`, `Db::drop` | `MCCompactionThread`, `CompactionThreadProofs` |
| `Storage` | rotation, flush, L0 compaction, garbage collection, restart | `MCStorage`, `StorageProofs` |
| `Sstable` | the order of keys, one memtable, one SSTable with its blocks, index and Bloom filter: operators, no state | `Lsm`, `SstableProofs` |
| `VersionStore` | what the tree promises as a store of versions (abstract) | instantiated by `Lsm` |
| `Lsm` | writes, flushes, `compact_l0`, `compact_ln`, the merge and `Db::get` over entries | `MCLsm`, `LsmProofs` |
| `WalLog` | the first start, one WAL file, its replay and its reopening | `MCWalLog`, `WalLogProofs` |

`MC...` modules only add what TLC needs: a symmetry set and small triggers. Definitions named
`X_something` directly above a definition `X` are mutated forms of it, each a
plausible mistake in that code. They are not used by any specification; a property
is kept only if one of them breaks it.

### WritePath

A member of `Writers` is one call of `Db::put` or `Db::del` on its own thread. An
action is one critical section, or a step that only the thread owning a pipeline
stage can take.

| Actions | Code (`src/write_req.rs` unless said otherwise) |
|---|---|
| `Enqueue`, the seeking steps, `MarkFollowers` | 188-201, 213-287: enqueue, look for the result, for the head of the queue, form the group |
| follower steps | 289-317 |
| the steps from `LeaderWaitingToWriteWal` to `DropWalGuard` | 326-430, `WalGuard` 94-100 |
| the steps from `LeaderWaitingToWriteMemtable` to `CheckSize` | 439-514, `src/lib.rs` 353-367 |
| `DropTicket`, `NotifyGroup` | `TicketGuard` 108-117, `GroupGuard` 119-145, 516-535 |

Keys and values do not influence the control flow, so a request is its writer. A
WAL is the sequence handed to its `BufWriter` with a mark of how far the file has
got; a write that fails leaves any prefix in either. Rotation is one step,
`RotateMemtable`: the commit and the store of the new version happen together, and the
memtable whose size was checked is the one that is frozen. In the code these are
separate loads of `db.current` (`write_req.rs` 497-498, `lib.rs` 420); only the
compaction thread can come in between, and it never changes the mutable memtable
except by storing an old version. `Storage` has the steps one by one, with the
compaction thread. A condition variable is the program counter of its sleepers;
spurious wakeups are allowed and never counted on.

### ManifestUpdate and AtomicManifest

The manifest's lists are represented by the changes that made them. Files are
inodes with names, because the temporary file is named after the new version alone:
two updaters of one version share it, `File::create` truncates what the other has
written, and a handle stays valid through a rename. `Snapshot`, `CreateTmp`,
`WriteTmp`, `Rename`/`Conflict`/`RenameFails` and `Install` are the phases of
`apply_atomic_update` (`manifest.rs` 222-282); the lock is held across the last
two. `Crash` and `Recover` are the end of the process and `recover_or_init`/`try_open`
(96-162). `AtomicManifest` has the same calls with one atomic effect each, and
`AtomicUpdates` says that the former implements the latter: the log is the sequence
of authors of the committed body, from the rename on.

`OwnTmp` is a condition on steps: no updater creates its temporary file while another
is between the creation and the commit of a file with that name. The code
does not enforce it (section 3).

### CompactionThread

The loop of `run` (`compact.rs` 952-1055) under the manifest lock, with the amount
of data per level in place of the data. `wals` is the length of the manifest's WAL
list and `frozen` the number of frozen memtables in `db.current`; the two are
changed by separate steps, as in the code. Thread `t + 1` is the one that
`ensure_compaction_thread` (`lib.rs` 450-487) spawns when `t` has finished and the
flag is not set. When the spawn fails, the next rotation tries again: the code has no
handle then, which it treats as it treats the handle of a finished thread. `Drop`
(`lib.rs` 115-125) sets the flag, notifies and joins.

### Storage

Where each acknowledged write lives. A write is its number in the order of the WAL
appends; files and memtables are sets of writes, files have inodes. The write path
is reduced to what `WritePath` establishes without WAL errors: appends and
insertions are each done by one leader at a time and in the same order, and up to
`Clients` calls are in progress. `apply_atomic_update` is one step for the
compaction thread and a snapshot and a commit for the rotation. Details kept
because they decide what is lost:

* `next_wal_id` is not advanced by a rotation, so that several generations append
  to one file and the manifest lists it several times (`lib.rs` 392);
* a flush reserves one SSTable id and uses one per memtable (`compact.rs` 98);
* `SstableWriter::new` truncates an existing file, also when it is an input of the
  compaction that is reading it;
* a flush or a compaction that fails may leave a file that nobody can open, created or
  truncated, and a compaction that fails may have used up an id;
* `recover_state` opens every SSTable of the manifest, and fails on such a file;
* the second `Wal::open` of a rotation can fail after the manifest has changed;
* `db.current` is loaded and stored in two steps by both threads;
* garbage collection deletes, in a later step, what it has listed as unreferenced;
* recovery takes the next LSN from the last WAL alone.

A rotation that fails before its commit (an error of `Wal::open` or of the manifest,
or three conflicts) leaves the memtable in place and its group acknowledged; the
count of the attempts is in `ManifestUpdate`.

`Spec` has every interleaving of clients, rotation and compaction thread. Nothing in
the code prevents four races of them, and each costs something that the code promises
(section 5). `CarefulSpec` is `Spec` without the outcome of these four and
with everything else:

| Step condition | Rules out | Code |
|---|---|---|
| `LoggedHere` | a memtable takes a write that was logged in the WAL of an older generation | two loads of `db.current`, `lib.rs` 353-367 |
| `ReplacesLoaded` | a version is stored over one that was stored since `db.current` was loaded | `lib.rs` 420-437, `compact.rs` 230-252, 890-938 |
| `FreshOutput` | an output is created over an SSTable of the manifest | `compact.rs` 98, `manifest.rs` 277 |
| `NoLateDelete` | a WAL is deleted that a rotation has taken into use since the listing | `compact.rs` 382-492 |

### Sstable, Lsm and VersionStore

`Storage` asks which file holds a write; `Lsm` asks what a get finds. An entry is a
key, an LSN and whether it is a tombstone. A file is its sequence of entries, and the
operators of `Sstable` say what the code does with one: `BlockSize` cuts it into
blocks as `BlockBuilder` does, `Search` is `Sstable::search` (Bloom filter, partition
point of the index, one block) and `CurrentSize` is what the merge compares with
`target_file_size`: the flushed blocks alone.

| Actions of `Lsm` | Code |
|---|---|
| `Write` | `Memtable::put_batch` and `Db::rotate_memtable`, which may fail |
| `FlushStart`, `FlushCommit`, `FlushFails` | `flush_memtables` (`compact.rs` 81-258) |
| `CompactSelect` | the triggers of `run`, the selections of `compact_l0` and `compact_ln` (578-698) |
| `MergeNext`, `MergeEnd` | `MergeIterator` (497-576) and the output loop (740-841), one entry per step |
| `CompactCommit`, `CompactFails` | the commit and `db.current` (843-938), and every error before |
| `GetLoad`, `GetReturn` | `Db::get` (`lib.rs` 204-229): load the version; answer |

The frozen memtables and files of a loaded version do not change, so `GetLoad`
settles what they will say and `GetReturn` asks only the memtable that writers may
still be filling. `get.mem` keeps that memtable alive, as its `Arc` does.

`VersionStore` has puts, deletes and gets with no tree at all. `IsVersionStore` is
the refinement: `versions` is everything that a get of `db.current` can reach, so a
flush, a merge step or a commit must map to a stutter, that is, neither lose nor
invent an entry; and a get answers with a version of its key, or with none if the
newest version was a tombstone at a moment of the get. `VersionStore` does not say
that the answer is the newest version, because the code does not do that:
`ReadsNewest` is refuted in `LsmStale`, and `FreshUnlessShadowed` says where it holds.

The lists of the manifest and of `db.current` are one in `Lsm`, file ids are left
out (a file is known by its entries, which no other file has), and LSNs are unique:
`Storage` is about all three.

### WalLog

One WAL over the lives of the process. Its entries are two pieces long, so that a
crash, or a write that fails, can end the file between entries and inside one.
`StartWrite` encodes a group, `WriteOut` is one `write(2)`, which may be short, `Sync`
the success and `WriteFails` any error. `buffer` is what the `BufWriter` of `db.current`
keeps of a failed write: it goes out in front of the next group, at the drop, or is
lost, and a group larger than the buffer passes it by.

Since `next_wal_id` never advances, every rotation of a life after the first opens the
same file once more, with a `BufWriter` of its own (`lib.rs` 392-416). `Rotate` does
that: `old` has what the handles of replaced versions have kept. `DropHandle` writes it
when the last user of such a version is done, which is after the new handle has been in
use. `PutBack` is a flush or a compaction that stores a version it has built from an
older one, and its handle with it. `sharing` says that the file is one that a rotation
of this life created; the WAL a process starts with has one handle.

`Entries` is `WalIterator`. Behind the last whole entry it meets the end of the file
or, with more than one piece there, an entry that nobody wrote; whether that ends in
the end of the file or in a wrong CRC depends on lengths the model does not have, and
`Open` may do either. `Wal::open` never truncates. `tear` records where bytes were
first appended to a torn entry, and `late` where a replaced handle first wrote.

What is left out of the handles: a leader that has loaded `db.current` before a rotation
and writes after it is taken to have written before it; a handle's drop is one write;
and what the handle of a WAL that is *not* shared writes after the rotation that
replaced it, since that file takes no more entries from anybody. The file is replayed as
the last, mutable WAL; that it can also be listed as an immutable one is in `Storage`.

A crash here is one of the machine: it keeps what was synced and any part of what
follows. It is assumed that a successful `sync_all` makes everything before it
durable, also after one that failed, and that no wrong CRC matches by chance.

## 3. Runs

Every run is one cfg file. Runs marked **V** end in a violation: the property is
what a comment, the README or a test of the repository says, and the trace is a
behaviour of the code against it. `PROJECT.json` quotes the lines.

### Write path

| Run | Checks | Shows |
|---|---|---|
| `WritePathSafe` | `TypeOK`, `WalExclusive`, `WalOrdered`, `AckedDurable`, `AckedVisible`, `FailedNotVisible`, `LoggedOnce`, `BackedByOlderWal` | with four writers and any WAL or rotation error: one leader in the WAL stage, LSNs in the order of the log, no success without log and memtable |
| `WritePathPipeline` | `MemExclusive`, `MemtableFollowsWalOrder`, `AllWritesReturn` | without WAL errors the tickets keep the order and every call returns |

`WritePathPipeline` holds only while no WAL write fails; section 5 says what happens
otherwise. `BackedByOlderWal` says an older WAL, not the memtable's own:
a rotation between the WAL write and the memtable write of another leader puts an
entry into a memtable whose own WAL does not have it. `StorageSkew` shows what that
leads to.

### Manifest

| Run | Checks | Shows |
|---|---|---|
| `ManifestShared` | `TypeOK`, `TmpFileThere`, `GivesUpAfterConflicts`, `EveryCallReturns` | a rotation and the compaction thread: the loop finds its files, gives up only after conflicts, and ends; that it is atomic is proved (section 4) |
| `ManifestCrash` | `DiskMatchesMemory`, `AtomicUpdates` | a rotation and the compaction thread, all I/O errors, two crashes, under `OwnTmp`: disk and memory agree, the updates are atomic and recovery continues |
| `ManifestStale` **V** | `UniqueFileIds` | a rotation that has cloned the manifest commits after a flush has reserved an id: the reservation is undone, and the next flush gets the same id |

`OwnTmp` is the condition under which `DiskMatchesMemory` holds, not one that the code
enforces: two updaters of one version share a temporary file, and the winner can publish
what the loser has truncated or rewritten. `ManifestCrash.cfg` without its action
constraint `OwnTmp` refutes both properties, `DiskMatchesMemory` even with `IoErrors = {}` and
`MaxCrashes = 0`. `ManifestShared` has no rename error; a failed rename removes the
temporary file, also the one of the other updater.

### Compaction thread

| Run | Checks | Shows |
|---|---|---|
| `CompactionWork` | `TypeOK`, `NoLostWakeup`, `OneThread`, `FlushAttended`, `LevelsSettle`, `DropReturns` | rotations, failing and panicking work, a restart that may fail, a drop: nothing is slept through, there is one thread, compactions cascade until no level is over its trigger, and `drop` returns but for one race |

`DropReturns` excepts one moment, in which the code can hang: the flag is set while
the thread is between its test of the flag and its wait. Neither the flag nor the
notification takes the manifest lock (`lib.rs` 118-119), so both can fall into that
gap, and the thread sleeps after them.

A rotation whose second `Wal::open` fails returns after its commit and before its
notification; the properties say where that is the exception (`rot = "Failed"`), and
the next rotation wakes the thread. `LevelsSettle` holds when the work fails
finitely often (`MaxFailures`): the code retries without end.

### Storage

| Run | Checks | Shows |
|---|---|---|
| `StorageCareful` | `TypeOK`, `AckedRecoverable`, `AckedReadable`, `CanRestart`, `LsnsFollowWal` | two clients, rotations during flushes of several memtables, compactions, all errors, two crashes, under `Careful`: a crash at any moment loses nothing, every acknowledged write is readable, a restart finds its files, and the LSNs increase along every WAL |
| `StorageSkew` **V** | `AckedRecoverable` | two clients: a flush drops the WAL of a write whose memtable is a generation later |
| `StorageTruncate` **V** | `SstablesImmutable` | a flush of two memtables: the next output truncates one of its inputs |

`Careful` is not what the code enforces. The run shows that the four races of section 2
are the only causes of loss in this instance: everything else that can overlap or fail,
the code gets right. Each condition is needed. With any one of them replaced by `TRUE`
in `Careful`, `StorageCareful.cfg` has a violation: of `AckedRecoverable` without
`LoggedHere` or `FreshOutput`, of `AckedReadable` and of `CanRestart` without
`ReplacesLoaded`, of `CanRestart` without `NoLateDelete`. `TypeOK` and `LsnsFollowWal`
hold without any condition, which is proved (section 4).

### The tree and its reads

| Run | Checks | Shows |
|---|---|---|
| `LsmTree` | `TypeOK`, `LevelsDisjoint`, `SearchFindsNewest`, `FreshUnlessShadowed`, `IsVersionStore` | writes, deletes, flushes, compactions of L0 and L1 into several files, errors of each, and a get meanwhile: no version is lost or invented, levels below L0 are disjoint, the search in one file finds its newest version, and a get finds the newest version unless an older one shadows it |
| `LsmStale` **V** | `ReadsNewest` | a put, a rotation, a delete: the get answers with the deleted value |

`FreshUnlessShadowed` names the three cases in which an older version can answer:
the newest version in memory is a tombstone (`Memtable::get` treats it as absent);
two files of L0 have the key (they are searched from the oldest on); two levels below
L0 have it, since `compact_ln` moves one file down alone and can take the newer half
of a key's versions below the older half.

### The WAL file

| Run | Checks | Shows |
|---|---|---|
| `WalLog` | `TypeOK`, `AckedReplayed`, `LsnsFollowFile`, `RefusedOnlyIfTorn` | acknowledged writes survive a crash at any moment unless they were appended behind a torn entry; replayed LSNs increase and the next one is larger, failed writes that come back included; a torn tail alone never makes `Db::new` fail |

### Bounds

* Four writers in `WritePathSafe`: a leader with a follower in one stage, another
  leader in the next, and a fourth that seeks meanwhile. Memtables of one to three
  entries make rotation and no rotation both happen. The theorems below have no
  such bound.
* Two updaters and four updates in the manifest runs: the code has two updaters,
  and four calls allow three conflicts against one call, the number that makes it
  give up. Two crashes put one on the result of another.
* Triggers of two and three, three rotations, one failure and one restart of the
  thread: enough for a flush during a rotation and for a cascade through two levels.
* In `LsmTree`, four writes of two keys, blocks and output files of two entries,
  triggers of two, three levels: four versions of one key span two blocks and two
  files, L0 overlaps, and a file of L1 moves below an older one. One key shares the
  Bloom bits of the other, so that the filter answers falsely.
* In `WalLog`, four writes in groups of one or two and four ends of the process: a
  failed write that comes back, a tear with writes behind it, a replaced handle that writes after a newer one, and a restart
  on top.
* In `StorageCareful`, a memtable limit of one and a flush trigger of two, so that a flush
  takes two or three memtables, an L0 trigger of one, four jobs of the compaction thread
  and two restarts: a flush while the next generation is written, a compaction on top,
  and recoveries in between. `MaxId` keeps flushes and compactions from starting when
  there are no more ids.

The runs of `Storage`, `Lsm` and `WalLog` do not check for deadlock, since clients may
stop writing at any time and the counters end the behaviour; in the other modules a deadlock would be a
fault, and an explicit final step marks the proper end.

### Fairness

Weak fairness of the own steps of each thread: a thread that can continue does, as
the operating system's scheduler provides. Nothing is assumed about spurious
wakeups, about the choice among waiting writers, about I/O errors, or that anyone
rotates or drops the database. `AllWritesReturn`, `EveryCallReturns`,
`FlushAttended`, `LevelsSettle` and `DropReturns` are stated under it; where one of
them fails, every thread that can run does.

## 4. Proofs

All theorems are checked by TLAPS to the last leaf, from the named assumptions on
the constants in the modules.

`WritePathProofs`, for any finite set of writers, any memtable limit, any starting
LSN and any set of I/O errors:

* `TypeCorrect`: `Spec => []TypeOK`. The type of `pc` needs that a leader's list of
  members is not empty when its head is taken, so `TypeOK /\ GroupInv` is the
  inductive formula; `GroupInv` says which program points own a group.
* `WalStageExclusive`: `WalExclusive` is inductive on top of it, because every step
  into the stage tests and sets `wal_busy` under the mutex.
* `WalLsnOrder`: the order of the log needs that all LSNs in WALs are below
  `next_lsn`, and, for the leader inside the WAL stage, below its `start`
  (`LsnInv`); exclusion of the stage makes that leader unique.
* `AckImpliesDurable`, `AckImpliesVisible`: a success is followed back to the leader
  that gave it. `CommitInv` says what a leader knows at each program point (its
  members are logged and flushed once it has left the WAL stage without an error,
  and in the memtable once `committed` is reported), `AckInv` that a result
  `success` has these consequences, `FlushInv` and `OutcomeInv` tie the marks and
  the final states to them. `DataGrows` says that logs, marks and memtables only
  grow, which keeps the facts of other threads.

`WriteOrderProofs`, on top of these invariants:

* `NeverLoggedTwice`, `FailedWriteInvisible`, `MemtableBacked`: `MemberInv` says that a
  request is in the queue or in one group, never in two; `LoggedInv` and `VisibleInv`
  that every entry of a WAL or memtable is of a group that has been handed to its WAL,
  or has committed; `ErrInv` that an error means a group whose WAL write failed, or the
  leader's own rotation; `BackedInv` that the entries of a committed group are flushed
  in a WAL no younger than the memtable its leader has loaded.
* `MemStageExclusive`, `MemtableOrder`, under `"wal" \notin IoErrors`: `TicketInv` says
  that live tickets are distinct, not passed yet, and that the stage has the one that is
  due; `OrderInv` that tickets follow LSNs and that no group is applied before its
  turn. The hypothesis is needed: `TicketGuard::drop` increments the count whoever
  holds the ticket (section 5), and so passes tickets that are still waiting.

`ManifestUpdateProofs`, for any number of updaters:

* `TypeCorrect`, with any errors and crashes: the recovery takes the manifest and the
  highest SSTable id from files, so the types need that there is a final file for every
  version so far (`DirInv`) and that the ids in every file are bounded (`BoundedInv`);
  `GreatestExists` then gives the highest one.
* `GiveUpOnlyAfterConflicts`, with any errors and crashes: `RetryInv` counts one commit
  of another updater for each attempt of a call.
* `TmpFileSurvives`, unless a rename fails for a reason of its own: `TmpInv` says that
  every updater that can still win has its file. Those who share the name leave it alone,
  and a loser removes a file of an older version. A failed rename would remove it.
* `UpdatesAreAtomic`: `Spec => AtomicUpdates` with `MaxCrashes = 0`, the refinement.
  `LockInv` (one updater between rename and install), `CandidateInv` (a candidate is
  its base plus one change, and the base is the manifest when the versions agree) and
  `OutcomeInv` map every step to one of `AtomicManifest` or to a stutter.

With a crash the committed body is what is on disk, which two updaters that share a
temporary file can make wrong: TLC refutes `AtomicUpdates` and `DiskMatchesMemory` then.
The last part of the module proves that this is the only way, again for any number of
updaters, errors and crashes. Its theorems are about `Spec /\ [][OwnTmp]_vars`, the
behaviours in which no two updaters write to one temporary file:

* `NewestFileIsMemory`: `FileInv` says that the newest final file is complete and is the
  committed manifest (`CommittedOnDisk`), that no file is both temporary and final
  (`SeparateFiles`), and that from its creation to its rename the temporary file is the
  updater's own, and complete once it is written (`OwnFile`).
* `UpdatesSurviveCrashes`: with it, `Crash` and `Recover` map to steps of `AtomicManifest`.

`CompactionThreadProofs`, for any triggers and levels and any number of rotations,
failures, panics and restarts; the invariants the run checks are not inductive, `Inv` is:

* `TypeCorrect`: that `wals` and the sizes stay natural numbers needs `WorkInv` (the WALs
  of the memtables being flushed are still listed, the level being compacted has
  data), which holds because only one thread takes from either.
* `AtMostOneThread`: `HandleInv` orders the threads: those before `handle` have
  finished, those after it are not spawned. `LockInv` ties the mutex to the critical
  section. `DropInv` says that nothing is rotated once the Db is dropped, and that a
  thread that ended before was not the last that `MaxThreads` allows.
* `NoWakeupLost`: `NoLostWakeup` is inductive with `HandleInv`: `wait` is entered in the
  step that has seen no trigger and gives up the lock, and a rotation leaves `Idle` in
  the step that adds the WAL.

`StorageProofs` is about `Spec`, without a condition: for any number of clients and
writes, any memtable limit and triggers, any set of I/O errors and any number of jobs and
restarts, with all of the races. The inductive invariant `IInv` is the conjunction of:

* `Types`: `TypeOK`, and the types of what a rotation or a job has read (`LocalsOK`,
  `JobOK`). That a flush has as many ids as memtables, and that the ids stay in range,
  is part of it.
* `WalIds`: although `next_wal_id` is never advanced, the last WAL of the manifest is
  the largest of its list and is the one that the next rotation will name, or the one
  before. That is what makes the next id after a restart a new one.
* `Files`: nothing has been written to the next WAL until a rotation has put it into the
  manifest (`NewWalEmpty`); no inode is a WAL and an SSTable, and none is two WALs
  (`OneFile`); in every WAL that is named or open LSNs follow the appends, and the next
  LSN is larger than all of those that may still be written to (`InOrder`).
* `Listed`: what a rotation has cloned is the manifest or older, and what garbage
  collection has found obsolete is in no manifest, as far as SSTables go.

From it follow `TypeCorrect`, `LsnsInOrder` and `SstablesNamed`. `LsnsInOrder` is the
hazard at `lib.rs` 541: the next LSN is read from the last WAL alone, yet no append to a
WAL that other generations and lives have written to goes back. (The bytes that a failed
write leaves in a `BufWriter` are not in `Storage`; with them it can, see `WalLog`.)
`SstablesNamed` is the half of `CanRestart` that holds with all of the races; WALs can be
lost to `NoLateDelete`, and the contents of SSTables to `FreshOutput`. That nothing
acknowledged is lost under `Careful` stays with TLC.

`WalLogProofs`, for any number of writes, sizes of groups, rotations and restarts, with or
without errors. What counts is not the file but the stream of the file and what the
`BufWriter`s still keep, since a later flush can complete the entry that a failed write
has cut. `StreamInv` says that the stream begins with `k` whole entries whose LSNs
increase and are below the next one, and that behind them is nothing, or a torn entry at
the end of the file that nothing in the buffer completes, or a torn entry and what was
appended to it (`Ending`); the order of the LSNs is claimed up to `late`. A write, complete or not, keeps that (`GrowFact`), and so
does a cut by a crash (`CutFact`); `EndingEntries` says what the iterator yields of such
a file. `SyncInv` says that what is acknowledged is in the synced part.

* `AckedWritesReplayed`, `ReplayInOrder` and `TornTailAccepted` follow from these.
* `TypeCorrect` needs all of them, and `LsnBound`: the next LSN is computed from the
  last entry that is replayed, and its type says that it never runs ahead of the writes.

`SstableProofs`, for any keys, block size and Bloom filter:

* `OrderedFact`: a finite set under a strict total order has a sorted list. The order
  of the code's keys is one on entries with distinct LSNs (`BeforeOrders`), so
  `InOrder`, the body of a flushed file, is what its name says (`InOrderFact`).
* `MemGetFact` and `SearchFact`: a memtable answers with its newest version unless that
  is a tombstone; the Bloom filter, the partition point of the index and the scan of one
  block find the newest version that a file holds, also when the versions of a key span
  blocks.

`LsmProofs`, for any limits, triggers, levels and errors and any number of writes. Its
inductive invariant `IInv` has three parts:

* `TreeInv`: files are sorted and not empty, and below L0 each one precedes the next
  (`FilesInv`); no entry is in two files (`OneFileInv`), in two live memtables, or in a
  memtable and a file (`LiveInv`); every version has its own LSN, and there are as many
  as writes (`VersionsInv`).
* `WorkInv`: what is being compacted is still what `CompactSelect` found, since only
  that thread changes the levels (`SelectedInv`); the outputs are sorted, each before
  the next (`OutputsInv`); and what the merge has written precedes what it has not read
  yet, the two together being the entries of the inputs (`MergeInv`, `CommitInv`).
* `ReadInv`: what a get has found below the memtable it will ask is a version of its
  key, or every version there that it has seen was deleted or overwritten (`GetInv`).

From it follow:

* `LevelsStayDisjoint`: a file of the next level that does not overlap the key range of
  the sources is entirely before or after every output (`UntouchedApart`), so that
  sorting by the first key keeps the level apart.
* `SearchIsRight`: `SearchFact` for every file of the tree.
* `ImplementsVersionStore`: a write adds its entry to `Contents`; every other step
  leaves `Contents` alone and maps to a stutter or to the beginning or the end of a get,
  whose answer `GetInv` justifies.
* `FreshReads`: `AgeInv` says that the levels below L0 are older than L0, the files
  older than the memtables, and each memtable older than the next. A flush keeps that
  because it takes the oldest memtables, a compaction because it takes all of L0 or
  nothing of it. Between levels below L0 there is no such order: `compact_ln` moves one
  file, which is why `FreshUnlessShadowed` allows the key in one of them only.

Only model-checked: all liveness properties (fairness and ENABLED are outside the
prover), and of `Storage` `AckedRecoverable`, `AckedReadable` and `CanRestart` under
`Careful`. The hypotheses above (no WAL error, no rename error, no shared temporary
file) are those without which TLC finds the property violated.

## 5. Other divergences the models show

Each of these is a behaviour of the code that no run above shows, or not with all of its
consequences. It can be seen with the change named.

* **A write can hang after a WAL error.** A leader whose WAL write fails drops its
  ticket before its turn, and `TicketGuard::drop` (`write_req.rs` 114) increments
  `ticket_to_mem` whoever holds it; the count passes the ticket of a waiting leader,
  which waits on `mem_cv` for ever. `WritePathPipeline.cfg` with `IoErrors = {"wal"}`
  refutes `AllWritesReturn`, `MemExclusive` and `MemtableFollowsWalOrder`.
* **A rotation during a flush undoes its reservation.** `flush_memtables` reserves its
  SSTable id under the lock without a new version (`compact.rs` 98), so that a rotation
  which has cloned the manifest before still commits, and puts back the old
  `next_sstable_id` (`manifest.rs` 277). `ManifestStale` shows it with the manifest alone.
  What it costs is in `Storage`: the next output truncates a file whose WAL is gone.
  `StorageCareful.cfg` with `SPECIFICATION Spec`, `Clients = 1`, `IoErrors = {}` and
  `MaxRestarts = 0` refutes `AckedRecoverable`: one client, no error, no restart.
* **The manifest can end without a WAL.** A rotation that has loaded `db.current` before a
  flush stores its own puts the flushed memtables back. The next flush takes as many
  WALs from the manifest as there are memtables, the one in use among them, and
  `recover_state` refuses a manifest without WALs (`lib.rs` 494). `StorageCareful.cfg`
  without `ReplacesLoaded` refutes `CanRestart`.
* **Drop can hang.** `DropReturns` without `pc[handle] # "CheckTriggers"` fails.
* **LSNs start again.** After a restart with an empty last WAL they start at 1
  (`lib.rs` 541), below those of the files. In `StorageCareful.cfg` the invariant
  `\A v, w \in acked : v < w => lsn[v] < lsn[w]` fails. `src/README.md` 548 says the
  id of a write "is globally unique and monotonically increasing".
* **LSNs can go back within a WAL.** Leader 1 (LSN 4) is rotating for the second time in
  this life; leader 2 (LSN 5) fails to write, and its bytes stay in the `BufWriter` of the
  version it has loaded; leader 3 (LSN 6) writes through the new version's. Then leader 1
  returns, the old version is dropped, and its `BufWriter` appends LSN 5 to the same file.
  After a restart the next LSN is 6 again. `LsnsFollowFile` without its exceptions for
  `late` fails, in seven states.
* **Writes behind a torn entry are lost.** A restart opens a WAL with a torn tail for
  append without truncating it (`wal.rs` 87); what is appended and acknowledged
  afterwards is behind the tear, where the next replay does not get, or where it finds
  a wrong CRC and refuses to start. A failed write larger than the `BufWriter` tears
  the file without a restart. `AckedReplayed` and `RefusedOnlyIfTorn` without their
  exceptions for `tear` fail. `src/README.md` 297 says that partial writes are
  detected and ignored.
* **A first start that is cut short is final.** A crash in `prepare_pristine_start`
  leaves part of the magic number or of `00000.mf`, and every later start fails:
  `RefusedOnlyIfTorn` without `cutStart`.

## 6. Not modelled

* A panic inside a write, and the poisoning of a mutex by it. A panic of the
  compaction thread is modelled.
* The loss of written but unsynced data with the power outside `WalLog`: in the other
  modules a crash is the end of the process, and what it has written stays.
* The loss of a directory entry: the code syncs files and never the directory.
* `commit_new_wal`, which nothing calls; `block.rs`, which is commented out; error
  types (`err.rs`), which have no behaviour; logging.
* Byte layouts, checksums, the hashing of the Bloom filter, and with them the limits
  of the length fields (a key longer than 65535 bytes is cut by `Key::encode`).
* Entries of different sizes: `BlockSize`, `TargetSize` and the triggers count
  entries.
* Several gets at once. A get changes nothing, so that one stands for all.
* Liveness of the tree: that compactions settle is in `CompactionThread`.

## 7. Plan

1. Done: `WritePath`, `ManifestUpdate` with `AtomicManifest`, `CompactionThread`,
   `Storage`, `Lsm` with `Sstable` and `VersionStore`, `WalLog`, and the proofs above.
2. Done: proofs of the ticket order, of the files of the manifest through crashes, of
   the WAL file and of the tree with its reads.
3. Done: proofs about `Storage` with all of its races, and about the manifest with any
   number of updaters.
4. Next: `AckedRecoverable` and `CanRestart` of `Storage` under `Careful`, as
   `StorageCareful` checks them; a run for the drop that hangs; the handles of a WAL that
   is listed as immutable.
