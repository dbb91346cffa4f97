--------------------------- MODULE ManifestUpdate ---------------------------
(***************************************************************************)
(* apply_atomic_update of src/data_stores/manifest.rs: optimistic updates  *)
(* of the manifest by the memtable rotation (src/lib.rs, rotate_memtable)  *)
(* and by the compaction thread (src/compact.rs), and its recovery.        *)
(*                                                                         *)
(* An update clones the manifest under its lock, changes the clone and     *)
(* writes it to a temporary file without the lock, and then, under the     *)
(* lock again, publishes both if the version is still the one it cloned.   *)
(* The temporary file is named after the new version alone, so two         *)
(* updaters of the same version use the same file.  Files are kept as      *)
(* inodes: File::create truncates the inode the name already has, and a    *)
(* rename moves a name while the other updater still writes to the inode.  *)
(*                                                                         *)
(* The WAL and SSTable lists of a manifest are represented by the changes  *)
(* they result from.  What a process has written survives its crash; the   *)
(* loss of unsynced data with the power is not modelled.                   *)
(***************************************************************************)
EXTENDS Integers, Sequences

CONSTANTS
    Rotators,    \* threads that rotate the memtable; one at a time in the code
    Compactors,  \* compaction threads; one in the code
    IoErrors,    \* what may fail: a subset of {"mutate", "write", "rename"}
    MaxUpdates,  \* bound: calls of apply_atomic_update
    MaxCrashes   \* bound: crashes of the process

Updaters == Rotators \cup Compactors

ASSUME ConstantsAssumption ==
    /\ Rotators \cap Compactors = {}
    /\ IoErrors \subseteq {"mutate", "write", "rename"}
    /\ MaxUpdates \in Nat
    /\ MaxCrashes \in Nat

VARIABLES
    manifest,   \* the Manifest behind manifest_lock: body, version, next_sstable_id
    up,         \* the process is running
    calls, crashes,  \* counters for the bounds
    \* the updaters
    pc,
    sst,        \* the SSTable ids a compactor reserved; {} for a rotator
    tries,      \* loop_count
    candidate,  \* the clone with the change applied and its version incremented
    base,       \* current_version, the version that was cloned
    began,      \* manifest.version when the call was made
    handle,     \* the inode of the temporary file being written
    outcome,    \* how the last call ended
    \* the directory
    inodes,     \* the contents of the files
    tmp,        \* the inode of <version>.mf.tmp, where it exists
    final       \* the inode of <version>.mf, where it exists

callVars == <<sst, tries, candidate, base, began, handle>>
fileVars == <<inodes, tmp, final>>
bounds   == <<calls, crashes>>
vars     == <<manifest, up, bounds, pc, callVars, outcome, fileVars>>

Update     == [by : Updaters, ssts : SUBSET Nat]
Manifest   == [body : Seq(Update), version : Nat, next_sstable_id : Nat]
Contents   == [valid : BOOLEAN, body : Seq(Update)]
Unreadable == [valid |-> FALSE, body |-> <<>>]

\* The limit on the iterations of apply_atomic_update's loop.
MaxTries == 3

Calling == {"Snapshot", "CreateTmp", "WriteTmp", "Commit", "Install"}

TypeOK ==
    /\ manifest \in Manifest
    /\ up \in BOOLEAN
    /\ calls \in Nat
    /\ crashes \in Nat
    /\ pc \in [Updaters -> {"Idle"} \cup Calling]
    /\ sst \in [Updaters -> SUBSET Nat]
    /\ tries \in [Updaters -> Nat]
    /\ candidate \in [Updaters -> Manifest]
    /\ base \in [Updaters -> Nat]
    /\ began \in [Updaters -> Nat]
    /\ handle \in [Updaters -> Nat]
    /\ outcome \in [Updaters -> {"none", "ok", "io", "retries"}]
    /\ inodes \in Seq(Contents)
    /\ \A v \in DOMAIN tmp : v \in Nat /\ tmp[v] \in DOMAIN inodes
    /\ \A v \in DOMAIN final : v \in Nat /\ final[v] \in DOMAIN inodes

Fresh == [body |-> <<>>, version |-> 0, next_sstable_id |-> 0]

\* After prepare_pristine_start: 00000.mf is on disk.
Init ==
    /\ manifest = Fresh
    /\ up = TRUE
    /\ calls = 0 /\ crashes = 0
    /\ pc = [u \in Updaters |-> "Idle"]
    /\ sst = [u \in Updaters |-> {}]
    /\ tries = [u \in Updaters |-> 0]
    /\ candidate = [u \in Updaters |-> Fresh]
    /\ base = [u \in Updaters |-> 0]
    /\ began = [u \in Updaters |-> 0]
    /\ handle = [u \in Updaters |-> 0]
    /\ outcome = [u \in Updaters |-> "none"]
    /\ inodes = << [valid |-> TRUE, body |-> <<>>] >>
    /\ tmp = <<>>
    /\ final = [v \in {0} |-> 1]

\* manifest_lock: it is held only within an action, and by an updater from the
\* rename of its file until the new manifest is in memory.
LockFree == \A u \in Updaters : pc[u] # "Install"

Remove(dir, v) == [x \in DOMAIN dir \ {v} |-> dir[x]]
Bind(dir, v, n) == [x \in DOMAIN dir \cup {v} |-> IF x = v THEN n ELSE dir[x]]
-----------------------------------------------------------------------------
(* The callers. *)

\* The compaction thread takes an SSTable id, under the lock; a rotation needs none.
Reserve(u) ==
    IF u \in Compactors
    THEN /\ sst' = [sst EXCEPT ![u] = {manifest.next_sstable_id}]
         /\ manifest' = [manifest EXCEPT !.next_sstable_id = @ + 1]
    ELSE /\ sst' = [sst EXCEPT ![u] = {}]
         /\ UNCHANGED manifest

\* rotate_memtable, and flush_memtables or a compaction, up to the call.
Call(u) ==
    /\ up /\ pc[u] = "Idle" /\ LockFree
    /\ calls < MaxUpdates
    /\ calls' = calls + 1
    /\ Reserve(u)
    /\ tries' = [tries EXCEPT ![u] = 0]
    /\ began' = [began EXCEPT ![u] = manifest.version]
    /\ outcome' = [outcome EXCEPT ![u] = "none"]
    /\ pc' = [pc EXCEPT ![u] = "Snapshot"]
    /\ UNCHANGED <<up, crashes, candidate, base, handle, fileVars>>

\* An early return with an error.
Fail(u, why) ==
    /\ pc' = [pc EXCEPT ![u] = "Idle"]
    /\ outcome' = [outcome EXCEPT ![u] = why]
    /\ UNCHANGED <<manifest, up, bounds, callVars>>
-----------------------------------------------------------------------------
(* apply_atomic_update *)

\* Mutant: the last iteration is given up.
LoopLimit_offByOne(u) == tries[u] + 1 >= MaxTries

\* loop_count > 3
LoopLimit(u) == tries[u] + 1 > MaxTries

\* Mutant: versions count down.
NextVersion_decrement(m) == m.version - 1

\* candidate.version += 1
NextVersion(m) == m.version + 1

\* 1. Snapshot, 2. Mutate
Snapshot(u) ==
    /\ pc[u] = "Snapshot"
    /\ ~ LoopLimit(u) /\ LockFree
    /\ tries' = [tries EXCEPT ![u] = @ + 1]
    /\ base' = [base EXCEPT ![u] = manifest.version]
    /\ candidate' = [candidate EXCEPT ![u] =
         [body            |-> Append(manifest.body, [by |-> u, ssts |-> sst[u]]),
          version         |-> NextVersion(manifest),
          next_sstable_id |-> manifest.next_sstable_id]]
    /\ pc' = [pc EXCEPT ![u] = "CreateTmp"]
    /\ UNCHANGED <<manifest, up, bounds, sst, began, handle, outcome, fileVars>>

GiveUp(u) ==
    /\ pc[u] = "Snapshot"
    /\ LoopLimit(u)
    /\ Fail(u, "retries")
    /\ UNCHANGED fileVars

\* The mutator fails: Wal::open in the rotation, or WALs that are not the
\* expected ones in the flush.
MutateFails(u) ==
    /\ pc[u] = "CreateTmp"
    /\ "mutate" \in IoErrors
    /\ Fail(u, "io")
    /\ UNCHANGED fileVars

\* Mutant: one temporary name for all versions.
TmpName_constant(u) == 0

\* {:05}.mf.tmp of the new version
TmpName(u) == candidate[u].version

\* 3. Serialize to TMP.  File::create truncates the file if it exists.
CreateTmp(u) ==
    LET v == TmpName(u) IN
    /\ pc[u] = "CreateTmp"
    /\ IF v \in DOMAIN tmp
       THEN /\ inodes' = [inodes EXCEPT ![tmp[v]] = Unreadable]
            /\ handle' = [handle EXCEPT ![u] = tmp[v]]
            /\ UNCHANGED tmp
       ELSE /\ inodes' = Append(inodes, Unreadable)
            /\ handle' = [handle EXCEPT ![u] = Len(inodes) + 1]
            /\ tmp' = Bind(tmp, v, Len(inodes) + 1)
    /\ pc' = [pc EXCEPT ![u] = "WriteTmp"]
    /\ UNCHANGED <<manifest, up, bounds, sst, tries, candidate, base, began, outcome, final>>

\* Mutant: the manifest is written as it was before the change.
Encoded_stale(u) == [valid |-> TRUE, body |-> manifest.body]

Encoded(u) == [valid |-> TRUE, body |-> candidate[u].body]

\* The encoded manifest, the flush of the BufWriter and sync_all.
WriteTmp(u) ==
    /\ pc[u] = "WriteTmp"
    /\ inodes' = [inodes EXCEPT ![handle[u]] = Encoded(u)]
    /\ pc' = [pc EXCEPT ![u] = "Commit"]
    /\ UNCHANGED <<manifest, up, bounds, callVars, outcome, tmp, final>>

\* The write fails with nothing, a part or all of the file written.
WriteFails(u) ==
    /\ pc[u] = "WriteTmp"
    /\ "write" \in IoErrors
    /\ \E c \in {inodes[handle[u]], Unreadable, Encoded(u)} :
         inodes' = [inodes EXCEPT ![handle[u]] = c]
    /\ Fail(u, "io")
    /\ UNCHANGED <<tmp, final>>

\* Mutant: the version is not compared.
Unchanged_skipped(u) == TRUE

\* guard.version == current_version
Unchanged(u) == manifest.version = base[u]

\* 4. Commit, under the lock: the version is compared and the file renamed.
Rename(u) ==
    /\ pc[u] = "Commit" /\ LockFree
    /\ Unchanged(u)
    /\ TmpName(u) \in DOMAIN tmp
    /\ final' = Bind(final, candidate[u].version, tmp[TmpName(u)])
    /\ tmp' = Remove(tmp, TmpName(u))
    /\ pc' = [pc EXCEPT ![u] = "Install"]
    /\ UNCHANGED <<manifest, up, bounds, callVars, outcome, inodes>>

\* *guard = candidate, all of it, and the lock is released.
Install(u) ==
    /\ pc[u] = "Install"
    /\ manifest' = candidate[u]
    /\ outcome' = [outcome EXCEPT ![u] = "ok"]
    /\ pc' = [pc EXCEPT ![u] = "Idle"]
    /\ UNCHANGED <<up, bounds, callVars, fileVars>>

\* Mutant: try again with the same candidate.
Conflict_sameCandidate(u) ==
    /\ pc[u] = "Commit" /\ LockFree
    /\ ~ Unchanged(u)
    /\ tmp' = Remove(tmp, TmpName(u))
    /\ UNCHANGED <<manifest, up, bounds, pc, callVars, outcome, inodes, final>>

\* The version has changed: clean up and try again.
Conflict(u) ==
    /\ pc[u] = "Commit" /\ LockFree
    /\ ~ Unchanged(u)
    /\ tmp' = Remove(tmp, TmpName(u))
    /\ pc' = [pc EXCEPT ![u] = "Snapshot"]
    /\ UNCHANGED <<manifest, up, bounds, callVars, outcome, inodes, final>>

\* rename returns an error, also when there is no such file.
RenameFails(u) ==
    /\ pc[u] = "Commit" /\ LockFree
    /\ Unchanged(u)
    /\ "rename" \in IoErrors \/ TmpName(u) \notin DOMAIN tmp
    /\ tmp' = Remove(tmp, TmpName(u))
    /\ Fail(u, "io")
    /\ UNCHANGED <<inodes, final>>
-----------------------------------------------------------------------------
(* The process dies, and Db::new opens the directory again. *)

Crash ==
    /\ up /\ crashes < MaxCrashes
    /\ up' = FALSE
    /\ crashes' = crashes + 1
    /\ pc' = [u \in Updaters |-> "Idle"]
    /\ outcome' = [u \in Updaters |-> "none"]
    /\ UNCHANGED <<manifest, calls, callVars, fileVars>>

\* The manifest file with the highest version.
Newest == CHOOSE v \in DOMAIN final : \A x \in DOMAIN final : x <= v
OnDisk == inodes[final[Newest]]

FileIds(body) == UNION {body[i].ssts : i \in DOMAIN body}

\* recover_or_init and try_open; an unreadable manifest is an error for the user.
Recover ==
    /\ ~ up /\ OnDisk.valid
    /\ up' = TRUE
    /\ manifest' =
         [body |-> OnDisk.body,
          version |-> Newest,
          next_sstable_id |-> 1 + CHOOSE n \in FileIds(OnDisk.body) \cup {0} :
                                    \A x \in FileIds(OnDisk.body) : x <= n]
    /\ UNCHANGED <<bounds, pc, callVars, outcome, fileVars>>
-----------------------------------------------------------------------------
\* The rest of a call.
Step(u) ==
    \/ Snapshot(u) \/ GiveUp(u) \/ MutateFails(u) \/ CreateTmp(u) \/ WriteTmp(u)
    \/ WriteFails(u) \/ Rename(u) \/ Install(u) \/ Conflict(u) \/ RenameFails(u)

Done == up /\ calls = MaxUpdates /\ (\A u \in Updaters : pc[u] = "Idle") /\ UNCHANGED vars

Next == (\E u \in Updaters : Call(u) \/ Step(u)) \/ Crash \/ Recover \/ Done

Spec == Init /\ [][Next]_vars

\* A step condition: no updater creates its temporary file while another one is
\* between the creation and the commit of a file with the same name.  Nothing in the
\* code ensures it; what it would give is stated of Spec /\ [][OwnTmp]_vars.
OwnTmp ==
    \A u, v \in Updaters :
      u # v /\ CreateTmp(u) => ~ (pc[v] \in {"WriteTmp", "Commit"} /\ TmpName(v) = TmpName(u))

\* Both threads keep running.
FairSpec == Spec /\ \A u \in Updaters : WF_vars(Step(u))
-----------------------------------------------------------------------------
(* Properties. *)

\* apply_atomic_update implements AtomicManifest.  A change counts from the
\* rename on; while the process is down the manifest is what recovery will read.
CommittedBody ==
    IF ~ up THEN OnDisk.body
    ELSE IF LockFree THEN manifest.body
    ELSE candidate[CHOOSE u \in Updaters : pc[u] = "Install"].body

AbstractOutcome(u) ==
    IF pc[u] = "Install" THEN "ok"
    ELSE IF outcome[u] \in {"io", "retries"} THEN "err" ELSE outcome[u]

Atomic == INSTANCE AtomicManifest WITH
    log     <- [i \in DOMAIN CommittedBody |-> CommittedBody[i].by],
    busy    <- {u \in Updaters : pc[u] # "Idle"},
    outcome <- [u \in Updaters |-> AbstractOutcome(u)]

\* Whatever the interleaving and the I/O errors: every call that returns Ok
\* changed the then latest manifest exactly once, and a call that returns an error
\* left it alone.
AtomicUpdates == Atomic!Spec

\* Although two updaters use one temporary name, and each of them removes it when
\* it loses, the winner's rename never misses its file.
TmpFileThere ==
    \A u \in Updaters :
      LockFree /\ pc[u] = "Commit" /\ base[u] = manifest.version => TmpName(u) \in DOMAIN tmp

\* The loop gives up only when three other updates were committed since the call,
\* one for each attempt.
GivesUpAfterConflicts ==
    \A u \in Updaters : outcome[u] = "retries" => manifest.version >= began[u] + MaxTries

\* Every call returns, whoever else updates the manifest.
EveryCallReturns == \A u \in Updaters : pc[u] # "Idle" ~> pc[u] = "Idle"

\* The newest manifest file is readable and is the manifest in memory, so that a
\* restart finds every committed change.
DiskMatchesMemory == up /\ LockFree => OnDisk = [valid |-> TRUE, body |-> manifest.body]

\* No SSTable id is in the manifest for two SSTables.
UniqueFileIds ==
    \A i, j \in DOMAIN manifest.body :
      i # j => manifest.body[i].ssts \cap manifest.body[j].ssts = {}
=============================================================================
