-------------------------- MODULE CompactionThread --------------------------
(***************************************************************************)
(* The life of the compaction thread of easy-lsm: the loop of              *)
(* src/compact.rs `run` with its triggers, flushes and compactions, the    *)
(* memtable rotations that wake and restart it (src/lib.rs), and the drop  *)
(* of the Db that stops it.                                                *)
(*                                                                         *)
(* Only the amount of work is kept: how many WALs the manifest lists, how  *)
(* many frozen memtables db.current holds and how much data is in each     *)
(* level.  apply_atomic_update is one step here (module AtomicManifest     *)
(* says why).  ArcSwap is a lock-free cell, so the load and the store that *)
(* make up an update of db.current are two steps.                          *)
(***************************************************************************)
EXTENDS Naturals, Sequences

CONSTANTS
    FlushTrigger,  \* flush when the manifest lists more WALs than this (4)
    SizeTrigger,   \* SizeTrigger[l]: compact level l-1 at this size
    IoErrors,      \* a subset of {"flush", "compact", "reopen", "panic", "spawn"}
    InitialWals,   \* the WALs of the manifest that Db::new may find
    MaxRotations,  \* bound: memtable rotations
    MaxFailures,   \* bound: flushes and compactions that fail
    MaxThreads     \* bound: the first compaction thread and its restarts

ASSUME ConstantsAssumption ==
    /\ FlushTrigger \in Nat \ {0}
    /\ SizeTrigger \in Seq(Nat \ {0})
    /\ IoErrors \subseteq {"flush", "compact", "reopen", "panic", "spawn"}
    /\ InitialWals \subseteq Nat \ {0}
    /\ MaxRotations \in Nat
    /\ MaxFailures \in Nat
    /\ MaxThreads \in Nat \ {0}

VARIABLES
    lock,       \* the thread that holds manifest_lock between two of its steps, or 0
    wals,       \* manifest.wals.len()
    size,       \* the size of each level; level l is size[l + 1]
    frozen,     \* db.current's frozen_memtables.len()
    shutdown,
    handle,     \* the thread whose JoinHandle the Db holds: the last one spawned
    \* the compaction threads, numbered in the order they are spawned
    pc,
    work,       \* how many memtables the thread is flushing
    level,      \* which level it is compacting
    seen,       \* the frozen memtables of the version it loaded from db.current
    failures,   \* how often the work has failed
    \* the writer that rotates the memtable
    rot,        \* how far it is; Failed: the last one returned an error
    rotSeen,    \* the frozen memtables of the version it loaded
    rotations,
    drop        \* how far Db::drop is

threadVars == <<handle, pc, work, level, seen, failures>>
rotVars    == <<rot, rotSeen, rotations>>
vars       == <<lock, wals, size, frozen, shutdown, threadVars, rotVars, drop>>

Levels  == 1 .. Len(SizeTrigger)
Threads == 1 .. MaxThreads
Running == {t \in Threads : pc[t] \notin {"NotSpawned", "Finished"}}

TypeOK ==
    /\ lock \in 0 .. MaxThreads
    /\ wals \in Nat
    /\ size \in [1 .. Len(SizeTrigger) + 1 -> Nat]
    /\ frozen \in Nat
    /\ shutdown \in BOOLEAN
    /\ handle \in Threads
    /\ pc \in [Threads -> {"NotSpawned", "Lock", "CheckShutdown", "CheckTriggers",
                           "Asleep", "FlushPrepare", "FlushWrite", "FlushLoad",
                           "FlushStore", "Compact", "Finished"}]
    /\ work \in [Threads -> Nat]
    /\ level \in [Threads -> 0 .. Len(SizeTrigger)]
    /\ seen \in [Threads -> Nat]
    /\ failures \in 0 .. MaxFailures
    /\ rot \in {"Idle", "Failed", "Reopen", "Load", "Store", "Ensure", "Notify"}
    /\ rotSeen \in Nat
    /\ rotations \in 0 .. MaxRotations
    /\ drop \in {"Open", "Notify", "Join", "Dropped"}

\* Db::new: one frozen memtable for every WAL but the last, and the thread.
Init ==
    /\ lock = 0
    /\ wals \in InitialWals
    /\ size = [l \in 1 .. Len(SizeTrigger) + 1 |-> 0]
    /\ frozen = wals - 1
    /\ shutdown = FALSE
    /\ handle = 1
    /\ pc = [t \in Threads |-> IF t = 1 THEN "Lock" ELSE "NotSpawned"]
    /\ work = [t \in Threads |-> 0]
    /\ level = [t \in Threads |-> 0]
    /\ seen = [t \in Threads |-> 0]
    /\ failures = 0
    /\ rot = "Idle" /\ rotSeen = 0 /\ rotations = 0
    /\ drop = "Open"

Goto(t, label) == pc' = [pc EXCEPT ![t] = label]
-----------------------------------------------------------------------------
(* The loop of `run`. *)

\* manifest_lock.lock(), at the start, after a wait and after the work.
Lock(t) ==
    /\ pc[t] = "Lock" /\ lock = 0
    /\ lock' = t
    /\ Goto(t, "CheckShutdown")
    /\ UNCHANGED <<wals, size, frozen, shutdown, handle, work, level, seen, failures, rotVars, drop>>

\* shutdown.load: the flag is not protected by the lock.
CheckShutdown(t) ==
    /\ pc[t] = "CheckShutdown"
    /\ IF shutdown
       THEN lock' = 0 /\ Goto(t, "Finished")
       ELSE UNCHANGED lock /\ Goto(t, "CheckTriggers")
    /\ UNCHANGED <<wals, size, frozen, shutdown, handle, work, level, seen, failures, rotVars, drop>>

\* Mutant: a flush one WAL too late.
FlushDue_late == wals > FlushTrigger + 1

FlushDue == wals > FlushTrigger

\* Mutant: a level that has just reached its trigger is left alone.
Due_strict == {l \in Levels : size[l] > SizeTrigger[l]}

\* The levels that have reached their trigger; L0 comes first.
Due == {l \in Levels : size[l] >= SizeTrigger[l]}

TriggerFlush(t) ==
    /\ pc[t] = "CheckTriggers" /\ FlushDue
    /\ lock' = 0
    /\ Goto(t, "FlushPrepare")
    /\ UNCHANGED <<wals, size, frozen, shutdown, handle, work, level, seen, failures, rotVars, drop>>

TriggerCompaction(t) ==
    /\ pc[t] = "CheckTriggers" /\ ~ FlushDue
    /\ \E l \in Due :
         /\ \A k \in Due : l <= k
         /\ level' = [level EXCEPT ![t] = l]
    /\ lock' = 0
    /\ Goto(t, "Compact")
    /\ UNCHANGED <<wals, size, frozen, shutdown, handle, work, seen, failures, rotVars, drop>>

\* Mutant: the lock is released before the wait begins.
Wait_afterUnlock(t) ==
    /\ pc[t] = "CheckTriggers"
    /\ \/ lock = t /\ ~ FlushDue /\ Due = {} /\ lock' = 0 /\ UNCHANGED pc
       \/ lock # t /\ UNCHANGED lock /\ Goto(t, "Asleep")
    /\ UNCHANGED <<wals, size, frozen, shutdown, handle, work, level, seen, failures, rotVars, drop>>

\* compaction_cv.wait releases the lock and sleeps in one step.
Wait(t) ==
    /\ pc[t] = "CheckTriggers" /\ ~ FlushDue /\ Due = {}
    /\ lock' = 0
    /\ Goto(t, "Asleep")
    /\ UNCHANGED <<wals, size, frozen, shutdown, handle, work, level, seen, failures, rotVars, drop>>

SpuriousWakeup(t) ==
    /\ pc[t] = "Asleep"
    /\ Goto(t, "Lock")
    /\ UNCHANGED <<lock, wals, size, frozen, shutdown, handle, work, level, seen, failures, rotVars, drop>>
-----------------------------------------------------------------------------
(* flush_memtables *)

\* Phase 1, locked: nothing to do, a mismatch with the manifest, or work.
FlushPrepare(t) ==
    /\ pc[t] = "FlushPrepare" /\ lock = 0
    /\ work' = [work EXCEPT ![t] = frozen]
    /\ Goto(t, IF frozen = 0 \/ wals < frozen THEN "Lock" ELSE "FlushWrite")
    /\ UNCHANGED <<lock, wals, size, frozen, shutdown, handle, level, seen, failures, rotVars, drop>>

\* Phases 2 and 3: write the SSTables, then commit: their WALs leave the manifest.
FlushCommit(t) ==
    /\ pc[t] = "FlushWrite" /\ lock = 0
    /\ wals' = wals - work[t]
    /\ size' = [size EXCEPT ![1] = @ + work[t]]
    /\ Goto(t, "FlushLoad")
    /\ UNCHANGED <<lock, frozen, shutdown, handle, work, level, seen, failures, rotVars, drop>>

\* Any error before the commit: logged, and tried again after a second.
FlushFails(t) ==
    /\ pc[t] = "FlushWrite"
    /\ "flush" \in IoErrors /\ failures < MaxFailures
    /\ failures' = failures + 1
    /\ Goto(t, "Lock")
    /\ UNCHANGED <<lock, wals, size, frozen, shutdown, handle, work, level, seen, rotVars, drop>>

\* db_current.load()
FlushLoad(t) ==
    /\ pc[t] = "FlushLoad"
    /\ seen' = [seen EXCEPT ![t] = frozen]
    /\ Goto(t, "FlushStore")
    /\ UNCHANGED <<lock, wals, size, frozen, shutdown, handle, work, level, failures, rotVars, drop>>

\* db_current.store() of that version without the flushed memtables, which are
\* skipped by number; then the garbage collection, and back to the loop.
FlushStore(t) ==
    /\ pc[t] = "FlushStore"
    /\ frozen' = IF seen[t] > work[t] THEN seen[t] - work[t] ELSE 0
    /\ Goto(t, "Lock")
    /\ UNCHANGED <<lock, wals, size, shutdown, handle, work, level, seen, failures, rotVars, drop>>
-----------------------------------------------------------------------------
(* compact_l0 and compact_ln *)

\* All of L0, or the first file of a deeper level, goes one level down.
CompactCommit(t) ==
    LET l == level[t]
        n == IF l = 1 THEN size[1] ELSE 1 IN
    /\ pc[t] = "Compact" /\ lock = 0
    /\ size' = [size EXCEPT ![l] = @ - n, ![l + 1] = @ + n]
    /\ Goto(t, "Lock")
    /\ UNCHANGED <<lock, wals, frozen, shutdown, handle, work, level, seen, failures, rotVars, drop>>

CompactFails(t) ==
    /\ pc[t] = "Compact"
    /\ "compact" \in IoErrors /\ failures < MaxFailures
    /\ failures' = failures + 1
    /\ Goto(t, "Lock")
    /\ UNCHANGED <<lock, wals, size, frozen, shutdown, handle, work, level, seen, rotVars, drop>>

\* A panic in the work, which is done without the lock, ends the thread.
Panic(t) ==
    /\ pc[t] \in {"FlushWrite", "Compact"}
    /\ "panic" \in IoErrors /\ handle < MaxThreads
    /\ Goto(t, "Finished")
    /\ UNCHANGED <<lock, wals, size, frozen, shutdown, handle, work, level, seen, failures, rotVars, drop>>
-----------------------------------------------------------------------------
(* rotate_memtable, from the commit of the new WAL on. *)

RotateCommit ==
    /\ rot \in {"Idle", "Failed"} /\ drop = "Open" /\ lock = 0
    /\ rotations < MaxRotations
    /\ rotations' = rotations + 1
    /\ wals' = wals + 1
    /\ rot' = "Reopen"
    /\ UNCHANGED <<lock, size, frozen, shutdown, threadVars, rotSeen, drop>>

\* The second Wal::open.
RotateReopen ==
    /\ rot = "Reopen"
    /\ rot' = "Load"
    /\ UNCHANGED <<lock, wals, size, frozen, shutdown, threadVars, rotSeen, rotations, drop>>

\* Its error returns at once, with the manifest already changed.
RotateReopenFails ==
    /\ rot = "Reopen"
    /\ "reopen" \in IoErrors
    /\ rot' = "Failed"
    /\ UNCHANGED <<lock, wals, size, frozen, shutdown, threadVars, rotSeen, rotations, drop>>

RotateLoad ==
    /\ rot = "Load"
    /\ rotSeen' = frozen
    /\ rot' = "Store"
    /\ UNCHANGED <<lock, wals, size, frozen, shutdown, threadVars, rotations, drop>>

RotateStore ==
    /\ rot = "Store"
    /\ frozen' = rotSeen + 1
    /\ rot' = "Ensure"
    /\ UNCHANGED <<lock, wals, size, shutdown, threadVars, rotSeen, rotations, drop>>

\* Mutant: the old thread is not looked at.
NeedRestart_always == handle < MaxThreads

\* Not while the Db shuts down; else handle.is_finished().
NeedRestart == ~ shutdown /\ pc[handle] = "Finished"

\* ensure_compaction_thread.  A spawn that fails is not reported, and leaves no handle;
\* that of a thread that has finished is treated in the same way.
EnsureThread ==
    /\ rot = "Ensure"
    /\ \/ NeedRestart /\ handle' = handle + 1 /\ Goto(handle + 1, "Lock")
       \/ (~ NeedRestart \/ "spawn" \in IoErrors) /\ UNCHANGED <<handle, pc>>
    /\ rot' = "Notify"
    /\ UNCHANGED <<lock, wals, size, frozen, shutdown, work, level, seen, failures, rotSeen,
                   rotations, drop>>

\* compaction_cv: one thread waits on it at most, so one or all is the same.
Notify == pc' = [t \in Threads |-> IF pc[t] = "Asleep" THEN "Lock" ELSE pc[t]]

RotateNotify ==
    /\ rot = "Notify"
    /\ Notify
    /\ rot' = "Idle"
    /\ UNCHANGED <<lock, wals, size, frozen, shutdown, handle, work, level, seen, failures, rotSeen,
                   rotations, drop>>
-----------------------------------------------------------------------------
(* Db::drop.  It owns the Db, so no write is in progress. *)

DropSignal ==
    /\ drop = "Open" /\ rot \in {"Idle", "Failed"}
    /\ shutdown' = TRUE
    /\ drop' = "Notify"
    /\ UNCHANGED <<lock, wals, size, frozen, threadVars, rotVars>>

\* Mutant: the sleeping thread is not woken.
DropNotify_silent ==
    /\ drop = "Notify"
    /\ drop' = "Join"
    /\ UNCHANGED <<lock, wals, size, frozen, shutdown, threadVars, rotVars>>

DropNotify ==
    /\ drop = "Notify"
    /\ Notify
    /\ drop' = "Join"
    /\ UNCHANGED <<lock, wals, size, frozen, shutdown, handle, work, level, seen, failures, rotVars>>

DropJoin ==
    /\ drop = "Join"
    /\ pc[handle] = "Finished"
    /\ drop' = "Dropped"
    /\ UNCHANGED <<lock, wals, size, frozen, shutdown, threadVars, rotVars>>
-----------------------------------------------------------------------------
ThreadStep(t) ==
    \/ Lock(t) \/ CheckShutdown(t) \/ TriggerFlush(t) \/ TriggerCompaction(t) \/ Wait(t)
    \/ FlushPrepare(t) \/ FlushCommit(t) \/ FlushFails(t) \/ FlushLoad(t) \/ FlushStore(t)
    \/ CompactCommit(t) \/ CompactFails(t) \/ Panic(t)

\* What a rotation does once it has committed.
RotateRest ==
    RotateReopen \/ RotateReopenFails \/ RotateLoad \/ RotateStore \/ EnsureThread \/ RotateNotify

DropStep == DropNotify \/ DropJoin

Stopped == drop = "Dropped" /\ UNCHANGED vars

Next ==
    \/ \E t \in Threads : ThreadStep(t) \/ SpuriousWakeup(t)
    \/ RotateCommit \/ RotateRest \/ DropSignal \/ DropStep \/ Stopped

Spec == Init /\ [][Next]_vars

\* Threads keep running; nobody has to rotate or to drop the Db, and no wakeup is
\* counted on.
FairSpec ==
    /\ Spec
    /\ \A t \in Threads : WF_vars(ThreadStep(t))
    /\ WF_vars(RotateRest)
    /\ WF_vars(DropStep)
-----------------------------------------------------------------------------
(* Properties. *)

\* The mutex and the condition variable of `run`: a sleeping thread has no flush to
\* do, or a rotation has still to notify it, or the last one failed and did not.
NoLostWakeup ==
    \A t \in Threads : pc[t] = "Asleep" /\ wals > FlushTrigger => rot # "Idle"

\* ensure_compaction_thread never runs a second compaction thread, and the manifest
\* lock is held exactly in the loop's critical section.
OneThread ==
    /\ \A t, u \in Running : t = u
    /\ \A t \in Threads : lock = t <=> pc[t] \in {"CheckShutdown", "CheckTriggers"}

\* A flush that is due is begun, or made by a flush that was already under way,
\* unless the Db is dropped, the thread has died with no rotation to restart it, or
\* the last rotation failed, after its commit, and did not notify.
FlushAttended ==
    wals > FlushTrigger ~>
      \/ wals <= FlushTrigger
      \/ shutdown
      \/ Running = {} \/ rot = "Failed"
      \/ \E t \in Threads : pc[t] = "FlushPrepare"

\* The compactions follow one another until no level is over its trigger, unless
\* the Db is dropped, the thread has died, or flushes, which come first, keep it busy.
LevelsSettle ==
    (\E l \in Levels : size[l] >= SizeTrigger[l]) ~>
      \/ \A l \in Levels : size[l] < SizeTrigger[l]
      \/ shutdown \/ Running = {}
      \/ wals > FlushTrigger

\* Db::drop returns, whatever the thread does, unless the flag is set in the moment
\* between the thread's test of it and its wait: the flag and the notification do not
\* take the manifest lock, so that the thread may sleep after both.
DropReturns == drop = "Notify" /\ pc[handle] # "CheckTriggers" ~> drop = "Dropped"
=============================================================================
