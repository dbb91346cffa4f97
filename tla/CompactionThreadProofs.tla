----------------------- MODULE CompactionThreadProofs -----------------------
(***************************************************************************)
(* Proofs about the compaction thread, for any triggers, any number of     *)
(* rotations, failures and restarts: its type invariant, that there is one *)
(* thread, and that no rotation is slept through.                          *)
(***************************************************************************)
EXTENDS CompactionThread, TLAPS

\* Threads are spawned one after the other, each when the one before has finished, so
\* that only the last can run.
HandleInv ==
    \A t \in Threads :
      /\ t > handle => pc[t] = "NotSpawned"
      /\ t < handle => pc[t] = "Finished"
      /\ t = handle => pc[t] # "NotSpawned"

\* The mutex is held in the critical section of the loop.
LockInv == \A t \in Threads : lock = t <=> pc[t] \in {"CheckShutdown", "CheckTriggers"}

\* The WALs of the memtables that a thread flushes are still in the manifest, and the
\* level that it compacts has data.
WorkInv ==
    \A t \in Threads :
      /\ pc[t] = "FlushWrite" => work[t] <= wals
      /\ pc[t] = "Compact" => level[t] \in Levels /\ size[level[t]] >= 1

\* The Db is dropped by its owner, when no write is in progress, and only then does the
\* thread end without a panic; a thread that has ended otherwise can be replaced.
DropInv ==
    /\ shutdown => drop # "Open"
    /\ drop # "Open" => rot \in {"Idle", "Failed"}
    /\ ~ shutdown /\ pc[handle] = "Finished" => handle < MaxThreads

Inv == TypeOK /\ HandleInv /\ LockInv /\ WorkInv /\ DropInv /\ NoLostWakeup

\* What the proofs use of the constants and of their ranges.
LEMMA ConstFact ==
    /\ FlushTrigger \in Nat /\ MaxRotations \in Nat /\ MaxFailures \in Nat
    /\ MaxThreads \in Nat \ {0}
    /\ Len(SizeTrigger) \in Nat
    /\ \A l \in Levels : SizeTrigger[l] \in Nat \ {0}
    /\ 0 \in 0 .. MaxThreads /\ 1 \in Threads
    /\ \A t \in Threads : t \in 0 .. MaxThreads
    /\ \A l \in Levels : l \in 0 .. Len(SizeTrigger)
    /\ 0 \in 0 .. MaxFailures /\ 0 \in 0 .. MaxRotations /\ 0 \in 0 .. Len(SizeTrigger)
  BY ConstantsAssumption DEF Levels, Threads

LEMMA InvInit == Init => Inv
<1> SUFFICES ASSUME Init PROVE Inv
  OBVIOUS
<1>1. wals \in Nat /\ wals - 1 \in Nat
  BY ConstantsAssumption DEF Init
<1>2. TypeOK
  BY <1>1, ConstFact DEF Init, TypeOK
<1>3. HandleInv /\ LockInv
  BY ConstFact DEF Init, HandleInv, LockInv, Threads
<1>4. WorkInv /\ DropInv /\ NoLostWakeup
  BY ConstFact DEF Init, WorkInv, DropInv, NoLostWakeup, Threads
<1> QED
  BY <1>2, <1>3, <1>4 DEF Inv

\* A thread that has work to do is the last one, and the only one that runs.
LEMMA RunningFact ==
    ASSUME TypeOK, HandleInv, NEW t \in Threads, pc[t] \notin {"NotSpawned", "Finished"}
    PROVE  \A u \in Threads : u # t => pc[u] \in {"NotSpawned", "Finished"}
<1>1. t \in Nat /\ handle \in Nat /\ Threads \subseteq Nat
  BY DEF TypeOK, Threads
<1>2. t = handle
  BY <1>1 DEF HandleInv
<1> QED
  BY <1>1, <1>2 DEF HandleInv

\* Data moves between levels.
LEMMA LevelFact ==
    ASSUME TypeOK, NEW l \in Levels
    PROVE  /\ l \in 1 .. Len(SizeTrigger) + 1 /\ l + 1 \in 1 .. Len(SizeTrigger) + 1 /\ l # l + 1
           /\ size[l] \in Nat /\ size[l + 1] \in Nat
<1> DEFINE n == Len(SizeTrigger)
<1>1. n \in Nat /\ l \in 1 .. n
  BY ConstFact DEF Levels
<1>2. l \in 1 .. n + 1 /\ l + 1 \in 1 .. n + 1 /\ l # l + 1
  <2> HIDE DEF n
  <2> QED
    BY <1>1
<1>3. size \in [1 .. n + 1 -> Nat]
  BY DEF TypeOK
<1> HIDE DEF n
<1>4. size[l] \in Nat /\ size[l + 1] \in Nat
  BY <1>2, <1>3
<1> QED
  BY <1>2, <1>4 DEF n

\* The steps of the loop that only move a thread.
LoopStep(t) ==
    \/ Lock(t)
    \/ CheckShutdown(t)
    \/ TriggerFlush(t)
    \/ TriggerCompaction(t)
    \/ Wait(t)
    \/ SpuriousWakeup(t)

LEMMA LoopFact ==
    ASSUME Inv, NEW t \in Threads, LoopStep(t)
    PROVE  Inv'
<1> USE ConstFact DEF Inv, TypeOK, Goto, rotVars, threadVars
<1>1. CASE Lock(t)
  <2>1. TypeOK'
    BY <1>1 DEF Lock
  <2>2. HandleInv' /\ LockInv'
    BY <1>1 DEF Lock, HandleInv, LockInv, Threads
  <2>3. WorkInv' /\ DropInv'
    BY <1>1 DEF Lock, HandleInv, WorkInv, DropInv, Threads
  <2>4. NoLostWakeup'
    BY <1>1 DEF Lock, HandleInv, NoLostWakeup, Threads
  <2> QED
    BY <2>1, <2>2, <2>3, <2>4
<1>2. CASE CheckShutdown(t)
  <2> USE <1>2 DEF CheckShutdown
  <2>1. TypeOK'
    OBVIOUS
  <2>2. HandleInv'
    BY DEF HandleInv, Threads
  <2>3. LockInv'
    <3>1. lock = t /\ t # 0
      BY DEF LockInv, Threads
    <3>2. CASE shutdown
      BY <3>1, <3>2 DEF LockInv, Threads
    <3>3. CASE ~ shutdown
      BY <3>1, <3>3 DEF LockInv
    <3> QED
      BY <3>2, <3>3
  <2>4. WorkInv' /\ DropInv'
    BY DEF HandleInv, WorkInv, DropInv, Threads
  <2>5. NoLostWakeup'
    BY DEF HandleInv, NoLostWakeup, Threads
  <2> QED
    BY <2>1, <2>2, <2>3, <2>4, <2>5
<1>3. CASE TriggerFlush(t)
  <2>1. TypeOK'
    BY <1>3 DEF TriggerFlush
  <2>2. HandleInv' /\ LockInv'
    BY <1>3 DEF TriggerFlush, HandleInv, LockInv, Threads
  <2>3. WorkInv' /\ DropInv'
    BY <1>3 DEF TriggerFlush, HandleInv, WorkInv, DropInv, Threads
  <2>4. NoLostWakeup'
    BY <1>3 DEF TriggerFlush, HandleInv, NoLostWakeup, Threads
  <2> QED
    BY <2>1, <2>2, <2>3, <2>4
<1>4. CASE TriggerCompaction(t)
  <2> USE <1>4 DEF TriggerCompaction
  <2>1. PICK l \in Levels : size[l] >= SizeTrigger[l] /\ level' = [level EXCEPT ![t] = l]
    BY DEF Due
  <2>2. size[l] >= 1
    <3>1. size[l] \in Nat
      BY LevelFact
    <3>2. SizeTrigger[l] \in Nat \ {0}
      OBVIOUS
    <3> QED
      BY <2>1, <3>1, <3>2
  <2>3. TypeOK'
    BY <2>1
  <2>4. HandleInv'
    BY DEF HandleInv, Threads
  <2>5. LockInv'
    BY DEF LockInv, Threads
  <2>6. WorkInv'
    BY <2>1, <2>2 DEF WorkInv
  <2>7. DropInv'
    BY DEF DropInv
  <2>8. NoLostWakeup'
    BY DEF NoLostWakeup
  <2> QED
    BY <2>3, <2>4, <2>5, <2>6, <2>7, <2>8
<1>5. CASE Wait(t)
  <2>1. TypeOK'
    BY <1>5 DEF Wait, FlushDue
  <2>2. HandleInv' /\ LockInv'
    BY <1>5 DEF Wait, FlushDue, HandleInv, LockInv, Threads
  <2>3. WorkInv' /\ DropInv'
    BY <1>5 DEF Wait, FlushDue, HandleInv, WorkInv, DropInv, Threads
  <2>4. NoLostWakeup'
    BY <1>5 DEF Wait, FlushDue, HandleInv, NoLostWakeup, Threads
  <2> QED
    BY <2>1, <2>2, <2>3, <2>4
<1>6. CASE SpuriousWakeup(t)
  <2>1. TypeOK'
    BY <1>6 DEF SpuriousWakeup
  <2>2. HandleInv' /\ LockInv'
    BY <1>6 DEF SpuriousWakeup, HandleInv, LockInv, Threads
  <2>3. WorkInv' /\ DropInv'
    BY <1>6 DEF SpuriousWakeup, HandleInv, WorkInv, DropInv, Threads
  <2>4. NoLostWakeup'
    BY <1>6 DEF SpuriousWakeup, HandleInv, NoLostWakeup, Threads
  <2> QED
    BY <2>1, <2>2, <2>3, <2>4
<1> QED
  BY <1>1, <1>2, <1>3, <1>4, <1>5, <1>6 DEF LoopStep

\* The work of a thread.
WorkStep(t) ==
    \/ FlushPrepare(t)
    \/ FlushCommit(t)
    \/ FlushFails(t)
    \/ FlushLoad(t)
    \/ FlushStore(t)
    \/ CompactCommit(t)
    \/ CompactFails(t)
    \/ Panic(t)

LEMMA WorkFact ==
    ASSUME Inv, NEW t \in Threads, WorkStep(t)
    PROVE  Inv'
<1> USE ConstFact DEF Inv, TypeOK, Goto, rotVars, threadVars
<1>1. CASE FlushPrepare(t)
  <2>1. TypeOK'
    BY <1>1 DEF FlushPrepare
  <2>2. HandleInv' /\ LockInv'
    BY <1>1 DEF FlushPrepare, HandleInv, LockInv, Threads
  <2>3. WorkInv' /\ DropInv'
    BY <1>1 DEF FlushPrepare, HandleInv, WorkInv, DropInv, Threads
  <2>4. NoLostWakeup'
    BY <1>1 DEF FlushPrepare, HandleInv, NoLostWakeup, Threads
  <2> QED
    BY <2>1, <2>2, <2>3, <2>4
<1>2. CASE FlushCommit(t)
  <2> USE <1>2 DEF FlushCommit
  <2>1. wals' \in Nat /\ work[t] \in Nat
    BY DEF WorkInv
  <2>2. size' \in [1 .. Len(SizeTrigger) + 1 -> Nat]
    <3>1. 1 \in 1 .. Len(SizeTrigger) + 1
      BY ConstFact
    <3>2. size[1] \in Nat
      BY <3>1
    <3>3. ASSUME NEW a \in Nat, NEW b \in Nat PROVE a + b \in Nat
      OBVIOUS
    <3>4. size[1] + work[t] \in Nat
      BY <2>1, <3>2, <3>3
    <3> QED
      BY <3>1, <3>4
  <2>3. TypeOK'
    BY <2>1, <2>2
  <2>4. HandleInv' /\ LockInv'
    BY DEF HandleInv, LockInv, Threads
  <2>5. \A u \in Threads : pc'[u] \notin {"FlushWrite", "Compact"}
    <3>1. \A u \in Threads : u # t => pc[u] \in {"NotSpawned", "Finished"}
      BY RunningFact
    <3> QED
      BY <3>1
  <2>6. WorkInv'
    BY <2>5 DEF WorkInv
  <2>7. DropInv'
    BY DEF DropInv
  <2>8. NoLostWakeup'
    BY <2>1 DEF NoLostWakeup
  <2> QED
    BY <2>3, <2>4, <2>6, <2>7, <2>8
<1>3. CASE FlushFails(t)
  <2>1. TypeOK'
    BY <1>3 DEF FlushFails
  <2>2. HandleInv' /\ LockInv'
    BY <1>3 DEF FlushFails, HandleInv, LockInv, Threads
  <2>3. WorkInv' /\ DropInv'
    BY <1>3 DEF FlushFails, HandleInv, WorkInv, DropInv, Threads
  <2>4. NoLostWakeup'
    BY <1>3 DEF FlushFails, HandleInv, NoLostWakeup, Threads
  <2> QED
    BY <2>1, <2>2, <2>3, <2>4
<1>4. CASE FlushLoad(t)
  <2>1. TypeOK'
    BY <1>4 DEF FlushLoad
  <2>2. HandleInv' /\ LockInv'
    BY <1>4 DEF FlushLoad, HandleInv, LockInv, Threads
  <2>3. WorkInv' /\ DropInv'
    BY <1>4 DEF FlushLoad, HandleInv, WorkInv, DropInv, Threads
  <2>4. NoLostWakeup'
    BY <1>4 DEF FlushLoad, HandleInv, NoLostWakeup, Threads
  <2> QED
    BY <2>1, <2>2, <2>3, <2>4
<1>5. CASE FlushStore(t)
  <2>1. frozen' \in Nat
    BY <1>5 DEF FlushStore
  <2>2. TypeOK'
    BY <1>5, <2>1 DEF FlushStore
  <2>3. HandleInv' /\ LockInv'
    BY <1>5 DEF FlushStore, HandleInv, LockInv, Threads
  <2>4. WorkInv' /\ DropInv'
    BY <1>5 DEF FlushStore, HandleInv, WorkInv, DropInv, Threads
  <2>5. NoLostWakeup'
    BY <1>5 DEF FlushStore, HandleInv, NoLostWakeup, Threads
  <2> QED
    BY <2>2, <2>3, <2>4, <2>5
<1>6. CASE CompactCommit(t)
  <2> USE <1>6 DEF CompactCommit
  <2>1. level[t] \in Levels /\ level[t] \in 1 .. Len(SizeTrigger) + 1
        /\ level[t] + 1 \in 1 .. Len(SizeTrigger) + 1 /\ size[level[t]] >= 1
    BY DEF WorkInv, Levels
  <2>2. PICK n \in Nat : /\ n <= size[level[t]]
                         /\ size' = [size EXCEPT ![level[t]] = @ - n, ![level[t] + 1] = @ + n]
    <3> DEFINE l == level[t]
               n == IF l = 1 THEN size[1] ELSE 1
    <3>1. n \in Nat /\ n <= size[l]
      BY <2>1
    <3>2. size' = [size EXCEPT ![l] = @ - n, ![l + 1] = @ + n]
      OBVIOUS
    <3> QED
      BY <3>1, <3>2
  <2>3. size' \in [1 .. Len(SizeTrigger) + 1 -> Nat]
    <3> DEFINE l == level[t]
    <3>1. /\ l \in 1 .. Len(SizeTrigger) + 1 /\ l + 1 \in 1 .. Len(SizeTrigger) + 1 /\ l # l + 1
          /\ size[l] \in Nat /\ size[l + 1] \in Nat
      BY <2>1, LevelFact
    <3>2. size' = [size EXCEPT ![l] = size[l] - n, ![l + 1] = size[l + 1] + n]
      BY <2>2, <3>1
    <3> HIDE DEF l
    <3>3. n \in Nat /\ n <= size[l]
      BY <2>2 DEF l
    <3>4. ASSUME NEW a \in Nat, NEW b \in Nat, n <= a PROVE a - n \in Nat /\ b + n \in Nat
      BY <3>3, <3>4
    <3>5. size[l] - n \in Nat /\ size[l + 1] + n \in Nat
      BY <3>1, <3>3, <3>4
    <3> QED
      BY <3>1, <3>2, <3>5
  <2>4. TypeOK'
    BY <2>3
  <2>5. HandleInv' /\ LockInv'
    BY DEF HandleInv, LockInv, Threads
  <2>6. \A u \in Threads : pc'[u] \notin {"FlushWrite", "Compact"}
    <3>1. \A u \in Threads : u # t => pc[u] \in {"NotSpawned", "Finished"}
      BY RunningFact
    <3> QED
      BY <3>1
  <2>7. WorkInv'
    BY <2>6 DEF WorkInv
  <2>8. DropInv'
    BY DEF DropInv
  <2>9. NoLostWakeup'
    BY DEF NoLostWakeup
  <2> QED
    BY <2>4, <2>5, <2>7, <2>8, <2>9
<1>7. CASE CompactFails(t)
  <2>1. TypeOK'
    BY <1>7 DEF CompactFails
  <2>2. HandleInv' /\ LockInv'
    BY <1>7 DEF CompactFails, HandleInv, LockInv, Threads
  <2>3. WorkInv' /\ DropInv'
    BY <1>7 DEF CompactFails, HandleInv, WorkInv, DropInv, Threads
  <2>4. NoLostWakeup'
    BY <1>7 DEF CompactFails, HandleInv, NoLostWakeup, Threads
  <2> QED
    BY <2>1, <2>2, <2>3, <2>4
<1>8. CASE Panic(t)
  <2>1. TypeOK'
    BY <1>8 DEF Panic
  <2>2. HandleInv' /\ LockInv'
    BY <1>8 DEF Panic, HandleInv, LockInv, Threads
  <2>3. WorkInv' /\ DropInv'
    BY <1>8 DEF Panic, HandleInv, WorkInv, DropInv, Threads
  <2>4. NoLostWakeup'
    BY <1>8 DEF Panic, HandleInv, NoLostWakeup, Threads
  <2> QED
    BY <2>1, <2>2, <2>3, <2>4
<1> QED
  BY <1>1, <1>2, <1>3, <1>4, <1>5, <1>6, <1>7, <1>8 DEF WorkStep

\* The rotations and the drop.
OwnerStep == RotateCommit \/ RotateRest \/ DropSignal \/ DropStep

LEMMA OwnerFact ==
    ASSUME Inv, OwnerStep
    PROVE  Inv'
<1> USE ConstFact DEF Inv, TypeOK, Goto, rotVars, threadVars
<1>1. CASE RotateCommit
  <2>1. TypeOK'
    BY <1>1 DEF RotateCommit
  <2>2. HandleInv' /\ LockInv'
    BY <1>1 DEF RotateCommit, HandleInv, LockInv
  <2>3. WorkInv'
    BY <1>1 DEF RotateCommit, WorkInv
  <2>4. DropInv'
    BY <1>1 DEF RotateCommit, DropInv
  <2>5. NoLostWakeup'
    BY <1>1 DEF RotateCommit, NoLostWakeup
  <2> QED
    BY <2>1, <2>2, <2>3, <2>4, <2>5
<1>2. CASE RotateReopen
  <2>1. TypeOK'
    BY <1>2 DEF RotateReopen
  <2>2. HandleInv' /\ LockInv'
    BY <1>2 DEF RotateReopen, HandleInv, LockInv, Threads
  <2>3. WorkInv' /\ DropInv'
    BY <1>2 DEF RotateReopen, HandleInv, WorkInv, DropInv, Threads
  <2>4. NoLostWakeup'
    BY <1>2 DEF RotateReopen, HandleInv, NoLostWakeup, Threads
  <2> QED
    BY <2>1, <2>2, <2>3, <2>4
<1>3. CASE RotateReopenFails
  <2>1. TypeOK'
    BY <1>3 DEF RotateReopenFails
  <2>2. HandleInv' /\ LockInv'
    BY <1>3 DEF RotateReopenFails, HandleInv, LockInv, Threads
  <2>3. WorkInv' /\ DropInv'
    BY <1>3 DEF RotateReopenFails, HandleInv, WorkInv, DropInv, Threads
  <2>4. NoLostWakeup'
    BY <1>3 DEF RotateReopenFails, HandleInv, NoLostWakeup, Threads
  <2> QED
    BY <2>1, <2>2, <2>3, <2>4
<1>4. CASE RotateLoad
  <2>1. TypeOK'
    BY <1>4 DEF RotateLoad
  <2>2. HandleInv' /\ LockInv'
    BY <1>4 DEF RotateLoad, HandleInv, LockInv, Threads
  <2>3. WorkInv' /\ DropInv'
    BY <1>4 DEF RotateLoad, HandleInv, WorkInv, DropInv, Threads
  <2>4. NoLostWakeup'
    BY <1>4 DEF RotateLoad, HandleInv, NoLostWakeup, Threads
  <2> QED
    BY <2>1, <2>2, <2>3, <2>4
<1>5. CASE RotateStore
  <2>1. TypeOK'
    BY <1>5 DEF RotateStore
  <2>2. HandleInv' /\ LockInv'
    BY <1>5 DEF RotateStore, HandleInv, LockInv, Threads
  <2>3. WorkInv' /\ DropInv'
    BY <1>5 DEF RotateStore, HandleInv, WorkInv, DropInv, Threads
  <2>4. NoLostWakeup'
    BY <1>5 DEF RotateStore, HandleInv, NoLostWakeup, Threads
  <2> QED
    BY <2>1, <2>2, <2>3, <2>4
<1>6. CASE EnsureThread
  <2> USE <1>6 DEF EnsureThread, NeedRestart
  <2>1. CASE handle' = handle + 1 /\ Goto(handle + 1, "Lock") /\ NeedRestart
    <3> USE <2>1
    <3>1. handle' = handle + 1 /\ handle + 1 \in Threads /\ pc[handle] = "Finished"
      BY DEF DropInv, Threads
    <3>2. pc' = [pc EXCEPT ![handle + 1] = "Lock"] /\ pc[handle + 1] = "NotSpawned"
      BY <3>1 DEF HandleInv, Threads
    <3>3. TypeOK'
      BY <3>1, <3>2
    <3>4. HandleInv'
      BY <3>1, <3>2 DEF HandleInv, Threads
    <3>5. LockInv'
      BY <3>1, <3>2 DEF LockInv
    <3>6. WorkInv'
      BY <3>1, <3>2 DEF WorkInv
    <3>7. DropInv'
      BY <3>1, <3>2 DEF DropInv
    <3>8. NoLostWakeup'
      BY <3>1, <3>2 DEF NoLostWakeup
    <3> QED
      BY <3>3, <3>4, <3>5, <3>6, <3>7, <3>8
  <2>2. CASE UNCHANGED <<handle, pc>>
    BY <2>2 DEF HandleInv, LockInv, WorkInv, DropInv, NoLostWakeup
  <2> QED
    BY <2>1, <2>2
<1>7. CASE RotateNotify
  <2>1. TypeOK'
    BY <1>7 DEF RotateNotify, Notify
  <2>2. HandleInv' /\ LockInv'
    BY <1>7 DEF RotateNotify, Notify, HandleInv, LockInv, Threads
  <2>3. WorkInv' /\ DropInv'
    BY <1>7 DEF RotateNotify, Notify, HandleInv, WorkInv, DropInv, Threads
  <2>4. NoLostWakeup'
    BY <1>7 DEF RotateNotify, Notify, HandleInv, NoLostWakeup, Threads
  <2> QED
    BY <2>1, <2>2, <2>3, <2>4
<1>8. CASE DropSignal
  <2>1. TypeOK'
    BY <1>8 DEF DropSignal
  <2>2. HandleInv' /\ LockInv'
    BY <1>8 DEF DropSignal, HandleInv, LockInv, Threads
  <2>3. WorkInv' /\ DropInv'
    BY <1>8 DEF DropSignal, HandleInv, WorkInv, DropInv, Threads
  <2>4. NoLostWakeup'
    BY <1>8 DEF DropSignal, HandleInv, NoLostWakeup, Threads
  <2> QED
    BY <2>1, <2>2, <2>3, <2>4
<1>9. CASE DropNotify
  <2>1. TypeOK'
    BY <1>9 DEF DropNotify, Notify
  <2>2. HandleInv' /\ LockInv'
    BY <1>9 DEF DropNotify, Notify, HandleInv, LockInv, Threads
  <2>3. WorkInv' /\ DropInv'
    BY <1>9 DEF DropNotify, Notify, HandleInv, WorkInv, DropInv, Threads
  <2>4. NoLostWakeup'
    BY <1>9 DEF DropNotify, Notify, HandleInv, NoLostWakeup, Threads
  <2> QED
    BY <2>1, <2>2, <2>3, <2>4
<1>10. CASE DropJoin
  <2>1. TypeOK'
    BY <1>10 DEF DropJoin
  <2>2. HandleInv' /\ LockInv'
    BY <1>10 DEF DropJoin, HandleInv, LockInv, Threads
  <2>3. WorkInv' /\ DropInv'
    BY <1>10 DEF DropJoin, HandleInv, WorkInv, DropInv, Threads
  <2>4. NoLostWakeup'
    BY <1>10 DEF DropJoin, HandleInv, NoLostWakeup, Threads
  <2> QED
    BY <2>1, <2>2, <2>3, <2>4
<1> QED
  BY <1>1, <1>2, <1>3, <1>4, <1>5, <1>6, <1>7, <1>8, <1>9, <1>10 DEF OwnerStep, RotateRest, DropStep

\* The invariant is inductive.
LEMMA InvStep == Inv /\ [Next]_vars => Inv'
<1> SUFFICES ASSUME Inv, [Next]_vars PROVE Inv'
  OBVIOUS
<1>1. CASE UNCHANGED vars
  BY <1>1 DEF vars, threadVars, rotVars, Inv, TypeOK, HandleInv, LockInv, WorkInv, DropInv,
     NoLostWakeup, Threads, Levels
<1>2. ASSUME NEW t \in Threads, ThreadStep(t) \/ SpuriousWakeup(t) PROVE Inv'
  BY <1>2, LoopFact, WorkFact DEF ThreadStep, LoopStep, WorkStep
<1>3. CASE RotateCommit \/ RotateRest \/ DropSignal \/ DropStep
  BY <1>3, OwnerFact DEF OwnerStep
<1> QED
  BY <1>1, <1>2, <1>3 DEF Next, Stopped

LEMMA Invariant == Spec => []Inv
  BY InvInit, InvStep, PTL DEF Spec

\* The types of the compaction thread: the manifest never has fewer WALs than a flush
\* takes out of it, a compaction never takes data from an empty level, and no rotation
\* needs a thread more than MaxThreads.
THEOREM TypeCorrect == Spec => []TypeOK
<1>1. Inv => TypeOK
  BY DEF Inv
<1> QED
  BY <1>1, Invariant, PTL

\* ensure_compaction_thread never runs a second compaction thread, whatever panics, and
\* the manifest lock is held exactly in the critical section of the loop.
THEOREM AtMostOneThread == Spec => []OneThread
<1>1. Inv => OneThread
  BY ConstantsAssumption DEF Inv, TypeOK, HandleInv, LockInv, OneThread, Running, Threads
<1> QED
  BY <1>1, Invariant, PTL

\* A thread that sleeps while a flush is due is about to be notified by the rotation in
\* progress, or the last rotation failed after its commit.
THEOREM NoWakeupLost == Spec => []NoLostWakeup
<1>1. Inv => NoLostWakeup
  BY DEF Inv
<1> QED
  BY <1>1, Invariant, PTL
=============================================================================
