----------------------------- MODULE WritePath -----------------------------
(***************************************************************************)
(* The pipelined group commit of easy-lsm: the writer state machine of     *)
(* src/write_req.rs, driven by Db::write (src/lib.rs).                     *)
(*                                                                         *)
(* A member of Writers is one call of Db::put or Db::del on its own        *)
(* application thread.  Each action is one critical section of the code:   *)
(* what a thread does between taking a lock (write_sync or the `result`    *)
(* lock of one request) and releasing it, or a step that only the thread   *)
(* in its pipeline stage can take.  The key and the value of a request do  *)
(* not influence the control flow, so a request is just its writer.        *)
(*                                                                         *)
(* The WAL and memtable of DbVersion are kept per generation: rotation     *)
(* appends a new, empty pair.  A generation's WAL is the Wal object with   *)
(* its BufWriter; that next_wal_id stays the same and several generations  *)
(* append to one file is the subject of module Storage, as are the steps   *)
(* of rotate_memtable, which is one action here.                           *)
(***************************************************************************)
EXTENDS Naturals, Sequences, FiniteSets

CONSTANTS
    Writers,          \* the calls of Db::write
    MaxMemtableSize,  \* db.max_memtable_size, counted in entries
    StartLsn,         \* next_lsn computed by recover_state when the Db opens
    IoErrors          \* the operations that may fail: a subset of {"wal", "rotate"}

ASSUME ConstantsAssumption ==
    /\ IsFiniteSet(Writers)
    /\ MaxMemtableSize \in Nat \ {0}
    /\ StartLsn \in Nat \ {0}
    /\ IoErrors \subseteq {"wal", "rotate"}

VARIABLES
    \* WriteSyncs, guarded by the write_sync mutex
    write_queue,    \* the requests not yet drained into a group
    wal_busy,       \* a leader is in the WAL stage
    ticket_to_mem,  \* the ticket allowed into the memtable stage
    next_ticket,
    next_lsn,
    \* the requests
    result,         \* completion.result of each request
    \* the writer threads
    pc,             \* where each thread is
    group,          \* GroupGuard.reqs of a leader
    committed,      \* GroupGuard.committed_lsn is Some
    todo,           \* the members a leader's for_each has not visited yet
    ticket,         \* TicketGuard.ticket_num
    start,          \* batch_start_lsn
    version,        \* the generation of the DbVersion last loaded from db.current
    err,            \* the error a leader is propagating with `?`
    \* DbVersion, one entry per generation; the last one is current
    wals,           \* what was handed to the BufWriter of each WAL, in order
    flushed,        \* how much of it has reached the file
    mems            \* the entries of each memtable

syncVars  == <<write_queue, wal_busy, ticket_to_mem, next_ticket, next_lsn>>
groupVars == <<group, committed, todo, ticket, start, version, err>>
dataVars  == <<wals, flushed, mems>>
vars      == <<syncVars, result, pc, groupVars, dataVars>>

Entry == [req : Writers, lsn : Nat]

\* Threads blocked in Condvar::wait, by the condition variable they wait on.
Asleep == {"SeekAsleep", "FollowerAsleep", "WalAsleep", "MemAsleep"}

\* Inside the WAL stage: wal_busy was set by this leader and not yet cleared.
InWalStage == {"TakeTicket", "LeaderWritingWal", "AppendWal", "DropWalGuard"}

\* Inside the memtable stage, up to the drop of the TicketGuard.
InMemStage == {"LeaderWritingMemtable", "PutBatch", "CheckSize"}

PcValues ==
    {"WaitingToBeQueued", "CheckResult", "CheckFront", "CheckNone",
     "MarkFollowers", "LeaderWaitingToWriteWal",
     "LeaderWaitingToWriteMemtable", "DropTicket", "NotifyGroup",
     "FollowerWaitingCompletion", "Ok", "Err"}
    \cup Asleep \cup InWalStage \cup InMemStage

Finished(w) == pc[w] \in {"Ok", "Err"}

TypeOK ==
    /\ write_queue \in Seq(Writers)
    /\ wal_busy \in BOOLEAN
    /\ ticket_to_mem \in Nat
    /\ next_ticket \in Nat
    /\ next_lsn \in Nat
    /\ result \in [Writers -> {"none", "follower", "success", "error"}]
    /\ pc \in [Writers -> PcValues]
    /\ group \in [Writers -> Seq(Writers)]
    /\ committed \in [Writers -> BOOLEAN]
    /\ todo \in [Writers -> Seq(Writers)]
    /\ ticket \in [Writers -> Nat]
    /\ start \in [Writers -> Nat]
    /\ version \in [Writers -> 1 .. Len(wals)]
    /\ err \in [Writers -> {"none", "wal", "rotate"}]
    /\ wals \in Seq(Seq(Entry)) /\ wals # <<>>
    /\ flushed \in Seq(Nat) /\ Len(flushed) = Len(wals)
    /\ mems \in Seq(SUBSET Entry) /\ Len(mems) = Len(wals)

Init ==
    /\ write_queue = <<>>
    /\ wal_busy = FALSE
    /\ ticket_to_mem = 0
    /\ next_ticket = 0
    /\ next_lsn = StartLsn
    /\ result = [w \in Writers |-> "none"]
    /\ pc = [w \in Writers |-> "WaitingToBeQueued"]
    /\ group = [w \in Writers |-> <<>>]
    /\ committed = [w \in Writers |-> FALSE]
    /\ todo = [w \in Writers |-> <<>>]
    /\ ticket = [w \in Writers |-> 0]
    /\ start = [w \in Writers |-> 0]
    /\ version = [w \in Writers |-> 1]
    /\ err = [w \in Writers |-> "none"]
    /\ wals = << <<>> >>
    /\ flushed = <<0>>
    /\ mems = << {} >>
-----------------------------------------------------------------------------
(* Condition variables.  A woken thread re-runs the test of its loop. *)

Resume(label) ==
    IF label = "SeekAsleep" THEN "CheckResult"
    ELSE IF label = "FollowerAsleep" THEN "FollowerWaitingCompletion"
    ELSE IF label = "WalAsleep" THEN "LeaderWaitingToWriteWal"
    ELSE "LeaderWaitingToWriteMemtable"

\* completion.condvar.notify_all(): only the request's own writer waits on it.
NotifyRequest(p, r) ==
    IF p[r] \in {"SeekAsleep", "FollowerAsleep"}
    THEN [p EXCEPT ![r] = Resume(p[r])] ELSE p

\* wal_cv.notify_all() and mem_cv.notify_all().
NotifyAll(p, label) ==
    [v \in Writers |-> IF p[v] = label THEN Resume(label) ELSE p[v]]

\* std::sync::Condvar allows a wait to return without a notification.
SpuriousWakeup(w) ==
    /\ pc[w] \in Asleep
    /\ pc' = [pc EXCEPT ![w] = Resume(pc[w])]
    /\ UNCHANGED <<syncVars, result, groupVars, dataVars>>
-----------------------------------------------------------------------------
(* Queueing and group formation. *)

\* Writer<WaitingToBeQueued>::step
Enqueue(w) ==
    /\ pc[w] = "WaitingToBeQueued"
    /\ write_queue' = Append(write_queue, w)
    /\ pc' = [pc EXCEPT ![w] = "CheckResult"]
    /\ UNCHANGED <<wal_busy, ticket_to_mem, next_ticket, next_lsn, result,
                   groupVars, dataVars>>

\* Mutant: any completion, also "you are a follower", ends the write.
CheckResult_anyCompletion(w) ==
    /\ pc[w] = "CheckResult"
    /\ result' = [result EXCEPT ![w] = "none"]
    /\ \/ result[w] = "none" /\ pc' = [pc EXCEPT ![w] = "CheckFront"]
       \/ result[w] \in {"follower", "success"} /\ pc' = [pc EXCEPT ![w] = "Ok"]
       \/ result[w] = "error" /\ pc' = [pc EXCEPT ![w] = "Err"]
    /\ UNCHANGED <<syncVars, groupVars, dataVars>>

\* Writer<SeekingMembership>::step, first critical section of the loop:
\* take the completion result, if there is one.
CheckResult(w) ==
    /\ pc[w] = "CheckResult"
    /\ result' = [result EXCEPT ![w] = "none"]
    /\ \/ result[w] = "none" /\ pc' = [pc EXCEPT ![w] = "CheckFront"]
       \/ result[w] = "follower" /\ pc' = [pc EXCEPT ![w] = "FollowerWaitingCompletion"]
       \/ result[w] = "success" /\ pc' = [pc EXCEPT ![w] = "Ok"]
       \/ result[w] = "error" /\ pc' = [pc EXCEPT ![w] = "Err"]
    /\ UNCHANGED <<syncVars, groupVars, dataVars>>

\* Mutant: only the leader's own request is removed from the queue.
BecomeLeader_popsFront(w) ==
    /\ pc[w] = "CheckFront"
    /\ write_queue # <<>> /\ Head(write_queue) = w
    /\ group' = [group EXCEPT ![w] = write_queue]
    /\ todo' = [todo EXCEPT ![w] = write_queue]
    /\ write_queue' = Tail(write_queue)
    /\ pc' = [pc EXCEPT ![w] = "MarkFollowers"]
    /\ UNCHANGED <<wal_busy, ticket_to_mem, next_ticket, next_lsn, result,
                   committed, ticket, start, version, err, dataVars>>

\* Second critical section: at the head of the queue, form_write_group drains
\* all of it; otherwise the writer is about to wait.
BecomeLeader(w) ==
    /\ pc[w] = "CheckFront"
    /\ write_queue # <<>> /\ Head(write_queue) = w
    /\ group' = [group EXCEPT ![w] = write_queue]
    /\ todo' = [todo EXCEPT ![w] = write_queue]
    /\ write_queue' = <<>>
    /\ pc' = [pc EXCEPT ![w] = "MarkFollowers"]
    /\ UNCHANGED <<wal_busy, ticket_to_mem, next_ticket, next_lsn, result,
                   committed, ticket, start, version, err, dataVars>>

NotAtFront(w) ==
    /\ pc[w] = "CheckFront"
    /\ ~ (write_queue # <<>> /\ Head(write_queue) = w)
    /\ pc' = [pc EXCEPT ![w] = "CheckNone"]
    /\ UNCHANGED <<syncVars, result, groupVars, dataVars>>

\* Mutant: wait without looking at the result again.
WaitForMembership_noRecheck(w) ==
    /\ pc[w] = "CheckNone"
    /\ pc' = [pc EXCEPT ![w] = "SeekAsleep"]
    /\ UNCHANGED <<syncVars, result, groupVars, dataVars>>

\* Third critical section: sleep only if no result arrived in the meantime.
WaitForMembership(w) ==
    /\ pc[w] = "CheckNone"
    /\ pc' = [pc EXCEPT ![w] = IF result[w] = "none" THEN "SeekAsleep"
                                                     ELSE "CheckResult"]
    /\ UNCHANGED <<syncVars, result, groupVars, dataVars>>

\* The new leader tells one member after the other, itself included, that it
\* is a follower.  write_sync is no longer held.
MarkFollower(w) ==
    LET r == Head(todo[w]) IN
    /\ pc[w] = "MarkFollowers"
    /\ result' = [result EXCEPT ![r] = "follower"]
    /\ todo' = [todo EXCEPT ![w] = Tail(todo[w])]
    /\ pc' = [NotifyRequest(pc, r) EXCEPT ![w] =
                IF Len(todo[w]) = 1 THEN "LeaderWaitingToWriteWal" ELSE "MarkFollowers"]
    /\ UNCHANGED <<syncVars, group, committed, ticket, start, version, err, dataVars>>

\* Writer<FollowerWaitingCompletion>::step
FollowerStep(w) ==
    /\ pc[w] = "FollowerWaitingCompletion"
    /\ result' = [result EXCEPT ![w] = "none"]
    /\ \/ result[w] = "success" /\ pc' = [pc EXCEPT ![w] = "Ok"]
       \/ result[w] = "error" /\ pc' = [pc EXCEPT ![w] = "Err"]
       \/ result[w] \in {"none", "follower"}
          /\ pc' = [pc EXCEPT ![w] = IF result[w] = "none" THEN "FollowerAsleep" ELSE pc[w]]
    /\ UNCHANGED <<syncVars, groupVars, dataVars>>
-----------------------------------------------------------------------------
(* The WAL stage. *)

\* Mutant: the flag is set but not tested.
EnterWalStage_noBusyCheck(w) ==
    /\ pc[w] = "LeaderWaitingToWriteWal"
    /\ wal_busy' = TRUE
    /\ pc' = [pc EXCEPT ![w] = "TakeTicket"]
    /\ UNCHANGED <<write_queue, ticket_to_mem, next_ticket, next_lsn, result,
                   groupVars, dataVars>>

\* Writer<LeaderWaitingToWriteWal>::step
EnterWalStage(w) ==
    /\ pc[w] = "LeaderWaitingToWriteWal"
    /\ wal_busy' = TRUE
    /\ pc' = [pc EXCEPT ![w] = IF wal_busy THEN "WalAsleep" ELSE "TakeTicket"]
    /\ UNCHANGED <<write_queue, ticket_to_mem, next_ticket, next_lsn, result,
                   groupVars, dataVars>>

\* Mutant: one LSN for the whole group.
TakeTicket_oneLsn(w) ==
    /\ pc[w] = "TakeTicket"
    /\ ticket' = [ticket EXCEPT ![w] = next_ticket]
    /\ next_ticket' = next_ticket + 1
    /\ start' = [start EXCEPT ![w] = next_lsn]
    /\ next_lsn' = next_lsn + 1
    /\ pc' = [pc EXCEPT ![w] = "LeaderWritingWal"]
    /\ UNCHANGED <<write_queue, wal_busy, ticket_to_mem, result, group,
                   committed, todo, version, err, dataVars>>

\* Mutant: next_ticket is not advanced.
TakeTicket_sameTicket(w) ==
    /\ pc[w] = "TakeTicket"
    /\ ticket' = [ticket EXCEPT ![w] = next_ticket]
    /\ next_ticket' = next_ticket
    /\ start' = [start EXCEPT ![w] = next_lsn]
    /\ next_lsn' = next_lsn + Len(group[w])
    /\ pc' = [pc EXCEPT ![w] = "LeaderWritingWal"]
    /\ UNCHANGED <<write_queue, wal_busy, ticket_to_mem, result, group,
                   committed, todo, version, err, dataVars>>

\* Writer<LeaderWritingWal>::step, the block under write_sync.
TakeTicket(w) ==
    /\ pc[w] = "TakeTicket"
    /\ ticket' = [ticket EXCEPT ![w] = next_ticket]
    /\ next_ticket' = next_ticket + 1
    /\ start' = [start EXCEPT ![w] = next_lsn]
    /\ next_lsn' = next_lsn + Len(group[w])
    /\ pc' = [pc EXCEPT ![w] = "LeaderWritingWal"]
    /\ UNCHANGED <<write_queue, wal_busy, ticket_to_mem, result, group,
                   committed, todo, version, err, dataVars>>

\* The entries of a group, with the LSNs update_lsn stores in their keys.
Batch(w) ==
    [i \in 1 .. Len(group[w]) |-> [req |-> group[w][i], lsn |-> (start[w] + i) - 1]]

\* db.write_wal: the WAL of the version loaded here is the one written to,
\* even if another leader rotates before the write.
LoadWal(w) ==
    /\ pc[w] = "LeaderWritingWal"
    /\ version' = [version EXCEPT ![w] = Len(wals)]
    /\ pc' = [pc EXCEPT ![w] = "AppendWal"]
    /\ UNCHANGED <<syncVars, result, group, committed, todo, ticket, start, err,
                   dataVars>>

\* Mutant: the BufWriter is not flushed.
WriteWal_noFlush(w) ==
    LET g == version[w] IN
    /\ pc[w] = "AppendWal"
    /\ wals' = [wals EXCEPT ![g] = wals[g] \o Batch(w)]
    /\ committed' = [committed EXCEPT ![w] = TRUE]
    /\ pc' = [pc EXCEPT ![w] = "DropWalGuard"]
    /\ UNCHANGED <<syncVars, result, group, todo, ticket, start, version, err, flushed,
                   mems>>

\* Wal::write succeeds: everything in the BufWriter is flushed and fsynced.
WriteWal(w) ==
    LET g == version[w] IN
    /\ pc[w] = "AppendWal"
    /\ wals' = [wals EXCEPT ![g] = wals[g] \o Batch(w)]
    /\ flushed' = [flushed EXCEPT ![g] = Len(wals[g]) + Len(group[w])]
    /\ committed' = [committed EXCEPT ![w] = TRUE]
    /\ pc' = [pc EXCEPT ![w] = "DropWalGuard"]
    /\ UNCHANGED <<syncVars, result, group, todo, ticket, start, version, err, mems>>

\* Mutant: the error is dropped, the group goes on uncommitted.
WriteWalFails_ignored(w) ==
    LET g == version[w] IN
    /\ pc[w] = "AppendWal"
    /\ "wal" \in IoErrors
    /\ \E n \in 0 .. Len(group[w]) :
         /\ wals' = [wals EXCEPT ![g] = wals[g] \o SubSeq(Batch(w), 1, n)]
         /\ \E f \in flushed[g] .. (Len(wals[g]) + n) :
              flushed' = [flushed EXCEPT ![g] = f]
    /\ pc' = [pc EXCEPT ![w] = "DropWalGuard"]
    /\ UNCHANGED <<syncVars, result, group, committed, todo, ticket, start, version,
                   err, mems>>

\* Wal::write fails: write_all stops after n entries, or flush or sync_all
\* reports an error after f entries have reached the file.  The BufWriter keeps
\* the rest and writes it with the next group.  (Entries are not torn here.)
WriteWalFails(w) ==
    LET g == version[w] IN
    /\ pc[w] = "AppendWal"
    /\ "wal" \in IoErrors
    /\ \E n \in 0 .. Len(group[w]) :
         /\ wals' = [wals EXCEPT ![g] = wals[g] \o SubSeq(Batch(w), 1, n)]
         /\ \E f \in flushed[g] .. (Len(wals[g]) + n) :
              flushed' = [flushed EXCEPT ![g] = f]
    /\ err' = [err EXCEPT ![w] = "wal"]
    /\ pc' = [pc EXCEPT ![w] = "DropWalGuard"]
    /\ UNCHANGED <<syncVars, result, group, committed, todo, ticket, start, version,
                   mems>>

\* Mutant: the memtable stage follows a failed WAL write.
DropWalGuard_ignoresError(w) ==
    /\ pc[w] = "DropWalGuard"
    /\ wal_busy' = FALSE
    /\ pc' = [NotifyAll(pc, "WalAsleep") EXCEPT ![w] =
                "LeaderWaitingToWriteMemtable"]
    /\ UNCHANGED <<write_queue, ticket_to_mem, next_ticket, next_lsn, result,
                   groupVars, dataVars>>

\* WalGuard::drop.  After an error the TicketGuard is the next to be dropped.
DropWalGuard(w) ==
    /\ pc[w] = "DropWalGuard"
    /\ wal_busy' = FALSE
    /\ pc' = [NotifyAll(pc, "WalAsleep") EXCEPT ![w] =
                IF err[w] = "none" THEN "LeaderWaitingToWriteMemtable" ELSE "DropTicket"]
    /\ UNCHANGED <<write_queue, ticket_to_mem, next_ticket, next_lsn, result,
                   groupVars, dataVars>>
-----------------------------------------------------------------------------
(* The memtable stage and the end of a group. *)

\* Mutant: a ticket that is not yet due is let in.
EnterMemStage_anyLaterTicket(w) ==
    /\ pc[w] = "LeaderWaitingToWriteMemtable"
    /\ pc' = [pc EXCEPT ![w] = IF ticket_to_mem <= ticket[w]
                               THEN "LeaderWritingMemtable" ELSE "MemAsleep"]
    /\ UNCHANGED <<syncVars, result, groupVars, dataVars>>

\* Writer<LeaderWaitingToWriteMemtable>::step
EnterMemStage(w) ==
    /\ pc[w] = "LeaderWaitingToWriteMemtable"
    /\ pc' = [pc EXCEPT ![w] = IF ticket_to_mem = ticket[w]
                               THEN "LeaderWritingMemtable" ELSE "MemAsleep"]
    /\ UNCHANGED <<syncVars, result, groupVars, dataVars>>

\* Writer<LeaderWritingMemtable>::step: db.write_memtable loads db.current again,
\* then put_batch inserts into the memtable of the version it loaded.
LoadMemtable(w) ==
    /\ pc[w] = "LeaderWritingMemtable"
    /\ version' = [version EXCEPT ![w] = Len(mems)]
    /\ pc' = [pc EXCEPT ![w] = "PutBatch"]
    /\ UNCHANGED <<syncVars, result, group, committed, todo, ticket, start, err,
                   dataVars>>

WriteMemtable(w) ==
    LET g == version[w] IN
    /\ pc[w] = "PutBatch"
    /\ mems' = [mems EXCEPT ![g] = mems[g] \cup {Batch(w)[i] : i \in 1 .. Len(group[w])}]
    /\ pc' = [pc EXCEPT ![w] = "CheckSize"]
    /\ UNCHANGED <<syncVars, result, groupVars, wals, flushed>>

MemtableIsFull == Cardinality(mems[Len(mems)]) >= MaxMemtableSize

\* The rest of the step: no rotation, a rotation, or a rotation that fails.
KeepMemtable(w) ==
    /\ pc[w] = "CheckSize"
    /\ ~ MemtableIsFull
    /\ pc' = [pc EXCEPT ![w] = "DropTicket"]
    /\ UNCHANGED <<syncVars, result, groupVars, dataVars>>

\* Mutant: the new memtable goes with the old WAL.
RotateMemtable_keepsWal(w) ==
    /\ pc[w] = "CheckSize"
    /\ MemtableIsFull
    /\ mems' = Append(mems, {})
    /\ pc' = [pc EXCEPT ![w] = "DropTicket"]
    /\ UNCHANGED <<syncVars, result, groupVars, wals, flushed>>

RotateMemtable(w) ==
    /\ pc[w] = "CheckSize"
    /\ MemtableIsFull
    /\ wals' = Append(wals, <<>>)
    /\ flushed' = Append(flushed, 0)
    /\ mems' = Append(mems, {})
    /\ pc' = [pc EXCEPT ![w] = "DropTicket"]
    /\ UNCHANGED <<syncVars, result, groupVars>>

\* `?` returns the error; the GroupGuard is dropped before the TicketGuard.
RotateFails(w) ==
    /\ pc[w] = "CheckSize"
    /\ MemtableIsFull
    /\ "rotate" \in IoErrors
    /\ err' = [err EXCEPT ![w] = "rotate"]
    /\ todo' = [todo EXCEPT ![w] = group[w]]
    /\ pc' = [pc EXCEPT ![w] = "NotifyGroup"]
    /\ UNCHANGED <<syncVars, result, group, committed, ticket, start, version,
                   dataVars>>

\* TicketGuard::drop: the increment does not look at ticket_num.
DropTicket(w) ==
    /\ pc[w] = "DropTicket"
    /\ ticket_to_mem' = ticket_to_mem + 1
    /\ todo' = [todo EXCEPT ![w] = group[w]]
    /\ pc' = [NotifyAll(pc, "MemAsleep") EXCEPT ![w] =
                IF err[w] = "rotate" THEN "Err" ELSE "NotifyGroup"]
    /\ UNCHANGED <<write_queue, wal_busy, next_ticket, next_lsn, result,
                   group, committed, ticket, start, version, err, dataVars>>

\* What the leader does once its group is notified: return, or still drop the
\* TicketGuard if the rotation failed.
AfterNotify(w) ==
    IF err[w] = "none" THEN "Ok" ELSE IF err[w] = "wal" THEN "Err" ELSE "DropTicket"

\* GroupGuard::drop, one member at a time.
NotifyMember(w) ==
    LET r == Head(todo[w]) IN
    /\ pc[w] = "NotifyGroup"
    /\ result' = [result EXCEPT ![r] = IF committed[w] THEN "success" ELSE "error"]
    /\ todo' = [todo EXCEPT ![w] = Tail(todo[w])]
    /\ pc' = [NotifyRequest(pc, r) EXCEPT ![w] =
                IF Len(todo[w]) > 1 THEN "NotifyGroup" ELSE AfterNotify(w)]
    /\ UNCHANGED <<syncVars, group, committed, ticket, start, version, err, dataVars>>
-----------------------------------------------------------------------------
\* Everything a running thread does by itself.
Step(w) ==
    \/ Enqueue(w) \/ CheckResult(w) \/ BecomeLeader(w) \/ NotAtFront(w)
    \/ WaitForMembership(w) \/ MarkFollower(w) \/ FollowerStep(w)
    \/ EnterWalStage(w) \/ TakeTicket(w) \/ LoadWal(w) \/ WriteWal(w)
    \/ WriteWalFails(w) \/ DropWalGuard(w) \/ EnterMemStage(w) \/ LoadMemtable(w)
    \/ WriteMemtable(w) \/ KeepMemtable(w) \/ RotateMemtable(w) \/ RotateFails(w)
    \/ DropTicket(w) \/ NotifyMember(w)

Terminated == (\A w \in Writers : Finished(w)) /\ UNCHANGED vars

Next == (\E w \in Writers : Step(w) \/ SpuriousWakeup(w)) \/ Terminated

Spec == Init /\ [][Next]_vars

\* The operating system runs every runnable thread eventually.
FairSpec == Spec /\ \A w \in Writers : WF_vars(Step(w))
-----------------------------------------------------------------------------
(* Properties. *)

Generations == 1 .. Len(wals)

\* The requests whose entry has reached the file of some WAL, and those whose
\* entry is in some memtable.
Durable(r) == \E g \in Generations : \E i \in 1 .. flushed[g] : wals[g][i].req = r
Visible(r) == \E g \in Generations : \E e \in mems[g] : e.req = r

\* "only one writer can be in this state at a time" (LeaderWritingWal): wal_busy
\* is set exactly while one leader is between EnterWalStage and the drop of its
\* WalGuard, also when the write fails and the guard is dropped by `?`.
WalExclusive ==
    /\ \A v, w \in Writers : pc[v] \in InWalStage /\ pc[w] \in InWalStage => v = w
    /\ wal_busy <=> \E w \in Writers : pc[w] \in InWalStage

\* LSNs increase strictly along each WAL and from each WAL to the next, across
\* groups, rotations and failed writes; so recovery, which takes the LSN of the
\* last entry it replays, never sees an older entry after a newer one.
WalOrdered ==
    \A g, h \in Generations :
      \A i \in DOMAIN wals[g], j \in DOMAIN wals[h] :
        g < h \/ (g = h /\ i < j) => wals[g][i].lsn < wals[h][j].lsn

\* When Db::write returns Ok to any member of a group, leader or follower, its
\* entry has been flushed and fsynced to a WAL.
AckedDurable == \A w \in Writers : pc[w] = "Ok" => Durable(w)

\* When Db::write returns Ok the entry is in a memtable: the caller reads its
\* own write.
AckedVisible == \A w \in Writers : pc[w] = "Ok" => Visible(w)

\* A write that returns an error is not in any memtable, unless it is the leader
\* whose own rotation failed after put_batch.
FailedNotVisible ==
    \A w \in Writers : pc[w] = "Err" /\ err[w] # "rotate" => ~ Visible(w)

\* A request is logged at most once, although it can be drained by any leader
\* while its own thread is still looking for a group.
LoggedOnce ==
    \A g, h \in Generations :
      \A i \in DOMAIN wals[g], j \in DOMAIN wals[h] :
        wals[g][i].req = wals[h][j].req => g = h /\ i = j

\* A memtable holds nothing that is logged in a WAL younger than its own, so the
\* WALs from its generation down suffice to rebuild it.
BackedByOlderWal ==
    \A g \in Generations : \A e \in mems[g] :
      \E h \in 1 .. g : \E i \in 1 .. flushed[h] : wals[h][i] = e

\* "no two leader can be writing to the memtable at the same time"
\* (LeaderWritingMemtable).
MemExclusive ==
    \A v, w \in Writers : pc[v] \in InMemStage /\ pc[w] \in InMemStage => v = w

\* "The write to memtable happens in the same order as the write to WAL"
\* (LeaderWaitingToWriteMemtable): no group is in a memtable while a group logged
\* successfully before it is not.
MemtableFollowsWalOrder ==
    \A v, w \in Writers :
      committed[v] /\ committed[w] /\ start[v] < start[w] /\ Visible(w) => Visible(v)

\* Every call of Db::write returns: no notification of a condition variable is
\* lost, and the memtable stage is passed on from ticket to ticket.
AllWritesReturn == \A w \in Writers : <>Finished(w)
=============================================================================
