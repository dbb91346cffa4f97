-------------------------- MODULE WritePathProofs --------------------------
(***************************************************************************)
(* Proofs about the write path, for any finite set of writers, any         *)
(* memtable size and any combination of I/O errors.                        *)
(***************************************************************************)
EXTENDS WritePath, SequenceTheorems, TLAPS

(* The stages of a call of Db::write, closed under wakeups. *)
Seeking == {"WaitingToBeQueued", "CheckResult", "CheckFront", "CheckNone", "SeekAsleep"}
Unlogged == {"MarkFollowers", "LeaderWaitingToWriteWal", "WalAsleep",
             "TakeTicket", "LeaderWritingWal", "AppendWal"}
WaitingForMem == {"LeaderWaitingToWriteMemtable", "MemAsleep"}
Leading == Unlogged \cup {"DropWalGuard"} \cup WaitingForMem \cup InMemStage
           \cup {"DropTicket", "NotifyGroup"}

\* A leader is the first member of its group, and visits only its members.
GroupInv ==
    \A w \in Writers :
      /\ pc[w] \in Leading => group[w] # <<>> /\ group[w][1] = w
      /\ pc[w] \in {"MarkFollowers", "NotifyGroup"} =>
           /\ todo[w] # <<>>
           /\ \A i \in DOMAIN todo[w] : \E j \in DOMAIN group[w] : todo[w][i] = group[w][j]

\* Between two LSN reservations the leader in the WAL stage is the only one to
\* log, above everything logged so far and into the youngest WAL with entries.
LsnInv ==
    /\ \A g \in Generations : \A i \in DOMAIN wals[g] : wals[g][i].lsn < next_lsn
    /\ \A w \in Writers : pc[w] \in {"LeaderWritingWal", "AppendWal"} =>
         /\ start[w] + Len(group[w]) <= next_lsn
         /\ \A g \in Generations : \A i \in DOMAIN wals[g] : wals[g][i].lsn < start[w]
    /\ \A w \in Writers : pc[w] = "AppendWal" =>
         \A g \in Generations : version[w] < g => wals[g] = <<>>

FlushInv == \A g \in Generations : flushed[g] <= Len(wals[g])

\* What the leader knows about its write, by stage.
OutcomeInv ==
    \A w \in Writers :
      /\ pc[w] \in Seeking \cup Unlogged => ~ committed[w] /\ err[w] = "none"
      /\ pc[w] \in WaitingForMem \cup InMemStage => committed[w] /\ err[w] = "none"
      /\ pc[w] \in {"DropWalGuard", "DropTicket", "NotifyGroup"} =>
           (committed[w] <=> err[w] # "wal")
      /\ pc[w] = "DropWalGuard" => err[w] # "rotate"

\* A committed group is durable, and visible once put_batch has returned.
CommitInv ==
    \A w \in Writers : committed[w] =>
      \A i \in DOMAIN group[w] :
        /\ Durable(group[w][i])
        /\ pc[w] \in {"CheckSize", "DropTicket", "NotifyGroup"} => Visible(group[w][i])

\* A success is only ever announced for a durable and visible request.
AckInv ==
    \A w \in Writers :
      result[w] = "success" \/ pc[w] = "Ok" => Durable(w) /\ Visible(w)
-----------------------------------------------------------------------------
(* Condition variables move only sleepers. *)

\* Waking threads keeps pc a function into PcValues, and the only threads it
\* moves are sleepers, which go back to the head of their loop.
LEMMA NotifyRequestFact ==
    ASSUME NEW p \in [Writers -> PcValues], NEW r
    PROVE  /\ NotifyRequest(p, r) \in [Writers -> PcValues]
           /\ \A v \in Writers :
                \/ NotifyRequest(p, r)[v] = p[v]
                \/ p[v] = "SeekAsleep" /\ NotifyRequest(p, r)[v] = "CheckResult"
                \/ p[v] = "FollowerAsleep"
                   /\ NotifyRequest(p, r)[v] = "FollowerWaitingCompletion"
  BY DEF NotifyRequest, Resume, PcValues, Asleep

\* wal_cv.notify_all() only moves the leaders that sleep before the WAL stage.
LEMMA NotifyWalFact ==
    ASSUME NEW p \in [Writers -> PcValues]
    PROVE  /\ NotifyAll(p, "WalAsleep") \in [Writers -> PcValues]
           /\ \A v \in Writers :
                \/ NotifyAll(p, "WalAsleep")[v] = p[v]
                \/ p[v] = "WalAsleep"
                   /\ NotifyAll(p, "WalAsleep")[v] = "LeaderWaitingToWriteWal"
  BY DEF NotifyAll, Resume, PcValues, Asleep

\* mem_cv.notify_all() only moves the leaders that sleep before the memtable stage.
LEMMA NotifyMemFact ==
    ASSUME NEW p \in [Writers -> PcValues]
    PROVE  /\ NotifyAll(p, "MemAsleep") \in [Writers -> PcValues]
           /\ \A v \in Writers :
                \/ NotifyAll(p, "MemAsleep")[v] = p[v]
                \/ p[v] = "MemAsleep"
                   /\ NotifyAll(p, "MemAsleep")[v] = "LeaderWaitingToWriteMemtable"
  BY DEF NotifyAll, Resume, PcValues, Asleep

\* v stays where it is, or a notification sends it back to the head of its loop.
Woken(v) ==
    \/ pc'[v] = pc[v]
    \/ pc[v] = "SeekAsleep" /\ pc'[v] = "CheckResult"
    \/ pc[v] = "FollowerAsleep" /\ pc'[v] = "FollowerWaitingCompletion"
    \/ pc[v] = "WalAsleep" /\ pc'[v] = "LeaderWaitingToWriteWal"
    \/ pc[v] = "MemAsleep" /\ pc'[v] = "LeaderWaitingToWriteMemtable"

\* A step moves its own thread; every other thread is at most woken.
LEMMA PcStep ==
    ASSUME TypeOK, NEW w \in Writers, Step(w) \/ SpuriousWakeup(w)
    PROVE  /\ pc' \in [Writers -> PcValues]
           /\ \A v \in Writers \ {w} : Woken(v)
<1> USE DEF TypeOK
<1>1. CASE SpuriousWakeup(w)
  BY <1>1 DEF SpuriousWakeup, Resume, Asleep, PcValues, Woken
<1>2. CASE Enqueue(w) \/ CheckResult(w) \/ BecomeLeader(w) \/ NotAtFront(w)
           \/ WaitForMembership(w) \/ FollowerStep(w) \/ EnterWalStage(w)
  BY <1>2 DEF Enqueue, CheckResult, BecomeLeader, NotAtFront, WaitForMembership,
              FollowerStep, EnterWalStage, PcValues, Asleep, InWalStage, Woken
<1>3. CASE TakeTicket(w) \/ LoadWal(w) \/ WriteWal(w) \/ WriteWalFails(w)
           \/ EnterMemStage(w) \/ LoadMemtable(w) \/ WriteMemtable(w)
           \/ KeepMemtable(w) \/ RotateMemtable(w) \/ RotateFails(w)
  BY <1>3 DEF TakeTicket, LoadWal, WriteWal, WriteWalFails, EnterMemStage,
              LoadMemtable, WriteMemtable, KeepMemtable, RotateMemtable, RotateFails,
              PcValues, Asleep, InWalStage, InMemStage, Woken
<1>4. CASE MarkFollower(w)
  <2> DEFINE q == NotifyRequest(pc, Head(todo[w]))
  <2>1. /\ q \in [Writers -> PcValues]
        /\ \A v \in Writers :
             \/ q[v] = pc[v]
             \/ pc[v] = "SeekAsleep" /\ q[v] = "CheckResult"
             \/ pc[v] = "FollowerAsleep" /\ q[v] = "FollowerWaitingCompletion"
    BY NotifyRequestFact
  <2>2. \E l \in PcValues : pc' = [q EXCEPT ![w] = l]
    BY <1>4 DEF MarkFollower, PcValues
  <2> HIDE DEF q
  <2> QED
    BY <2>1, <2>2 DEF Woken
<1>5. CASE DropWalGuard(w)
  <2> DEFINE q == NotifyAll(pc, "WalAsleep")
  <2>1. /\ q \in [Writers -> PcValues]
        /\ \A v \in Writers :
             \/ q[v] = pc[v]
             \/ pc[v] = "WalAsleep" /\ q[v] = "LeaderWaitingToWriteWal"
    BY NotifyWalFact
  <2>2. \E l \in PcValues : pc' = [q EXCEPT ![w] = l]
    BY <1>5 DEF DropWalGuard, PcValues
  <2> HIDE DEF q
  <2> QED
    BY <2>1, <2>2 DEF Woken
<1>6. CASE DropTicket(w)
  <2> DEFINE q == NotifyAll(pc, "MemAsleep")
  <2>1. /\ q \in [Writers -> PcValues]
        /\ \A v \in Writers :
             \/ q[v] = pc[v]
             \/ pc[v] = "MemAsleep" /\ q[v] = "LeaderWaitingToWriteMemtable"
    BY NotifyMemFact
  <2>2. \E l \in PcValues : pc' = [q EXCEPT ![w] = l]
    BY <1>6 DEF DropTicket, PcValues
  <2> HIDE DEF q
  <2> QED
    BY <2>1, <2>2 DEF Woken
<1>7. CASE NotifyMember(w)
  <2> DEFINE q == NotifyRequest(pc, Head(todo[w]))
  <2>1. /\ q \in [Writers -> PcValues]
        /\ \A v \in Writers :
             \/ q[v] = pc[v]
             \/ pc[v] = "SeekAsleep" /\ q[v] = "CheckResult"
             \/ pc[v] = "FollowerAsleep" /\ q[v] = "FollowerWaitingCompletion"
    BY NotifyRequestFact
  <2>2. \E l \in PcValues : pc' = [q EXCEPT ![w] = l]
    BY <1>7 DEF NotifyMember, AfterNotify, PcValues
  <2> HIDE DEF q
  <2> QED
    BY <2>1, <2>2 DEF Woken
<1> QED
  BY <1>1, <1>2, <1>3, <1>4, <1>5, <1>6, <1>7 DEF Step

\* Where the steps that notify others leave their own thread.
LEMMA OwnPc ==
    ASSUME TypeOK, NEW w \in Writers
    PROVE  /\ MarkFollower(w) =>
                pc'[w] = IF Len(todo[w]) = 1 THEN "LeaderWaitingToWriteWal" ELSE "MarkFollowers"
           /\ DropWalGuard(w) =>
                pc'[w] = IF err[w] = "none" THEN "LeaderWaitingToWriteMemtable" ELSE "DropTicket"
           /\ DropTicket(w) => pc'[w] = IF err[w] = "rotate" THEN "Err" ELSE "NotifyGroup"
           /\ NotifyMember(w) =>
                pc'[w] = IF Len(todo[w]) > 1 THEN "NotifyGroup" ELSE AfterNotify(w)
<1> DEFINE q == NotifyRequest(pc, Head(todo[w]))
<1>1. q \in [Writers -> PcValues]
  BY NotifyRequestFact DEF TypeOK
<1>2. /\ NotifyAll(pc, "WalAsleep") \in [Writers -> PcValues]
      /\ NotifyAll(pc, "MemAsleep") \in [Writers -> PcValues]
  BY NotifyWalFact, NotifyMemFact DEF TypeOK
<1>3. /\ MarkFollower(w) =>
           pc' = [q EXCEPT ![w] = IF Len(todo[w]) = 1 THEN "LeaderWaitingToWriteWal"
                                                      ELSE "MarkFollowers"]
      /\ NotifyMember(w) =>
           pc' = [q EXCEPT ![w] = IF Len(todo[w]) > 1 THEN "NotifyGroup" ELSE AfterNotify(w)]
  BY DEF MarkFollower, NotifyMember
<1> HIDE DEF q
<1> QED
  BY <1>1, <1>2, <1>3 DEF DropWalGuard, DropTicket
-----------------------------------------------------------------------------
(* What the steps that log, apply or rotate do to the data. *)

\* What TypeOK says about the WAL a writer has loaded.
LEMMA LoadedWal ==
    ASSUME TypeOK, NEW w \in Writers
    PROVE  /\ version[w] \in 1 .. Len(wals) /\ Len(wals) \in Nat /\ Len(group[w]) \in Nat
           /\ wals[version[w]] \in Seq(Entry) /\ Len(wals[version[w]]) \in Nat
           /\ flushed[version[w]] \in Nat
<1>1. /\ version[w] \in 1 .. Len(wals) /\ wals \in Seq(Seq(Entry)) /\ group[w] \in Seq(Writers)
      /\ flushed \in Seq(Nat) /\ Len(flushed) = Len(wals)
  BY DEF TypeOK
<1> QED
  BY <1>1, ElementOfSeq, LenProperties

\* The batch of a leader is a sequence of entries, one per member of its group.
LEMMA BatchFact ==
    ASSUME TypeOK, NEW w \in Writers
    PROVE  /\ Batch(w) \in Seq(Entry)
           /\ Len(Batch(w)) = Len(group[w])
           /\ \A i \in 1 .. Len(group[w]) :
                /\ Batch(w)[i] \in Entry
                /\ Batch(w)[i].req = group[w][i]
                /\ Batch(w)[i].lsn = (start[w] + i) - 1
<1>1. /\ group[w] \in Seq(Writers) /\ start[w] \in Nat /\ Len(group[w]) \in Nat
      /\ \A i \in 1 .. Len(group[w]) : group[w][i] \in Writers
  BY DEF TypeOK
<1>2. \A i \in 1 .. Len(group[w]) :
        [req |-> group[w][i], lsn |-> (start[w] + i) - 1] \in Entry
  BY <1>1 DEF Entry
<1>3. /\ Batch(w) \in Seq(Entry)
      /\ Len(Batch(w)) = Len(group[w])
  BY <1>1, <1>2, IsASeq DEF Batch
<1> QED
  BY <1>1, <1>2, <1>3 DEF Batch

\* Logging n entries of the batch of w and flushing up to f extends one WAL.
Logs(w, n, f) ==
    /\ wals' \in Seq(Seq(Entry)) /\ Len(wals') = Len(wals)
    /\ flushed' \in Seq(Nat) /\ Len(flushed') = Len(wals)
    /\ \A h \in Generations \ {version[w]} : wals'[h] = wals[h] /\ flushed'[h] = flushed[h]
    /\ Len(wals'[version[w]]) = Len(wals[version[w]]) + n
    /\ \A i \in 1 .. Len(wals[version[w]]) : wals'[version[w]][i] = wals[version[w]][i]
    /\ \A i \in 1 .. n : wals'[version[w]][Len(wals[version[w]]) + i] = Batch(w)[i]
    /\ flushed'[version[w]] = f
    /\ UNCHANGED <<syncVars, result, group, todo, ticket, start, version, mems>>

\* A write to the WAL, complete or not, extends one WAL by a prefix of the batch and
\* keeps the types.
LEMMA LogFact ==
    ASSUME TypeOK, NEW w \in Writers, NEW n \in 0 .. Len(group[w]), NEW f \in Nat,
           wals' = [wals EXCEPT ![version[w]] = wals[version[w]] \o SubSeq(Batch(w), 1, n)],
           flushed' = [flushed EXCEPT ![version[w]] = f],
           UNCHANGED <<syncVars, result, group, todo, ticket, start, version, mems>>
    PROVE  Logs(w, n, f)
<1> DEFINE g == version[w]
           b == SubSeq(Batch(w), 1, n)
<1>1. /\ wals \in Seq(Seq(Entry)) /\ flushed \in Seq(Nat) /\ Len(flushed) = Len(wals)
      /\ g \in 1 .. Len(wals) /\ n \in Nat /\ Len(group[w]) \in Nat
  BY DEF TypeOK
<1>2. wals[g] \in Seq(Entry) /\ Len(wals[g]) \in Nat
  BY <1>1
<1>3. /\ b \in Seq(Entry)
      /\ Len(b) = n
      /\ \A i \in 1 .. n : b[i] = Batch(w)[i]
  <2>1. \A i \in 1 .. n : Batch(w)[i] \in Entry
    BY <1>1, BatchFact
  <2>2. /\ b \in Seq(Entry)
        /\ Len(b) = IF 1 <= n THEN (n - 1) + 1 ELSE 0
        /\ \A i \in 1 .. (n - 1) + 1 : b[i] = Batch(w)[(1 + i) - 1]
    BY <1>1, <2>1, SubSeqProperties
  <2> HIDE DEF b
  <2>3. \A i \in 1 .. n : b[i] = Batch(w)[(1 + i) - 1] /\ (1 + i) - 1 = i
    BY <1>1, <2>2
  <2> QED
    BY <1>1, <2>2, <2>3
<1> DEFINE l == wals[g] \o b
<1> HIDE DEF b
<1>4. /\ l \in Seq(Entry)
      /\ Len(l) = Len(wals[g]) + n
      /\ \A i \in 1 .. Len(wals[g]) : l[i] = wals[g][i]
      /\ \A i \in 1 .. n : l[Len(wals[g]) + i] = b[i]
  <2>1. /\ l \in Seq(Entry)
        /\ Len(l) = Len(wals[g]) + Len(b)
        /\ \A i \in 1 .. Len(wals[g]) + Len(b) :
             l[i] = IF i <= Len(wals[g]) THEN wals[g][i] ELSE b[i - Len(wals[g])]
    BY <1>2, <1>3, ConcatProperties
  <2> HIDE DEF l, g
  <2>2. \A i \in 1 .. n : /\ Len(wals[g]) + i \in 1 .. Len(wals[g]) + Len(b)
                          /\ ~ (Len(wals[g]) + i <= Len(wals[g]))
                          /\ (Len(wals[g]) + i) - Len(wals[g]) = i
    BY <1>1, <1>2, <1>3
  <2>3. \A i \in 1 .. Len(wals[g]) : i \in 1 .. Len(wals[g]) + Len(b) /\ i <= Len(wals[g])
    BY <1>1, <1>2, <1>3
  <2>4. \A i \in 1 .. Len(wals[g]) : l[i] = wals[g][i]
    BY <2>1, <2>3
  <2>5. \A i \in 1 .. n : l[Len(wals[g]) + i] = b[i]
    BY <2>1, <2>2
  <2> QED
    BY <1>3, <2>1, <2>4, <2>5
<1>5. wals' = [wals EXCEPT ![g] = l]
  BY DEF b
<1> HIDE DEF l
<1>6. /\ wals' \in Seq(Seq(Entry)) /\ Len(wals') = Len(wals)
      /\ \A h \in 1 .. Len(wals) : wals'[h] = IF h = g THEN l ELSE wals[h]
  <2> HIDE DEF g
  <2>1. /\ [wals EXCEPT ![g] = l] \in Seq(Seq(Entry))
        /\ Len([wals EXCEPT ![g] = l]) = Len(wals)
        /\ \A h \in 1 .. Len(wals) : [wals EXCEPT ![g] = l][h] = IF h = g THEN l ELSE wals[h]
    BY <1>1, <1>4, ExceptSeq
  <2> QED
    BY <1>5, <2>1
<1>7. /\ flushed' \in Seq(Nat) /\ Len(flushed') = Len(flushed)
      /\ \A h \in 1 .. Len(flushed) : flushed'[h] = IF h = g THEN f ELSE flushed[h]
  BY <1>1, ExceptSeq
<1>8. \A h \in Generations \ {g} : wals'[h] = wals[h] /\ flushed'[h] = flushed[h]
  BY <1>1, <1>6, <1>7 DEF Generations
<1>9. wals'[g] = l /\ flushed'[g] = f
  BY <1>1, <1>6, <1>7
<1>10. \A i \in 1 .. n : l[Len(wals[g]) + i] = Batch(w)[i]
  BY <1>3, <1>4
<1> QED
  BY <1>1, <1>4, <1>6, <1>7, <1>8, <1>9, <1>10 DEF Logs

\* A successful write logs the whole batch and flushes the WAL.
LEMMA WriteWalFact ==
    ASSUME TypeOK, NEW w \in Writers, WriteWal(w)
    PROVE  Logs(w, Len(group[w]), Len(wals[version[w]]) + Len(group[w]))
<1>1. Len(group[w]) \in Nat /\ Len(wals[version[w]]) \in Nat
  BY LoadedWal
<1>2. SubSeq(Batch(w), 1, Len(group[w])) = Batch(w)
  BY BatchFact, SubSeqFull
<1>3. /\ wals' = [wals EXCEPT ![version[w]] =
                    wals[version[w]] \o SubSeq(Batch(w), 1, Len(group[w]))]
      /\ flushed' = [flushed EXCEPT ![version[w]] = Len(wals[version[w]]) + Len(group[w])]
      /\ UNCHANGED <<syncVars, result, group, todo, ticket, start, version, mems>>
  BY <1>2 DEF WriteWal
<1>4. Len(group[w]) \in 0 .. Len(group[w]) /\ Len(wals[version[w]]) + Len(group[w]) \in Nat
  <2>1. \A a, b \in Nat : a \in 0 .. a /\ b + a \in Nat
    OBVIOUS
  <2> QED
    BY <1>1, <2>1
<1> QED
  BY <1>3, <1>4, LogFact

\* A failed one logs a part of it and flushes a part of the WAL.
LEMMA WriteWalFailsFact ==
    ASSUME TypeOK, NEW w \in Writers, WriteWalFails(w)
    PROVE  \E n \in 0 .. Len(group[w]) :
             \E f \in flushed[version[w]] .. (Len(wals[version[w]]) + n) : Logs(w, n, f)
<1>1. Len(group[w]) \in Nat /\ Len(wals[version[w]]) \in Nat /\ flushed[version[w]] \in Nat
  BY LoadedWal
<1>2. PICK n \in 0 .. Len(group[w]) :
        /\ wals' = [wals EXCEPT ![version[w]] = wals[version[w]] \o SubSeq(Batch(w), 1, n)]
        /\ \E f \in flushed[version[w]] .. (Len(wals[version[w]]) + n) :
             flushed' = [flushed EXCEPT ![version[w]] = f]
  BY DEF WriteWalFails
<1>3. PICK f \in flushed[version[w]] .. (Len(wals[version[w]]) + n) :
        flushed' = [flushed EXCEPT ![version[w]] = f]
  BY <1>2
<1>4. f \in Nat
  BY <1>1, <1>3
<1> QED
  BY <1>2, <1>3, <1>4, LogFact DEF WriteWalFails

\* After a write to the WAL an entry is an old one in its old place, or one of
\* the batch behind all the old ones of the WAL that was loaded.
LEMMA LoggedEntry ==
    ASSUME TypeOK, NEW w \in Writers, NEW n \in Nat, n <= Len(group[w]), NEW f \in Nat,
           Logs(w, n, f), NEW g \in Generations, NEW i \in DOMAIN wals'[g]
    PROVE  \/ i \in DOMAIN wals[g] /\ wals'[g][i] = wals[g][i]
           \/ /\ g = version[w] /\ i \in Nat /\ i > Len(wals[g])
              /\ \E k \in 1 .. n : i = Len(wals[g]) + k /\ wals'[g][i] = Batch(w)[k]
<1>1. /\ wals[g] \in Seq(Entry) /\ wals'[g] \in Seq(Entry)
      /\ Len(wals[g]) \in Nat /\ Len(wals'[g]) \in Nat
      /\ DOMAIN wals[g] = 1 .. Len(wals[g]) /\ DOMAIN wals'[g] = 1 .. Len(wals'[g])
  <2>1. wals \in Seq(Seq(Entry)) /\ wals' \in Seq(Seq(Entry)) /\ Len(wals') = Len(wals)
    BY DEF TypeOK, Logs
  <2>2. g \in 1 .. Len(wals) /\ g \in 1 .. Len(wals')
    BY <2>1 DEF Generations
  <2> QED
    BY <2>1, <2>2, ElementOfSeq, LenProperties
<1>2. CASE g # version[w]
  <2>1. wals'[g] = wals[g]
    BY <1>2 DEF Logs
  <2> QED
    BY <2>1
<1>3. CASE g = version[w]
  <2>1. /\ Len(wals'[g]) = Len(wals[g]) + n
        /\ \A j \in 1 .. Len(wals[g]) : wals'[g][j] = wals[g][j]
        /\ \A j \in 1 .. n : wals'[g][Len(wals[g]) + j] = Batch(w)[j]
    BY <1>3 DEF Logs
  <2>2. CASE i <= Len(wals[g])
    BY <1>1, <2>1, <2>2
  <2>3. CASE ~ (i <= Len(wals[g]))
    <3>1. \A a, b \in Nat : \A j \in 1 .. (a + b) :
            ~ (j <= a) => j \in Nat /\ j > a /\ j - a \in 1 .. b /\ j = a + (j - a)
      OBVIOUS
    <3>2. i \in 1 .. (Len(wals[g]) + n)
      BY <1>1, <2>1
    <3>3. /\ i \in Nat /\ i > Len(wals[g]) /\ i - Len(wals[g]) \in 1 .. n
          /\ i = Len(wals[g]) + (i - Len(wals[g]))
      BY <1>1, <2>3, <3>1, <3>2
    <3>4. wals'[g][i] = Batch(w)[i - Len(wals[g])]
      BY <2>1, <3>3
    <3> QED
      BY <1>3, <3>3, <3>4
  <2> QED
    BY <2>2, <2>3
<1> QED
  BY <1>2, <1>3

\* put_batch extends one memtable by the batch.
LEMMA WriteMemtableFact ==
    ASSUME TypeOK, NEW w \in Writers, WriteMemtable(w)
    PROVE  /\ mems' \in Seq(SUBSET Entry) /\ Len(mems') = Len(wals)
           /\ \A h \in Generations \ {version[w]} : mems'[h] = mems[h]
           /\ mems'[version[w]] =
                mems[version[w]] \cup {Batch(w)[i] : i \in 1 .. Len(group[w])}
<1> DEFINE m == mems[version[w]] \cup {Batch(w)[i] : i \in 1 .. Len(group[w])}
<1>1. mems \in Seq(SUBSET Entry) /\ Len(mems) = Len(wals) /\ version[w] \in 1 .. Len(mems)
  BY DEF TypeOK
<1>2. mems[version[w]] \in SUBSET Entry
  BY <1>1, ElementOfSeq
<1>3. m \in SUBSET Entry
  BY <1>2, BatchFact
<1>4. mems' = [mems EXCEPT ![version[w]] = m]
  BY DEF WriteMemtable
<1> HIDE DEF m
<1>5. /\ [mems EXCEPT ![version[w]] = m] \in Seq(SUBSET Entry)
      /\ Len([mems EXCEPT ![version[w]] = m]) = Len(mems)
      /\ \A h \in 1 .. Len(mems) :
           [mems EXCEPT ![version[w]] = m][h] = IF h = version[w] THEN m ELSE mems[h]
  BY <1>1, <1>3, ExceptSeq
<1>6. \A h \in 1 .. Len(mems) : mems'[h] = IF h = version[w] THEN m ELSE mems[h]
  BY <1>4, <1>5
<1>7. mems'[version[w]] = m /\ \A h \in Generations \ {version[w]} : mems'[h] = mems[h]
  BY <1>1, <1>6 DEF Generations
<1> QED
  BY <1>1, <1>4, <1>5, <1>7 DEF m

\* A rotation adds an empty generation and leaves the others alone.
LEMMA RotateFact ==
    ASSUME TypeOK, NEW w \in Writers, RotateMemtable(w)
    PROVE  /\ wals' \in Seq(Seq(Entry)) /\ Len(wals') = Len(wals) + 1
           /\ flushed' \in Seq(Nat) /\ Len(flushed') = Len(wals) + 1
           /\ mems' \in Seq(SUBSET Entry) /\ Len(mems') = Len(wals) + 1
           /\ \A h \in Generations :
                wals'[h] = wals[h] /\ flushed'[h] = flushed[h] /\ mems'[h] = mems[h]
           /\ wals'[Len(wals) + 1] = <<>>
           /\ flushed'[Len(wals) + 1] = 0
           /\ mems'[Len(wals) + 1] = {}
<1>1. /\ wals \in Seq(Seq(Entry)) /\ flushed \in Seq(Nat) /\ mems \in Seq(SUBSET Entry)
      /\ Len(flushed) = Len(wals) /\ Len(mems) = Len(wals)
  BY DEF TypeOK
<1>2. wals' = Append(wals, <<>>) /\ flushed' = Append(flushed, 0) /\ mems' = Append(mems, {})
  BY DEF RotateMemtable
<1>3. <<>> \in Seq(Entry) /\ {} \in SUBSET Entry /\ 0 \in Nat
  OBVIOUS
<1>4. /\ wals' \in Seq(Seq(Entry)) /\ Len(wals') = Len(wals) + 1
      /\ \A h \in 1 .. Len(wals) : wals'[h] = wals[h]
      /\ wals'[Len(wals) + 1] = <<>>
  BY <1>1, <1>2, <1>3, AppendProperties
<1>5. /\ flushed' \in Seq(Nat) /\ Len(flushed') = Len(wals) + 1
      /\ \A h \in 1 .. Len(wals) : flushed'[h] = flushed[h]
      /\ flushed'[Len(wals) + 1] = 0
  BY <1>1, <1>2, <1>3, AppendProperties
<1>6. /\ mems' \in Seq(SUBSET Entry) /\ Len(mems') = Len(wals) + 1
      /\ \A h \in 1 .. Len(wals) : mems'[h] = mems[h]
      /\ mems'[Len(wals) + 1] = {}
  BY <1>1, <1>2, <1>3, AppendProperties
<1> QED
  BY <1>4, <1>5, <1>6 DEF Generations
-----------------------------------------------------------------------------
(* Type correctness. *)

\* Every step of a writer preserves the types.
LEMMA TypeStep ==
    ASSUME TypeOK, GroupInv, NEW w \in Writers, Step(w) \/ SpuriousWakeup(w)
    PROVE  TypeOK'
<1>1. pc' \in [Writers -> PcValues]
  BY PcStep
<1>2. CASE SpuriousWakeup(w)
  BY <1>1, <1>2 DEF SpuriousWakeup, TypeOK, syncVars, groupVars, dataVars
<1>3. CASE Enqueue(w)
  BY <1>1, <1>3 DEF Enqueue, TypeOK, syncVars, groupVars, dataVars
<1>4. CASE CheckResult(w)
  BY <1>1, <1>4 DEF CheckResult, TypeOK, syncVars, groupVars, dataVars
<1>5. CASE BecomeLeader(w)
  <2>1. <<>> \in Seq(Writers) /\ write_queue \in Seq(Writers)
    BY DEF TypeOK
  <2>2. /\ write_queue' \in Seq(Writers)
        /\ group' \in [Writers -> Seq(Writers)] /\ todo' \in [Writers -> Seq(Writers)]
    BY <1>5, <2>1 DEF BecomeLeader, TypeOK
  <2> QED
    BY <1>1, <1>5, <2>2 DEF BecomeLeader, TypeOK, dataVars
<1>6. CASE NotAtFront(w)
  BY <1>1, <1>6 DEF NotAtFront, TypeOK, syncVars, groupVars, dataVars
<1>7. CASE WaitForMembership(w)
  BY <1>1, <1>7 DEF WaitForMembership, TypeOK, syncVars, groupVars, dataVars
<1>8. CASE FollowerStep(w)
  BY <1>1, <1>8 DEF FollowerStep, TypeOK, syncVars, groupVars, dataVars
<1>9. CASE EnterWalStage(w)
  BY <1>1, <1>9 DEF EnterWalStage, TypeOK, syncVars, groupVars, dataVars
<1>10. CASE TakeTicket(w)
  <2>1. Len(group[w]) \in Nat
    BY LoadedWal
  <2>2. next_lsn' \in Nat
    BY <1>10, <2>1 DEF TakeTicket, TypeOK
  <2>3. /\ next_ticket' \in Nat
        /\ ticket' \in [Writers -> Nat]
        /\ start' \in [Writers -> Nat]
    BY <1>10 DEF TakeTicket, TypeOK
  <2>4. UNCHANGED <<write_queue, wal_busy, ticket_to_mem, result, group, committed, todo,
                    version, err, wals, flushed, mems>>
    BY <1>10 DEF TakeTicket, dataVars
  <2> QED
    BY <1>1, <2>2, <2>3, <2>4 DEF TypeOK
<1>11. CASE DropWalGuard(w)
  BY <1>1, <1>11 DEF DropWalGuard, TypeOK, syncVars, groupVars, dataVars
<1>12. CASE EnterMemStage(w)
  BY <1>1, <1>12 DEF EnterMemStage, TypeOK, syncVars, groupVars, dataVars
<1>13. CASE KeepMemtable(w)
  BY <1>1, <1>13 DEF KeepMemtable, TypeOK, syncVars, groupVars, dataVars
<1>14. CASE RotateFails(w)
  BY <1>1, <1>14 DEF RotateFails, TypeOK, syncVars, groupVars, dataVars
<1>15. CASE DropTicket(w)
  BY <1>1, <1>15 DEF DropTicket, TypeOK, syncVars, groupVars, dataVars
<1>16. CASE MarkFollower(w)
  <2>1. todo[w] \in Seq(Writers) /\ todo[w] # <<>>
    BY <1>16 DEF MarkFollower, GroupInv, TypeOK
  <2>2. Tail(todo[w]) \in Seq(Writers)
    BY <2>1, HeadTailProperties
  <2> QED
    BY <1>1, <1>16, <2>2 DEF MarkFollower, TypeOK, syncVars, groupVars, dataVars
<1>17. CASE NotifyMember(w)
  <2>1. todo[w] \in Seq(Writers) /\ todo[w] # <<>>
    BY <1>17 DEF NotifyMember, GroupInv, TypeOK
  <2>2. Tail(todo[w]) \in Seq(Writers)
    BY <2>1, HeadTailProperties
  <2> QED
    BY <1>1, <1>17, <2>2 DEF NotifyMember, TypeOK, syncVars, groupVars, dataVars
<1>18. CASE LoadWal(w)
  <2>1. Len(wals) \in 1 .. Len(wals) /\ Len(mems) = Len(wals)
    BY DEF TypeOK
  <2> QED
    BY <1>1, <1>18, <2>1 DEF LoadWal, TypeOK, syncVars, groupVars, dataVars
<1>19. CASE LoadMemtable(w)
  <2>1. Len(wals) \in 1 .. Len(wals) /\ Len(mems) = Len(wals)
    BY DEF TypeOK
  <2> QED
    BY <1>1, <1>19, <2>1 DEF LoadMemtable, TypeOK, syncVars, groupVars, dataVars
<1>20. CASE WriteWal(w) \/ WriteWalFails(w)
  <2>1. PICK n, f : Logs(w, n, f)
    BY <1>20, WriteWalFact, WriteWalFailsFact
  <2>2. wals' # <<>>
    BY <2>1 DEF Logs, TypeOK
  <2>3. /\ committed' \in [Writers -> BOOLEAN]
        /\ err' \in [Writers -> {"none", "wal", "rotate"}]
    BY <1>20 DEF WriteWal, WriteWalFails, TypeOK
  <2> QED
    BY <1>1, <2>1, <2>2, <2>3 DEF Logs, TypeOK, syncVars
<1>21. CASE WriteMemtable(w)
  BY <1>1, <1>21, WriteMemtableFact DEF WriteMemtable, TypeOK, syncVars, groupVars
<1>22. CASE RotateMemtable(w)
  <2>1. wals' # <<>> /\ 1 .. Len(wals) \subseteq 1 .. Len(wals')
    <3>1. wals' \in Seq(Seq(Entry)) /\ Len(wals') = Len(wals) + 1
      BY <1>22, RotateFact
    <3>2. Len(wals) \in Nat
      BY LenProperties DEF TypeOK
    <3> QED
      BY <3>1, <3>2
  <2>2. version' \in [Writers -> 1 .. Len(wals')]
    BY <1>22, <2>1 DEF RotateMemtable, groupVars, TypeOK
  <2> QED
    BY <1>1, <1>22, <2>1, <2>2, RotateFact DEF RotateMemtable, TypeOK, syncVars, groupVars
<1> QED
  BY <1>2, <1>3, <1>4, <1>5, <1>6, <1>7, <1>8, <1>9, <1>10, <1>11, <1>12, <1>13, <1>14, <1>15, <1>16, <1>17, <1>18, <1>19, <1>20, <1>21, <1>22 DEF Step

\* Every step of a writer preserves GroupInv: a leader has members to mark, to log
\* and to notify.
LEMMA GroupStep ==
    ASSUME TypeOK, GroupInv, NEW w \in Writers, Step(w) \/ SpuriousWakeup(w)
    PROVE  GroupInv'
<1> DEFINE Inv(v) ==
      /\ pc[v] \in Leading => group[v] # <<>> /\ group[v][1] = v
      /\ pc[v] \in {"MarkFollowers", "NotifyGroup"} =>
           /\ todo[v] # <<>>
           /\ \A i \in DOMAIN todo[v] : \E j \in DOMAIN group[v] : todo[v][i] = group[v][j]
<1>1. \A v \in Writers \ {w} : Inv(v)'
  <2>1. \A v \in Writers \ {w} : group'[v] = group[v] /\ todo'[v] = todo[v]
    BY DEF Step, SpuriousWakeup, Enqueue, CheckResult, BecomeLeader, NotAtFront,
       WaitForMembership, MarkFollower, FollowerStep, EnterWalStage, TakeTicket, LoadWal,
       WriteWal, WriteWalFails, DropWalGuard, EnterMemStage, LoadMemtable, WriteMemtable,
       KeepMemtable, RotateMemtable, RotateFails, DropTicket, NotifyMember, groupVars, TypeOK
  <2>2. \A v \in Writers \ {w} :
          /\ pc'[v] \in Leading => pc[v] \in Leading
          /\ pc'[v] \in {"MarkFollowers", "NotifyGroup"} => pc'[v] = pc[v]
    BY PcStep DEF Woken, Leading, Unlogged, WaitingForMem, InMemStage
  <2> QED
    BY <2>1, <2>2 DEF GroupInv
<1>2. Inv(w)'
  <2>1. CASE BecomeLeader(w)
    <3>1. group'[w] = write_queue /\ todo'[w] = write_queue
      BY <2>1 DEF BecomeLeader, TypeOK
    <3>2. write_queue # <<>> /\ write_queue[1] = w
      BY <2>1, HeadTailProperties DEF BecomeLeader, TypeOK
    <3> QED
      BY <3>1, <3>2
  <2>2. CASE MarkFollower(w) \/ NotifyMember(w)
    <3>1. /\ group[w] # <<>> /\ group[w][1] = w
          /\ todo[w] \in Seq(Writers) /\ todo[w] # <<>>
          /\ \A i \in DOMAIN todo[w] : \E j \in DOMAIN group[w] : todo[w][i] = group[w][j]
      BY <2>2 DEF MarkFollower, NotifyMember, GroupInv, Leading, Unlogged, TypeOK
    <3>2. group'[w] = group[w] /\ todo'[w] = Tail(todo[w])
      BY <2>2 DEF MarkFollower, NotifyMember, TypeOK
    <3>3. /\ Tail(todo[w]) \in Seq(Writers) /\ Len(Tail(todo[w])) = Len(todo[w]) - 1
          /\ \A i \in 1 .. Len(Tail(todo[w])) : Tail(todo[w])[i] = todo[w][i + 1]
          /\ Len(todo[w]) \in Nat
      BY <3>1, HeadTailProperties, LenProperties
    <3>4. \A i \in DOMAIN Tail(todo[w]) : i + 1 \in DOMAIN todo[w]
      BY <3>1, <3>3, LenProperties
    <3>5. \A i \in DOMAIN Tail(todo[w]) :
            \E j \in DOMAIN group[w] : Tail(todo[w])[i] = group[w][j]
      BY <3>1, <3>3, <3>4, LenProperties
    <3>6. Len(todo[w]) >= 1 /\ (Len(todo[w]) # 1 => Tail(todo[w]) # <<>>)
      <4>1. Len(todo[w]) # 0 /\ (Len(todo[w]) - 1 # 0 => Tail(todo[w]) # <<>>)
        BY <3>1, <3>3, EmptySeq
      <4>2. \A n \in Nat : n # 0 => n >= 1 /\ (n # 1 => n - 1 # 0)
        OBVIOUS
      <4> QED
        BY <3>3, <4>1, <4>2
    <3>7. pc'[w] \in {"MarkFollowers", "NotifyGroup"} => Len(todo[w]) # 1
      <4>1. \A n \in Nat : n > 1 => n # 1
        OBVIOUS
      <4>2. CASE MarkFollower(w)
        BY <4>2, OwnPc
      <4>3. CASE NotifyMember(w)
        <5>1. pc'[w] \in {"MarkFollowers", "NotifyGroup"} => Len(todo[w]) > 1
          BY <4>3, OwnPc DEF AfterNotify
        <5> QED
          BY <3>3, <4>1, <5>1
      <4> QED
        BY <2>2, <4>2, <4>3
    <3> QED
      BY <3>1, <3>2, <3>5, <3>6, <3>7
  <2>3. CASE RotateFails(w) \/ DropTicket(w)
    <3>1. group[w] # <<>> /\ group[w][1] = w
      BY <2>3 DEF RotateFails, DropTicket, GroupInv, Leading, InMemStage
    <3>2. group'[w] = group[w] /\ todo'[w] = group[w]
      BY <2>3 DEF RotateFails, DropTicket, TypeOK
    <3> QED
      BY <3>1, <3>2
  <2>4. CASE SpuriousWakeup(w) \/ Enqueue(w) \/ CheckResult(w) \/ NotAtFront(w)
             \/ WaitForMembership(w) \/ FollowerStep(w)
    <3>1. pc'[w] \notin Leading \/ (pc'[w] \in Leading /\ pc[w] \in Leading)
      <4>1. CASE SpuriousWakeup(w)
        BY <4>1 DEF SpuriousWakeup, TypeOK, Resume, Asleep, Leading, Unlogged, WaitingForMem,
           InMemStage
      <4> DEFINE Outside == {"CheckResult", "CheckFront", "CheckNone", "SeekAsleep",
                             "FollowerWaitingCompletion", "FollowerAsleep", "Ok", "Err"}
      <4>2. CASE Enqueue(w) \/ CheckResult(w) \/ NotAtFront(w)
        <5>1. pc'[w] \in Outside
          BY <4>2 DEF Enqueue, CheckResult, NotAtFront, TypeOK
        <5> QED
          BY <5>1 DEF Leading, Unlogged, WaitingForMem, InMemStage
      <4>3. CASE WaitForMembership(w) \/ FollowerStep(w)
        <5>1. pc'[w] \in Outside
          BY <4>3 DEF WaitForMembership, FollowerStep, TypeOK
        <5> QED
          BY <5>1 DEF Leading, Unlogged, WaitingForMem, InMemStage
      <4> QED
        BY <2>4, <4>1, <4>2, <4>3
    <3>2. pc'[w] \notin {"MarkFollowers", "NotifyGroup"}
      BY <2>4 DEF SpuriousWakeup, Enqueue, CheckResult, NotAtFront, WaitForMembership,
         FollowerStep, TypeOK, Resume, Asleep
    <3>3. group'[w] = group[w]
      BY <2>4 DEF SpuriousWakeup, Enqueue, CheckResult, NotAtFront, WaitForMembership,
         FollowerStep, groupVars
    <3> QED
      BY <3>1, <3>2, <3>3 DEF GroupInv
  <2>5. CASE EnterWalStage(w) \/ TakeTicket(w) \/ LoadWal(w) \/ WriteWal(w)
             \/ WriteWalFails(w) \/ DropWalGuard(w) \/ EnterMemStage(w) \/ LoadMemtable(w)
             \/ WriteMemtable(w) \/ KeepMemtable(w) \/ RotateMemtable(w)
    <3>1. pc[w] \in Leading
      BY <2>5 DEF EnterWalStage, TakeTicket, LoadWal, WriteWal, WriteWalFails, DropWalGuard,
         EnterMemStage, LoadMemtable, WriteMemtable, KeepMemtable, RotateMemtable, Leading,
         Unlogged, WaitingForMem, InMemStage
    <3>2. pc'[w] \notin {"MarkFollowers", "NotifyGroup"}
      <4>1. NotifyAll(pc, "WalAsleep") \in [Writers -> PcValues]
        BY NotifyWalFact DEF TypeOK
      <4> QED
        BY <2>5, <4>1 DEF EnterWalStage, TakeTicket, LoadWal, WriteWal, WriteWalFails,
           DropWalGuard, EnterMemStage, LoadMemtable, WriteMemtable, KeepMemtable,
           RotateMemtable, TypeOK
    <3>3. group'[w] = group[w]
      BY <2>5 DEF EnterWalStage, TakeTicket, LoadWal, WriteWal, WriteWalFails, DropWalGuard,
         EnterMemStage, LoadMemtable, WriteMemtable, KeepMemtable, RotateMemtable, groupVars
    <3> QED
      BY <3>1, <3>2, <3>3 DEF GroupInv
  <2> QED
    BY <2>1, <2>2, <2>3, <2>4, <2>5 DEF Step
<1> QED
  BY <1>1, <1>2 DEF GroupInv

\* Types and groups are one invariant of the specification: Head of a list of
\* members has a type only because the list is not empty.
LEMMA TypeInvariant == Spec => [](TypeOK /\ GroupInv)
<1>1. Init => TypeOK /\ GroupInv
  <2> SUFFICES ASSUME Init PROVE TypeOK /\ GroupInv
    OBVIOUS
  <2>1. /\ << <<>> >> \in Seq(Seq(Entry)) /\ Len(<< <<>> >>) = 1
        /\ <<0>> \in Seq(Nat) /\ Len(<<0>>) = 1
        /\ << {} >> \in Seq(SUBSET Entry) /\ Len(<< {} >>) = 1
        /\ <<>> \in Seq(Writers)
    OBVIOUS
  <2>2. TypeOK
    <3>1. /\ wals \in Seq(Seq(Entry)) /\ wals # <<>> /\ Len(wals) = 1
          /\ flushed \in Seq(Nat) /\ Len(flushed) = Len(wals)
          /\ mems \in Seq(SUBSET Entry) /\ Len(mems) = Len(wals)
      BY <2>1 DEF Init
    <3>2. version \in [Writers -> 1 .. Len(wals)]
      BY <3>1 DEF Init
    <3> QED
      BY <2>1, <3>1, <3>2, ConstantsAssumption DEF Init, TypeOK, PcValues
  <2>3. GroupInv
    BY DEF Init, GroupInv, Leading, Unlogged, WaitingForMem, InMemStage
  <2> QED
    BY <2>2, <2>3
<1>2. TypeOK /\ GroupInv /\ [Next]_vars => TypeOK' /\ GroupInv'
  <2> SUFFICES ASSUME TypeOK, GroupInv, [Next]_vars PROVE TypeOK' /\ GroupInv'
    OBVIOUS
  <2>1. CASE \E w \in Writers : Step(w) \/ SpuriousWakeup(w)
    BY <2>1, TypeStep, GroupStep
  <2>2. CASE UNCHANGED vars
    BY <2>2 DEF vars, syncVars, groupVars, dataVars, TypeOK, GroupInv
  <2> QED
    BY <2>1, <2>2 DEF Next, Terminated
<1> QED
  BY <1>1, <1>2, PTL DEF Spec

\* Every reachable state of the write path is well typed: in particular every
\* generation has a WAL, a flush watermark and a memtable, and no leader ever
\* notifies from an empty list.
THEOREM TypeCorrect == Spec => []TypeOK
  BY TypeInvariant, PTL
-----------------------------------------------------------------------------
(* The WAL stage. *)

\* Every step preserves the exclusion of the WAL stage (EnterWalStage tests wal_busy
\* and sets it in one critical section, WalGuard::drop clears it).
LEMMA ExclusiveStep ==
    ASSUME TypeOK, GroupInv, WalExclusive, NEW w \in Writers, Step(w) \/ SpuriousWakeup(w)
    PROVE  WalExclusive'
<1>1. \A v \in Writers \ {w} : pc'[v] \in InWalStage <=> pc[v] \in InWalStage
  BY PcStep DEF Woken, InWalStage
<1>2. CASE EnterWalStage(w)
  <2>1. pc[w] \notin InWalStage /\ wal_busy' = TRUE
    BY <1>2 DEF EnterWalStage, InWalStage
  <2>2. CASE wal_busy
    <3>1. pc'[w] \notin InWalStage
      BY <1>2, <2>2 DEF EnterWalStage, InWalStage, TypeOK
    <3> QED
      BY <1>1, <2>1, <2>2, <3>1 DEF WalExclusive
  <2>3. CASE ~ wal_busy
    <3>1. pc'[w] \in InWalStage
      BY <1>2, <2>3 DEF EnterWalStage, InWalStage, TypeOK
    <3> QED
      BY <1>1, <2>1, <2>3, <3>1 DEF WalExclusive
  <2> QED
    BY <2>2, <2>3
<1>3. CASE DropWalGuard(w)
  <2>1. pc[w] \in InWalStage /\ wal_busy' = FALSE
    BY <1>3 DEF DropWalGuard, InWalStage
  <2>2. pc'[w] \notin InWalStage
    BY <1>3, OwnPc DEF InWalStage
  <2> QED
    BY <1>1, <2>1, <2>2 DEF WalExclusive
<1>4. CASE TakeTicket(w) \/ LoadWal(w) \/ WriteWal(w) \/ WriteWalFails(w)
  <2>1. pc[w] \in InWalStage /\ pc'[w] \in InWalStage /\ wal_busy' = wal_busy
    BY <1>4 DEF TakeTicket, LoadWal, WriteWal, WriteWalFails, InWalStage, TypeOK, syncVars
  <2> QED
    BY <1>1, <2>1 DEF WalExclusive
<1>5. CASE SpuriousWakeup(w) \/ Enqueue(w) \/ CheckResult(w) \/ BecomeLeader(w)
           \/ NotAtFront(w) \/ WaitForMembership(w) \/ FollowerStep(w) \/ EnterMemStage(w)
           \/ LoadMemtable(w) \/ WriteMemtable(w) \/ KeepMemtable(w) \/ RotateMemtable(w)
           \/ RotateFails(w)
  <2>1. pc[w] \notin InWalStage /\ pc'[w] \notin InWalStage /\ wal_busy' = wal_busy
    BY <1>5 DEF SpuriousWakeup, Resume, Asleep, Enqueue, CheckResult, BecomeLeader,
       NotAtFront, WaitForMembership, FollowerStep, EnterMemStage, LoadMemtable,
       WriteMemtable, KeepMemtable, RotateMemtable, RotateFails, InWalStage, TypeOK, syncVars
  <2> QED
    BY <1>1, <2>1 DEF WalExclusive
<1>6. CASE MarkFollower(w) \/ DropTicket(w) \/ NotifyMember(w)
  <2>1. pc[w] \notin InWalStage /\ wal_busy' = wal_busy
    BY <1>6 DEF MarkFollower, DropTicket, NotifyMember, InWalStage, syncVars
  <2>2. pc'[w] \notin InWalStage
    <3>1. CASE MarkFollower(w)
      BY <3>1, OwnPc DEF InWalStage
    <3>2. CASE DropTicket(w)
      BY <3>2, OwnPc DEF InWalStage
    <3>3. CASE NotifyMember(w)
      BY <3>3, OwnPc DEF AfterNotify, InWalStage
    <3> QED
      BY <1>6, <3>1, <3>2, <3>3
  <2> QED
    BY <1>1, <2>1, <2>2 DEF WalExclusive
<1> QED
  BY <1>2, <1>3, <1>4, <1>5, <1>6 DEF Step

\* The exclusion of the WAL stage, with the facts it rests on, as an invariant.
LEMMA ExclusiveInvariant == Spec => [](TypeOK /\ GroupInv /\ WalExclusive)
<1>1. Init => WalExclusive
  BY DEF Init, WalExclusive, InWalStage
<1>2. TypeOK /\ GroupInv /\ WalExclusive /\ [Next]_vars => WalExclusive'
  <2> SUFFICES ASSUME TypeOK, GroupInv, WalExclusive, [Next]_vars PROVE WalExclusive'
    OBVIOUS
  <2>1. CASE \E w \in Writers : Step(w) \/ SpuriousWakeup(w)
    BY <2>1, ExclusiveStep
  <2>2. CASE UNCHANGED vars
    BY <2>2 DEF vars, syncVars, WalExclusive
  <2> QED
    BY <2>1, <2>2 DEF Next, Terminated
<1> QED
  BY <1>1, <1>2, TypeInvariant, PTL DEF Spec

\* Whatever fails and however the writers interleave, wal_busy is set exactly
\* while a single leader is in the WAL stage (write_req.rs, LeaderWritingWal and
\* WalGuard).
THEOREM WalStageExclusive == Spec => []WalExclusive
  BY ExclusiveInvariant, PTL

\* The steps that neither log, nor rotate, nor reserve LSNs, nor load the WAL.
Quiet(w) ==
    \/ SpuriousWakeup(w) \/ Enqueue(w) \/ CheckResult(w) \/ BecomeLeader(w)
    \/ NotAtFront(w) \/ WaitForMembership(w) \/ MarkFollower(w) \/ FollowerStep(w)
    \/ EnterWalStage(w) \/ DropWalGuard(w) \/ EnterMemStage(w) \/ LoadMemtable(w)
    \/ WriteMemtable(w) \/ KeepMemtable(w) \/ RotateFails(w) \/ DropTicket(w)
    \/ NotifyMember(w)

\* Every step preserves the order of the LSNs in and between the WALs.
LEMMA LsnStep ==
    ASSUME TypeOK, TypeOK', GroupInv, WalExclusive, LsnInv, WalOrdered,
           NEW w \in Writers, Step(w) \/ SpuriousWakeup(w)
    PROVE  LsnInv' /\ WalOrdered'
<1> DEFINE Logging == {"LeaderWritingWal", "AppendWal"}
<1>1. \A v \in Writers \ {w} : pc'[v] \in Logging => pc'[v] = pc[v]
  BY PcStep DEF Woken
<1>2. \A g \in Generations : wals[g] \in Seq(Entry) /\ \A i \in DOMAIN wals[g] : wals[g][i].lsn \in Nat
  <2>1. \A g \in Generations : wals[g] \in Seq(Entry)
    BY ElementOfSeq DEF TypeOK, Generations
  <2>2. \A g \in Generations : \A i \in DOMAIN wals[g] : wals[g][i] \in Entry
    BY <2>1, ElementOfSeq, LenProperties
  <2> QED
    BY <2>1, <2>2 DEF Entry
<1>3. CASE Quiet(w)
  <2>1. wals' = wals /\ next_lsn' = next_lsn /\ start' = start
    BY <1>3 DEF Quiet, SpuriousWakeup, Enqueue, CheckResult, BecomeLeader, NotAtFront,
       WaitForMembership, MarkFollower, FollowerStep, EnterWalStage, DropWalGuard,
       EnterMemStage, LoadMemtable, WriteMemtable, KeepMemtable, RotateFails, DropTicket,
       NotifyMember, syncVars, groupVars, dataVars
  <2>2. \A v \in Writers \ {w} : group'[v] = group[v] /\ version'[v] = version[v]
    BY <1>3 DEF Quiet, SpuriousWakeup, Enqueue, CheckResult, BecomeLeader, NotAtFront,
       WaitForMembership, MarkFollower, FollowerStep, EnterWalStage, DropWalGuard,
       EnterMemStage, LoadMemtable, WriteMemtable, KeepMemtable, RotateFails, DropTicket,
       NotifyMember, groupVars, TypeOK
  <2>3. pc'[w] \notin Logging
    <3>1. CASE MarkFollower(w) \/ DropWalGuard(w) \/ DropTicket(w) \/ NotifyMember(w)
      BY <3>1, OwnPc DEF AfterNotify
    <3>2. CASE SpuriousWakeup(w) \/ Enqueue(w) \/ CheckResult(w) \/ BecomeLeader(w)
               \/ NotAtFront(w) \/ WaitForMembership(w) \/ FollowerStep(w)
      BY <3>2 DEF SpuriousWakeup, Resume, Asleep, Enqueue, CheckResult, BecomeLeader,
         NotAtFront, WaitForMembership, FollowerStep, TypeOK
    <3>3. CASE EnterWalStage(w) \/ EnterMemStage(w) \/ LoadMemtable(w) \/ WriteMemtable(w)
               \/ KeepMemtable(w) \/ RotateFails(w)
      BY <3>3 DEF EnterWalStage, EnterMemStage, LoadMemtable, WriteMemtable, KeepMemtable,
         RotateFails, TypeOK
    <3> QED
      BY <1>3, <3>1, <3>2, <3>3 DEF Quiet
  <2> QED
    BY <1>1, <2>1, <2>2, <2>3 DEF LsnInv, WalOrdered, Generations
<1>4. CASE TakeTicket(w)
  <2>1. wals' = wals /\ next_lsn' = next_lsn + Len(group[w]) /\ start'[w] = next_lsn
        /\ group' = group /\ pc'[w] = "LeaderWritingWal" /\ pc[w] \in InWalStage
    BY <1>4 DEF TakeTicket, TypeOK, dataVars, InWalStage
  <2>2. Len(group[w]) \in Nat /\ next_lsn \in Nat
    BY LoadedWal DEF TypeOK
  <2>3. \A v \in Writers : pc'[v] \in Logging => v = w
    BY <1>1, <2>1 DEF WalExclusive, InWalStage
  <2>4. \A g \in Generations : \A i \in DOMAIN wals[g] :
          wals[g][i].lsn < next_lsn /\ wals[g][i].lsn < next_lsn'
    BY <1>2, <2>1, <2>2 DEF LsnInv
  <2> QED
    BY <2>1, <2>2, <2>3, <2>4 DEF LsnInv, WalOrdered, Generations
<1>5. CASE LoadWal(w)
  <2>1. wals' = wals /\ next_lsn' = next_lsn /\ start' = start /\ group' = group
        /\ version'[w] = Len(wals) /\ pc[w] = "LeaderWritingWal"
    BY <1>5 DEF LoadWal, TypeOK, dataVars, syncVars
  <2>2. \A v \in Writers : pc'[v] \in Logging => v = w
    BY <1>1, <2>1 DEF WalExclusive, InWalStage
  <2>3. \A g \in Generations : ~ (Len(wals) < g)
    BY DEF Generations, TypeOK
  <2> QED
    BY <2>1, <2>2, <2>3 DEF LsnInv, WalOrdered, Generations
<1>6. CASE WriteWal(w) \/ WriteWalFails(w)
  <2>1. PICK n \in Nat, f \in Nat : n <= Len(group[w]) /\ Logs(w, n, f)
    <3>1. Len(group[w]) \in Nat /\ Len(wals[version[w]]) \in Nat /\ flushed[version[w]] \in Nat
      BY LoadedWal
    <3>2. \A a, b \in Nat : a <= a /\ b + a \in Nat
      OBVIOUS
    <3>3. \A a, b, c \in Nat : \A n \in 0 .. a :
            n \in Nat /\ n <= a /\ \A f \in b .. (c + n) : f \in Nat
      OBVIOUS
    <3>4. CASE WriteWal(w)
      BY <3>1, <3>2, <3>4, WriteWalFact
    <3>5. CASE WriteWalFails(w)
      BY <3>1, <3>3, <3>5, WriteWalFailsFact
    <3> QED
      BY <1>6, <3>4, <3>5
  <2>2. /\ pc[w] = "AppendWal" /\ pc'[w] = "DropWalGuard" /\ next_lsn' = next_lsn
        /\ Len(wals') = Len(wals) /\ Generations' = Generations
    BY <1>6, <2>1 DEF WriteWal, WriteWalFails, TypeOK, syncVars, Logs, Generations
  <2>3. \A v \in Writers : pc'[v] \notin Logging
    BY <1>1, <2>2 DEF WalExclusive, InWalStage
  <2>4. start[w] \in Nat /\ next_lsn \in Nat /\ Len(group[w]) \in Nat
    BY LoadedWal DEF TypeOK
  <2>5. /\ start[w] + Len(group[w]) <= next_lsn
        /\ \A g \in Generations : \A i \in DOMAIN wals[g] : wals[g][i].lsn < start[w]
        /\ \A g \in Generations : version[w] < g => wals[g] = <<>>
    BY <2>2 DEF LsnInv
  <2>6. \A k \in 1 .. n : Batch(w)[k].lsn = (start[w] + k) - 1
    <3>1. \A a, b \in Nat : a <= b => \A k \in 1 .. a : k \in 1 .. b
      OBVIOUS
    <3> QED
      BY <2>1, <2>4, <3>1, BatchFact
  <2> DEFINE Old(g, i) == i \in DOMAIN wals[g] /\ wals'[g][i] = wals[g][i]
             New(g, i) == /\ g = version[w] /\ i \in Nat /\ i > Len(wals[g])
                          /\ \E k \in 1 .. n : i = Len(wals[g]) + k
                                               /\ wals'[g][i].lsn = (start[w] + k) - 1
  <2>7. \A g \in Generations : \A i \in DOMAIN wals'[g] : Old(g, i) \/ New(g, i)
    BY <2>1, <2>6, LoggedEntry
  <2>8. \A g \in Generations : \A i \in DOMAIN wals'[g] :
          New(g, i) => /\ wals'[g][i].lsn \in Nat /\ wals'[g][i].lsn >= start[w]
                       /\ wals'[g][i].lsn < next_lsn
    <3> SUFFICES ASSUME NEW g \in Generations, NEW i \in DOMAIN wals'[g], NEW k \in 1 .. n,
                        wals'[g][i].lsn = (start[w] + k) - 1
                 PROVE  /\ wals'[g][i].lsn \in Nat /\ wals'[g][i].lsn >= start[w]
                        /\ wals'[g][i].lsn < next_lsn
      OBVIOUS
    <3>1. \A s0, l, m, nn \in Nat : s0 + l <= nn /\ m <= l =>
            \A kk \in 1 .. m : (s0 + kk) - 1 \in Nat /\ (s0 + kk) - 1 >= s0 /\ (s0 + kk) - 1 < nn
      OBVIOUS
    <3> QED
      BY <2>1, <2>4, <2>5, <3>1
  <2>9. \A g \in Generations : \A i \in DOMAIN wals'[g] : wals'[g][i].lsn < next_lsn
    BY <2>7, <2>8 DEF LsnInv
  <2>10. ASSUME NEW g \in Generations, NEW h \in Generations,
                NEW i \in DOMAIN wals'[g], NEW j \in DOMAIN wals'[h],
                g < h \/ (g = h /\ i < j)
         PROVE  wals'[g][i].lsn < wals'[h][j].lsn
    <3>1. CASE Old(g, i) /\ Old(h, j)
      BY <2>10, <3>1 DEF WalOrdered
    <3>2. CASE Old(g, i) /\ New(h, j)
      <4>1. \A a, b, c \in Nat : a < b /\ c >= b => a < c
        OBVIOUS
      <4>2. wals[g][i].lsn \in Nat /\ wals[g][i].lsn < start[w]
        BY <1>2, <2>5, <3>2
      <4> QED
        BY <2>4, <2>8, <3>2, <4>1, <4>2
    <3>3. CASE New(g, i) /\ Old(h, j)
      <4>1. wals[g] \in Seq(Entry) /\ wals[h] \in Seq(Entry)
        BY <1>2
      <4>2. CASE g < h
        <5>1. wals[h] = <<>>
          BY <2>5, <3>3, <4>2
        <5> QED
          BY <3>3, <5>1
      <4>3. CASE g = h /\ i < j
        <5>1. DOMAIN wals[h] = 1 .. Len(wals[h]) /\ Len(wals[h]) \in Nat
          BY <4>1, LenProperties
        <5>2. \A l \in Nat : \A a \in Nat, b \in 1 .. l : a > l => ~ (a < b)
          OBVIOUS
        <5> QED
          BY <3>3, <4>3, <5>1, <5>2
      <4> QED
        BY <2>10, <4>2, <4>3
    <3>4. CASE New(g, i) /\ New(h, j)
      <4>1. g = h /\ i < j
        <5>1. version[w] \in Nat
          BY LoadedWal
        <5>2. \A a \in Nat : ~ (a < a)
          OBVIOUS
        <5> QED
          BY <2>10, <3>4, <5>1, <5>2
      <4>2. PICK a \in 1 .. n : i = Len(wals[g]) + a /\ wals'[g][i].lsn = (start[w] + a) - 1
        BY <3>4
      <4>3. PICK b \in 1 .. n : j = Len(wals[g]) + b /\ wals'[h][j].lsn = (start[w] + b) - 1
        BY <3>4, <4>1
      <4>4. Len(wals[g]) \in Nat /\ a \in Nat /\ b \in Nat
        BY <1>2, <2>1, LenProperties
      <4>5. \A l, s0, x, y \in Nat : l + x < l + y => (s0 + x) - 1 < (s0 + y) - 1
        OBVIOUS
      <4> QED
        BY <2>4, <4>1, <4>2, <4>3, <4>4, <4>5
    <3> QED
      BY <2>7, <3>1, <3>2, <3>3, <3>4
  <2>11. WalOrdered'
    BY <2>2, <2>10 DEF WalOrdered
  <2>12. LsnInv'
    BY <2>2, <2>3, <2>9 DEF LsnInv
  <2> QED
    BY <2>11, <2>12
<1>7. CASE RotateMemtable(w)
  <2>1. /\ next_lsn' = next_lsn /\ start' = start /\ group' = group /\ version' = version
        /\ pc'[w] = "DropTicket"
    BY <1>7 DEF RotateMemtable, TypeOK, syncVars, groupVars
  <2>2. /\ \A g \in Generations' : g \in Generations \/ g = Len(wals) + 1
        /\ \A g \in Generations : g \in Generations'
    <3>1. Len(wals) \in Nat
      BY LenProperties DEF TypeOK
    <3>2. Len(wals') = Len(wals) + 1
      BY <1>7, RotateFact
    <3>3. \A n \in Nat : /\ \A g \in 1 .. (n + 1) : g \in 1 .. n \/ g = n + 1
                         /\ \A g \in 1 .. n : g \in 1 .. (n + 1)
      OBVIOUS
    <3> QED
      BY <3>1, <3>2, <3>3 DEF Generations
  <2>3. /\ \A g \in Generations : wals'[g] = wals[g]
        /\ wals'[Len(wals) + 1] = <<>>
    BY <1>7, RotateFact
  <2>4. \A g \in Generations' : \A i \in DOMAIN wals'[g] : g \in Generations /\ wals'[g] = wals[g]
    BY <2>2, <2>3
  <2>5. WalOrdered'
    BY <2>4 DEF WalOrdered
  <2>6. LsnInv'
    BY <1>1, <2>1, <2>2, <2>3, <2>4 DEF LsnInv
  <2> QED
    BY <2>5, <2>6
<1> QED
  BY <1>3, <1>4, <1>5, <1>6, <1>7 DEF Step, Quiet

\* The LSN argument as an invariant of the specification.
LEMMA LsnInvariant == Spec => [](LsnInv /\ WalOrdered)
<1>1. Init => LsnInv /\ WalOrdered
  <2> SUFFICES ASSUME Init PROVE LsnInv /\ WalOrdered
    OBVIOUS
  <2>1. Len(wals) = 1 /\ wals[1] = <<>>
    BY DEF Init
  <2>2. \A g \in Generations : DOMAIN wals[g] = {}
    BY <2>1 DEF Generations
  <2> QED
    BY <2>2 DEF Init, LsnInv, WalOrdered
<1>2. TypeOK /\ TypeOK' /\ GroupInv /\ WalExclusive /\ LsnInv /\ WalOrdered /\ [Next]_vars
        => LsnInv' /\ WalOrdered'
  <2> SUFFICES ASSUME TypeOK, TypeOK', GroupInv, WalExclusive, LsnInv, WalOrdered, [Next]_vars
               PROVE  LsnInv' /\ WalOrdered'
    OBVIOUS
  <2>1. CASE \E w \in Writers : Step(w) \/ SpuriousWakeup(w)
    BY <2>1, LsnStep
  <2>2. CASE UNCHANGED vars
    BY <2>2 DEF vars, syncVars, groupVars, dataVars, LsnInv, WalOrdered, Generations
  <2> QED
    BY <2>1, <2>2 DEF Next, Terminated
<1> QED
  BY <1>1, <1>2, ExclusiveInvariant, PTL DEF Spec

\* LSNs increase strictly along the WALs, through failed writes and rotations by
\* other leaders between the load of the WAL and the write (write_req.rs,
\* LeaderWritingWal; lib.rs, write_wal).
THEOREM WalLsnOrder == Spec => []WalOrdered
  BY LsnInvariant, PTL
-----------------------------------------------------------------------------
(* Acknowledgements. *)

\* No step unlogs or removes an entry: what reached a file or a memtable stays, and
\* stays where it is.
LEMMA DataGrows ==
    ASSUME TypeOK, TypeOK', FlushInv, NEW w \in Writers, Step(w) \/ SpuriousWakeup(w)
    PROVE  /\ FlushInv'
           /\ \A g \in Generations :
                /\ g \in Generations' /\ mems[g] \subseteq mems'[g]
                /\ \A i \in 1 .. flushed[g] : i \in 1 .. flushed'[g] /\ wals'[g][i] = wals[g][i]
           /\ \A r \in Writers : (Durable(r) => Durable(r)') /\ (Visible(r) => Visible(r)')
<1>1. CASE Quiet(w) \/ TakeTicket(w) \/ LoadWal(w)
  <2>1. wals' = wals /\ flushed' = flushed
    BY <1>1 DEF Quiet, SpuriousWakeup, Enqueue, CheckResult, BecomeLeader, NotAtFront,
       WaitForMembership, MarkFollower, FollowerStep, EnterWalStage, DropWalGuard,
       EnterMemStage, LoadMemtable, WriteMemtable, KeepMemtable, RotateFails, DropTicket,
       NotifyMember, TakeTicket, LoadWal, dataVars
  <2>2. \A g \in Generations : mems[g] \subseteq mems'[g]
    <3>1. CASE WriteMemtable(w)
      BY <3>1, WriteMemtableFact
    <3>2. CASE ~ WriteMemtable(w)
      BY <1>1, <3>2 DEF Quiet, SpuriousWakeup, Enqueue, CheckResult, BecomeLeader, NotAtFront,
         WaitForMembership, MarkFollower, FollowerStep, EnterWalStage, DropWalGuard,
         EnterMemStage, LoadMemtable, KeepMemtable, RotateFails, DropTicket,
         NotifyMember, TakeTicket, LoadWal, dataVars
    <3> QED
      BY <3>1, <3>2
  <2> QED
    BY <2>1, <2>2 DEF FlushInv, Durable, Visible, Generations
<1>2. CASE WriteWal(w) \/ WriteWalFails(w)
  <2> DEFINE k == version[w]
  <2>1. PICK n \in Nat, f \in Nat :
          /\ Logs(w, n, f)
          /\ flushed[k] <= f /\ f <= Len(wals[k]) + n
    <3>1. /\ Len(group[w]) \in Nat /\ Len(wals[k]) \in Nat /\ flushed[k] \in Nat
          /\ flushed[k] <= Len(wals[k])
      BY LoadedWal DEF FlushInv, Generations
    <3>2. \A a, b, c \in Nat : c <= b => b + a \in Nat /\ c <= b + a /\ b + a <= b + a
      OBVIOUS
    <3>3. \A a, b, c \in Nat : \A n \in 0 .. a : \A f \in c .. (b + n) :
            n \in Nat /\ f \in Nat /\ c <= f /\ f <= b + n
      OBVIOUS
    <3>4. CASE WriteWal(w)
      BY <3>1, <3>2, <3>4, WriteWalFact
    <3>5. CASE WriteWalFails(w)
      BY <3>1, <3>3, <3>5, WriteWalFailsFact
    <3> QED
      BY <1>2, <3>4, <3>5
  <2>2. /\ Len(wals) \in Nat /\ Len(wals') = Len(wals) /\ mems' = mems
        /\ Generations' = Generations /\ k \in Generations
    BY <2>1, LoadedWal DEF Logs, Generations
  <2>3. /\ \A g \in Generations \ {k} : wals'[g] = wals[g] /\ flushed'[g] = flushed[g]
        /\ flushed'[k] = f /\ Len(wals'[k]) = Len(wals[k]) + n
        /\ \A i \in 1 .. Len(wals[k]) : wals'[k][i] = wals[k][i]
    BY <2>1 DEF Logs
  <2>4. FlushInv'
    BY <2>1, <2>2, <2>3 DEF FlushInv
  <2>5. \A g \in Generations : \A i \in 1 .. flushed[g] :
          i \in 1 .. flushed'[g] /\ wals'[g][i] = wals[g][i]
    <3>1. flushed[k] \in Nat /\ Len(wals[k]) \in Nat /\ flushed[k] <= Len(wals[k])
      BY <2>2, LoadedWal DEF FlushInv
    <3>2. \A a, b, c \in Nat : a <= b /\ a <= c => \A i \in 1 .. a : i \in 1 .. b /\ i \in 1 .. c
      OBVIOUS
    <3>3. \A i \in 1 .. flushed[k] : i \in 1 .. f /\ i \in 1 .. Len(wals[k])
      BY <2>1, <3>1, <3>2
    <3> HIDE DEF k
    <3> QED
      BY <2>3, <3>3
  <2> HIDE DEF k
  <2>6. \A r \in Writers : Durable(r) => Durable(r)'
    BY <2>2, <2>5 DEF Durable
  <2>7. \A r \in Writers : Visible(r) => Visible(r)'
    BY <2>2 DEF Visible
  <2> QED
    BY <2>2, <2>4, <2>5, <2>6, <2>7
<1>3. CASE RotateMemtable(w)
  <2>1. \A n \in Nat : /\ \A g \in 1 .. (n + 1) : g \in 1 .. n \/ g = n + 1
                       /\ \A g \in 1 .. n : g \in 1 .. (n + 1)
    OBVIOUS
  <2>2. Len(wals) \in Nat /\ Len(wals') = Len(wals) + 1
    BY <1>3, RotateFact, LenProperties DEF TypeOK
  <2>3. /\ \A g \in Generations' : g \in Generations \/ g = Len(wals) + 1
        /\ \A g \in Generations : g \in Generations'
    BY <2>1, <2>2 DEF Generations
  <2>4. /\ \A g \in Generations :
             wals'[g] = wals[g] /\ flushed'[g] = flushed[g] /\ mems'[g] = mems[g]
        /\ flushed'[Len(wals) + 1] = 0 /\ wals'[Len(wals) + 1] = <<>>
    BY <1>3, RotateFact
  <2>5. FlushInv'
    <3>1. 0 <= Len(<<>>)
      OBVIOUS
    <3> QED
      BY <2>3, <2>4, <3>1 DEF FlushInv
  <2>6. \A r \in Writers : (Durable(r) => Durable(r)') /\ (Visible(r) => Visible(r)')
    BY <2>3, <2>4 DEF Durable, Visible
  <2>7. \A g \in Generations : \A i \in 1 .. flushed[g] :
          i \in 1 .. flushed'[g] /\ wals'[g][i] = wals[g][i]
    BY <2>4
  <2> QED
    BY <2>3, <2>4, <2>5, <2>6, <2>7
<1> QED
  BY <1>1, <1>2, <1>3 DEF Step, Quiet

\* Each stage is entered with the outcome its code relies on.
LEMMA OutcomeStep ==
    ASSUME TypeOK, OutcomeInv, NEW w \in Writers, Step(w) \/ SpuriousWakeup(w)
    PROVE  OutcomeInv'
<1> DEFINE Inv(v) ==
      /\ pc[v] \in Seeking \cup Unlogged => ~ committed[v] /\ err[v] = "none"
      /\ pc[v] \in WaitingForMem \cup InMemStage => committed[v] /\ err[v] = "none"
      /\ pc[v] \in {"DropWalGuard", "DropTicket", "NotifyGroup"} =>
           (committed[v] <=> err[v] # "wal")
      /\ pc[v] = "DropWalGuard" => err[v] # "rotate"
<1>1. \A v \in Writers : Inv(v)
  BY DEF OutcomeInv
<1>2. \A v \in Writers \ {w} : Inv(v)'
  <2>1. \A v \in Writers \ {w} : committed'[v] = committed[v] /\ err'[v] = err[v]
    BY DEF Step, SpuriousWakeup, Enqueue, CheckResult, BecomeLeader, NotAtFront,
       WaitForMembership, MarkFollower, FollowerStep, EnterWalStage, TakeTicket, LoadWal,
       WriteWal, WriteWalFails, DropWalGuard, EnterMemStage, LoadMemtable, WriteMemtable,
       KeepMemtable, RotateMemtable, RotateFails, DropTicket, NotifyMember, groupVars, TypeOK
  <2>2. \A v \in Writers \ {w} : Woken(v)
    BY PcStep
  <2> QED
    BY <1>1, <2>1, <2>2 DEF Woken, Seeking, Unlogged, WaitingForMem, InMemStage
<1>3. Inv(w)'
  <2> USE <1>1 DEF Seeking, Unlogged, WaitingForMem, InMemStage
  <2>1. CASE SpuriousWakeup(w) \/ Enqueue(w) \/ CheckResult(w) \/ BecomeLeader(w)
             \/ NotAtFront(w) \/ WaitForMembership(w) \/ FollowerStep(w)
    <3>1. committed' = committed /\ err' = err
      BY <2>1 DEF SpuriousWakeup, Enqueue, CheckResult, BecomeLeader, NotAtFront,
         WaitForMembership, FollowerStep, groupVars
    <3>2. \/ pc[w] \in Seeking \cup {"FollowerWaitingCompletion", "FollowerAsleep"}
             /\ pc'[w] \in {"CheckResult", "CheckFront", "CheckNone", "SeekAsleep", "MarkFollowers",
                            "FollowerWaitingCompletion", "FollowerAsleep", "Ok", "Err"}
             /\ (pc[w] \notin Seeking => pc'[w] \notin Seeking \cup {"MarkFollowers"})
          \/ pc[w] = "WalAsleep" /\ pc'[w] = "LeaderWaitingToWriteWal"
          \/ pc[w] = "MemAsleep" /\ pc'[w] = "LeaderWaitingToWriteMemtable"
      BY <2>1 DEF SpuriousWakeup, Resume, Asleep, Enqueue, CheckResult, BecomeLeader,
         NotAtFront, WaitForMembership, FollowerStep, TypeOK
    <3> QED
      BY <3>1, <3>2
  <2>2. CASE EnterWalStage(w) \/ TakeTicket(w) \/ LoadWal(w) \/ EnterMemStage(w)
             \/ LoadMemtable(w) \/ WriteMemtable(w) \/ KeepMemtable(w) \/ RotateMemtable(w)
    <3>1. committed' = committed /\ err' = err
      BY <2>2 DEF EnterWalStage, TakeTicket, LoadWal, EnterMemStage, LoadMemtable,
         WriteMemtable, KeepMemtable, RotateMemtable, groupVars
    <3>2. \/ pc[w] \in Unlogged /\ pc'[w] \in Unlogged
          \/ pc[w] \in WaitingForMem \cup InMemStage
               /\ pc'[w] \in WaitingForMem \cup InMemStage \cup {"DropTicket"}
      <4>1. CASE EnterWalStage(w)
        BY <4>1, OwnPc DEF EnterWalStage
      <4>2. CASE TakeTicket(w)
        BY <4>2, OwnPc DEF TakeTicket
      <4>3. CASE LoadWal(w)
        BY <4>3, OwnPc DEF LoadWal
      <4>4. CASE EnterMemStage(w)
        BY <4>4, OwnPc DEF EnterMemStage
      <4>5. CASE LoadMemtable(w)
        BY <4>5, OwnPc DEF LoadMemtable
      <4>6. CASE WriteMemtable(w)
        BY <4>6, OwnPc DEF WriteMemtable
      <4>7. CASE KeepMemtable(w)
        BY <4>7, OwnPc DEF KeepMemtable
      <4>8. CASE RotateMemtable(w)
        BY <4>8, OwnPc DEF RotateMemtable
      <4> QED
        BY <2>2, <4>1, <4>2, <4>3, <4>4, <4>5, <4>6, <4>7, <4>8
    <3> QED
      BY <3>1, <3>2
  <2>3. CASE WriteWal(w) \/ WriteWalFails(w) \/ RotateFails(w)
    <3>1. CASE WriteWal(w)
      <4>1. pc[w] = "AppendWal" /\ pc'[w] = "DropWalGuard" /\ committed'[w] /\ err'[w] = err[w]
        BY <3>1 DEF WriteWal, TypeOK
      <4> QED
        BY <4>1
    <3>2. CASE WriteWalFails(w)
      <4>1. /\ pc[w] = "AppendWal" /\ pc'[w] = "DropWalGuard"
            /\ committed'[w] = committed[w] /\ err'[w] = "wal"
        BY <3>2 DEF WriteWalFails, TypeOK
      <4> QED
        BY <4>1
    <3>3. CASE RotateFails(w)
      <4>1. /\ pc[w] = "CheckSize" /\ pc'[w] = "NotifyGroup"
            /\ committed'[w] = committed[w] /\ err'[w] = "rotate"
        BY <3>3 DEF RotateFails, TypeOK
      <4> QED
        BY <4>1
    <3> QED
      BY <2>3, <3>1, <3>2, <3>3
  <2>4. CASE MarkFollower(w) \/ DropWalGuard(w) \/ DropTicket(w) \/ NotifyMember(w)
    <3>1. committed' = committed /\ err' = err
      BY <2>4 DEF MarkFollower, DropWalGuard, DropTicket, NotifyMember, groupVars
    <3>2. \/ pc[w] = "MarkFollowers" /\ pc'[w] \in {"LeaderWaitingToWriteWal", "MarkFollowers"}
          \/ pc[w] = "DropWalGuard" /\ err[w] = "none" /\ pc'[w] = "LeaderWaitingToWriteMemtable"
          \/ pc[w] = "DropWalGuard" /\ err[w] # "none" /\ pc'[w] = "DropTicket"
          \/ pc[w] = "DropTicket" /\ pc'[w] \in {"Err", "NotifyGroup"}
          \/ pc[w] = "NotifyGroup" /\ pc'[w] \in {"NotifyGroup", "Ok", "Err", "DropTicket"}
      <4>1. CASE MarkFollower(w)
        BY <4>1, OwnPc DEF MarkFollower
      <4>2. CASE DropWalGuard(w)
        BY <4>2, OwnPc DEF DropWalGuard
      <4>3. CASE DropTicket(w)
        BY <4>3, OwnPc DEF DropTicket
      <4>4. CASE NotifyMember(w)
        BY <4>4, OwnPc DEF NotifyMember, AfterNotify
      <4> QED
        BY <2>4, <4>1, <4>2, <4>3, <4>4
    <3>3. err[w] \in {"none", "wal", "rotate"}
      BY DEF TypeOK
    <3> QED
      BY <3>1, <3>2, <3>3
  <2> QED
    BY <2>1, <2>2, <2>3, <2>4 DEF Step
<1> QED
  BY <1>2, <1>3 DEF OutcomeInv

\* A step commits a group only when all of it is in the file, and leaves the
\* memtable stage only when all of it is in a memtable.
LEMMA CommitStep ==
    ASSUME TypeOK, TypeOK', GroupInv, FlushInv, OutcomeInv, CommitInv,
           NEW w \in Writers, Step(w) \/ SpuriousWakeup(w)
    PROVE  CommitInv'
<1> DEFINE Applied == {"CheckSize", "DropTicket", "NotifyGroup"}
<1>1. \A r \in Writers : (Durable(r) => Durable(r)') /\ (Visible(r) => Visible(r)')
  BY DataGrows
<1>2. \A v \in Writers : \A i \in DOMAIN group[v] : group[v][i] \in Writers
  <2>1. \A v \in Writers : group[v] \in Seq(Writers)
    BY DEF TypeOK
  <2> QED
    BY <2>1, ElementOfSeq, LenProperties
<1>3. ASSUME NEW v \in Writers, group'[v] = group[v], committed[v],
             pc'[v] \in Applied => pc[v] \in Applied,
             NEW i \in DOMAIN group'[v]
      PROVE  Durable(group[v][i])' /\ (pc'[v] \in Applied => Visible(group[v][i])')
  <2>1. group[v][i] \in Writers /\ Durable(group[v][i])
        /\ (pc[v] \in Applied => Visible(group[v][i]))
    BY <1>2, <1>3 DEF CommitInv
  <2>2. PICK r \in Writers : r = group[v][i]
    BY <2>1
  <2>3. Durable(r)' /\ (pc'[v] \in Applied => Visible(r)')
    BY <1>1, <1>3, <2>1, <2>2
  <2>4. r = group'[v][i]
    BY <1>3, <2>2
  <2> QED
    BY <2>3, <2>4 DEF Durable, Visible
<1> DEFINE Inv(v) ==
      committed[v] => \A i \in DOMAIN group[v] :
        Durable(group[v][i]) /\ (pc[v] \in Applied => Visible(group[v][i]))
<1>4. ASSUME NEW v \in Writers, group'[v] = group[v], committed'[v] = committed[v],
             pc'[v] \in Applied => pc[v] \in Applied
      PROVE  Inv(v)'
  BY <1>3, <1>4
<1>5. \A v \in Writers \ {w} : Inv(v)'
  <2>1. \A v \in Writers \ {w} : committed'[v] = committed[v] /\ group'[v] = group[v]
    BY DEF Step, SpuriousWakeup, Enqueue, CheckResult, BecomeLeader, NotAtFront,
       WaitForMembership, MarkFollower, FollowerStep, EnterWalStage, TakeTicket, LoadWal,
       WriteWal, WriteWalFails, DropWalGuard, EnterMemStage, LoadMemtable, WriteMemtable,
       KeepMemtable, RotateMemtable, RotateFails, DropTicket, NotifyMember, groupVars, TypeOK
  <2>2. \A v \in Writers \ {w} : pc'[v] \in Applied => pc[v] \in Applied
    BY PcStep DEF Woken
  <2> QED
    BY <1>4, <2>1, <2>2
<1>6. CASE BecomeLeader(w)
  <2>1. ~ committed'[w]
    BY <1>6 DEF BecomeLeader, OutcomeInv, Seeking
  <2> QED
    BY <1>5, <2>1 DEF CommitInv
<1>7. CASE WriteWal(w)
  <2> DEFINE k == version[w]
             n == Len(group[w])
  <2>1. group'[w] = group[w] /\ pc'[w] \notin Applied
    BY <1>7 DEF WriteWal, TypeOK
  <2>2. Logs(w, n, Len(wals[k]) + n)
    BY <1>7, WriteWalFact
  <2>3. /\ Len(wals') = Len(wals) /\ flushed'[k] = Len(wals[k]) + n
        /\ \A i \in 1 .. n : wals'[k][Len(wals[k]) + i] = Batch(w)[i]
    BY <2>2 DEF Logs
  <2>4. /\ k \in Generations /\ Len(wals[k]) \in Nat /\ n \in Nat
        /\ DOMAIN group[w] = 1 .. n
    <3>1. group[w] \in Seq(Writers)
      BY DEF TypeOK
    <3> QED
      BY <3>1, LoadedWal, LenProperties DEF Generations
  <2>5. \A a, b \in Nat : \A i \in 1 .. b : a + i \in 1 .. (a + b)
    OBVIOUS
  <2> HIDE DEF k, n
  <2>6. ASSUME NEW i \in DOMAIN group'[w] PROVE Durable(group[w][i])'
    <3>1. i \in 1 .. n /\ k \in Generations'
      BY <2>1, <2>3, <2>4, <2>6 DEF Generations
    <3>2. Batch(w)[i].req = group[w][i]
      BY <3>1, BatchFact DEF n
    <3>3. Len(wals[k]) + i \in 1 .. flushed'[k]
      BY <2>3, <2>4, <2>5, <3>1
    <3>4. wals'[k][Len(wals[k]) + i].req = group'[w][i]
      BY <2>1, <2>3, <3>1, <3>2
    <3> QED
      BY <3>1, <3>3, <3>4 DEF Durable
  <2> QED
    BY <1>5, <2>1, <2>6 DEF CommitInv
<1>8. CASE WriteMemtable(w)
  <2>1. group'[w] = group[w] /\ committed'[w] = committed[w] /\ wals' = wals /\ flushed' = flushed
    BY <1>8 DEF WriteMemtable, groupVars
  <2>2. mems'[version[w]] = mems[version[w]] \cup {Batch(w)[i] : i \in 1 .. Len(group[w])}
    BY <1>8, WriteMemtableFact
  <2>3. version[w] \in Generations' /\ DOMAIN group[w] = 1 .. Len(group[w])
    <3>1. group[w] \in Seq(Writers)
      BY DEF TypeOK
    <3> QED
      BY <2>1, <3>1, LoadedWal, LenProperties DEF Generations
  <2>4. ASSUME NEW i \in DOMAIN group'[w] PROVE Visible(group[w][i])'
    <3>1. i \in 1 .. Len(group[w])
      BY <2>1, <2>3, <2>4
    <3>2. Batch(w)[i] \in mems'[version[w]] /\ Batch(w)[i].req = group'[w][i]
      BY <2>1, <2>2, <3>1, BatchFact
    <3> QED
      BY <2>3, <3>2 DEF Visible
  <2>5. ASSUME committed[w], NEW i \in DOMAIN group'[w] PROVE Durable(group[w][i])'
    BY <2>1, <2>5 DEF CommitInv, Durable, Generations
  <2> QED
    BY <1>5, <2>1, <2>4, <2>5 DEF CommitInv
<1>9. CASE DropWalGuard(w)
  <2>1. group'[w] = group[w] /\ committed'[w] = committed[w]
    BY <1>9 DEF DropWalGuard, groupVars
  <2>2. pc'[w] \in Applied => ~ committed'[w]
    <3>1. pc[w] = "DropWalGuard" /\ (pc'[w] \in Applied => err[w] # "none")
      <4>1. pc[w] = "DropWalGuard"
        BY <1>9 DEF DropWalGuard
      <4>2. pc'[w] = IF err[w] = "none" THEN "LeaderWaitingToWriteMemtable" ELSE "DropTicket"
        BY <1>9, OwnPc
      <4> QED
        BY <4>1, <4>2
    <3>2. err[w] \in {"none", "wal", "rotate"}
      BY DEF TypeOK
    <3> QED
      BY <2>1, <3>1, <3>2 DEF OutcomeInv
  <2>3. Inv(w)'
    <3>1. CASE pc'[w] \in Applied
      BY <2>2, <3>1
    <3>2. CASE pc'[w] \notin Applied
      BY <1>4, <2>1, <3>2
    <3> QED
      BY <3>1, <3>2
  <2> QED
    BY <1>5, <2>3 DEF CommitInv
<1>10. CASE SpuriousWakeup(w) \/ Enqueue(w) \/ CheckResult(w) \/ NotAtFront(w)
            \/ WaitForMembership(w) \/ MarkFollower(w) \/ FollowerStep(w) \/ EnterWalStage(w)
            \/ TakeTicket(w) \/ LoadWal(w) \/ WriteWalFails(w) \/ EnterMemStage(w)
            \/ LoadMemtable(w) \/ KeepMemtable(w) \/ RotateMemtable(w) \/ RotateFails(w)
            \/ DropTicket(w) \/ NotifyMember(w)
  <2>1. group'[w] = group[w] /\ committed'[w] = committed[w]
    BY <1>10 DEF SpuriousWakeup, Enqueue, CheckResult, NotAtFront, WaitForMembership,
       MarkFollower, FollowerStep, EnterWalStage, TakeTicket, LoadWal, WriteWalFails,
       EnterMemStage, LoadMemtable, KeepMemtable, RotateMemtable, RotateFails, DropTicket,
       NotifyMember, groupVars
  <2>2. pc'[w] \in Applied => pc[w] \in Applied
    <3>1. CASE MarkFollower(w)
      BY <3>1, OwnPc
    <3>2. CASE KeepMemtable(w) \/ RotateMemtable(w) \/ RotateFails(w) \/ DropTicket(w)
               \/ NotifyMember(w)
      BY <3>2 DEF KeepMemtable, RotateMemtable, RotateFails, DropTicket, NotifyMember
    <3>3. CASE SpuriousWakeup(w) \/ Enqueue(w) \/ CheckResult(w) \/ NotAtFront(w)
               \/ WaitForMembership(w) \/ FollowerStep(w)
      <4>1. CASE SpuriousWakeup(w)
        BY <4>1 DEF SpuriousWakeup, Resume, Asleep, TypeOK
      <4>2. CASE Enqueue(w) \/ CheckResult(w) \/ NotAtFront(w)
        BY <4>2 DEF Enqueue, CheckResult, NotAtFront, TypeOK
      <4>3. CASE WaitForMembership(w) \/ FollowerStep(w)
        BY <4>3 DEF WaitForMembership, FollowerStep, TypeOK
      <4> QED
        BY <3>3, <4>1, <4>2, <4>3
    <3>4. CASE EnterWalStage(w) \/ TakeTicket(w) \/ LoadWal(w) \/ WriteWalFails(w)
               \/ EnterMemStage(w) \/ LoadMemtable(w)
      BY <3>4 DEF EnterWalStage, TakeTicket, LoadWal, WriteWalFails, EnterMemStage,
         LoadMemtable, TypeOK
    <3> QED
      BY <1>10, <3>1, <3>2, <3>3, <3>4
  <2>3. Inv(w)'
    BY <1>4, <2>1, <2>2
  <2> QED
    BY <1>5, <2>3 DEF CommitInv
<1> QED
  BY <1>6, <1>7, <1>8, <1>9, <1>10 DEF Step

\* GroupGuard::drop announces success, and a leader returns Ok, only for requests
\* of a committed and applied group.
LEMMA AckStep ==
    ASSUME TypeOK, TypeOK', GroupInv, FlushInv, OutcomeInv, CommitInv, AckInv,
           NEW w \in Writers, Step(w) \/ SpuriousWakeup(w)
    PROVE  AckInv'
<1>1. \A r \in Writers : (Durable(r) => Durable(r)') /\ (Visible(r) => Visible(r)')
  BY DataGrows
<1>2. \A v \in Writers \ {w} : pc'[v] = "Ok" => pc[v] = "Ok"
  BY PcStep DEF Woken
<1>3. ASSUME NEW v \in Writers, result'[v] = "success" => result[v] = "success",
             pc'[v] = "Ok" => pc[v] = "Ok" \/ result[v] = "success"
      PROVE  result'[v] = "success" \/ pc'[v] = "Ok" => Durable(v)' /\ Visible(v)'
  BY <1>1, <1>3 DEF AckInv
<1>4. CASE NotifyMember(w)
  <2> DEFINE r == Head(todo[w])
  <2>1. /\ pc[w] = "NotifyGroup" /\ group[w] # <<>> /\ group[w][1] = w
        /\ todo[w] # <<>> /\ todo[w] \in Seq(Writers) /\ group[w] \in Seq(Writers)
        /\ \A i \in DOMAIN todo[w] : \E j \in DOMAIN group[w] : todo[w][i] = group[w][j]
    BY <1>4 DEF NotifyMember, GroupInv, Leading, TypeOK
  <2>2. /\ 1 \in DOMAIN todo[w] /\ r = todo[w][1] /\ r \in Writers
        /\ 1 \in DOMAIN group[w]
    BY <2>1
  <2>3. result' = [result EXCEPT ![r] = IF committed[w] THEN "success" ELSE "error"]
    BY <1>4 DEF NotifyMember
  <2>4. PICK j \in DOMAIN group[w] : r = group[w][j]
    BY <2>1, <2>2
  <2> HIDE DEF r
  <2>5. committed[w] => /\ Durable(r) /\ Visible(r)
                        /\ Durable(w) /\ Visible(w)
    BY <2>1, <2>2, <2>4 DEF CommitInv
  <2>6. pc'[w] = "Ok" => committed[w]
    <3>1. pc'[w] = IF Len(todo[w]) > 1 THEN "NotifyGroup" ELSE AfterNotify(w)
      BY <1>4, OwnPc
    <3>2. pc'[w] = "Ok" => err[w] = "none"
      BY <3>1 DEF AfterNotify
    <3> QED
      BY <2>1, <3>2 DEF OutcomeInv
  <2>7. \A v \in Writers : result'[v] = "success" =>
          \/ v = r /\ committed[w]
          \/ result[v] = "success"
    BY <2>2, <2>3 DEF TypeOK
  <2>8. ASSUME NEW v \in Writers, result'[v] = "success" \/ pc'[v] = "Ok"
        PROVE  Durable(v) /\ Visible(v)
    <3>1. CASE result'[v] = "success"
      BY <2>5, <2>7, <3>1 DEF AckInv
    <3>2. CASE pc'[v] = "Ok" /\ v # w
      BY <1>2, <3>2 DEF AckInv
    <3>3. CASE pc'[v] = "Ok" /\ v = w
      BY <2>5, <2>6, <3>3
    <3> QED
      BY <2>8, <3>1, <3>2, <3>3
  <2> QED
    BY <1>1, <2>8 DEF AckInv
<1>5. CASE CheckResult(w) \/ FollowerStep(w)
  <2>1. /\ \A v \in Writers : result'[v] = "success" => result[v] = "success"
        /\ pc'[w] = "Ok" => result[w] = "success"
    BY <1>5 DEF CheckResult, FollowerStep, TypeOK
  <2> QED
    BY <1>2, <1>3, <2>1 DEF AckInv
<1>6. CASE MarkFollower(w)
  <2>1. \A v \in Writers : result'[v] = "success" => result[v] = "success"
    BY <1>6 DEF MarkFollower, TypeOK
  <2>2. pc'[w] # "Ok"
    BY <1>6, OwnPc
  <2> QED
    BY <1>2, <1>3, <2>1, <2>2 DEF AckInv
<1>7. CASE SpuriousWakeup(w) \/ Enqueue(w) \/ BecomeLeader(w) \/ NotAtFront(w)
           \/ WaitForMembership(w) \/ EnterWalStage(w) \/ TakeTicket(w) \/ LoadWal(w)
           \/ WriteWal(w) \/ WriteWalFails(w) \/ DropWalGuard(w) \/ EnterMemStage(w)
           \/ LoadMemtable(w) \/ WriteMemtable(w) \/ KeepMemtable(w) \/ RotateMemtable(w)
           \/ RotateFails(w) \/ DropTicket(w)
  <2>1. result' = result
    BY <1>7 DEF SpuriousWakeup, Enqueue, BecomeLeader, NotAtFront, WaitForMembership,
       EnterWalStage, TakeTicket, LoadWal, WriteWal, WriteWalFails, DropWalGuard,
       EnterMemStage, LoadMemtable, WriteMemtable, KeepMemtable, RotateMemtable,
       RotateFails, DropTicket
  <2>2. pc'[w] # "Ok"
    <3>1. CASE DropWalGuard(w) \/ DropTicket(w)
      BY <3>1, OwnPc
    <3>2. CASE SpuriousWakeup(w) \/ Enqueue(w) \/ BecomeLeader(w) \/ NotAtFront(w)
               \/ WaitForMembership(w) \/ EnterWalStage(w) \/ TakeTicket(w) \/ LoadWal(w)
      BY <3>2 DEF SpuriousWakeup, Resume, Asleep, Enqueue, BecomeLeader, NotAtFront,
         WaitForMembership, EnterWalStage, TakeTicket, LoadWal, TypeOK
    <3>3. CASE WriteWal(w) \/ WriteWalFails(w) \/ EnterMemStage(w) \/ LoadMemtable(w)
               \/ WriteMemtable(w) \/ KeepMemtable(w) \/ RotateMemtable(w) \/ RotateFails(w)
      BY <3>3 DEF WriteWal, WriteWalFails, EnterMemStage, LoadMemtable, WriteMemtable,
         KeepMemtable, RotateMemtable, RotateFails, TypeOK
    <3> QED
      BY <1>7, <3>1, <3>2, <3>3
  <2> QED
    BY <1>2, <1>3, <2>1, <2>2 DEF AckInv
<1> QED
  BY <1>4, <1>5, <1>6, <1>7 DEF Step

\* The four parts together are inductive relative to types and groups.
LEMMA AckInvariant == Spec => [](FlushInv /\ OutcomeInv /\ CommitInv /\ AckInv)
<1>1. Init => FlushInv /\ OutcomeInv /\ CommitInv /\ AckInv
  <2> SUFFICES ASSUME Init PROVE FlushInv /\ OutcomeInv /\ CommitInv /\ AckInv
    OBVIOUS
  <2>1. FlushInv
    <3>1. Len(wals) = 1 /\ flushed[1] = 0 /\ wals[1] = <<>> /\ 0 <= Len(<<>>)
      BY DEF Init
    <3>2. \A g \in Generations : g = 1
      BY <3>1 DEF Generations
    <3> QED
      BY <3>1, <3>2 DEF FlushInv
  <2>2. OutcomeInv
    BY DEF Init, OutcomeInv, Seeking, Unlogged, WaitingForMem, InMemStage
  <2>3. CommitInv /\ AckInv
    BY DEF Init, CommitInv, AckInv
  <2> QED
    BY <2>1, <2>2, <2>3
<1>2. /\ TypeOK /\ TypeOK' /\ GroupInv /\ FlushInv /\ OutcomeInv /\ CommitInv /\ AckInv
      /\ [Next]_vars
      => FlushInv' /\ OutcomeInv' /\ CommitInv' /\ AckInv'
  <2> SUFFICES ASSUME TypeOK, TypeOK', GroupInv, FlushInv, OutcomeInv, CommitInv, AckInv,
                      [Next]_vars
               PROVE  FlushInv' /\ OutcomeInv' /\ CommitInv' /\ AckInv'
    OBVIOUS
  <2>1. CASE \E w \in Writers : Step(w) \/ SpuriousWakeup(w)
    BY <2>1, DataGrows, OutcomeStep, CommitStep, AckStep
  <2>2. CASE UNCHANGED vars
    BY <2>2 DEF vars, syncVars, groupVars, dataVars, FlushInv, OutcomeInv, CommitInv,
       AckInv, Durable, Visible, Generations
  <2> QED
    BY <2>1, <2>2 DEF Next, Terminated
<1> QED
  BY <1>1, <1>2, TypeInvariant, PTL DEF Spec

\* When Db::write returns Ok, to a leader or to a follower, the entry has been
\* flushed and fsynced to a WAL, whatever errors other groups met.
THEOREM AckImpliesDurable == Spec => []AckedDurable
<1>1. AckInv => AckedDurable
  BY DEF AckInv, AckedDurable
<1> QED
  BY <1>1, AckInvariant, PTL

\* When Db::write returns Ok the entry is in a memtable, so a later read by the
\* same thread can find it.
THEOREM AckImpliesVisible == Spec => []AckedVisible
<1>1. AckInv => AckedVisible
  BY DEF AckInv, AckedVisible
<1> QED
  BY <1>1, AckInvariant, PTL
=============================================================================
