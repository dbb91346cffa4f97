-------------------------- MODULE WriteOrderProofs --------------------------
(***************************************************************************)
(* More proofs about the write path: who a request belongs to, what a      *)
(* failed write leaves behind, which WALs back a memtable, and the order   *)
(* in which groups pass through the memtable stage.                        *)
(***************************************************************************)
EXTENDS WritePathProofs

(* Stages of a leader, by what its group has reached; both are never left. *)
Past == {"DropWalGuard"} \cup WaitingForMem \cup InMemStage
        \cup {"DropTicket", "NotifyGroup", "Ok", "Err"}
Applied == {"CheckSize", "DropTicket", "NotifyGroup", "Ok", "Err"}

\* A request is in the queue or in one group, once, and a group belongs to a
\* thread that leads it or has led it.
MemberInv ==
    /\ IsInjective(write_queue)
    /\ \A w \in Writers : IsInjective(group[w])
    /\ \A v, w \in Writers : v # w => Range(group[v]) \cap Range(group[w]) = {}
    /\ \A w \in Writers : Range(group[w]) \cap Range(write_queue) = {}
    /\ \A w \in Writers : pc[w] = "WaitingToBeQueued" =>
         w \notin Range(write_queue) /\ \A v \in Writers : w \notin Range(group[v])
    /\ \A w \in Writers : group[w] # <<>> =>
         w \in Range(group[w]) /\ pc[w] \in Leading \cup {"Ok", "Err"}
    /\ \A w \in Writers : committed[w] => group[w] # <<>> /\ pc[w] \notin Unlogged

\* Every logged entry is of a group that has been handed to its WAL.
LoggedInv ==
    \A g \in Generations : \A i \in DOMAIN wals[g] :
      \E w \in Writers : wals[g][i].req \in Range(group[w]) /\ pc[w] \in Past

\* Every entry of a memtable is of a committed group past put_batch.
VisibleInv ==
    \A g \in Generations : \A e \in mems[g] :
      \E w \in Writers : e.req \in Range(group[w]) /\ committed[w] /\ pc[w] \in Applied

\* The WAL write of the group of r has failed.
Failed(r) == \E w \in Writers : r \in Range(group[w]) /\ ~ committed[w] /\ pc[w] \in Past

\* An error means a failed group, or the leader's own rotation.
ErrInv ==
    \A r \in Writers :
      /\ result[r] = "error" => Failed(r)
      /\ pc[r] = "Err" => Failed(r) \/ err[r] = "rotate"

\* The entries of a committed group are flushed, in a WAL no younger than the
\* memtable its leader has loaded.
BackedInv ==
    \A w \in Writers : committed[w] =>
      \A i \in DOMAIN group[w] : \E h \in Generations :
        /\ \E k \in 1 .. flushed[h] : wals[h][k] = Batch(w)[i]
        /\ pc[w] = "PutBatch" => h <= version[w]
-----------------------------------------------------------------------------
(* What one step moves. *)

\* The stages a thread can go to by its own step.
Moves(w) ==
    \/ pc[w] = "WaitingToBeQueued" /\ pc'[w] = "CheckResult"
    \/ pc[w] = "CheckResult" /\ pc'[w] \in {"CheckFront", "FollowerWaitingCompletion"}
    \/ pc[w] \in {"CheckResult", "FollowerWaitingCompletion"} /\ result[w] = "success"
       /\ pc'[w] = "Ok"
    \/ pc[w] \in {"CheckResult", "FollowerWaitingCompletion"} /\ result[w] = "error"
       /\ pc'[w] = "Err"
    \/ pc[w] = "CheckFront" /\ pc'[w] = "CheckNone"
    \/ pc[w] = "CheckFront" /\ pc'[w] = "MarkFollowers" /\ BecomeLeader(w)
    \/ pc[w] = "CheckNone" /\ pc'[w] \in {"SeekAsleep", "CheckResult"}
    \/ pc[w] = "SeekAsleep" /\ pc'[w] = "CheckResult"
    \/ pc[w] = "FollowerWaitingCompletion"
       /\ pc'[w] \in {"FollowerAsleep", "FollowerWaitingCompletion"}
    \/ pc[w] = "FollowerAsleep" /\ pc'[w] = "FollowerWaitingCompletion"
    \/ pc[w] = "MarkFollowers" /\ pc'[w] \in {"MarkFollowers", "LeaderWaitingToWriteWal"}
    \/ pc[w] = "LeaderWaitingToWriteWal" /\ pc'[w] \in {"WalAsleep", "TakeTicket"}
    \/ pc[w] = "WalAsleep" /\ pc'[w] = "LeaderWaitingToWriteWal"
    \/ pc[w] = "TakeTicket" /\ pc'[w] = "LeaderWritingWal" /\ TakeTicket(w)
    \/ pc[w] = "LeaderWritingWal" /\ pc'[w] = "AppendWal" /\ LoadWal(w)
    \/ pc[w] = "AppendWal" /\ pc'[w] = "DropWalGuard" /\ (WriteWal(w) \/ WriteWalFails(w))
    \/ pc[w] = "DropWalGuard" /\ err[w] = "none" /\ pc'[w] = "LeaderWaitingToWriteMemtable"
    \/ pc[w] = "DropWalGuard" /\ err[w] # "none" /\ pc'[w] = "DropTicket"
       /\ DropWalGuard(w)
    \/ pc[w] = "LeaderWaitingToWriteMemtable" /\ pc'[w] = "MemAsleep"
    \/ pc[w] = "LeaderWaitingToWriteMemtable" /\ pc'[w] = "LeaderWritingMemtable"
       /\ ticket_to_mem = ticket[w]
    \/ pc[w] = "MemAsleep" /\ pc'[w] = "LeaderWaitingToWriteMemtable"
    \/ pc[w] = "LeaderWritingMemtable" /\ pc'[w] = "PutBatch" /\ LoadMemtable(w)
    \/ pc[w] = "PutBatch" /\ pc'[w] = "CheckSize" /\ WriteMemtable(w)
    \/ pc[w] = "CheckSize" /\ pc'[w] = "DropTicket"
    \/ pc[w] = "CheckSize" /\ pc'[w] = "NotifyGroup" /\ RotateFails(w)
    \/ pc[w] = "DropTicket" /\ err[w] = "rotate" /\ pc'[w] = "Err" /\ DropTicket(w)
    \/ pc[w] = "DropTicket" /\ err[w] # "rotate" /\ pc'[w] = "NotifyGroup" /\ DropTicket(w)
    \/ pc[w] = "NotifyGroup" /\ pc'[w] = "NotifyGroup"
    \/ pc[w] = "NotifyGroup" /\ err[w] = "none" /\ pc'[w] = "Ok"
    \/ pc[w] = "NotifyGroup" /\ err[w] = "wal" /\ pc'[w] = "Err"
    \/ pc[w] = "NotifyGroup" /\ err[w] = "rotate" /\ pc'[w] = "DropTicket"

\* The table of Moves is complete.
LEMMA OwnMove ==
    ASSUME TypeOK, NEW w \in Writers, Step(w) \/ SpuriousWakeup(w)
    PROVE  Moves(w)
<1>1. CASE SpuriousWakeup(w)
  BY <1>1 DEF SpuriousWakeup, Resume, Asleep, TypeOK, Moves
<1>2. CASE Enqueue(w) \/ CheckResult(w)
  BY <1>2 DEF Enqueue, CheckResult, TypeOK, Moves
<1>3. CASE BecomeLeader(w) \/ NotAtFront(w) \/ WaitForMembership(w) \/ FollowerStep(w)
           \/ EnterWalStage(w) \/ EnterMemStage(w)
  <2>1. \/ pc[w] = "CheckFront" /\ pc'[w] = "CheckNone"
        \/ pc[w] = "CheckFront" /\ pc'[w] = "MarkFollowers" /\ BecomeLeader(w)
        \/ pc[w] = "CheckNone" /\ pc'[w] \in {"SeekAsleep", "CheckResult"}
        \/ pc[w] = "FollowerWaitingCompletion" /\ result[w] = "success" /\ pc'[w] = "Ok"
        \/ pc[w] = "FollowerWaitingCompletion" /\ result[w] = "error" /\ pc'[w] = "Err"
        \/ pc[w] = "FollowerWaitingCompletion"
           /\ pc'[w] \in {"FollowerAsleep", "FollowerWaitingCompletion"}
        \/ pc[w] = "LeaderWaitingToWriteWal" /\ pc'[w] \in {"WalAsleep", "TakeTicket"}
        \/ pc[w] = "LeaderWaitingToWriteMemtable" /\ pc'[w] = "MemAsleep"
        \/ pc[w] = "LeaderWaitingToWriteMemtable" /\ pc'[w] = "LeaderWritingMemtable"
           /\ ticket_to_mem = ticket[w]
    <3>1. CASE BecomeLeader(w) \/ NotAtFront(w) \/ WaitForMembership(w)
      BY <3>1 DEF BecomeLeader, NotAtFront, WaitForMembership, TypeOK
    <3>2. CASE FollowerStep(w) \/ EnterWalStage(w) \/ EnterMemStage(w)
      BY <3>2 DEF FollowerStep, EnterWalStage, EnterMemStage, TypeOK
    <3> QED
      BY <1>3, <3>1, <3>2
  <2> QED
    BY <2>1 DEF Moves
<1>10. CASE TakeTicket(w) \/ LoadWal(w)
  <2>1. \/ pc[w] = "TakeTicket" /\ pc'[w] = "LeaderWritingWal" /\ TakeTicket(w)
        \/ pc[w] = "LeaderWritingWal" /\ pc'[w] = "AppendWal" /\ LoadWal(w)
    BY <1>10 DEF TakeTicket, LoadWal, TypeOK
  <2> QED
    BY <2>1 DEF Moves
<1>4. CASE WriteWal(w) \/ WriteWalFails(w)
  <2>1. pc[w] = "AppendWal" /\ pc'[w] = "DropWalGuard"
    BY <1>4 DEF WriteWal, WriteWalFails, TypeOK
  <2> QED
    BY <1>4, <2>1 DEF Moves
<1>5. CASE LoadMemtable(w) \/ WriteMemtable(w) \/ KeepMemtable(w) \/ RotateMemtable(w)
           \/ RotateFails(w)
  <2>1. \/ pc[w] = "LeaderWritingMemtable" /\ pc'[w] = "PutBatch" /\ LoadMemtable(w)
        \/ pc[w] = "PutBatch" /\ pc'[w] = "CheckSize" /\ WriteMemtable(w)
        \/ pc[w] = "CheckSize" /\ pc'[w] = "DropTicket"
        \/ pc[w] = "CheckSize" /\ pc'[w] = "NotifyGroup" /\ RotateFails(w)
    BY <1>5 DEF LoadMemtable, WriteMemtable, KeepMemtable, RotateMemtable, RotateFails,
       TypeOK
  <2> QED
    BY <2>1 DEF Moves
<1>6. CASE MarkFollower(w)
  <2>1. pc[w] = "MarkFollowers" /\ pc'[w] \in {"MarkFollowers", "LeaderWaitingToWriteWal"}
    BY <1>6, OwnPc DEF MarkFollower
  <2> QED
    BY <2>1 DEF Moves
<1>7. CASE DropWalGuard(w)
  <2>1. pc[w] = "DropWalGuard"
        /\ pc'[w] = IF err[w] = "none" THEN "LeaderWaitingToWriteMemtable" ELSE "DropTicket"
    BY <1>7, OwnPc DEF DropWalGuard
  <2> QED
    BY <1>7, <2>1 DEF Moves
<1>8. CASE DropTicket(w)
  <2>1. pc[w] = "DropTicket" /\ pc'[w] = IF err[w] = "rotate" THEN "Err" ELSE "NotifyGroup"
    BY <1>8, OwnPc DEF DropTicket
  <2> QED
    BY <1>8, <2>1 DEF Moves
<1>9. CASE NotifyMember(w)
  <2>1. pc[w] = "NotifyGroup" /\ pc'[w] = IF Len(todo[w]) > 1 THEN "NotifyGroup" ELSE AfterNotify(w)
    BY <1>9, OwnPc DEF NotifyMember
  <2>2. err[w] \in {"none", "wal", "rotate"}
    BY DEF TypeOK
  <2> QED
    BY <2>1, <2>2 DEF Moves, AfterNotify
<1> QED
  BY <1>1, <1>2, <1>3, <1>4, <1>5, <1>6, <1>7, <1>8, <1>9, <1>10 DEF Step

\* The stages in which a thread stays, and how it enters the others.
LEMMA Advance ==
    ASSUME TypeOK, NEW w \in Writers, Step(w) \/ SpuriousWakeup(w), NEW v \in Writers
    PROVE  /\ pc[v] \in Past => pc'[v] \in Past
           /\ pc[v] \in Applied => pc'[v] \in Applied
           /\ pc[v] \in Leading \cup {"Ok", "Err"} => pc'[v] \in Leading \cup {"Ok", "Err"}
           /\ pc'[v] = "WaitingToBeQueued" => pc[v] = "WaitingToBeQueued" /\ v # w
           /\ pc'[v] \in Unlogged =>
                \/ pc[v] \in Unlogged
                \/ v = w /\ BecomeLeader(w)
<1> USE DEF Past, Applied, Leading, Unlogged, WaitingForMem, InMemStage
<1>1. CASE v = w
  BY <1>1, OwnMove DEF Moves
<1>2. CASE v # w
  BY <1>2, PcStep DEF Woken
<1> QED
  BY <1>1, <1>2

\* The action that changes a variable, and at whose index.
LEMMA Frame ==
    ASSUME TypeOK, NEW w \in Writers, Step(w) \/ SpuriousWakeup(w)
    PROVE  /\ ~ (Enqueue(w) \/ BecomeLeader(w)) => write_queue' = write_queue
           /\ ~ BecomeLeader(w) => group' = group
           /\ ~ WriteWal(w) => committed' = committed
           /\ ~ TakeTicket(w) => ticket' = ticket /\ start' = start
                                 /\ next_ticket' = next_ticket /\ next_lsn' = next_lsn
           /\ ~ DropTicket(w) => ticket_to_mem' = ticket_to_mem
           /\ ~ (LoadWal(w) \/ LoadMemtable(w)) => version' = version
           /\ ~ (WriteWalFails(w) \/ RotateFails(w)) => err' = err
<1>1. CASE SpuriousWakeup(w) \/ Enqueue(w) \/ CheckResult(w) \/ BecomeLeader(w) \/ NotAtFront(w)
           \/ WaitForMembership(w) \/ MarkFollower(w) \/ FollowerStep(w) \/ EnterWalStage(w)
           \/ TakeTicket(w) \/ LoadWal(w)
  BY <1>1 DEF SpuriousWakeup, Enqueue, CheckResult, BecomeLeader, NotAtFront,
     WaitForMembership, MarkFollower, FollowerStep, EnterWalStage, TakeTicket, LoadWal,
     syncVars, groupVars
<1>2. CASE WriteWal(w) \/ WriteWalFails(w) \/ DropWalGuard(w) \/ EnterMemStage(w)
           \/ LoadMemtable(w) \/ WriteMemtable(w) \/ KeepMemtable(w) \/ RotateMemtable(w)
           \/ RotateFails(w) \/ DropTicket(w) \/ NotifyMember(w)
  BY <1>2 DEF WriteWal, WriteWalFails, DropWalGuard, EnterMemStage, LoadMemtable,
     WriteMemtable, KeepMemtable, RotateMemtable, RotateFails, DropTicket, NotifyMember,
     syncVars, groupVars
<1> QED
  BY <1>1, <1>2 DEF Step

\* The steps that touch the WALs, the memtables and the results.
LEMMA DataFrame ==
    ASSUME NEW w \in Writers, Step(w) \/ SpuriousWakeup(w)
    PROVE  /\ ~ (WriteWal(w) \/ WriteWalFails(w) \/ RotateMemtable(w)) => wals' = wals
           /\ ~ (WriteMemtable(w) \/ RotateMemtable(w)) => mems' = mems
           /\ ~ (CheckResult(w) \/ MarkFollower(w) \/ FollowerStep(w) \/ NotifyMember(w)) =>
                result' = result
<1>1. CASE SpuriousWakeup(w) \/ Enqueue(w) \/ CheckResult(w) \/ BecomeLeader(w) \/ NotAtFront(w)
           \/ WaitForMembership(w) \/ MarkFollower(w) \/ FollowerStep(w) \/ EnterWalStage(w)
           \/ TakeTicket(w) \/ LoadWal(w)
  BY <1>1 DEF SpuriousWakeup, Enqueue, CheckResult, BecomeLeader, NotAtFront,
     WaitForMembership, MarkFollower, FollowerStep, EnterWalStage, TakeTicket, LoadWal,
     dataVars
<1>2. CASE WriteWal(w) \/ WriteWalFails(w) \/ DropWalGuard(w) \/ EnterMemStage(w)
           \/ LoadMemtable(w) \/ WriteMemtable(w) \/ KeepMemtable(w) \/ RotateMemtable(w)
           \/ RotateFails(w) \/ DropTicket(w) \/ NotifyMember(w)
  BY <1>2 DEF WriteWal, WriteWalFails, DropWalGuard, EnterMemStage, LoadMemtable,
     WriteMemtable, KeepMemtable, RotateMemtable, RotateFails, DropTicket, NotifyMember,
     dataVars
<1> QED
  BY <1>1, <1>2 DEF Step

\* Only a rotation changes the number of generations.
LEMMA SameGenerations ==
    ASSUME TypeOK, NEW w \in Writers, Step(w) \/ SpuriousWakeup(w), ~ RotateMemtable(w)
    PROVE  Generations' = Generations
<1>1. CASE WriteWal(w) \/ WriteWalFails(w)
  <2>1. \E n, f : Logs(w, n, f)
    BY <1>1, WriteWalFact, WriteWalFailsFact
  <2> QED
    BY <2>1 DEF Logs, Generations
<1>2. CASE ~ (WriteWal(w) \/ WriteWalFails(w))
  BY <1>2, DataFrame DEF Generations
<1> QED
  BY <1>1, <1>2

\* A writer's own fields are changed by its own steps only.
LEMMA OthersKeep ==
    ASSUME TypeOK, NEW w \in Writers, Step(w) \/ SpuriousWakeup(w), NEW v \in Writers \ {w}
    PROVE  group'[v] = group[v] /\ committed'[v] = committed[v] /\ ticket'[v] = ticket[v]
           /\ start'[v] = start[v] /\ version'[v] = version[v] /\ err'[v] = err[v]
<1>1. BecomeLeader(w) => group'[v] = group[v]
  BY DEF BecomeLeader, TypeOK
<1>2. WriteWal(w) => committed'[v] = committed[v]
  BY DEF WriteWal, TypeOK
<1>3. TakeTicket(w) => ticket'[v] = ticket[v] /\ start'[v] = start[v]
  BY DEF TakeTicket, TypeOK
<1>4. LoadWal(w) \/ LoadMemtable(w) => version'[v] = version[v]
  BY DEF LoadWal, LoadMemtable, TypeOK
<1>5. WriteWalFails(w) \/ RotateFails(w) => err'[v] = err[v]
  BY DEF WriteWalFails, RotateFails, TypeOK
<1> QED
  BY <1>1, <1>2, <1>3, <1>4, <1>5, Frame
-----------------------------------------------------------------------------
(* Groups are disjoint. *)

\* Appending an element that is not there keeps a sequence free of repetitions.
LEMMA AppendNew ==
    ASSUME NEW S, NEW s \in Seq(S), NEW e \in S, IsInjective(s), e \notin Range(s),
           NEW t, t = Append(s, e)
    PROVE  IsInjective(t) /\ Range(t) = Range(s) \cup {e}
<1> DEFINE n == Len(s)
<1>1. /\ n \in Nat /\ DOMAIN s = 1 .. n
      /\ DOMAIN t = 1 .. (n + 1)
      /\ \A i \in 1 .. n : t[i] = s[i]
      /\ t[n + 1] = e
  BY AppendProperties, LenProperties
<1>2. \A k \in Nat : 1 .. (k + 1) = (1 .. k) \cup {k + 1}
  OBVIOUS
<1> HIDE DEF n
<1>3. DOMAIN t = (DOMAIN s) \cup {n + 1} /\ \A i \in DOMAIN s : t[i] = s[i]
  BY <1>1, <1>2
<1> QED
  BY <1>1, <1>3 DEF IsInjective, Range

\* A request enters the queue once, and leaves it into the group of the thread that
\* drains it.
LEMMA MemberStep ==
    ASSUME TypeOK, GroupInv, MemberInv, NEW w \in Writers, Step(w) \/ SpuriousWakeup(w)
    PROVE  MemberInv'
<1>1. \A v \in Writers :
        /\ pc[v] \in Leading \cup {"Ok", "Err"} => pc'[v] \in Leading \cup {"Ok", "Err"}
        /\ pc'[v] = "WaitingToBeQueued" => pc[v] = "WaitingToBeQueued" /\ v # w
        /\ pc'[v] \in Unlogged => pc[v] \in Unlogged \/ (v = w /\ BecomeLeader(w))
  BY Advance
<1>2. ~ BecomeLeader(w) => group' = group
  BY Frame
<1>3. CASE Enqueue(w)
  <2>1. /\ pc[w] = "WaitingToBeQueued" /\ write_queue' = Append(write_queue, w)
        /\ write_queue \in Seq(Writers) /\ group' = group /\ committed' = committed
    BY <1>3 DEF Enqueue, TypeOK, groupVars
  <2>2. w \notin Range(write_queue) /\ \A v \in Writers : w \notin Range(group[v])
    BY <2>1 DEF MemberInv
  <2>3. IsInjective(write_queue') /\ Range(write_queue') = Range(write_queue) \cup {w}
    <3>1. IsInjective(write_queue)
      BY DEF MemberInv
    <3> QED
      BY <2>1, <2>2, <3>1, AppendNew
  <2>4. ~ BecomeLeader(w)
    BY <2>1 DEF BecomeLeader
  <2>5. \A v \in Writers : committed'[v] => group'[v] # <<>> /\ pc'[v] \notin Unlogged
    BY <1>1, <2>1, <2>4 DEF MemberInv
  <2>6. \A v \in Writers : Range(group'[v]) \cap Range(write_queue') = {}
    BY <2>1, <2>2, <2>3 DEF MemberInv
  <2>7. \A v \in Writers : pc'[v] = "WaitingToBeQueued" =>
          v \notin Range(write_queue') /\ \A u \in Writers : v \notin Range(group'[u])
    BY <1>1, <2>1, <2>3 DEF MemberInv
  <2>8. \A v \in Writers : group'[v] # <<>> =>
          v \in Range(group'[v]) /\ pc'[v] \in Leading \cup {"Ok", "Err"}
    BY <1>1, <2>1 DEF MemberInv
  <2>9. /\ \A v \in Writers : IsInjective(group'[v])
        /\ \A u, v \in Writers : u # v => Range(group'[u]) \cap Range(group'[v]) = {}
    BY <2>1 DEF MemberInv
  <2> QED
    BY <2>3, <2>5, <2>6, <2>7, <2>8, <2>9 DEF MemberInv
<1>4. CASE BecomeLeader(w)
  <2>1. /\ pc[w] = "CheckFront" /\ pc'[w] = "MarkFollowers"
        /\ write_queue # <<>> /\ Head(write_queue) = w /\ write_queue \in Seq(Writers)
        /\ write_queue' = <<>> /\ committed' = committed
        /\ group' = [group EXCEPT ![w] = write_queue]
        /\ group \in [Writers -> Seq(Writers)]
    BY <1>4 DEF BecomeLeader, TypeOK
  <2>2. w \in Range(write_queue) /\ Range(<<>>) = {} /\ IsInjective(<<>>)
    BY <2>1 DEF Range, IsInjective
  <2>3. ~ committed[w]
    BY <2>1, <2>2 DEF MemberInv
  <2>4. group'[w] = write_queue /\ \A v \in Writers \ {w} : group'[v] = group[v]
    BY <2>1
  <2>5. \A v \in Writers : pc'[v] # "WaitingToBeQueued" \/
          (v \notin Range(write_queue) /\ \A u \in Writers : v \notin Range(group[u]))
    BY <1>1 DEF MemberInv
  <2>6. \A v \in Writers : /\ IsInjective(group'[v])
                           /\ group'[v] # <<>> => v \in Range(group'[v])
                                /\ pc'[v] \in Leading \cup {"Ok", "Err"}
                           /\ committed'[v] => group'[v] # <<>> /\ pc'[v] \notin Unlogged
    BY <1>1, <2>1, <2>2, <2>3, <2>4 DEF MemberInv, Leading, Unlogged
  <2>7. \A u, v \in Writers : u # v => Range(group'[u]) \cap Range(group'[v]) = {}
    BY <2>4 DEF MemberInv
  <2> QED
    BY <2>1, <2>2, <2>4, <2>5, <2>6, <2>7 DEF MemberInv
<1>5. CASE ~ Enqueue(w) /\ ~ BecomeLeader(w)
  <2>1. write_queue' = write_queue /\ group' = group
    BY <1>5, Frame
  <2>2. \A v \in Writers : committed'[v] => group[v] # <<>> /\ pc'[v] \notin Unlogged
    <3>1. CASE WriteWal(w)
      <4>1. pc[w] = "AppendWal" /\ pc'[w] = "DropWalGuard"
            /\ \A v \in Writers \ {w} : committed'[v] = committed[v]
        BY <3>1 DEF WriteWal, TypeOK
      <4>2. group[w] # <<>>
        BY <4>1 DEF GroupInv, Leading, Unlogged
      <4> QED
        BY <1>1, <1>5, <4>1, <4>2 DEF MemberInv, Unlogged
    <3>2. CASE ~ WriteWal(w)
      BY <1>1, <1>5, <3>2, Frame DEF MemberInv
    <3> QED
      BY <3>1, <3>2
  <2> QED
    BY <1>1, <2>1, <2>2 DEF MemberInv
<1> QED
  BY <1>3, <1>4, <1>5

\* Once a group has been handed to its WAL, its members and its fate are settled.
LEMMA Settled ==
    ASSUME TypeOK, NEW w \in Writers, Step(w) \/ SpuriousWakeup(w), NEW v \in Writers,
           pc[v] \in Past
    PROVE  pc'[v] \in Past /\ group'[v] = group[v] /\ committed'[v] = committed[v]
           /\ ticket'[v] = ticket[v] /\ start'[v] = start[v]
<1>1. pc'[v] \in Past
  BY Advance
<1>2. CASE v = w
  <2>1. ~ BecomeLeader(w) /\ ~ WriteWal(w) /\ ~ TakeTicket(w)
    BY <1>2 DEF BecomeLeader, WriteWal, TakeTicket, Past, WaitingForMem, InMemStage
  <2> QED
    BY <1>1, <2>1, Frame
<1>3. CASE v # w
  BY <1>1, <1>3, OthersKeep
<1> QED
  BY <1>2, <1>3
-----------------------------------------------------------------------------
(* No request is logged twice. *)

\* A leader logs members of its own group, once each, and no other group has them.
LEMMA LoggedStep ==
    ASSUME TypeOK, GroupInv, MemberInv, LoggedInv, LoggedOnce,
           NEW w \in Writers, Step(w) \/ SpuriousWakeup(w)
    PROVE  LoggedInv' /\ LoggedOnce'
<1>1. \A v \in Writers : pc[v] \in Past => pc'[v] \in Past /\ group'[v] = group[v]
  BY Settled
<1>2. ASSUME NEW g \in Generations, NEW i \in DOMAIN wals[g]
      PROVE  \E v \in Writers : wals[g][i].req \in Range(group'[v]) /\ pc'[v] \in Past
  BY <1>1 DEF LoggedInv
<1>3. CASE WriteWal(w) \/ WriteWalFails(w)
  <2>1. PICK n \in 0 .. Len(group[w]), f \in Nat : Logs(w, n, f)
    <3>1. /\ Len(group[w]) \in Nat /\ Len(wals[version[w]]) \in Nat
          /\ flushed[version[w]] \in Nat
      BY LoadedWal
    <3>2. \A a, b, c \in Nat : /\ b + a \in Nat /\ a \in 0 .. a
                               /\ \A m \in 0 .. a : \A k \in c .. (b + m) : k \in Nat
      OBVIOUS
    <3> QED
      BY <1>3, <3>1, <3>2, WriteWalFact, WriteWalFailsFact
  <2>2. n \in Nat /\ n <= Len(group[w]) /\ Len(group[w]) \in Nat
    BY <2>1, LoadedWal
  <2>3. /\ Generations' = Generations /\ group' = group
        /\ pc[w] = "AppendWal" /\ pc'[w] = "DropWalGuard"
    BY <1>3, <2>1 DEF Logs, Generations, WriteWal, WriteWalFails, TypeOK
  <2>4. ASSUME NEW g \in Generations, NEW i \in DOMAIN wals'[g]
        PROVE  \/ i \in DOMAIN wals[g] /\ wals'[g][i] = wals[g][i]
               \/ g = version[w] /\ \E k \in DOMAIN group[w] :
                    i = Len(wals[g]) + k /\ wals'[g][i].req = group[w][k]
    <3>1. CASE i \in DOMAIN wals[g] /\ wals'[g][i] = wals[g][i]
      BY <3>1
    <3>2. CASE /\ g = version[w]
               /\ \E k \in 1 .. n : i = Len(wals[g]) + k /\ wals'[g][i] = Batch(w)[k]
      <4>1. PICK k \in 1 .. n : i = Len(wals[g]) + k /\ wals'[g][i] = Batch(w)[k]
        BY <3>2
      <4>2. \A a, b \in Nat : a <= b => \A j \in 1 .. a : j \in 1 .. b
        OBVIOUS
      <4>3. k \in 1 .. Len(group[w]) /\ DOMAIN group[w] = 1 .. Len(group[w])
        BY <2>2, <4>2, LenProperties DEF TypeOK
      <4>4. Batch(w)[k].req = group[w][k]
        BY <4>3, BatchFact
      <4> QED
        BY <3>2, <4>1, <4>3, <4>4
    <3> QED
      BY <2>1, <2>2, <3>1, <3>2, LoggedEntry
  <2>5. pc[w] \notin Past /\ pc'[w] \in Past
    BY <2>3 DEF Past, WaitingForMem, InMemStage
  <2>6. LoggedInv'
    <3>1. ASSUME NEW g \in Generations, NEW i \in DOMAIN wals'[g]
          PROVE  \E v \in Writers : wals'[g][i].req \in Range(group'[v]) /\ pc'[v] \in Past
      BY <1>2, <2>3, <2>4, <2>5 DEF Range
    <3> QED
      BY <2>3, <3>1 DEF LoggedInv
  <2>7. ASSUME NEW g \in Generations, NEW i \in DOMAIN wals[g], NEW k \in DOMAIN group[w]
        PROVE  wals[g][i].req # group[w][k]
    <3>1. PICK v \in Writers : wals[g][i].req \in Range(group[v]) /\ pc[v] \in Past
      BY DEF LoggedInv
    <3>2. v # w /\ group[w][k] \in Range(group[w])
      BY <2>5, <3>1 DEF Range
    <3> QED
      BY <3>1, <3>2 DEF MemberInv
  <2>8. IsInjective(group[w])
    BY DEF MemberInv
  <2>9. ASSUME NEW g \in Generations, NEW h \in Generations,
               NEW i \in DOMAIN wals'[g], NEW j \in DOMAIN wals'[h],
               wals'[g][i].req = wals'[h][j].req
        PROVE  g = h /\ i = j
    <3>1. CASE i \in DOMAIN wals[g] /\ wals'[g][i] = wals[g][i]
      <4>1. j \in DOMAIN wals[h] /\ wals'[h][j] = wals[h][j]
        BY <2>4, <2>7, <2>9, <3>1
      <4> QED
        BY <2>9, <3>1, <4>1 DEF LoggedOnce
    <3>2. CASE g = version[w] /\ \E k \in DOMAIN group[w] :
                 i = Len(wals[g]) + k /\ wals'[g][i].req = group[w][k]
      <4>1. PICK k \in DOMAIN group[w] : i = Len(wals[g]) + k /\ wals'[g][i].req = group[w][k]
        BY <3>2
      <4>2. h = version[w] /\ \E l \in DOMAIN group[w] :
              j = Len(wals[h]) + l /\ wals'[h][j].req = group[w][l]
        BY <2>4, <2>7, <2>9, <4>1
      <4> QED
        BY <2>8, <2>9, <3>2, <4>1, <4>2 DEF IsInjective
    <3> QED
      BY <2>4, <3>1, <3>2
  <2>10. LoggedOnce'
    BY <2>3, <2>9 DEF LoggedOnce
  <2> QED
    BY <2>6, <2>10
<1>4. ASSUME \A g \in Generations' : \A i \in DOMAIN wals'[g] :
               g \in Generations /\ i \in DOMAIN wals[g] /\ wals'[g][i] = wals[g][i]
      PROVE  LoggedInv' /\ LoggedOnce'
  <2>1. LoggedInv'
    BY <1>2, <1>4 DEF LoggedInv
  <2>2. LoggedOnce'
    BY <1>4 DEF LoggedOnce
  <2> QED
    BY <2>1, <2>2
<1>5. CASE RotateMemtable(w)
  <2>1. /\ Len(wals') = Len(wals) + 1 /\ Len(wals) \in Nat
        /\ \A g \in Generations : wals'[g] = wals[g]
        /\ wals'[Len(wals) + 1] = <<>>
    BY <1>5, RotateFact, LenProperties DEF TypeOK
  <2>2. \A k \in Nat : \A g \in 1 .. (k + 1) : g \in 1 .. k \/ g = k + 1
    OBVIOUS
  <2>3. \A g \in Generations' : g \in Generations \/ g = Len(wals) + 1
    BY <2>1, <2>2 DEF Generations
  <2> QED
    BY <1>4, <2>1, <2>3
<1>6. CASE ~ (WriteWal(w) \/ WriteWalFails(w) \/ RotateMemtable(w))
  <2>1. wals' = wals
    BY <1>6, DataFrame
  <2> QED
    BY <1>4, <2>1 DEF Generations
<1> QED
  BY <1>3, <1>5, <1>6
-----------------------------------------------------------------------------
(* Failed writes stay out of the memtables. *)

\* put_batch runs only for a committed group.
LEMMA VisibleStep ==
    ASSUME TypeOK, OutcomeInv, VisibleInv, NEW w \in Writers, Step(w) \/ SpuriousWakeup(w)
    PROVE  VisibleInv'
<1>1. \A v \in Writers : pc[v] \in Applied =>
        pc'[v] \in Applied /\ group'[v] = group[v] /\ committed'[v] = committed[v]
  <2>1. \A l : l \in Applied => l \in Past
    BY DEF Past, Applied, InMemStage
  <2> QED
    BY <2>1, Advance, Settled
<1>2. ASSUME NEW g \in Generations, NEW e \in mems[g]
      PROVE  \E v \in Writers : /\ e.req \in Range(group'[v])
                                /\ committed'[v] /\ pc'[v] \in Applied
  <2>1. PICK v \in Writers : e.req \in Range(group[v]) /\ committed[v] /\ pc[v] \in Applied
    BY DEF VisibleInv
  <2> QED
    BY <1>1, <2>1
<1>3. CASE WriteMemtable(w)
  <2>1. /\ pc[w] = "PutBatch" /\ pc'[w] = "CheckSize" /\ wals' = wals
        /\ group' = group /\ committed' = committed
    BY <1>3 DEF WriteMemtable, TypeOK, groupVars
  <2>2. committed[w] /\ pc'[w] \in Applied
    BY <2>1 DEF OutcomeInv, InMemStage, Applied
  <2>3. ASSUME NEW g \in Generations, NEW e \in mems'[g]
        PROVE  e \in mems[g] \/ e.req \in Range(group[w])
    <3>1. e \in mems[g] \/ e \in {Batch(w)[i] : i \in 1 .. Len(group[w])}
      BY <1>3, WriteMemtableFact
    <3>2. \A i \in 1 .. Len(group[w]) : Batch(w)[i].req \in Range(group[w])
      <4>1. DOMAIN group[w] = 1 .. Len(group[w])
        BY LenProperties DEF TypeOK
      <4> QED
        BY <4>1, BatchFact DEF Range
    <3> QED
      BY <3>1, <3>2
  <2>4. ASSUME NEW g \in Generations, NEW e \in mems'[g]
        PROVE  \E v \in Writers : /\ e.req \in Range(group'[v])
                                  /\ committed'[v] /\ pc'[v] \in Applied
    BY <1>2, <2>1, <2>2, <2>3
  <2> QED
    BY <2>1, <2>4 DEF VisibleInv, Generations
<1>4. CASE RotateMemtable(w)
  <2>1. /\ Len(wals') = Len(wals) + 1 /\ Len(wals) \in Nat
        /\ \A g \in Generations : mems'[g] = mems[g]
        /\ mems'[Len(wals) + 1] = {}
    BY <1>4, RotateFact, LenProperties DEF TypeOK
  <2>2. \A k \in Nat : \A g \in 1 .. (k + 1) : g \in 1 .. k \/ g = k + 1
    OBVIOUS
  <2>3. \A g \in Generations' : g \in Generations \/ g = Len(wals) + 1
    BY <2>1, <2>2 DEF Generations
  <2>4. \A g \in Generations' : \A e \in mems'[g] : g \in Generations /\ e \in mems[g]
    BY <2>1, <2>3
  <2> QED
    BY <1>2, <2>4 DEF VisibleInv
<1>5. CASE ~ (WriteMemtable(w) \/ RotateMemtable(w))
  <2>1. mems' = mems
    BY <1>5, DataFrame
  <2>2. Generations' = Generations
    BY <1>5, SameGenerations
  <2> QED
    BY <1>2, <2>1, <2>2 DEF VisibleInv
<1> QED
  BY <1>3, <1>4, <1>5

\* An error is announced for a failed group, or returned after a failed rotation.
LEMMA ErrStep ==
    ASSUME TypeOK, TypeOK', GroupInv, OutcomeInv, ErrInv,
           NEW w \in Writers, Step(w) \/ SpuriousWakeup(w)
    PROVE  ErrInv'
<1>1. \A r \in Writers : Failed(r) => Failed(r)'
  <2>1. \A v \in Writers : pc[v] \in Past =>
          pc'[v] \in Past /\ group'[v] = group[v] /\ committed'[v] = committed[v]
    BY Settled
  <2> QED
    BY <2>1 DEF Failed
<1>2. NotifyMember(w) =>
        /\ pc[w] = "NotifyGroup" /\ pc[w] \in Past
        /\ w \in Range(group[w]) /\ Head(todo[w]) \in Range(group[w])
  <2> SUFFICES ASSUME NotifyMember(w)
               PROVE  /\ pc[w] = "NotifyGroup" /\ pc[w] \in Past
                      /\ w \in Range(group[w]) /\ Head(todo[w]) \in Range(group[w])
    OBVIOUS
  <2>1. /\ pc[w] = "NotifyGroup" /\ group[w] # <<>> /\ group[w][1] = w
        /\ todo[w] # <<>> /\ todo[w] \in Seq(Writers) /\ group[w] \in Seq(Writers)
        /\ \A i \in DOMAIN todo[w] : \E j \in DOMAIN group[w] : todo[w][i] = group[w][j]
    BY DEF NotifyMember, GroupInv, Leading, TypeOK
  <2>2. /\ 1 \in DOMAIN todo[w] /\ Head(todo[w]) = todo[w][1]
        /\ 1 \in DOMAIN group[w]
    BY <2>1
  <2> QED
    BY <2>1, <2>2 DEF Range, Past
<1>3. ASSUME NEW r \in Writers, result'[r] = "error"
      PROVE  Failed(r)
  <2>1. CASE NotifyMember(w)
    <3>1. /\ result' = [result EXCEPT ![Head(todo[w])] =
                          IF committed[w] THEN "success" ELSE "error"]
          /\ result \in [Writers -> {"none", "follower", "success", "error"}]
      BY <2>1 DEF NotifyMember, TypeOK
    <3>2. result[r] = "error" \/ (r = Head(todo[w]) /\ ~ committed[w])
      BY <1>3, <3>1
    <3>3. r = Head(todo[w]) /\ ~ committed[w] => Failed(r)
      BY <1>2, <2>1 DEF Failed
    <3> QED
      BY <3>2, <3>3 DEF ErrInv
  <2>2. CASE CheckResult(w) \/ MarkFollower(w) \/ FollowerStep(w)
    <3>1. result[r] = "error"
      BY <1>3, <2>2 DEF CheckResult, MarkFollower, FollowerStep, TypeOK
    <3> QED
      BY <3>1 DEF ErrInv
  <2>3. CASE ~ (CheckResult(w) \/ MarkFollower(w) \/ FollowerStep(w) \/ NotifyMember(w))
    BY <1>3, <2>3, DataFrame DEF ErrInv
  <2> QED
    BY <2>1, <2>2, <2>3
<1>4. ASSUME NEW r \in Writers, pc'[r] = "Err"
      PROVE  Failed(r) \/ err'[r] = "rotate"
  <2>1. CASE r # w
    <3>1. pc[r] = "Err" /\ err'[r] = err[r]
      BY <1>4, <2>1, PcStep, OthersKeep DEF Woken
    <3> QED
      BY <3>1 DEF ErrInv
  <2>2. CASE r = w
    <3>1. \/ result[w] = "error"
          \/ pc[w] = "DropTicket" /\ err[w] = "rotate"
          \/ pc[w] = "NotifyGroup" /\ err[w] = "wal"
      BY <1>4, <2>2, OwnMove DEF Moves
    <3>2. CASE result[w] = "error"
      BY <2>2, <3>2 DEF ErrInv
    <3>3. CASE pc[w] = "DropTicket" /\ err[w] = "rotate"
      <4>1. ~ WriteWalFails(w) /\ ~ RotateFails(w)
        BY <3>3 DEF WriteWalFails, RotateFails
      <4> QED
        BY <2>2, <3>3, <4>1, Frame
    <3>4. CASE pc[w] = "NotifyGroup" /\ err[w] = "wal"
      <4>1. ~ committed[w] /\ pc[w] \in Past
        BY <3>4 DEF OutcomeInv, Past
      <4>2. w \in Range(group[w])
        <5>1. group[w] # <<>> /\ group[w][1] = w /\ group[w] \in Seq(Writers)
          BY <3>4 DEF GroupInv, Leading, TypeOK
        <5> QED
          BY <5>1 DEF Range
      <4> QED
        BY <2>2, <4>1, <4>2 DEF Failed
    <3> QED
      BY <3>1, <3>2, <3>3, <3>4
  <2> QED
    BY <2>1, <2>2
<1> QED
  BY <1>1, <1>3, <1>4 DEF ErrInv
-----------------------------------------------------------------------------
(* What a memtable holds is in a WAL that is no younger. *)

\* A committed group has been handed to its WAL.
LEMMA CommittedPast ==
    ASSUME MemberInv, NEW w \in Writers, committed[w]
    PROVE  group[w] # <<>> /\ w \in Range(group[w]) /\ pc[w] \in Past
<1>1. /\ group[w] # <<>> /\ pc[w] \notin Unlogged
      /\ w \in Range(group[w]) /\ pc[w] \in Leading \cup {"Ok", "Err"}
  BY DEF MemberInv
<1> QED
  BY <1>1 DEF Leading, Past

\* The flushed entries of a group stay where they are, and the memtable is loaded
\* only after they were flushed.
LEMMA BackedStep ==
    ASSUME TypeOK, TypeOK', FlushInv, MemberInv, BackedInv,
           NEW w \in Writers, Step(w) \/ SpuriousWakeup(w)
    PROVE  BackedInv'
<1>1. \A g \in Generations :
        /\ g \in Generations'
        /\ \A i \in 1 .. flushed[g] : i \in 1 .. flushed'[g] /\ wals'[g][i] = wals[g][i]
  BY DataGrows
<1>2. ASSUME NEW v \in Writers, committed[v], NEW i \in DOMAIN group'[v]
      PROVE  \E h \in Generations' :
               /\ \E k \in 1 .. flushed'[h] : wals'[h][k] = Batch(v)'[i]
               /\ pc'[v] = "PutBatch" => h <= version'[v]
  <2>1. group'[v] = group[v] /\ start'[v] = start[v]
    BY <1>2, CommittedPast, Settled
  <2>2. i \in DOMAIN group[v] /\ Batch(v)' = Batch(v)
    BY <1>2, <2>1 DEF Batch
  <2>3. PICK h \in Generations :
          /\ \E k \in 1 .. flushed[h] : wals[h][k] = Batch(v)[i]
          /\ pc[v] = "PutBatch" => h <= version[v]
    BY <1>2, <2>2 DEF BackedInv
  <2>4. \E k \in 1 .. flushed'[h] : wals'[h][k] = Batch(v)'[i]
    BY <1>1, <2>2, <2>3
  <2>5. pc'[v] = "PutBatch" => h <= version'[v]
    <3> SUFFICES ASSUME pc'[v] = "PutBatch" PROVE h <= version'[v]
      OBVIOUS
    <3>1. CASE v # w
      BY <2>3, <3>1, PcStep, OthersKeep DEF Woken
    <3>2. CASE v = w
      <4>1. LoadMemtable(w)
        BY <3>2, OwnMove DEF Moves
      <4>2. version'[w] = Len(mems) /\ Len(mems) = Len(wals) /\ Len(wals) \in Nat
        BY <4>1, LoadedWal DEF LoadMemtable, TypeOK
      <4>3. \A a \in Nat : \A b \in 1 .. a : b <= a
        OBVIOUS
      <4> QED
        BY <2>3, <3>2, <4>2, <4>3 DEF Generations
    <3> QED
      BY <3>1, <3>2
  <2> QED
    BY <1>1, <2>3, <2>4, <2>5
<1>3. ASSUME WriteWal(w), NEW i \in DOMAIN group'[w]
      PROVE  \E h \in Generations' :
               /\ \E k \in 1 .. flushed'[h] : wals'[h][k] = Batch(w)'[i]
               /\ pc'[w] = "PutBatch" => h <= version'[w]
  <2> DEFINE g == version[w]
             n == Len(wals[g])
             m == Len(group[w])
  <2>1. Logs(w, m, n + m)
    BY <1>3, WriteWalFact
  <2>2. /\ g \in Generations' /\ flushed'[g] = n + m
        /\ \A k \in 1 .. m : wals'[g][n + k] = Batch(w)[k]
        /\ group' = group /\ start' = start
    BY <2>1, LoadedWal DEF Logs, Generations
  <2>3. i \in 1 .. m /\ n \in Nat /\ m \in Nat
    BY <1>3, <2>2, LoadedWal, LenProperties DEF TypeOK
  <2>4. \A a, b \in Nat : \A k \in 1 .. b : a + k \in 1 .. (a + b)
    OBVIOUS
  <2>5. Batch(w)' = Batch(w)
    BY <2>2 DEF Batch
  <2>6. pc'[w] # "PutBatch"
    BY <1>3 DEF WriteWal, TypeOK
  <2> HIDE DEF g, n, m
  <2>7. n + i \in 1 .. flushed'[g] /\ wals'[g][n + i] = Batch(w)'[i]
    BY <2>2, <2>3, <2>4, <2>5
  <2> QED
    BY <2>2, <2>6, <2>7
<1>4. \A v \in Writers : committed'[v] => committed[v] \/ (v = w /\ WriteWal(w))
  BY OthersKeep, Frame
<1> QED
  BY <1>2, <1>3, <1>4 DEF BackedInv

\* put_batch adds entries that BackedInv has placed; a rotation adds none.
LEMMA OlderWalStep ==
    ASSUME TypeOK, TypeOK', FlushInv, OutcomeInv, BackedInv, BackedByOlderWal,
           NEW w \in Writers, Step(w) \/ SpuriousWakeup(w)
    PROVE  BackedByOlderWal'
<1>1. \A g \in Generations :
        /\ g \in Generations'
        /\ \A i \in 1 .. flushed[g] : i \in 1 .. flushed'[g] /\ wals'[g][i] = wals[g][i]
  BY DataGrows
<1>2. \A g \in Generations : \A h \in 1 .. g : h \in Generations
  <2>1. \A a \in Nat : \A g \in 1 .. a : \A h \in 1 .. g : h \in 1 .. a
    OBVIOUS
  <2> QED
    BY <2>1, LenProperties DEF TypeOK, Generations
<1>3. ASSUME NEW g \in Generations, NEW e \in mems[g]
      PROVE  \E h \in 1 .. g : \E i \in 1 .. flushed'[h] : wals'[h][i] = e
  <2>1. PICK h \in 1 .. g : \E i \in 1 .. flushed[h] : wals[h][i] = e
    BY DEF BackedByOlderWal
  <2> QED
    BY <1>1, <1>2, <2>1
<1>4. CASE WriteMemtable(w)
  <2>1. pc[w] = "PutBatch" /\ wals' = wals
    BY <1>4 DEF WriteMemtable
  <2>2. committed[w]
    BY <2>1 DEF OutcomeInv, InMemStage
  <2>3. DOMAIN group[w] = 1 .. Len(group[w]) /\ version[w] \in Nat
    BY LoadedWal, LenProperties DEF TypeOK
  <2>4. ASSUME NEW g \in Generations, NEW e \in mems'[g], e \notin mems[g]
        PROVE  \E h \in 1 .. g : \E i \in 1 .. flushed'[h] : wals'[h][i] = e
    <3>1. g = version[w] /\ e \in {Batch(w)[i] : i \in 1 .. Len(group[w])}
      BY <1>4, <2>4, WriteMemtableFact
    <3>2. PICK i \in 1 .. Len(group[w]) : e = Batch(w)[i]
      BY <3>1
    <3>3. PICK h \in Generations :
            (\E k \in 1 .. flushed[h] : wals[h][k] = Batch(w)[i]) /\ h <= version[w]
      BY <2>1, <2>2, <2>3, <3>2 DEF BackedInv
    <3>4. h \in 1 .. g
      <4>1. \A a, b \in Nat : \A k \in 1 .. a : k <= b => k \in 1 .. b
        OBVIOUS
      <4> QED
        BY <2>3, <3>1, <3>3, <4>1, LenProperties DEF Generations, TypeOK
    <3> QED
      BY <1>1, <3>2, <3>3, <3>4
  <2> QED
    BY <1>3, <2>1, <2>4 DEF BackedByOlderWal, Generations
<1>5. CASE RotateMemtable(w)
  <2>1. /\ Len(wals') = Len(wals) + 1 /\ Len(wals) \in Nat
        /\ \A g \in Generations : mems'[g] = mems[g]
        /\ mems'[Len(wals) + 1] = {}
    BY <1>5, RotateFact, LenProperties DEF TypeOK
  <2>2. \A k \in Nat : \A g \in 1 .. (k + 1) : g \in 1 .. k \/ g = k + 1
    OBVIOUS
  <2>3. \A g \in Generations' : g \in Generations \/ g = Len(wals) + 1
    BY <2>1, <2>2 DEF Generations
  <2>4. \A g \in Generations' : \A e \in mems'[g] : g \in Generations /\ e \in mems[g]
    BY <2>1, <2>3
  <2> QED
    BY <1>3, <2>4 DEF BackedByOlderWal
<1>6. CASE ~ (WriteMemtable(w) \/ RotateMemtable(w))
  <2>1. mems' = mems
    BY <1>6, DataFrame
  <2>2. Generations' = Generations
    BY <1>6, SameGenerations
  <2> QED
    BY <1>3, <2>1, <2>2 DEF BackedByOlderWal
<1> QED
  BY <1>4, <1>5, <1>6
-----------------------------------------------------------------------------
(* The invariants and the theorems that need no assumption about errors. *)

\* Requests, groups and their fate, as one invariant of the specification.
LEMMA OwnerInvariant ==
    Spec => [](MemberInv /\ LoggedInv /\ LoggedOnce /\ VisibleInv /\ ErrInv)
<1>1. Init => MemberInv /\ LoggedInv /\ LoggedOnce /\ VisibleInv /\ ErrInv
  <2> SUFFICES ASSUME Init
               PROVE  MemberInv /\ LoggedInv /\ LoggedOnce /\ VisibleInv /\ ErrInv
    OBVIOUS
  <2>1. IsInjective(<<>>) /\ Range(<<>>) = {}
    BY DEF IsInjective, Range
  <2>2. MemberInv
    BY <2>1 DEF Init, MemberInv
  <2>3. \A g \in Generations : DOMAIN wals[g] = {} /\ mems[g] = {}
    <3>1. Len(wals) = 1 /\ wals[1] = <<>> /\ mems[1] = {}
      BY DEF Init
    <3> QED
      BY <3>1 DEF Generations
  <2>4. LoggedInv /\ LoggedOnce /\ VisibleInv
    BY <2>3 DEF LoggedInv, LoggedOnce, VisibleInv
  <2>5. ErrInv
    BY DEF Init, ErrInv
  <2> QED
    BY <2>2, <2>4, <2>5
<1>2. /\ TypeOK /\ TypeOK' /\ GroupInv /\ OutcomeInv
      /\ MemberInv /\ LoggedInv /\ LoggedOnce /\ VisibleInv /\ ErrInv
      /\ [Next]_vars
      => MemberInv' /\ LoggedInv' /\ LoggedOnce' /\ VisibleInv' /\ ErrInv'
  <2> SUFFICES ASSUME TypeOK, TypeOK', GroupInv, OutcomeInv,
                      MemberInv, LoggedInv, LoggedOnce, VisibleInv, ErrInv, [Next]_vars
               PROVE  MemberInv' /\ LoggedInv' /\ LoggedOnce' /\ VisibleInv' /\ ErrInv'
    OBVIOUS
  <2>1. CASE \E w \in Writers : Step(w) \/ SpuriousWakeup(w)
    BY <2>1, MemberStep, LoggedStep, VisibleStep, ErrStep
  <2>2. CASE UNCHANGED vars
    BY <2>2 DEF vars, syncVars, groupVars, dataVars, MemberInv, LoggedInv, LoggedOnce,
       VisibleInv, ErrInv, Failed, Generations
  <2> QED
    BY <2>1, <2>2 DEF Next, Terminated
<1> QED
  BY <1>1, <1>2, TypeInvariant, AckInvariant, PTL DEF Spec

\* The argument about WALs and memtables as an invariant of the specification.
LEMMA BackedInvariant == Spec => [](BackedInv /\ BackedByOlderWal)
<1>1. Init => BackedInv /\ BackedByOlderWal
  <2> SUFFICES ASSUME Init PROVE BackedInv /\ BackedByOlderWal
    OBVIOUS
  <2>1. \A g \in Generations : mems[g] = {}
    <3>1. Len(wals) = 1 /\ mems[1] = {}
      BY DEF Init
    <3> QED
      BY <3>1 DEF Generations
  <2> QED
    BY <2>1 DEF Init, BackedInv, BackedByOlderWal
<1>2. /\ TypeOK /\ TypeOK' /\ FlushInv /\ OutcomeInv /\ MemberInv
      /\ BackedInv /\ BackedByOlderWal /\ [Next]_vars
      => BackedInv' /\ BackedByOlderWal'
  <2> SUFFICES ASSUME TypeOK, TypeOK', FlushInv, OutcomeInv, MemberInv,
                      BackedInv, BackedByOlderWal, [Next]_vars
               PROVE  BackedInv' /\ BackedByOlderWal'
    OBVIOUS
  <2>1. CASE \E w \in Writers : Step(w) \/ SpuriousWakeup(w)
    BY <2>1, BackedStep, OlderWalStep
  <2>2. CASE UNCHANGED vars
    <3>1. UNCHANGED <<pc, group, committed, start, version, wals, flushed, mems>>
      BY <2>2 DEF vars, groupVars, dataVars
    <3>2. Generations' = Generations /\ \A w \in Writers : Batch(w)' = Batch(w)
      BY <3>1 DEF Generations, Batch
    <3> QED
      BY <3>1, <3>2 DEF BackedInv, BackedByOlderWal
  <2> QED
    BY <2>1, <2>2 DEF Next, Terminated
<1> QED
  BY <1>1, <1>2, TypeInvariant, AckInvariant, OwnerInvariant, PTL DEF Spec

\* A request is logged at most once, whoever drains it from the queue and whatever
\* errors and rotations come in between (write_req.rs, form_write_group and
\* LeaderWritingWal).
THEOREM NeverLoggedTwice == Spec => []LoggedOnce
  BY OwnerInvariant, PTL

\* A write that returns an error has left nothing in a memtable, except for the
\* leader whose rotation failed after put_batch (write_req.rs, GroupGuard::drop and
\* LeaderWritingMemtable).
THEOREM FailedWriteInvisible == Spec => []FailedNotVisible
<1>1. MemberInv /\ VisibleInv /\ ErrInv => FailedNotVisible
  <2> SUFFICES ASSUME MemberInv, VisibleInv, ErrInv, NEW w \in Writers,
                      pc[w] = "Err", err[w] # "rotate", Visible(w)
               PROVE  FALSE
    BY DEF FailedNotVisible
  <2>1. PICK v \in Writers : w \in Range(group[v]) /\ ~ committed[v]
    BY DEF ErrInv, Failed
  <2>2. PICK u \in Writers : w \in Range(group[u]) /\ committed[u]
    BY DEF Visible, VisibleInv
  <2>3. u = v
    BY <2>1, <2>2 DEF MemberInv
  <2> QED
    BY <2>1, <2>2, <2>3
<1> QED
  BY <1>1, OwnerInvariant, PTL

\* What is in a memtable is flushed, in its own WAL or an older one, although the
\* leader loads the version again between the two writes (lib.rs, write_wal and
\* write_memtable): the WALs that recovery still finds suffice to rebuild it.
THEOREM MemtableBacked == Spec => []BackedByOlderWal
  BY BackedInvariant, PTL
-----------------------------------------------------------------------------
(* The memtable stage, as long as no WAL write fails: TicketGuard::drop     *)
(* increments ticket_to_mem without a look at ticket_num, so the drop of a  *)
(* leader whose WAL write failed can let a second leader in.                *)

\* The TicketGuard of w is alive, and it is w's turn.
HasTicket(w) ==
    \/ pc[w] \in {"LeaderWritingWal", "AppendWal", "DropWalGuard", "DropTicket"}
                 \cup WaitingForMem \cup InMemStage
    \/ pc[w] = "NotifyGroup" /\ err[w] = "rotate"

Turn(w) ==
    \/ pc[w] \in InMemStage \cup {"DropTicket"}
    \/ pc[w] = "NotifyGroup" /\ err[w] = "rotate"

\* Live tickets are distinct and not yet passed; the stage has the one that is due.
TicketInv ==
    /\ ticket_to_mem <= next_ticket
    /\ \A w \in Writers :
         /\ HasTicket(w) => ticket_to_mem <= ticket[w] /\ ticket[w] < next_ticket
         /\ Turn(w) => ticket[w] = ticket_to_mem
    /\ \A v, w \in Writers :
         HasTicket(v) /\ HasTicket(w) /\ ticket[v] = ticket[w] => v = w

NoWalError == \A w \in Writers : err[w] # "wal"

\* How a thread comes to have a ticket and a turn.
LEMMA TicketMoves ==
    ASSUME TypeOK, OutcomeInv, NoWalError, NEW w \in Writers, Step(w) \/ SpuriousWakeup(w),
           NEW v \in Writers
    PROVE  /\ HasTicket(v)' => \/ HasTicket(v) /\ ~ (v = w /\ DropTicket(w))
                               \/ v = w /\ TakeTicket(w)
           /\ Turn(v)' => \/ Turn(v) /\ ~ (v = w /\ DropTicket(w))
                          \/ v = w /\ HasTicket(w) /\ ticket_to_mem = ticket[w]
                             /\ ~ DropTicket(w)
           /\ Turn(v) => HasTicket(v)
<1> USE DEF HasTicket, Turn, InMemStage, WaitingForMem
<1>1. CASE v # w
  <2>1. Woken(v) /\ err'[v] = err[v]
    BY <1>1, PcStep, OthersKeep
  <2> QED
    BY <1>1, <2>1 DEF Woken
<1>2. CASE v = w
  <2>1. pc[w] = "DropWalGuard" => err[w] = "none"
    BY DEF OutcomeInv, NoWalError, TypeOK
  <2>2. pc[w] \in {"NotifyGroup", "DropTicket"} => err'[w] = err[w]
    <3>1. pc[w] \in {"NotifyGroup", "DropTicket"} => ~ WriteWalFails(w) /\ ~ RotateFails(w)
      BY DEF WriteWalFails, RotateFails
    <3> QED
      BY <3>1, Frame
  <2>3. DropTicket(w) => pc[w] = "DropTicket"
    BY DEF DropTicket
  <2>4. Moves(w)
    BY OwnMove
  <2>5. HasTicket(w)' => HasTicket(w) \/ TakeTicket(w)
    BY <2>2, <2>4 DEF Moves
  <2>6. DropTicket(w) => ~ HasTicket(w)' /\ ~ Turn(w)'
    BY <2>2, <2>3, <2>4 DEF Moves
  <2>7. Turn(w)' => \/ Turn(w)
                    \/ HasTicket(w) /\ ticket_to_mem = ticket[w]
    BY <2>1, <2>2, <2>4 DEF Moves
  <2> QED
    BY <1>2, <2>5, <2>6, <2>7
<1> QED
  BY <1>1, <1>2

\* Tickets are handed out in order and the turn goes to the next one.
LEMMA TicketStep ==
    ASSUME TypeOK, OutcomeInv, NoWalError, TicketInv,
           NEW w \in Writers, Step(w) \/ SpuriousWakeup(w)
    PROVE  TicketInv'
<1>1. \A v \in Writers :
        /\ HasTicket(v)' => \/ HasTicket(v) /\ ~ (v = w /\ DropTicket(w))
                            \/ v = w /\ TakeTicket(w)
        /\ Turn(v)' => \/ Turn(v) /\ ~ (v = w /\ DropTicket(w))
                       \/ v = w /\ HasTicket(w) /\ ticket_to_mem = ticket[w]
                          /\ ~ DropTicket(w)
        /\ Turn(v) => HasTicket(v)
  BY TicketMoves
<1>2. /\ ticket_to_mem \in Nat /\ next_ticket \in Nat
      /\ \A v \in Writers : ticket[v] \in Nat
  BY DEF TypeOK
<1>3. CASE DropTicket(w)
  <2>1. /\ pc[w] = "DropTicket" /\ ticket_to_mem' = ticket_to_mem + 1
        /\ ticket' = ticket /\ next_ticket' = next_ticket
    BY <1>3 DEF DropTicket
  <2>2. ~ TakeTicket(w)
    BY <2>1 DEF TakeTicket
  <2>3. Turn(w) /\ HasTicket(w)
    BY <2>1 DEF Turn, HasTicket
  <2>4. ticket[w] = ticket_to_mem /\ ticket[w] < next_ticket
    BY <2>3 DEF TicketInv
  <2>5. \A v \in Writers : HasTicket(v)' => v # w /\ HasTicket(v) /\ ticket[v] # ticket[w]
    BY <1>1, <1>3, <2>2, <2>3 DEF TicketInv
  <2>6. \A v \in Writers : ~ Turn(v)'
    BY <1>1, <1>3, <2>3, <2>4 DEF TicketInv
  <2>7. \A a, b, c \in Nat : /\ a < b => a + 1 <= b
                             /\ a <= c /\ c # a => a + 1 <= c
    OBVIOUS
  <2>8. \A v \in Writers : HasTicket(v)' =>
          ticket_to_mem + 1 <= ticket[v] /\ ticket[v] < next_ticket
    BY <1>2, <2>4, <2>5, <2>7 DEF TicketInv
  <2>9. ticket_to_mem + 1 <= next_ticket
    BY <1>2, <2>4, <2>7
  <2>10. \A u, v \in Writers :
           HasTicket(u)' /\ HasTicket(v)' /\ ticket[u] = ticket[v] => u = v
    BY <2>5 DEF TicketInv
  <2> QED
    BY <2>1, <2>6, <2>8, <2>9, <2>10 DEF TicketInv
<1>4. CASE TakeTicket(w)
  <2>1. /\ pc[w] = "TakeTicket" /\ pc'[w] = "LeaderWritingWal"
        /\ ticket'[w] = next_ticket /\ next_ticket' = next_ticket + 1
        /\ ticket_to_mem' = ticket_to_mem
        /\ \A v \in Writers \ {w} : ticket'[v] = ticket[v]
    BY <1>4 DEF TakeTicket, TypeOK
  <2>2. ~ Turn(w)' /\ ~ HasTicket(w)
    BY <2>1 DEF Turn, HasTicket, InMemStage, WaitingForMem
  <2>3. \A v \in Writers : /\ HasTicket(v)' => v = w \/ HasTicket(v)
                           /\ Turn(v)' => v # w /\ Turn(v)
    BY <1>1, <2>2
  <2>4. \A a, b, c \in Nat : /\ a <= b => a <= b + 1 /\ b < b + 1
                             /\ c < b => c < b + 1 /\ c # b
    OBVIOUS
  <2>5. \A v \in Writers : HasTicket(v) => ticket[v] < next_ticket
    BY DEF TicketInv
  <2>6. ticket_to_mem <= next_ticket
    BY DEF TicketInv
  <2>7. \A v \in Writers : HasTicket(v)' =>
          ticket_to_mem <= ticket'[v] /\ ticket'[v] < next_ticket + 1
    BY <1>2, <2>1, <2>3, <2>4, <2>6 DEF TicketInv
  <2>8. \A v \in Writers : Turn(v)' => ticket'[v] = ticket_to_mem
    BY <2>1, <2>3 DEF TicketInv
  <2>9. \A u, v \in Writers :
          HasTicket(u)' /\ HasTicket(v)' /\ ticket'[u] = ticket'[v] => u = v
    <3>1. \A v \in Writers \ {w} : HasTicket(v)' => ticket'[v] # next_ticket
      BY <1>2, <2>1, <2>3, <2>4, <2>5
    <3> QED
      BY <2>1, <2>3, <3>1 DEF TicketInv
  <2>10. ticket_to_mem <= next_ticket + 1
    BY <1>2, <2>4, <2>6
  <2> QED
    BY <2>1, <2>7, <2>8, <2>9, <2>10 DEF TicketInv
<1>5. CASE ~ DropTicket(w) /\ ~ TakeTicket(w)
  <2>1. ticket_to_mem' = ticket_to_mem /\ ticket' = ticket /\ next_ticket' = next_ticket
    BY <1>5, Frame
  <2>2. \A v \in Writers : /\ HasTicket(v)' => HasTicket(v)
                           /\ Turn(v)' => Turn(v) \/ ticket_to_mem = ticket[v]
    BY <1>1, <1>5
  <2> QED
    BY <2>1, <2>2 DEF TicketInv
<1> QED
  BY <1>3, <1>4, <1>5

\* A leader whose group has its LSNs and its ticket; it keeps both for ever.
Ticketed(w) == group[w] # <<>> /\ pc[w] \in {"LeaderWritingWal", "AppendWal"} \cup Past

\* Tickets follow LSNs, no group is applied before its ticket is due, and a
\* committed group is applied when the turn has passed on.
OrderInv ==
    /\ \A w \in Writers : Ticketed(w) => ticket[w] < next_ticket /\ start[w] < next_lsn
    /\ \A v, w \in Writers :
         Ticketed(v) /\ Ticketed(w) /\ start[v] < start[w] => ticket[v] < ticket[w]
    /\ \A w \in Writers : Ticketed(w) /\ pc[w] \in Applied => ticket[w] <= ticket_to_mem
    /\ \A w \in Writers : committed[w] /\ pc[w] \in {"NotifyGroup", "Ok", "Err"} => Visible(w)

\* How a group comes to have a ticket and to be applied.
LEMMA TicketedMoves ==
    ASSUME TypeOK, OutcomeInv, NoWalError, MemberInv,
           NEW w \in Writers, Step(w) \/ SpuriousWakeup(w), NEW v \in Writers
    PROVE  /\ Ticketed(v)' =>
                \/ Ticketed(v) /\ ticket'[v] = ticket[v] /\ start'[v] = start[v]
                \/ v = w /\ TakeTicket(w)
           /\ Ticketed(v)' /\ pc'[v] \in Applied =>
                Ticketed(v) /\ (pc[v] \in Applied \/ Turn(v))
<1>1. group[v] # <<>> => pc[v] \in Leading \cup {"Ok", "Err"}
  BY DEF MemberInv
<1>2. CASE v # w
  <2>1. /\ Woken(v) /\ group'[v] = group[v]
        /\ ticket'[v] = ticket[v] /\ start'[v] = start[v]
    BY <1>2, PcStep, OthersKeep
  <2>2. Ticketed(v)' => Ticketed(v)
    BY <2>1 DEF Woken, Ticketed, Past, WaitingForMem, InMemStage
  <2>3. pc'[v] \in Applied => pc[v] \in Applied
    BY <2>1 DEF Woken, Applied
  <2> QED
    BY <1>2, <2>1, <2>2, <2>3
<1>3. CASE v = w
  <2>1. Moves(w)
    BY OwnMove
  <2>2. pc[w] = "DropWalGuard" => err[w] = "none"
    BY DEF OutcomeInv, NoWalError, TypeOK
  <2>3. BecomeLeader(w) => pc'[w] = "MarkFollowers"
    BY DEF BecomeLeader, TypeOK
  <2>4. Ticketed(w)' => group[w] # <<>>
    <3>1. BecomeLeader(w) => ~ Ticketed(w)'
      BY <2>3 DEF Ticketed, Past, WaitingForMem, InMemStage
    <3> QED
      BY <3>1, Frame DEF Ticketed
  <2>5. Ticketed(w)' => Ticketed(w) \/ TakeTicket(w)
    BY <1>1, <1>3, <2>1, <2>4 DEF Moves, Ticketed, Past, Leading, Unlogged, WaitingForMem,
       InMemStage
  <2>6. TakeTicket(w) => pc'[w] = "LeaderWritingWal"
    BY DEF TakeTicket, TypeOK
  <2>7. ~ TakeTicket(w) => ticket'[w] = ticket[w] /\ start'[w] = start[w]
    BY Frame
  <2>8. Ticketed(w)' /\ pc'[w] \in Applied => pc[w] \in Applied \/ Turn(w)
    BY <1>1, <1>3, <2>1, <2>2, <2>4 DEF Moves, Applied, Turn, Leading, Unlogged,
       WaitingForMem, InMemStage
  <2>9. pc'[w] \in Applied => ~ TakeTicket(w)
    BY <2>6 DEF Applied
  <2> QED
    BY <1>3, <2>5, <2>7, <2>8, <2>9
<1> QED
  BY <1>2, <1>3

\* TakeTicket reserves LSNs and ticket in one critical section, and put_batch runs
\* in the turn of its ticket.
LEMMA OrderStep ==
    ASSUME TypeOK, TypeOK', GroupInv, FlushInv, OutcomeInv, CommitInv, NoWalError, MemberInv,
           TicketInv, OrderInv, NEW w \in Writers, Step(w) \/ SpuriousWakeup(w)
    PROVE  OrderInv'
<1>1. \A v \in Writers :
        /\ Ticketed(v)' =>
             \/ Ticketed(v) /\ ticket'[v] = ticket[v] /\ start'[v] = start[v]
             \/ v = w /\ TakeTicket(w)
        /\ Ticketed(v)' /\ pc'[v] \in Applied =>
             Ticketed(v) /\ (pc[v] \in Applied \/ Turn(v))
  BY TicketedMoves
<1>2. /\ ticket_to_mem \in Nat /\ next_ticket \in Nat /\ next_lsn \in Nat
      /\ \A v \in Writers : ticket[v] \in Nat /\ start[v] \in Nat
  BY DEF TypeOK
<1>3. /\ \A v \in Writers : Ticketed(v)' => ticket'[v] < next_ticket' /\ start'[v] < next_lsn'
      /\ \A u, v \in Writers :
           Ticketed(u)' /\ Ticketed(v)' /\ start'[u] < start'[v] => ticket'[u] < ticket'[v]
  <2>1. CASE TakeTicket(w)
    <3>1. /\ pc[w] = "TakeTicket" /\ group[w] # <<>> /\ group[w] \in Seq(Writers)
          /\ ticket'[w] = next_ticket /\ next_ticket' = next_ticket + 1
          /\ start'[w] = next_lsn /\ next_lsn' = next_lsn + Len(group[w])
      BY <2>1 DEF TakeTicket, TypeOK, GroupInv, Leading, Unlogged
    <3>2. Len(group[w]) \in Nat \ {0}
      BY <3>1
    <3>3. ~ Ticketed(w)
      BY <3>1 DEF Ticketed, Past, WaitingForMem, InMemStage
    <3>4. \A v \in Writers \ {w} : Ticketed(v)' =>
            /\ Ticketed(v) /\ ticket'[v] = ticket[v] /\ start'[v] = start[v]
            /\ ticket[v] < next_ticket /\ start[v] < next_lsn
      BY <1>1 DEF OrderInv
    <3>5. \A a, b \in Nat : \A c \in Nat \ {0} :
            /\ a < b => a < b + c /\ ~ (b < a)
            /\ b < b + c /\ b < b + 1 /\ ~ (b < b) /\ (a < b => a < b + 1)
      OBVIOUS
    <3>6. \A v \in Writers : Ticketed(v)' => ticket'[v] < next_ticket' /\ start'[v] < next_lsn'
      BY <1>2, <3>1, <3>2, <3>4, <3>5
    <3>7. ASSUME NEW u \in Writers, NEW v \in Writers, Ticketed(u)', Ticketed(v)',
                 start'[u] < start'[v]
          PROVE  ticket'[u] < ticket'[v]
      <4>1. CASE u # w /\ v # w
        BY <3>4, <3>7, <4>1 DEF OrderInv
      <4>2. CASE u # w /\ v = w
        BY <3>1, <3>4, <3>7, <4>2
      <4>3. CASE u = w
        <5>1. v = w \/ (start[v] < next_lsn /\ start'[v] = start[v])
          BY <3>4, <3>7
        <5> QED
          BY <1>2, <3>1, <3>2, <3>5, <3>7, <4>3, <5>1
      <4> QED
        BY <4>1, <4>2, <4>3
    <3> QED
      BY <3>6, <3>7
  <2>2. CASE ~ TakeTicket(w)
    <3>1. next_ticket' = next_ticket /\ next_lsn' = next_lsn
      BY <2>2, Frame
    <3> QED
      BY <1>1, <2>2, <3>1 DEF OrderInv
  <2> QED
    BY <2>1, <2>2
<1>4. ASSUME NEW v \in Writers, Ticketed(v)', pc'[v] \in Applied
      PROVE  ticket'[v] <= ticket_to_mem'
  <2>1. /\ Ticketed(v) /\ (pc[v] \in Applied \/ Turn(v))
        /\ ticket'[v] = ticket[v] \/ (v = w /\ TakeTicket(w))
    BY <1>1, <1>4
  <2>2. ~ (v = w /\ TakeTicket(w))
    BY <1>4 DEF TakeTicket, TypeOK, Applied
  <2>3. ticket[v] <= ticket_to_mem
    <3>1. \A a \in Nat : a <= a
      OBVIOUS
    <3> QED
      BY <1>2, <2>1, <3>1 DEF OrderInv, TicketInv
  <2>4. ticket_to_mem' = ticket_to_mem \/ ticket_to_mem' = ticket_to_mem + 1
    BY Frame DEF DropTicket
  <2>5. \A a, b \in Nat : a <= b => a <= b + 1
    OBVIOUS
  <2> QED
    BY <1>2, <2>1, <2>2, <2>3, <2>4, <2>5
<1>5. ASSUME NEW v \in Writers, committed'[v], pc'[v] \in {"NotifyGroup", "Ok", "Err"}
      PROVE  Visible(v)'
  <2>1. committed[v]
    <3>1. WriteWal(w) => pc'[w] = "DropWalGuard"
      BY DEF WriteWal, TypeOK
    <3> QED
      BY <1>5, <3>1, Frame, OthersKeep
  <2>2. group[v] # <<>> /\ v \in Range(group[v]) /\ pc[v] \in Past
    BY <2>1, CommittedPast
  <2>3. pc[v] \in {"NotifyGroup", "Ok", "Err", "DropTicket", "CheckSize"}
    <3>1. CASE v # w
      BY <1>5, <3>1, PcStep DEF Woken
    <3>2. CASE v = w
      BY <1>5, <2>2, <3>2, OwnMove DEF Moves, Past, WaitingForMem, InMemStage
    <3> QED
      BY <3>1, <3>2
  <2>4. Visible(v)
    <3>1. CASE pc[v] \in {"NotifyGroup", "Ok", "Err"}
      BY <2>1, <3>1 DEF OrderInv
    <3>2. CASE pc[v] \in {"DropTicket", "CheckSize"}
      BY <2>1, <2>2, <3>2 DEF CommitInv, Range
    <3> QED
      BY <2>3, <3>1, <3>2
  <2> QED
    BY <2>4, DataGrows
<1> QED
  BY <1>3, <1>4, <1>5 DEF OrderInv

\* Without a failed WAL write the turn is never given away twice.
LEMMA OrderInvariant ==
    ASSUME "wal" \notin IoErrors
    PROVE  Spec => [](NoWalError /\ TicketInv /\ OrderInv)
<1>1. Init => NoWalError /\ TicketInv /\ OrderInv
  <2> SUFFICES ASSUME Init PROVE NoWalError /\ TicketInv /\ OrderInv
    OBVIOUS
  <2>1. \A w \in Writers : ~ HasTicket(w) /\ ~ Turn(w) /\ ~ Ticketed(w)
    BY DEF Init, HasTicket, Turn, Ticketed, WaitingForMem, InMemStage
  <2>2. 0 <= 0
    OBVIOUS
  <2> QED
    BY <2>1, <2>2 DEF Init, NoWalError, TicketInv, OrderInv
<1>2. /\ TypeOK /\ TypeOK' /\ GroupInv /\ FlushInv /\ OutcomeInv /\ CommitInv /\ MemberInv
      /\ NoWalError /\ TicketInv /\ OrderInv /\ [Next]_vars
      => NoWalError' /\ TicketInv' /\ OrderInv'
  <2> SUFFICES ASSUME TypeOK, TypeOK', GroupInv, FlushInv, OutcomeInv, CommitInv, MemberInv,
                      NoWalError, TicketInv, OrderInv, [Next]_vars
               PROVE  NoWalError' /\ TicketInv' /\ OrderInv'
    OBVIOUS
  <2>1. ASSUME NEW w \in Writers, Step(w) \/ SpuriousWakeup(w)
        PROVE  NoWalError'
    <3>1. ~ WriteWalFails(w)
      BY DEF WriteWalFails
    <3>2. err' = err \/ err' = [err EXCEPT ![w] = "rotate"]
      BY <2>1, <3>1, Frame DEF RotateFails
    <3> QED
      BY <3>2 DEF NoWalError, TypeOK
  <2>2. CASE \E w \in Writers : Step(w) \/ SpuriousWakeup(w)
    BY <2>1, <2>2, TicketStep, OrderStep
  <2>3. CASE UNCHANGED vars
    BY <2>3 DEF vars, syncVars, groupVars, dataVars, NoWalError, TicketInv, OrderInv,
       HasTicket, Turn, Ticketed, Visible, Generations
  <2> QED
    BY <2>2, <2>3 DEF Next, Terminated
<1> QED
  BY <1>1, <1>2, TypeInvariant, AckInvariant, OwnerInvariant, PTL DEF Spec

\* "no two leader can be writing to the memtable at the same time", as long as no
\* WAL write fails (write_req.rs, LeaderWritingMemtable).
THEOREM MemStageExclusive ==
    ASSUME "wal" \notin IoErrors
    PROVE  Spec => []MemExclusive
<1>1. TicketInv => MemExclusive
  BY DEF TicketInv, MemExclusive, HasTicket, Turn
<1> QED
  BY <1>1, OrderInvariant, PTL

\* "The write to memtable happens in the same order as the write to WAL", as long as
\* no WAL write fails and also when a rotation does (write_req.rs,
\* LeaderWaitingToWriteMemtable).
THEOREM MemtableOrder ==
    ASSUME "wal" \notin IoErrors
    PROVE  Spec => []MemtableFollowsWalOrder
<1>1. TypeOK /\ MemberInv /\ VisibleInv /\ TicketInv /\ OrderInv => MemtableFollowsWalOrder
  <2> SUFFICES ASSUME TypeOK, MemberInv, VisibleInv, TicketInv, OrderInv,
                      NEW v \in Writers, NEW w \in Writers,
                      committed[v], committed[w], start[v] < start[w], Visible(w)
               PROVE  Visible(v)
    BY DEF MemtableFollowsWalOrder
  <2>1. Ticketed(v) /\ Ticketed(w)
    BY CommittedPast DEF Ticketed
  <2>2. PICK u \in Writers : w \in Range(group[u]) /\ pc[u] \in Applied
    BY DEF Visible, VisibleInv
  <2>3. u = w
    BY <2>2, CommittedPast DEF MemberInv
  <2>4. ticket[v] < ticket[w] /\ ticket[w] <= ticket_to_mem
    BY <2>1, <2>2, <2>3 DEF OrderInv
  <2>5. ~ (ticket_to_mem <= ticket[v])
    <3>1. \A a, b, c \in Nat : a < b /\ b <= c => ~ (c <= a)
      OBVIOUS
    <3> QED
      BY <2>4, <3>1 DEF TypeOK
  <2>6. ~ HasTicket(v)
    BY <2>5 DEF TicketInv
  <2>7. pc[v] \in {"NotifyGroup", "Ok", "Err"}
    BY <2>6, CommittedPast DEF HasTicket, Past
  <2> QED
    BY <2>7 DEF OrderInv
<1> QED
  BY <1>1, TypeInvariant, OwnerInvariant, OrderInvariant, PTL
=============================================================================
