----------------------- MODULE ManifestUpdateProofs -----------------------
(***************************************************************************)
(* Proofs about apply_atomic_update, for any number of rotations and       *)
(* compaction threads, any number of calls and any I/O errors; and, but    *)
(* for the refinement, any number of crashes.  What crashes leave on disk  *)
(* is proved in the last part, for the behaviours in which no two updaters *)
(* write to one temporary file.                                            *)
(***************************************************************************)
EXTENDS ManifestUpdate, SequenceTheorems, WellFoundedInduction, TLAPS

\* The updaters that hold a candidate.
Holding == {"CreateTmp", "WriteTmp", "Commit", "Install"}

\* The types of what is in memory.
MemoryType ==
    /\ manifest \in Manifest
    /\ up \in BOOLEAN
    /\ calls \in Nat
    /\ crashes \in Nat
    /\ pc \in [Updaters -> {"Idle"} \cup Calling]
    /\ sst \in [Updaters -> SUBSET Nat]
    /\ tries \in [Updaters -> Nat]
    /\ candidate \in [Updaters -> Manifest]
    /\ base \in [Updaters -> Nat]
    /\ began \in [Updaters -> Nat]
    /\ outcome \in [Updaters -> {"none", "ok", "io", "retries"}]

\* A process that is down runs no call, and knows of none.
DownInv == ~ up => \A u \in Updaters : pc[u] = "Idle" /\ outcome[u] = "none"

\* The lock has one holder, who found the version it had cloned.
LockInv ==
    /\ \A u \in Updaters : pc[u] = "Install" => base[u] = manifest.version
    /\ \A u, v \in Updaters : pc[u] = "Install" /\ pc[v] = "Install" => u = v

\* A candidate whose base is still the current version is the current manifest
\* with one change: versions identify manifests.
CandidateInv ==
    \A u \in Updaters : pc[u] \in Holding =>
      /\ base[u] <= manifest.version
      /\ candidate[u].version = base[u] + 1
      /\ base[u] = manifest.version =>
           candidate[u].body = Append(manifest.body, [by |-> u, ssts |-> sst[u]])

\* A call in progress has no outcome yet.
OutcomeInv == \A u \in Updaters : pc[u] # "Idle" => outcome[u] = "none"

\* Each failed attempt of a call is paid for by a commit of somebody else.
RetryInv ==
    \A u \in Updaters :
      /\ pc[u] = "Snapshot" => began[u] + tries[u] <= manifest.version
      /\ pc[u] \in Holding => began[u] + tries[u] <= base[u] + 1
      /\ tries[u] <= MaxTries
      /\ outcome[u] = "retries" => began[u] + MaxTries <= manifest.version

Inv == MemoryType /\ DownInv /\ LockInv /\ CandidateInv /\ OutcomeInv /\ RetryInv

\* The changes of a call, as far as they are in memory.
Quiet(u) ==
    \/ GiveUp(u) \/ MutateFails(u) \/ CreateTmp(u) \/ WriteTmp(u) \/ WriteFails(u)
    \/ Rename(u) \/ Conflict(u) \/ RenameFails(u)

\* Apart from a reservation, a snapshot and a commit, a step only moves its
\* updater, or ends its call with an error.
LEMMA QuietFact ==
    ASSUME Inv, NEW u \in Updaters, Quiet(u)
    PROVE  /\ UNCHANGED <<manifest, up, bounds, sst, tries, candidate, base, began>>
           /\ \A v \in Updaters \ {u} : pc'[v] = pc[v] /\ outcome'[v] = outcome[v]
           /\ pc' \in [Updaters -> {"Idle"} \cup Calling]
           /\ outcome' \in [Updaters -> {"none", "ok", "io", "retries"}]
           /\ pc[u] # "Idle" /\ pc[u] # "Install"
           /\ \/ pc[u] = "CreateTmp" /\ pc'[u] = "WriteTmp" /\ outcome'[u] = outcome[u]
              \/ pc[u] = "WriteTmp" /\ pc'[u] = "Commit" /\ outcome'[u] = outcome[u]
              \/ /\ pc[u] = "Commit" /\ pc'[u] = "Install" /\ outcome'[u] = outcome[u]
                 /\ manifest.version = base[u] /\ LockFree
              \/ /\ pc[u] = "Commit" /\ pc'[u] = "Snapshot" /\ outcome'[u] = outcome[u]
                 /\ manifest.version # base[u]
              \/ pc'[u] = "Idle" /\ outcome'[u] = "io"
              \/ /\ pc[u] = "Snapshot" /\ pc'[u] = "Idle" /\ outcome'[u] = "retries"
                 /\ tries[u] + 1 > MaxTries
<1> USE DEF Inv, MemoryType, callVars, bounds, Calling
<1>1. CASE GiveUp(u) \/ MutateFails(u)
  BY <1>1 DEF GiveUp, MutateFails, Fail, LoopLimit
<1>2. CASE CreateTmp(u) \/ WriteTmp(u)
  BY <1>2 DEF CreateTmp, WriteTmp
<1>3. CASE WriteFails(u)
  BY <1>3 DEF WriteFails, Fail
<1>4. CASE Rename(u) \/ Conflict(u)
  BY <1>4 DEF Rename, Conflict, Unchanged
<1>5. CASE RenameFails(u)
  BY <1>5 DEF RenameFails, Fail
<1> QED
  BY <1>1, <1>2, <1>3, <1>4, <1>5 DEF Quiet

\* The invariant is inductive, if what recovery reads has the type of a manifest.
LEMMA InvStep ==
    ASSUME Inv, [Next]_vars, Recover => manifest' \in Manifest
    PROVE  Inv'
<1>1. CASE UNCHANGED vars \/ Done
  BY <1>1 DEF Done, vars, callVars, bounds, Inv, MemoryType, DownInv, LockInv, CandidateInv,
     OutcomeInv, RetryInv
<1>2. CASE Crash
  <2>1. /\ up' = FALSE /\ crashes' = crashes + 1
        /\ pc' = [u \in Updaters |-> "Idle"] /\ outcome' = [u \in Updaters |-> "none"]
        /\ UNCHANGED <<manifest, calls, callVars>>
    BY <1>2 DEF Crash
  <2>7. crashes \in Nat
    BY DEF Inv, MemoryType
  <2>8. crashes' \in Nat
    BY <2>1, <2>7, SMT
  <2>5. up' \in BOOLEAN /\ crashes' \in Nat
    BY <2>1, <2>8
  <2>6. MemoryType'
    BY <2>1, <2>5 DEF Inv, MemoryType, callVars
  <2>2. MemoryType' /\ DownInv'
    BY <2>1, <2>6 DEF DownInv
  <2>3. LockInv' /\ CandidateInv' /\ OutcomeInv'
    BY <2>1 DEF LockInv, CandidateInv, OutcomeInv, Holding
  <2>4. RetryInv'
    BY <2>1 DEF Inv, RetryInv, Holding, callVars
  <2> QED
    BY <2>2, <2>3, <2>4 DEF Inv
<1>7. CASE Recover
  <2>1. /\ up' = TRUE /\ manifest' \in Manifest
        /\ UNCHANGED <<bounds, pc, callVars, outcome>>
        /\ \A u \in Updaters : pc[u] = "Idle" /\ outcome[u] = "none"
    BY <1>7 DEF Recover, Inv, DownInv
  <2>2. MemoryType' /\ DownInv'
    BY <2>1 DEF Inv, MemoryType, DownInv, callVars, bounds
  <2>3. LockInv' /\ CandidateInv' /\ OutcomeInv'
    BY <2>1 DEF LockInv, CandidateInv, OutcomeInv, Holding
  <2>4. RetryInv'
    BY <2>1 DEF Inv, RetryInv, Holding, callVars
  <2> QED
    BY <2>2, <2>3, <2>4 DEF Inv
<1>3. ASSUME NEW u \in Updaters, Call(u) PROVE Inv'
  <2>1. /\ pc[u] = "Idle" /\ pc' = [pc EXCEPT ![u] = "Snapshot"]
        /\ outcome' = [outcome EXCEPT ![u] = "none"]
        /\ tries' = [tries EXCEPT ![u] = 0]
        /\ began' = [began EXCEPT ![u] = manifest.version]
        /\ UNCHANGED <<up, crashes, candidate, base>> /\ calls' = calls + 1
        /\ up /\ LockFree
    BY <1>3 DEF Call
  <2>2. /\ manifest' \in Manifest /\ sst' \in [Updaters -> SUBSET Nat]
        /\ manifest'.version = manifest.version /\ manifest'.body = manifest.body
        /\ \A v \in Updaters \ {u} : sst'[v] = sst[v]
    <3>1. manifest \in Manifest /\ sst \in [Updaters -> SUBSET Nat]
      BY DEF Inv, MemoryType
    <3>2. Reserve(u)
      BY <1>3 DEF Call
    <3> QED
      BY <3>1, <3>2 DEF Reserve, Manifest
  <2>8. calls' \in Nat /\ manifest.version \in Nat
    BY <2>1 DEF Inv, MemoryType, Manifest
  <2>9. MemoryType'
    BY <2>1, <2>2, <2>8 DEF Inv, MemoryType, Calling
  <2>3. MemoryType' /\ DownInv'
    BY <2>1, <2>9 DEF DownInv
  <2>4. LockInv'
    BY <2>1, <2>2 DEF Inv, LockInv, LockFree, MemoryType
  <2>5. CandidateInv'
    BY <2>1, <2>2 DEF Inv, CandidateInv, Holding, MemoryType
  <2>6. OutcomeInv'
    BY <2>1 DEF Inv, OutcomeInv, MemoryType
  <2>7. RetryInv'
    BY <2>1, <2>2 DEF Inv, RetryInv, Holding, MemoryType, Manifest, MaxTries
  <2> QED
    BY <2>3, <2>4, <2>5, <2>6, <2>7 DEF Inv
<1>4. ASSUME NEW u \in Updaters, Snapshot(u) PROVE Inv'
  <2>1. /\ pc[u] = "Snapshot" /\ pc' = [pc EXCEPT ![u] = "CreateTmp"]
        /\ tries[u] + 1 <= MaxTries /\ LockFree
        /\ tries' = [tries EXCEPT ![u] = tries[u] + 1]
        /\ base' = [base EXCEPT ![u] = manifest.version]
        /\ UNCHANGED <<manifest, up, bounds, sst, began, outcome>>
    BY <1>4 DEF Snapshot, LoopLimit, bounds, Inv, MemoryType, MaxTries
  <2>2. /\ candidate' \in [Updaters -> Manifest]
        /\ candidate'[u].version = manifest.version + 1
        /\ candidate'[u].body = Append(manifest.body, [by |-> u, ssts |-> sst[u]])
        /\ \A v \in Updaters \ {u} : candidate'[v] = candidate[v]
    <3>1. manifest \in Manifest /\ candidate \in [Updaters -> Manifest]
      BY DEF Inv, MemoryType
    <3>2. [by |-> u, ssts |-> sst[u]] \in Update
      BY DEF Inv, MemoryType, Update
    <3> DEFINE b == Append(manifest.body, [by |-> u, ssts |-> sst[u]])
               c == [body |-> b, version |-> manifest.version + 1,
                     next_sstable_id |-> manifest.next_sstable_id]
    <3>3. b \in Seq(Update)
      BY <3>1, <3>2 DEF Manifest
    <3>4. candidate' = [candidate EXCEPT ![u] = c]
      BY <1>4 DEF Snapshot, NextVersion
    <3> HIDE DEF b
    <3>5. c \in Manifest /\ c.body = b /\ c.version = manifest.version + 1
      BY <3>1, <3>3 DEF Manifest
    <3> HIDE DEF c
    <3>6. candidate' \in [Updaters -> Manifest] /\ candidate'[u] = c
          /\ \A v \in Updaters \ {u} : candidate'[v] = candidate[v]
      BY <3>1, <3>4, <3>5
    <3> QED
      BY <3>5, <3>6 DEF b
  <2>8. manifest.version \in Nat /\ tries[u] + 1 \in Nat
    BY DEF Inv, MemoryType, Manifest
  <2>3. MemoryType' /\ DownInv'
    BY <2>1, <2>2, <2>8 DEF Inv, MemoryType, DownInv, Calling, bounds
  <2>4. LockInv'
    BY <2>1 DEF Inv, LockInv, LockFree, MemoryType
  <2>5. CandidateInv'
    <3>1. \A v \in Updaters \ {u} :
            (pc'[v] \in Holding => pc[v] \in Holding) /\ base'[v] = base[v]
      BY <2>1 DEF Inv, MemoryType
    <3>2. base'[u] = manifest.version /\ manifest' = manifest /\ sst' = sst
      BY <2>1 DEF Inv, MemoryType
    <3> QED
      BY <2>2, <2>8, <3>1, <3>2 DEF Inv, CandidateInv
  <2>6. OutcomeInv'
    BY <2>1 DEF Inv, OutcomeInv, MemoryType
  <2>7. RetryInv'
    <3>1. /\ pc'[u] = "CreateTmp" /\ tries'[u] = tries[u] + 1 /\ base'[u] = manifest.version
          /\ \A v \in Updaters \ {u} :
               pc'[v] = pc[v] /\ tries'[v] = tries[v] /\ base'[v] = base[v]
      BY <2>1 DEF Inv, MemoryType
    <3>2. /\ began[u] \in Nat /\ tries[u] \in Nat /\ outcome[u] # "retries"
          /\ began[u] + tries[u] <= manifest.version
      BY <2>1 DEF Inv, MemoryType, RetryInv, OutcomeInv
    <3>3. began[u] + (tries[u] + 1) <= manifest.version + 1
      BY <2>8, <3>2
    <3> QED
      BY <2>1, <3>1, <3>2, <3>3 DEF Inv, RetryInv
  <2> QED
    BY <2>3, <2>4, <2>5, <2>6, <2>7 DEF Inv
<1>5. ASSUME NEW u \in Updaters, Quiet(u) PROVE Inv'
  <2>1. MemoryType' /\ DownInv'
    BY <1>5, QuietFact DEF Inv, MemoryType, DownInv, bounds
  <2>2. LockInv'
    BY <1>5, QuietFact DEF Inv, LockInv, LockFree
  <2>3. CandidateInv'
    BY <1>5, QuietFact DEF Inv, CandidateInv, Holding
  <2>4. OutcomeInv'
    BY <1>5, QuietFact DEF Inv, OutcomeInv
  <2>5. RetryInv'
    <3>1. /\ manifest.version \in Nat /\ base[u] \in Nat /\ tries[u] \in Nat /\ began[u] \in Nat
          /\ \A v \in Updaters : began[v] \in Nat /\ tries[v] \in Nat
      BY DEF Inv, MemoryType, Manifest
    <3>2. /\ manifest' = manifest /\ tries' = tries /\ base' = base /\ began' = began
          /\ \A v \in Updaters \ {u} : pc'[v] = pc[v] /\ outcome'[v] = outcome[v]
      BY <1>5, QuietFact
    <3>3. pc'[u] = "Snapshot" => began[u] + tries[u] <= manifest.version
      <4>1. pc'[u] = "Snapshot" => pc[u] = "Commit" /\ manifest.version # base[u]
        BY <1>5, QuietFact
      <4>2. pc[u] = "Commit" => base[u] <= manifest.version /\ began[u] + tries[u] <= base[u] + 1
        BY DEF Inv, CandidateInv, RetryInv, Holding
      <4> QED
        BY <3>1, <4>1, <4>2
    <3>4. pc'[u] \in Holding => pc[u] \in Holding
      BY <1>5, QuietFact DEF Holding
    <3>5. outcome'[u] = "retries" => began[u] + MaxTries <= manifest.version
      <4>1. outcome'[u] = "retries" =>
              \/ outcome[u] = "retries"
              \/ pc[u] = "Snapshot" /\ tries[u] + 1 > MaxTries
        BY <1>5, QuietFact
      <4>2. pc[u] = "Snapshot" => began[u] + tries[u] <= manifest.version
        BY DEF Inv, RetryInv
      <4>3. outcome[u] = "retries" => began[u] + MaxTries <= manifest.version
        BY DEF Inv, RetryInv
      <4> QED
        BY <3>1, <4>1, <4>2, <4>3 DEF MaxTries
    <3> QED
      BY <3>2, <3>3, <3>4, <3>5 DEF Inv, RetryInv
  <2> QED
    BY <2>1, <2>2, <2>3, <2>4, <2>5 DEF Inv
<1>6. ASSUME NEW u \in Updaters, Install(u) PROVE Inv'
  <2>1. /\ pc[u] = "Install" /\ pc' = [pc EXCEPT ![u] = "Idle"]
        /\ outcome' = [outcome EXCEPT ![u] = "ok"]
        /\ manifest' = candidate[u]
        /\ UNCHANGED <<up, bounds, sst, tries, candidate, base, began>>
    BY <1>6 DEF Install, bounds, callVars
  <2>2. manifest'.version = manifest.version + 1 /\ manifest.version \in Nat
    BY <2>1 DEF Inv, LockInv, CandidateInv, Holding, MemoryType, Manifest
  <2>3. MemoryType' /\ DownInv'
    BY <2>1 DEF Inv, MemoryType, DownInv, bounds
  <2>4. LockInv'
    BY <2>1 DEF Inv, LockInv, MemoryType
  <2>5. CandidateInv'
    BY <2>1, <2>2 DEF Inv, CandidateInv, Holding, MemoryType
  <2>6. OutcomeInv'
    BY <2>1 DEF Inv, OutcomeInv, MemoryType
  <2>7. RetryInv'
    BY <2>1, <2>2 DEF Inv, RetryInv, Holding, MemoryType, MaxTries
  <2> QED
    BY <2>3, <2>4, <2>5, <2>6, <2>7 DEF Inv
<1> QED
  BY <1>1, <1>2, <1>3, <1>4, <1>5, <1>6, <1>7 DEF Next, Step, Quiet

-----------------------------------------------------------------------------
(* The directory, for what recovery reads from it.                           *)

Bounded(ids) == \E n \in Nat : \A x \in ids : x <= n

FilesType ==
    /\ handle \in [Updaters -> Nat]
    /\ inodes \in Seq(Contents)
    /\ \A v \in DOMAIN tmp : v \in Nat /\ tmp[v] \in DOMAIN inodes
    /\ \A v \in DOMAIN final : v \in Nat /\ final[v] \in DOMAIN inodes

\* The file an updater writes exists.
HandleInv == \A u \in Updaters : pc[u] = "WriteTmp" => handle[u] \in DOMAIN inodes

\* There is a manifest file for every version up to the current one, and for the next
\* one while an updater is installing it.
DirInv ==
    /\ up => DOMAIN final = 0 .. (IF LockFree THEN manifest.version ELSE manifest.version + 1)
    /\ \E n \in Nat : DOMAIN final = 0 .. n

\* Every set of SSTable ids is finite, so that recovery finds the highest.
BoundedInv ==
    /\ Bounded(FileIds(manifest.body))
    /\ \A u \in Updaters : Bounded(sst[u]) /\ Bounded(FileIds(candidate[u].body))
    /\ \A i \in DOMAIN inodes : Bounded(FileIds(inodes[i].body))

DiskInv == FilesType /\ HandleInv /\ DirInv /\ BoundedInv

\* A set of numbers with a bound has a greatest element.
LEMMA GreatestExists ==
    ASSUME NEW S, S \subseteq Nat, S # {}, Bounded(S)
    PROVE  \E m \in S : \A x \in S : x <= m
<1> DEFINE T == {n \in Nat : \A x \in S : x <= n}
           R == {p \in Nat \X Nat : p[1] < p[2]}
<1>1. IsWellFoundedOn(R, Nat)
  BY NatLessThanWellFounded DEF OpToRel
<1>2. PICK m \in T : \A y \in T : ~ (<<y, m>> \in R)
  <2>1. T \subseteq Nat /\ T # {}
    BY DEF Bounded
  <2> HIDE DEF T, R
  <2> QED
    BY <1>1, <2>1, WFMin
<1>3. m \in S
  <2> SUFFICES ASSUME m \notin S PROVE FALSE
    OBVIOUS
  <2>1. PICK x \in S : x \in Nat /\ x <= m /\ x # m
    OBVIOUS
  <2>2. m - 1 \in Nat /\ \A y \in S : y <= m - 1
    BY <2>1
  <2>3. <<m - 1, m>> \in R
    BY <2>2
  <2> QED
    BY <1>2, <2>2, <2>3
<1> QED
  BY <1>3

\* One more set of ids keeps a bound.
LEMMA BoundedUnion ==
    ASSUME NEW S, NEW T, S \subseteq Nat, T \subseteq Nat, Bounded(S), Bounded(T)
    PROVE  Bounded(S \cup T)
<1>1. PICK m \in Nat : \A x \in S : x <= m
  BY DEF Bounded
<1>2. PICK n \in Nat : \A x \in T : x <= n
  BY DEF Bounded
<1>3. m + n \in Nat /\ \A x \in S \cup T : x <= m + n
  BY <1>1, <1>2
<1> QED
  BY <1>3 DEF Bounded

\* The ids in a manifest are numbers, and a change adds its own to them.
LEMMA FileIdsFact ==
    ASSUME NEW b \in Seq(Update)
    PROVE  /\ FileIds(b) \subseteq Nat
           /\ \A c \in Update : FileIds(Append(b, c)) = FileIds(b) \cup c.ssts
<1>1. \A i \in DOMAIN b : b[i] \in Update
  BY ElementOfSeq
<1>2. FileIds(b) \subseteq Nat
  BY <1>1 DEF FileIds, Update
<1>3. ASSUME NEW c \in Update
      PROVE  FileIds(Append(b, c)) = FileIds(b) \cup c.ssts
  <2>1. /\ DOMAIN b = 1 .. Len(b) /\ Len(b) \in Nat
        /\ DOMAIN Append(b, c) = 1 .. (Len(b) + 1)
        /\ Append(b, c)[Len(b) + 1] = c
        /\ \A i \in DOMAIN b : Append(b, c)[i] = b[i]
    BY AppendProperties
  <2>2. DOMAIN Append(b, c) = DOMAIN b \cup {Len(b) + 1}
    BY <2>1
  <2> QED
    BY <2>1, <2>2 DEF FileIds
<1> QED
  BY <1>2, <1>3

\* What recovery makes of the newest file is a manifest.
LEMMA RecoverFact ==
    ASSUME DiskInv, Recover
    PROVE  /\ manifest' \in Manifest
           /\ manifest'.version = Newest /\ manifest'.body = OnDisk.body
           /\ Newest \in Nat /\ DOMAIN final = 0 .. Newest
           /\ \A x \in FileIds(OnDisk.body) : x < manifest'.next_sstable_id
<1>1. Newest \in Nat /\ DOMAIN final = 0 .. Newest
  <2>1. PICK n \in Nat : DOMAIN final = 0 .. n
    BY DEF DiskInv, DirInv
  <2>2. n \in DOMAIN final /\ \A x \in DOMAIN final : x <= n
    BY <2>1
  <2>3. Newest \in DOMAIN final /\ \A x \in DOMAIN final : x <= Newest
    BY <2>2 DEF Newest
  <2>4. Newest = n
    BY <2>1, <2>2, <2>3
  <2> QED
    BY <2>1, <2>4
<1> DEFINE S == FileIds(OnDisk.body)
           top == CHOOSE n \in S \cup {0} : \A x \in S : x <= n
<1>2. OnDisk.body \in Seq(Update) /\ Bounded(S)
  <2>1. final[Newest] \in DOMAIN inodes
    BY <1>1 DEF DiskInv, FilesType
  <2>2. inodes[final[Newest]] \in Contents
    BY <2>1, ElementOfSeq DEF DiskInv, FilesType
  <2>3. inodes[final[Newest]].body \in Seq(Update)
    BY <2>2 DEF Contents
  <2> QED
    BY <2>1, <2>3 DEF DiskInv, BoundedInv, OnDisk
<1>3. S \subseteq Nat
  BY <1>2, FileIdsFact
<1>4. top \in Nat /\ \A x \in S : x <= top
  <2> HIDE DEF S
  <2>1. \E n \in S \cup {0} : \A x \in S : x <= n
    <3>1. CASE S = {}
      BY <3>1
    <3>2. CASE S # {}
      BY <1>2, <1>3, <3>2, GreatestExists
    <3> QED
      BY <3>1, <3>2
  <2>2. top \in S \cup {0} /\ \A x \in S : x <= top
    BY <2>1, Zenon
  <2> HIDE DEF top
  <2> QED
    BY <1>3, <2>2
<1>5. manifest' = [body |-> OnDisk.body, version |-> Newest, next_sstable_id |-> 1 + top]
  BY DEF Recover
<1> HIDE DEF top, S
<1>6. 1 + top \in Nat /\ \A x \in S : x < 1 + top
  BY <1>3, <1>4
<1>7. manifest' \in Manifest
  BY <1>1, <1>2, <1>5, <1>6 DEF Manifest
<1> QED
  BY <1>1, <1>5, <1>6, <1>7 DEF S

\* The contents that an updater writes.
LEMMA ContentsFact ==
    ASSUME Inv, BoundedInv
    PROVE  /\ Unreadable \in Contents /\ Bounded(FileIds(Unreadable.body))
           /\ \A u \in Updaters : Encoded(u) \in Contents /\ Bounded(FileIds(Encoded(u).body))
<1>1. Unreadable \in Contents
  BY DEF Unreadable, Contents
<1>2. FileIds(Unreadable.body) = {}
  BY DEF FileIds, Unreadable
<1>3. Bounded({})
  BY DEF Bounded
<1>4. ASSUME NEW u \in Updaters PROVE Encoded(u) \in Contents /\ Bounded(FileIds(Encoded(u).body))
  <2>1. candidate[u].body \in Seq(Update)
    BY DEF Inv, MemoryType, Manifest
  <2> QED
    BY <2>1 DEF Encoded, Contents, BoundedInv
<1> QED
  BY <1>1, <1>2, <1>3, <1>4

\* A file is overwritten.
LEMMA InodeWrite ==
    ASSUME FilesType, BoundedInv,
           NEW i \in DOMAIN inodes, NEW c \in Contents, Bounded(FileIds(c.body)),
           inodes' = [inodes EXCEPT ![i] = c]
    PROVE  /\ inodes' \in Seq(Contents) /\ DOMAIN inodes' = DOMAIN inodes
           /\ \A j \in DOMAIN inodes' : Bounded(FileIds(inodes'[j].body))
<1>1. inodes \in Seq(Contents) /\ DOMAIN inodes = 1 .. Len(inodes)
  BY DEF FilesType
<1>2. inodes' \in Seq(Contents)
  BY <1>1, ExceptSeq
<1>3. DOMAIN inodes' = DOMAIN inodes /\ \A j \in DOMAIN inodes : inodes'[j] = IF j = i THEN c ELSE inodes[j]
  BY <1>1
<1> QED
  BY <1>2, <1>3 DEF BoundedInv

\* The effect of a step of an updater on the files: at most one is created or written,
\* none disappears.
LEMMA InodesStep ==
    ASSUME Inv, DiskInv, NEW u \in Updaters, Call(u) \/ Step(u)
    PROVE  /\ inodes' \in Seq(Contents)
           /\ DOMAIN inodes \subseteq DOMAIN inodes'
           /\ \A j \in DOMAIN inodes' : Bounded(FileIds(inodes'[j].body))
<1>0. /\ FilesType /\ HandleInv /\ BoundedInv
      /\ inodes \in Seq(Contents) /\ DOMAIN inodes = 1 .. Len(inodes) /\ Len(inodes) \in Nat
  BY DEF DiskInv, FilesType
<1>1. CASE UNCHANGED inodes
  BY <1>0, <1>1 DEF BoundedInv
<1>2. CASE CreateTmp(u)
  <2>1. CASE TmpName(u) \in DOMAIN tmp
    <3>1. inodes' = [inodes EXCEPT ![tmp[TmpName(u)]] = Unreadable]
      BY <1>2, <2>1 DEF CreateTmp
    <3>2. tmp[TmpName(u)] \in DOMAIN inodes
      BY <1>0, <2>1 DEF FilesType
    <3> QED
      BY <1>0, <3>1, <3>2, InodeWrite, ContentsFact
  <2>2. CASE TmpName(u) \notin DOMAIN tmp
    <3>1. inodes' = Append(inodes, Unreadable)
      BY <1>2, <2>2 DEF CreateTmp
    <3>2. /\ inodes' \in Seq(Contents) /\ DOMAIN inodes' = 1 .. (Len(inodes) + 1)
          /\ inodes'[Len(inodes) + 1] = Unreadable
          /\ \A j \in DOMAIN inodes : inodes'[j] = inodes[j]
      BY <1>0, <3>1, ContentsFact, AppendProperties
    <3>3. \A j \in DOMAIN inodes' : j \in DOMAIN inodes \/ j = Len(inodes) + 1
      BY <1>0, <3>2
    <3>4. DOMAIN inodes \subseteq DOMAIN inodes'
      BY <1>0, <3>2
    <3> QED
      BY <1>0, <3>2, <3>3, <3>4, ContentsFact DEF BoundedInv
  <2> QED
    BY <2>1, <2>2
<1>3. CASE WriteTmp(u) \/ WriteFails(u)
  <2>1. handle[u] \in DOMAIN inodes
    BY <1>0, <1>3 DEF WriteTmp, WriteFails, HandleInv
  <2>2. PICK c \in {inodes[handle[u]], Unreadable, Encoded(u)} :
          inodes' = [inodes EXCEPT ![handle[u]] = c]
    BY <1>3 DEF WriteTmp, WriteFails
  <2>3. inodes[handle[u]] \in Contents /\ Bounded(FileIds(inodes[handle[u]].body))
    BY <1>0, <2>1, ElementOfSeq DEF BoundedInv
  <2>4. c \in Contents /\ Bounded(FileIds(c.body))
    BY <1>0, <2>3, ContentsFact
  <2> QED
    BY <1>0, <2>1, <2>2, <2>4, InodeWrite
<1>4. CASE Call(u) \/ Snapshot(u) \/ GiveUp(u) \/ MutateFails(u)
  BY <1>1, <1>4 DEF Call, Snapshot, GiveUp, MutateFails, fileVars
<1>5. CASE Rename(u) \/ Install(u) \/ Conflict(u) \/ RenameFails(u)
  BY <1>1, <1>5 DEF Rename, Install, Conflict, RenameFails, fileVars
<1> QED
  BY <1>2, <1>3, <1>4, <1>5 DEF Step

\* The effect of a step of an updater on the names.
LEMMA NamesStep ==
    ASSUME Inv, DiskInv, NEW u \in Updaters, Call(u) \/ Step(u)
    PROVE  FilesType' /\ HandleInv'
<1>0. /\ inodes' \in Seq(Contents) /\ DOMAIN inodes \subseteq DOMAIN inodes'
      /\ FilesType /\ HandleInv
  BY InodesStep DEF DiskInv
<1>1. CASE /\ UNCHANGED <<handle, final>>
           /\ tmp' = tmp \/ tmp' = Remove(tmp, TmpName(u))
           /\ \A v \in Updaters : pc'[v] = "WriteTmp" => pc[v] = "WriteTmp"
  <2>1. \A v \in DOMAIN tmp' : v \in DOMAIN tmp /\ tmp'[v] = tmp[v]
    BY <1>1 DEF Remove
  <2>2. FilesType'
    BY <1>0, <1>1, <2>1 DEF FilesType
  <2>3. HandleInv'
    BY <1>0, <1>1 DEF HandleInv
  <2> QED
    BY <2>2, <2>3
<1>2. CASE CreateTmp(u)
  <2>1. candidate[u].version \in Nat /\ Len(inodes) \in Nat /\ DOMAIN inodes = 1 .. Len(inodes)
        /\ pc \in [Updaters -> {"Idle"} \cup Calling]
        /\ handle \in [Updaters -> Nat]
    BY DEF DiskInv, FilesType, Inv, MemoryType, Manifest
  <2>2. PICK n \in DOMAIN inodes' :
          /\ handle' = [handle EXCEPT ![u] = n]
          /\ tmp' = tmp \/ tmp' = Bind(tmp, TmpName(u), n)
    <3>1. CASE TmpName(u) \in DOMAIN tmp
      BY <1>0, <1>2, <3>1 DEF CreateTmp, FilesType
    <3>2. CASE TmpName(u) \notin DOMAIN tmp
      <4>1. inodes' = Append(inodes, Unreadable)
        BY <1>2, <3>2 DEF CreateTmp
      <4>2. Len(inodes) + 1 \in DOMAIN inodes'
        <5>1. inodes \in Seq(Contents) /\ Unreadable \in Contents
          BY ContentsFact DEF DiskInv, FilesType
        <5> QED
          BY <2>1, <4>1, <5>1, AppendProperties
      <4> QED
        BY <1>2, <3>2, <4>2 DEF CreateTmp
    <3> QED
      BY <3>1, <3>2
  <2>3. n \in Nat
    BY <1>0
  <2>4. \A v \in DOMAIN tmp' : v \in Nat /\ tmp'[v] \in DOMAIN inodes'
    BY <1>0, <2>1, <2>2 DEF Bind, TmpName, FilesType
  <2>5. FilesType'
    BY <1>0, <1>2, <2>1, <2>2, <2>3, <2>4 DEF FilesType, CreateTmp
  <2>6. HandleInv'
    BY <1>0, <1>2, <2>1, <2>2 DEF HandleInv, CreateTmp
  <2> QED
    BY <2>5, <2>6
<1>3. CASE Rename(u)
  <2>1. candidate[u].version \in Nat /\ pc \in [Updaters -> {"Idle"} \cup Calling]
    BY DEF Inv, MemoryType, Manifest
  <2>2. tmp[TmpName(u)] \in DOMAIN inodes
    BY <1>0, <1>3 DEF Rename, FilesType
  <2>3. /\ final' = Bind(final, candidate[u].version, tmp[TmpName(u)])
        /\ tmp' = Remove(tmp, TmpName(u)) /\ UNCHANGED handle
        /\ pc' = [pc EXCEPT ![u] = "Install"]
    BY <1>3 DEF Rename, callVars
  <2>4. \A v \in DOMAIN tmp' : v \in DOMAIN tmp /\ tmp'[v] = tmp[v]
    BY <2>3 DEF Remove
  <2>5. \A v \in DOMAIN final' : v \in Nat /\ final'[v] \in DOMAIN inodes'
    BY <1>0, <2>1, <2>2, <2>3 DEF Bind, FilesType
  <2>6. FilesType'
    BY <1>0, <2>3, <2>4, <2>5 DEF FilesType
  <2>7. HandleInv'
    BY <1>0, <2>1, <2>3 DEF HandleInv
  <2> QED
    BY <2>6, <2>7
<1>4. pc \in [Updaters -> {"Idle"} \cup Calling]
  BY DEF Inv, MemoryType
<1>5. CASE Call(u) \/ Snapshot(u) \/ GiveUp(u) \/ MutateFails(u)
  BY <1>1, <1>4, <1>5 DEF Call, Snapshot, GiveUp, MutateFails, Fail, fileVars, callVars
<1>6. CASE WriteTmp(u) \/ WriteFails(u) \/ Install(u)
  BY <1>1, <1>4, <1>6 DEF WriteTmp, WriteFails, Install, Fail, fileVars, callVars
<1>7. CASE Conflict(u) \/ RenameFails(u)
  BY <1>1, <1>4, <1>7 DEF Conflict, RenameFails, Fail, callVars
<1> QED
  BY <1>2, <1>3, <1>5, <1>6, <1>7 DEF Step

\* The ids stay bounded: a step takes one more id, or copies sets of ids.
LEMMA BoundedStep ==
    ASSUME Inv, DiskInv, NEW u \in Updaters, Call(u) \/ Step(u)
    PROVE  BoundedInv'
<1>0. /\ BoundedInv
      /\ \A j \in DOMAIN inodes' : Bounded(FileIds(inodes'[j].body))
      /\ manifest \in Manifest /\ candidate \in [Updaters -> Manifest]
      /\ sst \in [Updaters -> SUBSET Nat]
  BY InodesStep DEF DiskInv, Inv, MemoryType
<1>1. CASE Call(u)
  <2>1. /\ manifest'.body = manifest.body /\ candidate' = candidate
        /\ \A v \in Updaters : sst'[v] \in {sst[v], {manifest.next_sstable_id}, {}}
    BY <1>0, <1>1 DEF Call, Reserve, Manifest
  <2>2. Bounded({}) /\ \A n \in Nat : Bounded({n})
    BY DEF Bounded
  <2>3. manifest.next_sstable_id \in Nat
    BY <1>0 DEF Manifest
  <2> QED
    BY <1>0, <2>1, <2>2, <2>3 DEF BoundedInv
<1>2. CASE Snapshot(u)
  <2> DEFINE c == [by |-> u, ssts |-> sst[u]]
  <2>1. /\ UNCHANGED <<manifest, sst>>
        /\ \A v \in Updaters \ {u} : candidate'[v] = candidate[v]
        /\ candidate'[u].body = Append(manifest.body, c)
    BY <1>0, <1>2 DEF Snapshot
  <2>2. c \in Update /\ c.ssts = sst[u] /\ manifest.body \in Seq(Update) /\ sst[u] \subseteq Nat
    BY <1>0 DEF Update, Manifest
  <2> HIDE DEF c
  <2>3. /\ FileIds(candidate'[u].body) = FileIds(manifest.body) \cup sst[u]
        /\ FileIds(manifest.body) \subseteq Nat
    BY <2>1, <2>2, FileIdsFact
  <2>4. Bounded(FileIds(candidate'[u].body))
    BY <1>0, <2>2, <2>3, BoundedUnion DEF BoundedInv
  <2> QED
    BY <1>0, <2>1, <2>4 DEF BoundedInv
<1>3. CASE Install(u)
  BY <1>0, <1>3 DEF Install, callVars, BoundedInv
<1>4. CASE Quiet(u)
  <2>1. UNCHANGED <<manifest, candidate, sst>>
    BY <1>4, QuietFact
  <2> QED
    BY <1>0, <2>1 DEF BoundedInv
<1> QED
  BY <1>1, <1>2, <1>3, <1>4 DEF Step, Quiet

\* The files of the directory follow the versions.
LEMMA DirStep ==
    ASSUME Inv, DiskInv, NEW u \in Updaters, Call(u) \/ Step(u)
    PROVE  DirInv'
<1> DEFINE top == IF LockFree THEN manifest.version ELSE manifest.version + 1
<1>0. /\ up /\ DOMAIN final = 0 .. top /\ manifest \in Manifest /\ manifest.version \in Nat
      /\ pc \in [Updaters -> {"Idle"} \cup Calling]
  <2>1. pc[u] # "Idle" \/ up
    BY DEF Call, Step, Snapshot, GiveUp, MutateFails, CreateTmp, WriteTmp, WriteFails, Rename,
       Install, Conflict, RenameFails
  <2>2. up
    BY <2>1 DEF Inv, DownInv
  <2> QED
    BY <2>2 DEF DiskInv, DirInv, Inv, MemoryType, Manifest
<1>1. ASSUME manifest'.version = manifest.version, LockFree' = LockFree, final' = final
      PROVE  DirInv'
  BY <1>0, <1>1 DEF DirInv
<1>2. ASSUME pc[u] # "Install", pc'[u] # "Install",
             \A v \in Updaters \ {u} : pc'[v] = pc[v]
      PROVE  LockFree' = LockFree
  BY <1>2 DEF LockFree
<1>3. CASE Call(u)
  <2>1. manifest'.version = manifest.version
    BY <1>0, <1>3 DEF Call, Reserve, Manifest
  <2>2. LockFree' = LockFree
    BY <1>0, <1>2, <1>3 DEF Call
  <2> QED
    BY <1>1, <1>3, <2>1, <2>2 DEF Call, fileVars
<1>4. CASE Snapshot(u)
  <2>2. LockFree' = LockFree
    BY <1>0, <1>2, <1>4 DEF Snapshot
  <2> QED
    BY <1>1, <1>4, <2>2 DEF Snapshot, fileVars
<1>5. CASE Install(u)
  <2>1. manifest'.version = manifest.version + 1
    BY <1>5 DEF Install, Inv, LockInv, CandidateInv, Holding
  <2>2. ~ LockFree
    BY <1>5 DEF Install, LockFree
  <2>3. LockFree'
    BY <1>0, <1>5 DEF Install, LockFree, Inv, LockInv
  <2>4. final' = final
    BY <1>5 DEF Install, fileVars
  <2> QED
    BY <1>0, <2>1, <2>2, <2>3, <2>4 DEF DirInv
<1>6. CASE Rename(u)
  <2>1. /\ pc[u] = "Commit" /\ LockFree /\ manifest.version = base[u]
        /\ final' = Bind(final, candidate[u].version, tmp[TmpName(u)])
        /\ pc' = [pc EXCEPT ![u] = "Install"] /\ UNCHANGED manifest
    BY <1>6 DEF Rename, Unchanged
  <2>2. candidate[u].version = manifest.version + 1
    BY <2>1 DEF Inv, CandidateInv, Holding
  <2>3. DOMAIN final' = (0 .. manifest.version) \cup {manifest.version + 1}
    BY <1>0, <2>1, <2>2 DEF Bind
  <2>4. DOMAIN final' = 0 .. (manifest.version + 1)
    BY <1>0, <2>3
  <2>5. ~ LockFree'
    BY <1>0, <2>1 DEF LockFree
  <2> QED
    BY <1>0, <2>1, <2>4, <2>5 DEF DirInv
<1>7. CASE Quiet(u) /\ ~ Rename(u)
  <2>1. /\ UNCHANGED manifest /\ pc[u] # "Install"
        /\ \A v \in Updaters \ {u} : pc'[v] = pc[v]
    BY <1>7, QuietFact
  <2>2. final' = final /\ pc'[u] # "Install"
    BY <1>0, <1>7 DEF Quiet, GiveUp, MutateFails, CreateTmp, WriteTmp, WriteFails, Conflict,
       RenameFails, Fail, fileVars
  <2> QED
    BY <1>1, <1>2, <2>1, <2>2
<1> QED
  BY <1>3, <1>4, <1>5, <1>6, <1>7 DEF Step, Quiet

\* The invariant of the directory is inductive.
LEMMA DiskStep ==
    ASSUME Inv, DiskInv, [Next]_vars
    PROVE  DiskInv'
<1>1. ASSUME UNCHANGED <<fileVars, callVars>>,
             \A v \in Updaters : pc'[v] = "WriteTmp" => pc[v] = "WriteTmp"
      PROVE  FilesType' /\ HandleInv'
             /\ (Bounded(FileIds(manifest'.body)) => BoundedInv')
  BY <1>1 DEF DiskInv, FilesType, HandleInv, BoundedInv, fileVars, callVars
<1>2. BoundedInv
  BY DEF DiskInv
<1>3. CASE UNCHANGED vars \/ Done
  <2>1. UNCHANGED <<manifest, up, pc, fileVars, callVars>>
    BY <1>3 DEF vars, Done
  <2>2. DirInv'
    BY <2>1 DEF DiskInv, DirInv, LockFree, fileVars
  <2> QED
    BY <1>1, <1>2, <2>1, <2>2 DEF DiskInv, BoundedInv
<1>4. CASE Crash
  <2>1. /\ UNCHANGED <<manifest, fileVars, callVars>>
        /\ up' = FALSE /\ pc' = [u \in Updaters |-> "Idle"]
    BY <1>4 DEF Crash
  <2>2. DirInv'
    BY <2>1 DEF DiskInv, DirInv, fileVars
  <2> QED
    BY <1>1, <1>2, <2>1, <2>2 DEF DiskInv, BoundedInv
<1>5. CASE Recover
  <2>1. UNCHANGED <<pc, fileVars, callVars>> /\ ~ up
    BY <1>5 DEF Recover
  <2>2. LockFree'
    BY <2>1 DEF Inv, DownInv, LockFree
  <2>3. DirInv'
    BY <1>5, <2>1, <2>2, RecoverFact DEF DirInv, fileVars
  <2>4. Bounded(FileIds(manifest'.body))
    <3>1. final[Newest] \in DOMAIN inodes /\ manifest'.body = inodes[final[Newest]].body
      BY <1>5, RecoverFact DEF DiskInv, FilesType, OnDisk
    <3> QED
      BY <1>2, <3>1 DEF BoundedInv
  <2> QED
    BY <1>1, <2>1, <2>3, <2>4 DEF DiskInv
<1>6. CASE \E u \in Updaters : Call(u) \/ Step(u)
  BY <1>6, NamesStep, BoundedStep, DirStep DEF DiskInv
<1> QED
  BY <1>3, <1>4, <1>5, <1>6 DEF Next

\* Both hold initially, so always, through any number of crashes.
LEMMA Invariant == Spec => []Inv /\ []DiskInv
<1>1. Init => Inv
  <2> SUFFICES ASSUME Init PROVE Inv
    OBVIOUS
  <2>1. Fresh \in Manifest /\ {} \in SUBSET Nat
    BY DEF Fresh, Manifest
  <2>2. MemoryType /\ DownInv
    BY <2>1 DEF Init, MemoryType, DownInv
  <2>3. LockInv /\ CandidateInv /\ OutcomeInv
    BY DEF Init, LockInv, CandidateInv, OutcomeInv, Holding
  <2>4. RetryInv
    BY DEF Init, RetryInv, Holding, MaxTries
  <2> QED
    BY <2>2, <2>3, <2>4 DEF Inv
<1>2. Init => DiskInv
  <2> SUFFICES ASSUME Init PROVE DiskInv
    OBVIOUS
  <2> DEFINE c == [valid |-> TRUE, body |-> <<>>]
  <2>1. c \in Contents /\ c.body = <<>>
    BY DEF Contents
  <2>2. inodes = <<c>> /\ DOMAIN inodes = {1} /\ inodes[1] = c
    BY DEF Init
  <2> HIDE DEF c
  <2>3. inodes \in Seq(Contents)
    BY <2>1, <2>2
  <2>4. FilesType
    BY <2>2, <2>3 DEF Init, FilesType
  <2>5. HandleInv
    BY DEF Init, HandleInv
  <2>6. DirInv
    BY DEF Init, DirInv, LockFree, Fresh
  <2>7. FileIds(<<>>) = {} /\ Bounded({})
    BY DEF FileIds, Bounded
  <2>8. BoundedInv
    BY <2>1, <2>2, <2>7 DEF Init, BoundedInv, Fresh
  <2> QED
    BY <2>4, <2>5, <2>6, <2>8 DEF DiskInv
<1>3. Inv /\ DiskInv /\ [Next]_vars => Inv' /\ DiskInv'
  BY InvStep, DiskStep, RecoverFact
<1> QED
  BY <1>1, <1>2, <1>3, PTL DEF Spec

\* The types of all variables, through any number of crashes: what recovery reads is a
\* manifest, because the newest file exists and the ids in it are bounded.
THEOREM TypeCorrect == Spec => []TypeOK
<1>1. Inv /\ DiskInv => TypeOK
  BY DEF Inv, MemoryType, DiskInv, FilesType, TypeOK
<1> QED
  BY <1>1, Invariant, PTL

\* A call gives up with "Manifest commit loop exceeded retry limit" only when at
\* least three other updates were committed while it ran, whatever fails and however
\* often the process was restarted before.
THEOREM GiveUpOnlyAfterConflicts == Spec => []GivesUpAfterConflicts
<1>1. Inv => GivesUpAfterConflicts
  BY DEF Inv, RetryInv, GivesUpAfterConflicts, MemoryType, Manifest, MaxTries
<1> QED
  BY <1>1, Invariant, PTL
-----------------------------------------------------------------------------
(* The shared name of the temporary file.                                    *)

\* An updater of the current version has its file: whoever shares the name with it
\* leaves the file alone, and whoever removes a file wrote it for another version.
TmpInv ==
    LockFree => \A u \in Updaters :
      pc[u] \in {"WriteTmp", "Commit"} /\ base[u] = manifest.version => TmpName(u) \in DOMAIN tmp

LEMMA TmpStep ==
    ASSUME "rename" \notin IoErrors, Inv, TmpInv, [Next]_vars
    PROVE  TmpInv'
<1>0. pc \in [Updaters -> {"Idle"} \cup Calling]
  BY DEF Inv, MemoryType
<1>1. CASE UNCHANGED vars \/ Done
  <2>1. UNCHANGED <<manifest, pc, base, candidate, tmp>>
    BY <1>1 DEF vars, Done, callVars, fileVars
  <2> QED
    BY <2>1 DEF TmpInv, LockFree, TmpName
<1>2. CASE Crash \/ Recover
  <2>1. \A u \in Updaters : pc'[u] = "Idle"
    BY <1>2 DEF Crash, Recover, Inv, DownInv
  <2> QED
    BY <2>1 DEF TmpInv
<1>3. ASSUME NEW u \in Updaters, Call(u) \/ Snapshot(u) PROVE TmpInv'
  <2>1. /\ manifest'.version = manifest.version /\ UNCHANGED tmp /\ LockFree
        /\ pc'[u] \notin {"WriteTmp", "Commit"}
        /\ \A v \in Updaters \ {u} :
             pc'[v] = pc[v] /\ base'[v] = base[v] /\ candidate'[v] = candidate[v]
    <3>1. manifest \in Manifest /\ base \in [Updaters -> Nat] /\ candidate \in [Updaters -> Manifest]
      BY DEF Inv, MemoryType
    <3>2. CASE Call(u)
      BY <1>0, <3>1, <3>2 DEF Call, Reserve, Manifest, fileVars
    <3>3. CASE Snapshot(u)
      BY <1>0, <3>1, <3>3 DEF Snapshot, fileVars
    <3> QED
      BY <1>3, <3>2, <3>3
  <2> QED
    BY <2>1 DEF TmpInv, TmpName
<1>4. ASSUME NEW u \in Updaters, Install(u) PROVE TmpInv'
  <2>1. /\ manifest'.version = manifest.version + 1 /\ manifest.version \in Nat
        /\ pc'[u] = "Idle" /\ UNCHANGED base /\ \A v \in Updaters \ {u} : pc'[v] = pc[v]
    BY <1>0, <1>4 DEF Install, Inv, LockInv, CandidateInv, Holding, MemoryType, Manifest, callVars
  <2>2. \A v \in Updaters : pc[v] \in {"WriteTmp", "Commit"} => base[v] \in Nat /\ base[v] <= manifest.version
    BY DEF Inv, CandidateInv, Holding, MemoryType
  <2>3. \A v \in Updaters : pc'[v] \in {"WriteTmp", "Commit"} => base'[v] # manifest'.version
    BY <2>1, <2>2
  <2> QED
    BY <2>3 DEF TmpInv
<1>5. ASSUME NEW u \in Updaters, Quiet(u) PROVE TmpInv'
  <2>1. /\ UNCHANGED <<manifest, base, candidate>>
        /\ \A v \in Updaters \ {u} : pc'[v] = pc[v]
        /\ pc[u] # "Install"
        /\ LockFree' => LockFree
    BY <1>5, QuietFact DEF LockFree
  <2>2. \A v \in Updaters : TmpName(v)' = TmpName(v)
    BY <2>1 DEF TmpName
  <2>3. ASSUME DOMAIN tmp \subseteq DOMAIN tmp',
               pc'[u] \in {"WriteTmp", "Commit"} => pc[u] \in {"WriteTmp", "Commit"} \/ TmpName(u) \in DOMAIN tmp'
        PROVE  TmpInv'
    BY <2>1, <2>2, <2>3 DEF TmpInv
  <2>4. CASE GiveUp(u) \/ MutateFails(u) \/ WriteTmp(u) \/ WriteFails(u)
    BY <1>0, <2>3, <2>4 DEF GiveUp, MutateFails, WriteTmp, WriteFails, Fail, fileVars
  <2>5. CASE CreateTmp(u)
    BY <2>3, <2>5 DEF CreateTmp, Bind
  <2>6. CASE Rename(u)
    <3>1. ~ LockFree'
      BY <1>0, <2>6 DEF Rename, LockFree
    <3> QED
      BY <3>1 DEF TmpInv
  <2>7. CASE Conflict(u)
    <3>1. /\ pc[u] = "Commit" /\ base[u] # manifest.version /\ pc'[u] = "Snapshot"
          /\ tmp' = Remove(tmp, TmpName(u))
      BY <1>0, <2>7 DEF Conflict, Unchanged
    <3>2. \A v \in Updaters : pc[v] \in {"WriteTmp", "Commit"} => TmpName(v) = base[v] + 1 /\ base[v] \in Nat
      BY DEF Inv, CandidateInv, Holding, TmpName, MemoryType
    <3>3. \A v \in Updaters :
            pc[v] \in {"WriteTmp", "Commit"} /\ base[v] = manifest.version => TmpName(v) # TmpName(u)
      BY <3>1, <3>2
    <3> QED
      BY <2>1, <2>2, <3>1, <3>3 DEF TmpInv, Remove
  <2>8. CASE RenameFails(u)
    <3>1. /\ pc[u] = "Commit" /\ LockFree /\ manifest.version = base[u] /\ TmpName(u) \notin DOMAIN tmp
      BY <2>8 DEF RenameFails, Unchanged
    <3> QED
      BY <3>1 DEF TmpInv
  <2> QED
    BY <1>5, <2>4, <2>5, <2>6, <2>7, <2>8 DEF Quiet
<1> QED
  BY <1>1, <1>2, <1>3, <1>4, <1>5 DEF Next, Step, Quiet

\* As long as no rename fails for another reason, the winner's rename finds its file,
\* although the updaters of a version share one temporary name and each removes it when
\* it loses.  A failed rename removes the file another updater may be about to rename.
THEOREM TmpFileSurvives == ASSUME "rename" \notin IoErrors PROVE Spec => []TmpFileThere
<1>1. Init => TmpInv
  BY DEF Init, TmpInv
<1>2. Inv /\ TmpInv /\ [Next]_vars => TmpInv'
  BY TmpStep
<1>3. TmpInv => TmpFileThere
  BY DEF TmpInv, TmpFileThere
<1> QED
  BY <1>1, <1>2, <1>3, Invariant, PTL DEF Spec
-----------------------------------------------------------------------------
(* The refinement.  Every step is a step of AtomicManifest or leaves its state  *)
(* alone; the change is made by the rename, before the new manifest is in       *)
(* memory, because the lock is held until it is.                                *)

Authors(body) == [i \in DOMAIN body |-> body[i].by]
Busy == {u \in Updaters : pc[u] # "Idle"}
Outcomes == [u \in Updaters |-> AbstractOutcome(u)]

\* While an updater holds the lock its candidate is the committed manifest.
LEMMA CommittedFact ==
    ASSUME Inv, up
    PROVE  /\ LockFree => CommittedBody = manifest.body
           /\ \A u \in Updaters : pc[u] = "Install" => CommittedBody = candidate[u].body
<1>1. ASSUME NEW u \in Updaters, pc[u] = "Install" PROVE CommittedBody = candidate[u].body
  <2>1. (CHOOSE v \in Updaters : pc[v] = "Install") = u
    BY <1>1 DEF Inv, LockInv
  <2>2. ~ LockFree
    BY <1>1 DEF LockFree
  <2> QED
    BY <2>1, <2>2 DEF CommittedBody
<1> QED
  BY <1>1 DEF CommittedBody

\* The changes of a body with one more change.
LEMMA AuthorsAppend ==
    ASSUME NEW b \in Seq(Update), NEW x \in Update
    PROVE  Authors(Append(b, x)) = Append(Authors(b), x.by)
<1>1. Len(b) \in Nat /\ DOMAIN b = 1 .. Len(b)
  OBVIOUS
<1>2. /\ DOMAIN Append(b, x) = 1 .. (Len(b) + 1)
      /\ \A i \in 1 .. (Len(b) + 1) : Append(b, x)[i] = IF i <= Len(b) THEN b[i] ELSE x
  OBVIOUS
<1>3. /\ Authors(b) \in Seq(Updaters) /\ Len(Authors(b)) = Len(b)
      /\ \A i \in 1 .. Len(b) : Authors(b)[i] = b[i].by
  <2>1. \A i \in 1 .. Len(b) : b[i].by \in Updaters
    <3>1. \A i \in 1 .. Len(b) : b[i] \in Update
      BY ElementOfSeq
    <3> QED
      BY <3>1 DEF Update
  <2>2. Authors(b) = [i \in 1 .. Len(b) |-> b[i].by]
    BY <1>1 DEF Authors
  <2>3. [i \in 1 .. Len(b) |-> b[i].by] \in Seq(Updaters)
    BY <1>1, <2>1, IsASeq
  <2> QED
    BY <1>1, <2>2, <2>3
<1>4. Authors(Append(b, x)) =
        [i \in 1 .. (Len(b) + 1) |-> IF i <= Len(b) THEN b[i].by ELSE x.by]
  BY <1>1, <1>2 DEF Authors
<1>5. Append(Authors(b), x.by) =
        [i \in 1 .. (Len(b) + 1) |-> IF i <= Len(b) THEN b[i].by ELSE x.by]
  BY <1>1, <1>3
<1> QED
  BY <1>4, <1>5

\* Every step of a running process is a step of AtomicManifest, or none.
LEMMA RefinementStep ==
    ASSUME Inv, Inv', up, up', [Next]_vars
    PROVE  [Atomic!Next]_<<Authors(CommittedBody), Busy, Outcomes>>
<1> DEFINE log == Authors(CommittedBody)
<1>1. CASE UNCHANGED vars \/ Done
  <2>1. UNCHANGED <<manifest, up, pc, outcome, candidate, inodes, final>>
    BY <1>1 DEF Done, vars, callVars, fileVars
  <2>2. UNCHANGED <<log, Busy, Outcomes>>
    BY <2>1 DEF Authors, CommittedBody, LockFree, OnDisk, Newest, Busy, Outcomes, AbstractOutcome
  <2> QED
    BY <2>2
<1>2. CASE Crash \/ Recover
  BY <1>2 DEF Crash, Recover
<1>3. ASSUME NEW u \in Updaters, Call(u)
      PROVE  [Atomic!Next]_<<log, Busy, Outcomes>>
  <2>1. /\ pc[u] = "Idle" /\ pc' = [pc EXCEPT ![u] = "Snapshot"]
        /\ outcome' = [outcome EXCEPT ![u] = "none"]
        /\ LockFree /\ manifest'.body = manifest.body
    <3>1. manifest \in Manifest
      BY DEF Inv, MemoryType
    <3>2. manifest'.body = manifest.body
      BY <1>3, <3>1 DEF Call, Reserve, Manifest
    <3> QED
      BY <1>3, <3>2 DEF Call
  <2>2. pc \in [Updaters -> {"Idle"} \cup Calling] /\ outcome \in [Updaters -> {"none", "ok", "io", "retries"}]
    BY DEF Inv, MemoryType
  <2>3. LockFree'
    BY <2>1, <2>2 DEF LockFree
  <2>4. log' = log
    BY <2>1, <2>3 DEF Authors, CommittedBody
  <2>5. u \notin Busy /\ Busy' = Busy \cup {u}
    BY <2>1, <2>2 DEF Busy
  <2>6. Outcomes' = [Outcomes EXCEPT ![u] = "none"]
    BY <2>1, <2>2 DEF Outcomes, AbstractOutcome
  <2>7. Atomic!Call(u)
    BY <2>4, <2>5, <2>6 DEF Atomic!Call, Authors, Busy, Outcomes
  <2> QED
    BY <2>7 DEF Atomic!Next
<1>4. ASSUME NEW u \in Updaters, Snapshot(u)
      PROVE  UNCHANGED <<log, Busy, Outcomes>>
  <2>1. /\ pc[u] = "Snapshot" /\ pc' = [pc EXCEPT ![u] = "CreateTmp"]
        /\ UNCHANGED <<outcome, manifest>> /\ LockFree
    BY <1>4 DEF Snapshot
  <2>2. pc \in [Updaters -> {"Idle"} \cup Calling]
    BY DEF Inv, MemoryType
  <2>3. LockFree'
    BY <2>1, <2>2 DEF LockFree
  <2>4. log' = log
    BY <2>1, <2>3 DEF Authors, CommittedBody
  <2>5. Busy' = Busy /\ Outcomes' = Outcomes
    BY <2>1, <2>2 DEF Busy, Outcomes, AbstractOutcome
  <2> QED
    BY <2>4, <2>5
<1>5. ASSUME NEW u \in Updaters, Install(u)
      PROVE  [Atomic!Next]_<<log, Busy, Outcomes>>
  <2>1. /\ pc[u] = "Install" /\ pc' = [pc EXCEPT ![u] = "Idle"]
        /\ outcome' = [outcome EXCEPT ![u] = "ok"]
        /\ manifest' = candidate[u]
    BY <1>5 DEF Install
  <2>2. /\ pc \in [Updaters -> {"Idle"} \cup Calling]
        /\ outcome \in [Updaters -> {"none", "ok", "io", "retries"}]
    BY DEF Inv, MemoryType
  <2>3. LockFree'
    BY <2>1, <2>2 DEF LockFree, Inv, LockInv
  <2>4. log' = log
    <3>1. CommittedBody = candidate[u].body
      BY <2>1, CommittedFact
    <3>2. CommittedBody' = candidate[u].body
      BY <2>1, <2>3 DEF CommittedBody
    <3> QED
      BY <3>1, <3>2 DEF Authors
  <2>5. u \in Busy /\ Busy' = Busy \ {u}
    BY <2>1, <2>2 DEF Busy
  <2>6. Outcomes' = Outcomes /\ Outcomes[u] = "ok"
    BY <2>1, <2>2 DEF Outcomes, AbstractOutcome
  <2>7. Atomic!Return(u)
    BY <2>4, <2>5, <2>6 DEF Atomic!Return, Authors, Busy, Outcomes
  <2> QED
    BY <2>7 DEF Atomic!Next
<1>6. ASSUME NEW u \in Updaters, Quiet(u)
      PROVE  [Atomic!Next]_<<log, Busy, Outcomes>>
  <2>1. /\ UNCHANGED <<manifest, candidate, up>>
        /\ \A v \in Updaters \ {u} : pc'[v] = pc[v] /\ outcome'[v] = outcome[v]
        /\ pc[u] # "Idle" /\ pc[u] # "Install"
    BY <1>6, QuietFact
  <2>2. outcome[u] = "none"
    BY <2>1 DEF Inv, OutcomeInv
  <2>3. \A v \in Updaters \ {u} : AbstractOutcome(v)' = AbstractOutcome(v)
    BY <2>1 DEF AbstractOutcome
  <2>4. AbstractOutcome(u) = "none" /\ Outcomes[u] = "none" /\ u \in Busy
    BY <2>1, <2>2 DEF AbstractOutcome, Outcomes, Busy
  <2>5. ASSUME pc'[u] # "Install" PROVE log' = log
    <3>1. CASE LockFree
      <4>1. LockFree'
        BY <2>1, <2>5, <3>1 DEF LockFree
      <4> QED
        BY <2>1, <2>2, <3>1, <4>1 DEF CommittedBody, Authors
    <3>2. CASE ~ LockFree
      <4>1. PICK v \in Updaters : pc[v] = "Install"
        BY <3>2 DEF LockFree
      <4>2. pc'[v] = "Install"
        BY <2>1, <4>1
      <4>3. CommittedBody = candidate[v].body
        BY <4>1, CommittedFact
      <4>4. (CHOOSE x \in Updaters : pc'[x] = "Install") = v
        BY <4>2 DEF Inv, LockInv
      <4>5. CommittedBody' = candidate[v].body
        BY <2>1, <2>2, <4>2, <4>4 DEF CommittedBody, LockFree
      <4> QED
        BY <4>3, <4>5 DEF Authors
    <3> QED
      BY <3>1, <3>2
  <2>6. CASE pc'[u] = "Install"
    <3>1. outcome'[u] = outcome[u] /\ manifest.version = base[u] /\ LockFree /\ pc[u] = "Commit"
      BY <1>6, <2>6, QuietFact
    <3>2. candidate[u].body = Append(manifest.body, [by |-> u, ssts |-> sst[u]])
      BY <3>1 DEF Inv, CandidateInv, Holding
    <3>3. CommittedBody = manifest.body
      BY <3>1, CommittedFact
    <3>4. CommittedBody' = candidate[u].body
      <4>1. (CHOOSE x \in Updaters : pc'[x] = "Install") = u
        BY <2>6 DEF Inv, LockInv
      <4> QED
        BY <2>1, <2>2, <2>6, <4>1 DEF CommittedBody, LockFree
    <3>5. manifest.body \in Seq(Update) /\ [by |-> u, ssts |-> sst[u]] \in Update
      BY DEF Inv, MemoryType, Manifest, Update
    <3>6. log' = Append(log, u)
      <4>1. Authors(candidate[u].body) = Append(Authors(manifest.body), u)
        BY <3>2, <3>5, AuthorsAppend
      <4>2. log' = Authors(candidate[u].body)
        BY <3>4 DEF Authors
      <4> QED
        BY <3>3, <4>1, <4>2
    <3>7. AbstractOutcome(u)' = "ok"
      BY <2>6 DEF AbstractOutcome
    <3>8. Outcomes' = [Outcomes EXCEPT ![u] = "ok"]
      BY <2>3, <3>7 DEF Outcomes
    <3>9. Busy' = Busy
      BY <2>1, <2>6 DEF Busy
    <3>10. Atomic!Apply(u)
      BY <2>4, <3>6, <3>8, <3>9 DEF Atomic!Apply, Authors, Busy, Outcomes
    <3> QED
      BY <3>10 DEF Atomic!Next
  <2>7. CASE pc'[u] = "Idle"
    <3>1. outcome'[u] \in {"io", "retries"}
      BY <1>6, <2>7, QuietFact
    <3>2. AbstractOutcome(u)' = "err"
      BY <2>7, <3>1 DEF AbstractOutcome
    <3>3. Outcomes' = [Outcomes EXCEPT ![u] = "err"]
      BY <2>3, <3>2 DEF Outcomes
    <3>4. Busy' = Busy \ {u}
      BY <2>1, <2>7 DEF Busy
    <3>5. log' = log
      BY <2>5, <2>7
    <3>6. Atomic!Fail(u)
      BY <2>4, <3>3, <3>4, <3>5 DEF Atomic!Fail, Authors, Busy, Outcomes
    <3> QED
      BY <3>6 DEF Atomic!Next
  <2>8. CASE pc'[u] \notin {"Idle", "Install"}
    <3>1. outcome'[u] = "none"
      BY <1>6, <2>2, <2>8, QuietFact
    <3>2. AbstractOutcome(u)' = "none"
      BY <2>8, <3>1 DEF AbstractOutcome
    <3>3. Outcomes' = Outcomes
      BY <2>3, <2>4, <3>2 DEF Outcomes
    <3>4. Busy' = Busy
      BY <2>1, <2>8 DEF Busy
    <3>5. log' = log
      BY <2>5, <2>8
    <3> QED
      BY <3>3, <3>4, <3>5
  <2> QED
    BY <2>6, <2>7, <2>8
<1> QED
  BY <1>1, <1>2, <1>3, <1>4, <1>5, <1>6 DEF Next, Step, Quiet

\* The initial states are initial states of AtomicManifest.
LEMMA AtomicInit == ASSUME Init PROVE Atomic!Init
<1>1. CommittedBody = <<>>
  BY DEF Init, CommittedBody, LockFree, Fresh
<1>2. [i \in DOMAIN CommittedBody |-> CommittedBody[i].by] = <<>>
  BY <1>1
<1>3. {u \in Updaters : pc[u] # "Idle"} = {}
  BY DEF Init
<1>4. [u \in Updaters |-> AbstractOutcome(u)] = [u \in Updaters |-> "none"]
  BY DEF Init, AbstractOutcome
<1> QED
  BY <1>2, <1>3, <1>4 DEF Atomic!Init

\* apply_atomic_update implements AtomicManifest for as long as the process runs:
\* no committed change is lost or applied twice, whoever else commits, retries or
\* fails in between.
THEOREM UpdatesAreAtomic == ASSUME MaxCrashes = 0 PROVE Spec => AtomicUpdates
<1>2. Inv /\ Inv' /\ up /\ up' /\ [Next]_vars =>
        [Atomic!Next]_<<Authors(CommittedBody), Busy, Outcomes>>
  BY RefinementStep
<1>3. Spec => []up
  <2> DEFINE NoCrash == up /\ crashes = 0
  <2>1. Init => NoCrash
    BY DEF Init
  <2>2. NoCrash /\ [Next]_vars => NoCrash'
    <3> SUFFICES ASSUME up, crashes = 0, [Next]_vars PROVE up' /\ crashes' = 0
      OBVIOUS
    <3>1. ASSUME NEW u \in Updaters, Call(u) \/ Step(u) PROVE up' = up /\ crashes' = crashes
      BY <3>1 DEF Call, Step, Snapshot, GiveUp, MutateFails, CreateTmp, WriteTmp, WriteFails,
         Rename, Install, Conflict, RenameFails, Fail, bounds
    <3>2. CASE UNCHANGED vars \/ Done
      BY <3>2 DEF vars, Done, bounds
    <3>3. CASE Crash \/ Recover
      BY <3>3 DEF Crash, Recover
    <3> QED
      BY <3>1, <3>2, <3>3 DEF Next
  <2> QED
    BY <2>1, <2>2, PTL DEF Spec
<1> QED
  BY <1>2, <1>3, AtomicInit, Invariant, PTL DEF Spec, AtomicUpdates, Atomic!Spec, Authors, Busy, Outcomes
-----------------------------------------------------------------------------
(* The manifest on disk when the process crashes, any number of times and at *)
(* any point of an update, and any write or rename fails, for any number of  *)
(* updaters.  What the code does not ensure, and these results need, is that *)
(* no two updaters write to one temporary file (OwnTmp): otherwise a loser   *)
(* still writes to the file that the winner has renamed.                     *)

\* The updaters with a temporary file.
Writing == {"WriteTmp", "Commit"}

\* No file is both temporary and final, or temporary under two names.
SeparateFiles ==
    /\ \A x, y \in DOMAIN tmp : tmp[x] = tmp[y] => x = y
    /\ \A x \in DOMAIN tmp : \A y \in DOMAIN final : tmp[x] # final[y]

\* The newest final file is complete, and is the committed manifest.
CommittedOnDisk == OnDisk.valid /\ OnDisk.body = CommittedBody

\* The temporary file of an update, from its creation to its rename.
OwnFile ==
    \A u \in Updaters : pc[u] \in Writing =>
      /\ TmpName(u) \in DOMAIN tmp /\ handle[u] = tmp[TmpName(u)]
      /\ pc[u] = "Commit" => inodes[handle[u]] = Encoded(u)

\* It is nobody else's.
OwnName ==
    \A u, v \in Updaters :
      u # v /\ pc[u] \in Writing /\ pc[v] \in Writing => TmpName(u) # TmpName(v)

FileInv == SeparateFiles /\ CommittedOnDisk /\ OwnFile /\ OwnName

\* The newest file is the one of the current version, or of the next one once it
\* is renamed.
LEMMA NewestFact ==
    ASSUME NEW n \in Nat, DOMAIN final = 0 .. n
    PROVE  Newest = n
<1>1. n \in DOMAIN final /\ \A x \in DOMAIN final : x <= n
  OBVIOUS
<1>2. Newest \in DOMAIN final /\ \A x \in DOMAIN final : x <= Newest
  BY <1>1 DEF Newest
<1> QED
  BY <1>1, <1>2

LEMMA NewestFinal ==
    ASSUME DiskInv
    PROVE  Newest \in DOMAIN final /\ final[Newest] \in DOMAIN inodes /\ OnDisk \in Contents
<1>1. PICK n \in Nat : DOMAIN final = 0 .. n
  BY DEF DiskInv, DirInv
<1>2. Newest = n
  BY <1>1, NewestFact
<1>3. Newest \in DOMAIN final
  BY <1>1, <1>2
<1>4. final[Newest] \in DOMAIN inodes
  BY <1>3 DEF DiskInv, FilesType
<1> QED
  BY <1>3, <1>4, ElementOfSeq DEF OnDisk, DiskInv, FilesType

\* A step that leaves the final names and the newest file alone changes nothing on disk.
LEMMA OnDiskKept ==
    ASSUME DiskInv, final' = final, inodes'[final[Newest]] = inodes[final[Newest]]
    PROVE  OnDisk' = OnDisk
  BY DEF OnDisk, Newest

\* The committed manifest is changed by no step but a rename, unless it changes a
\* manifest that no lock protects.
LEMMA CommittedKept ==
    ASSUME Inv, Inv', up, up', NEW u \in Updaters, pc[u] # "Install", pc'[u] # "Install",
           \A v \in Updaters \ {u} : pc'[v] = pc[v] /\ candidate'[v] = candidate[v],
           manifest'.body = manifest.body
    PROVE  CommittedBody' = CommittedBody
<1>1. CASE LockFree
  <2>1. LockFree'
    BY <1>1 DEF LockFree
  <2> QED
    BY <1>1, <2>1 DEF CommittedBody
<1>2. CASE ~ LockFree
  <2>1. PICK v \in Updaters : pc[v] = "Install"
    BY <1>2 DEF LockFree
  <2>2. v # u /\ pc'[v] = "Install" /\ candidate'[v] = candidate[v]
    BY <2>1
  <2>3. CommittedBody = candidate[v].body
    BY <2>1, CommittedFact
  <2>4. (CHOOSE x \in Updaters : pc'[x] = "Install") = v
    BY <2>2 DEF Inv, LockInv
  <2>5. ~ LockFree'
    BY <2>2 DEF LockFree
  <2> QED
    BY <2>2, <2>3, <2>4, <2>5 DEF CommittedBody
<1> QED
  BY <1>1, <1>2

\* A step of u leaves the files of the others alone.
LEMMA OwnFileKept ==
    ASSUME OwnFile, NEW u \in Updaters,
           \A v \in Updaters \ {u} :
             pc'[v] = pc[v] /\ candidate'[v] = candidate[v] /\ handle'[v] = handle[v],
           \A v \in Updaters \ {u} : pc[v] \in Writing =>
             /\ TmpName(v) \in DOMAIN tmp' /\ tmp'[TmpName(v)] = tmp[TmpName(v)]
             /\ inodes'[handle[v]] = inodes[handle[v]],
           pc'[u] \in Writing =>
             /\ candidate'[u].version \in DOMAIN tmp' /\ handle'[u] = tmp'[candidate'[u].version]
             /\ pc'[u] = "Commit" =>
                  inodes'[handle'[u]] = [valid |-> TRUE, body |-> candidate'[u].body]
    PROVE  OwnFile'
<1>1. ASSUME NEW v \in Updaters, pc'[v] \in Writing
      PROVE  /\ candidate'[v].version \in DOMAIN tmp'
             /\ handle'[v] = tmp'[candidate'[v].version]
             /\ pc'[v] = "Commit" =>
                  inodes'[handle'[v]] = [valid |-> TRUE, body |-> candidate'[v].body]
  <2>1. CASE v = u
    BY <1>1, <2>1
  <2>2. CASE v # u
    BY <1>1, <2>2 DEF OwnFile, TmpName, Encoded
  <2> QED
    BY <2>1, <2>2
<1> QED
  BY <1>1 DEF OwnFile, TmpName, Encoded

\* An updater that is not writing takes a name only if nobody has it.
LEMMA OwnNameKept ==
    ASSUME OwnName, NEW u \in Updaters,
           \A v \in Updaters \ {u} : pc'[v] = pc[v] /\ candidate'[v] = candidate[v],
           pc'[u] \in Writing =>
             \/ pc[u] \in Writing /\ candidate'[u] = candidate[u]
             \/ \A v \in Updaters \ {u} : pc[v] \in Writing => TmpName(v) # candidate'[u].version
    PROVE  OwnName'
  BY DEF OwnName, TmpName

\* The process runs whenever an updater takes a step.
LEMMA Running ==
    ASSUME Inv, NEW u \in Updaters, Call(u) \/ Step(u)
    PROVE  up /\ up'
<1>1. pc[u] # "Idle" \/ up
  BY DEF Call, Step, Snapshot, GiveUp, MutateFails, CreateTmp, WriteTmp, WriteFails, Rename,
     Install, Conflict, RenameFails
<1>2. up
  BY <1>1 DEF Inv, DownInv
<1>3. up' = up
  BY DEF Call, Step, Snapshot, GiveUp, MutateFails, CreateTmp, WriteTmp, WriteFails, Rename,
     Install, Conflict, RenameFails, Fail
<1> QED
  BY <1>2, <1>3

\* What is on disk and in the temporary files survives a step of an updater, before and
\* after the rename.
LEMMA UpdaterFileStep ==
    ASSUME Inv, Inv', DiskInv, DiskInv', FileInv, OwnTmp, NEW u \in Updaters, Call(u) \/ Step(u)
    PROVE  FileInv'
<1>0. /\ pc \in [Updaters -> {"Idle"} \cup Calling] /\ manifest \in Manifest
      /\ base \in [Updaters -> Nat] /\ candidate \in [Updaters -> Manifest]
      /\ handle \in [Updaters -> Nat] /\ manifest.version \in Nat
      /\ up /\ up'
  BY Running DEF Inv, MemoryType, DiskInv, FilesType, Manifest
<1>1. /\ inodes \in Seq(Contents) /\ DOMAIN inodes = 1 .. Len(inodes) /\ Len(inodes) \in Nat
      /\ \A v \in DOMAIN tmp : tmp[v] \in DOMAIN inodes
      /\ \A v \in DOMAIN final : final[v] \in DOMAIN inodes
      /\ Newest \in DOMAIN final
  BY NewestFinal DEF DiskInv, FilesType
<1>9. /\ SeparateFiles /\ CommittedOnDisk /\ OwnFile /\ OwnName
      /\ \A v \in Updaters : pc[v] \in Writing =>
           /\ TmpName(v) \in DOMAIN tmp /\ handle[v] = tmp[TmpName(v)]
           /\ handle[v] \in DOMAIN inodes
  BY <1>1 DEF FileInv, OwnFile
<1>2. CASE Call(u) \/ Snapshot(u) \/ GiveUp(u) \/ MutateFails(u)
  <2>1. /\ UNCHANGED fileVars /\ pc[u] \in {"Idle", "Snapshot", "CreateTmp"}
        /\ pc'[u] \in {"Idle", "Snapshot", "CreateTmp"} /\ handle' = handle
        /\ \A v \in Updaters \ {u} : pc'[v] = pc[v] /\ candidate'[v] = candidate[v]
        /\ manifest'.body = manifest.body
    <3>1. CASE Call(u)
      BY <1>0, <3>1 DEF Call, Reserve, Manifest
    <3>2. CASE Snapshot(u)
      BY <1>0, <3>2 DEF Snapshot
    <3>3. CASE GiveUp(u) \/ MutateFails(u)
      BY <1>0, <3>3 DEF GiveUp, MutateFails, Fail, callVars
    <3> QED
      BY <1>2, <3>1, <3>2, <3>3
  <2>2. CommittedBody' = CommittedBody
    BY <1>0, <2>1, CommittedKept
  <2>3. OnDisk' = OnDisk
    BY <2>1, OnDiskKept DEF fileVars
  <2>4. SeparateFiles'
    BY <1>9, <2>1 DEF fileVars, SeparateFiles
  <2>5. OwnFile'
    BY <1>9, <2>1, OwnFileKept DEF fileVars, Writing
  <2>6. OwnName'
    BY <1>9, <2>1, OwnNameKept DEF Writing
  <2> QED
    BY <1>9, <2>2, <2>3, <2>4, <2>5, <2>6 DEF FileInv, CommittedOnDisk
<1>3. CASE CreateTmp(u)
  <2>1. /\ pc[u] = "CreateTmp" /\ pc' = [pc EXCEPT ![u] = "WriteTmp"]
        /\ UNCHANGED <<manifest, candidate, final>>
    BY <1>0, <1>3 DEF CreateTmp
  <2>2. CommittedBody' = CommittedBody
    BY <1>0, <2>1, CommittedKept
  <2>9. \A v \in Updaters \ {u} : pc[v] \in Writing => TmpName(v) # TmpName(u)
    BY <1>3 DEF OwnTmp, Writing
  <2>10. OwnName'
    BY <1>0, <1>9, <2>1, <2>9, OwnNameKept DEF TmpName
  <2>3. CASE TmpName(u) \in DOMAIN tmp
    <3>1. /\ inodes' = [inodes EXCEPT ![tmp[TmpName(u)]] = Unreadable]
          /\ handle' = [handle EXCEPT ![u] = tmp[TmpName(u)]] /\ UNCHANGED tmp
      BY <1>3, <2>3 DEF CreateTmp
    <3>2. tmp[TmpName(u)] # final[Newest]
      BY <1>1, <1>9, <2>3 DEF SeparateFiles
    <3>3. inodes'[final[Newest]] = inodes[final[Newest]]
      BY <1>1, <3>1, <3>2
    <3>4. OnDisk' = OnDisk
      BY <2>1, <3>3, OnDiskKept
    <3>5. SeparateFiles'
      BY <1>9, <2>1, <3>1 DEF SeparateFiles
    <3>6. \A v \in Updaters \ {u} : pc[v] \in Writing => handle[v] # tmp[TmpName(u)]
      BY <1>9, <2>3, <2>9 DEF SeparateFiles
    <3>7. \A v \in Updaters \ {u} : pc[v] \in Writing => inodes'[handle[v]] = inodes[handle[v]]
      BY <1>1, <1>9, <3>1, <3>6
    <3>8. OwnFile'
      BY <1>0, <1>9, <2>1, <2>3, <3>1, <3>7, OwnFileKept DEF TmpName
    <3> QED
      BY <1>9, <2>2, <2>10, <3>4, <3>5, <3>8 DEF FileInv, CommittedOnDisk
  <2>4. CASE TmpName(u) \notin DOMAIN tmp
    <3> DEFINE n == Len(inodes) + 1
    <3>1. /\ inodes' = Append(inodes, Unreadable)
          /\ handle' = [handle EXCEPT ![u] = n] /\ tmp' = Bind(tmp, TmpName(u), n)
      BY <1>3, <2>4 DEF CreateTmp
    <3>2. n \in Nat /\ n \notin DOMAIN inodes
      BY <1>1
    <3> HIDE DEF n
    <3>9. \A i \in DOMAIN inodes : inodes'[i] = inodes[i]
      BY <1>1, <3>1
    <3>3. inodes'[final[Newest]] = inodes[final[Newest]]
      BY <1>1, <3>9
    <3>4. OnDisk' = OnDisk
      BY <2>1, <3>3, OnDiskKept
    <3>5. \A x \in DOMAIN tmp' : \/ x \in DOMAIN tmp /\ x # TmpName(u) /\ tmp'[x] = tmp[x]
                                 \/ x = TmpName(u) /\ tmp'[x] = n
      BY <2>4, <3>1 DEF Bind
    <3>6. SeparateFiles'
      BY <1>1, <1>9, <2>1, <3>2, <3>5 DEF SeparateFiles
    <3>7. TmpName(u) \in DOMAIN tmp' /\ tmp'[TmpName(u)] = n
      BY <3>1 DEF Bind
    <3>10. \A x \in DOMAIN tmp : x \in DOMAIN tmp' /\ tmp'[x] = tmp[x]
      BY <2>4, <3>1 DEF Bind
    <3>8. OwnFile'
      BY <1>0, <1>9, <2>1, <3>1, <3>7, <3>9, <3>10, OwnFileKept DEF TmpName
    <3> QED
      BY <1>9, <2>2, <2>10, <3>4, <3>6, <3>8 DEF FileInv, CommittedOnDisk
  <2> QED
    BY <2>3, <2>4
<1>4. CASE WriteTmp(u) \/ WriteFails(u)
  <2>1. /\ pc[u] = "WriteTmp" /\ pc'[u] \in {"Idle", "Commit"}
        /\ \A v \in Updaters \ {u} : pc'[v] = pc[v]
        /\ UNCHANGED <<manifest, candidate, handle, tmp, final>>
        /\ \E c : inodes' = [inodes EXCEPT ![handle[u]] = c]
                  /\ (pc'[u] = "Commit" => c = Encoded(u))
    <3>1. CASE WriteTmp(u)
      BY <1>0, <3>1 DEF WriteTmp, callVars
    <3>2. CASE WriteFails(u)
      BY <1>0, <3>2 DEF WriteFails, Fail, callVars
    <3> QED
      BY <1>4, <3>1, <3>2
  <2>2. PICK c : inodes' = [inodes EXCEPT ![handle[u]] = c] /\ (pc'[u] = "Commit" => c = Encoded(u))
    BY <2>1
  <2>3. TmpName(u) \in DOMAIN tmp /\ handle[u] = tmp[TmpName(u)] /\ pc[u] \in Writing
    BY <1>9, <2>1 DEF Writing
  <2>4. handle[u] \in DOMAIN inodes /\ handle[u] # final[Newest]
    BY <1>1, <1>9, <2>3 DEF SeparateFiles
  <2>5. inodes'[final[Newest]] = inodes[final[Newest]] /\ inodes'[handle[u]] = c
    BY <1>1, <2>2, <2>4
  <2>6. CommittedBody' = CommittedBody
    BY <1>0, <2>1, CommittedKept
  <2>7. OnDisk' = OnDisk
    BY <2>1, <2>5, OnDiskKept
  <2>8. SeparateFiles'
    BY <1>9, <2>1 DEF SeparateFiles
  <2>10. \A v \in Updaters \ {u} : pc[v] \in Writing => handle[v] # handle[u]
    BY <1>9, <2>3 DEF SeparateFiles, OwnName
  <2>11. \A v \in Updaters \ {u} : pc[v] \in Writing => inodes'[handle[v]] = inodes[handle[v]]
    BY <1>1, <1>9, <2>2, <2>10
  <2>9. OwnFile'
    BY <1>0, <1>9, <2>1, <2>2, <2>3, <2>5, <2>11, OwnFileKept DEF TmpName, Encoded
  <2>12. OwnName'
    BY <1>9, <2>1, <2>3, OwnNameKept
  <2> QED
    BY <1>9, <2>6, <2>7, <2>8, <2>9, <2>12 DEF FileInv, CommittedOnDisk
<1>5. CASE Rename(u)
  <2>1. /\ pc[u] = "Commit" /\ pc' = [pc EXCEPT ![u] = "Install"] /\ LockFree
        /\ UNCHANGED <<manifest, base, candidate, handle, inodes>>
        /\ final' = Bind(final, candidate[u].version, tmp[TmpName(u)])
        /\ tmp' = Remove(tmp, TmpName(u)) /\ base[u] = manifest.version
    BY <1>0, <1>5 DEF Rename, callVars, Unchanged
  <2>2. /\ TmpName(u) \in DOMAIN tmp /\ inodes[tmp[TmpName(u)]] = Encoded(u)
        /\ candidate[u].version = manifest.version + 1 /\ pc[u] \in Writing
    BY <1>9, <2>1 DEF OwnFile, Inv, CandidateInv, Holding, Writing
  <2>3. DOMAIN final = 0 .. manifest.version
    BY <1>0, <2>1 DEF DiskInv, DirInv
  <2>4. DOMAIN final' = 0 .. (manifest.version + 1)
    <3>1. DOMAIN final' = DOMAIN final \cup {manifest.version + 1}
      BY <2>1, <2>2 DEF Bind
    <3> QED
      BY <1>0, <2>3, <3>1
  <2>5. Newest' = manifest.version + 1
    <3>1. manifest.version + 1 \in Nat
      BY <1>0
    <3>2. \A n \in Nat : DOMAIN final' = 0 .. n => Newest' = n
      <4> SUFFICES ASSUME NEW n \in Nat, DOMAIN final' = 0 .. n PROVE Newest' = n
        OBVIOUS
      <4>1. n \in DOMAIN final' /\ \A x \in DOMAIN final' : x <= n
        OBVIOUS
      <4>2. Newest' \in DOMAIN final' /\ \A x \in DOMAIN final' : x <= Newest'
        BY <4>1 DEF Newest
      <4>3. Newest' \in Nat /\ Newest' <= n
        BY <4>2
      <4>4. n <= Newest'
        BY <4>1, <4>2
      <4> QED
        BY <4>3, <4>4
    <3> QED
      BY <2>4, <3>1, <3>2
  <2>6. OnDisk' = Encoded(u)
    <3>1. final'[manifest.version + 1] = tmp[TmpName(u)]
      BY <2>1, <2>2 DEF Bind
    <3> QED
      BY <2>1, <2>2, <2>5, <3>1 DEF OnDisk
  <2>7. CommittedBody' = candidate[u].body
    <3>0. pc'[u] = "Install"
      BY <1>0, <2>1
    <3>1. ~ LockFree'
      BY <3>0 DEF LockFree
    <3>2. (CHOOSE v \in Updaters : pc'[v] = "Install") = u
      BY <3>0 DEF Inv, LockInv
    <3> QED
      BY <1>0, <2>1, <3>1, <3>2 DEF CommittedBody
  <2>8. CommittedOnDisk'
    BY <2>6, <2>7 DEF CommittedOnDisk, Encoded
  <2>9. SeparateFiles'
    <3>1. \A x \in DOMAIN tmp' : x \in DOMAIN tmp /\ x # TmpName(u) /\ tmp'[x] = tmp[x]
      BY <2>1 DEF Remove
    <3>2. \A y \in DOMAIN final' : \/ y \in DOMAIN final /\ final'[y] = final[y]
                                   \/ final'[y] = tmp[TmpName(u)]
      BY <2>1 DEF Bind
    <3> QED
      BY <1>9, <2>2, <3>1, <3>2 DEF SeparateFiles
  <2>11. \A x \in DOMAIN tmp \ {TmpName(u)} : x \in DOMAIN tmp' /\ tmp'[x] = tmp[x]
    BY <2>1 DEF Remove
  <2>12. \A v \in Updaters \ {u} : pc[v] \in Writing => TmpName(v) # TmpName(u)
    BY <1>9, <2>2 DEF OwnName
  <2>10. OwnFile'
    BY <1>0, <1>9, <2>1, <2>11, <2>12, OwnFileKept DEF Writing
  <2>13. OwnName'
    BY <1>0, <1>9, <2>1, OwnNameKept DEF Writing
  <2> QED
    BY <2>8, <2>9, <2>10, <2>13 DEF FileInv
<1>6. CASE Install(u)
  <2>1. /\ pc[u] = "Install" /\ pc' = [pc EXCEPT ![u] = "Idle"] /\ manifest' = candidate[u]
        /\ UNCHANGED fileVars /\ UNCHANGED <<candidate, handle>>
    BY <1>0, <1>6 DEF Install, callVars
  <2>2. CommittedBody = candidate[u].body
    BY <1>0, <2>1, CommittedFact
  <2>3. CommittedBody' = candidate[u].body
    <3>1. LockFree'
      BY <1>0, <2>1 DEF LockFree, Inv, LockInv
    <3> QED
      BY <1>0, <2>1, <3>1 DEF CommittedBody
  <2>4. OnDisk' = OnDisk
    BY <2>1, OnDiskKept DEF fileVars
  <2>5. SeparateFiles'
    BY <1>9, <2>1 DEF fileVars, SeparateFiles
  <2>6. OwnFile'
    BY <1>0, <1>9, <2>1, OwnFileKept DEF fileVars, Writing
  <2>7. OwnName'
    BY <1>0, <1>9, <2>1, OwnNameKept DEF Writing
  <2> QED
    BY <1>9, <2>2, <2>3, <2>4, <2>5, <2>6, <2>7 DEF FileInv, CommittedOnDisk
<1>7. CASE Conflict(u) \/ RenameFails(u)
  <2>1. /\ pc[u] = "Commit" /\ pc'[u] \in {"Idle", "Snapshot"}
        /\ \A v \in Updaters \ {u} : pc'[v] = pc[v]
        /\ UNCHANGED <<manifest, candidate, handle, inodes, final>>
        /\ tmp' = Remove(tmp, TmpName(u))
    <3>1. CASE Conflict(u)
      BY <1>0, <3>1 DEF Conflict, callVars
    <3>2. CASE RenameFails(u)
      BY <1>0, <3>2 DEF RenameFails, Fail, callVars
    <3> QED
      BY <1>7, <3>1, <3>2
  <2>2. CommittedBody' = CommittedBody
    BY <1>0, <2>1, CommittedKept
  <2>3. OnDisk' = OnDisk
    BY <2>1, OnDiskKept
  <2>4. SeparateFiles'
    <3>1. \A x \in DOMAIN tmp' : x \in DOMAIN tmp /\ tmp'[x] = tmp[x]
      BY <2>1 DEF Remove
    <3> QED
      BY <1>9, <2>1, <3>1 DEF SeparateFiles
  <2>6. \A x \in DOMAIN tmp \ {TmpName(u)} : x \in DOMAIN tmp' /\ tmp'[x] = tmp[x]
    BY <2>1 DEF Remove
  <2>7. \A v \in Updaters \ {u} : pc[v] \in Writing => TmpName(v) # TmpName(u)
    BY <1>9, <2>1 DEF OwnName, Writing
  <2>5. OwnFile'
    BY <1>9, <2>1, <2>6, <2>7, OwnFileKept DEF Writing
  <2>8. OwnName'
    BY <1>9, <2>1, OwnNameKept DEF Writing
  <2> QED
    BY <1>9, <2>2, <2>3, <2>4, <2>5, <2>8 DEF FileInv, CommittedOnDisk
<1> QED
  BY <1>2, <1>3, <1>4, <1>5, <1>6, <1>7 DEF Step

\* A crash and a restart lose nothing: recovery reads the committed manifest.
LEMMA FileStep ==
    ASSUME Inv, Inv', DiskInv, DiskInv', FileInv, [Next]_vars, [OwnTmp]_vars
    PROVE  FileInv'
<1>1. CASE UNCHANGED vars \/ Done
  <2>1. UNCHANGED <<manifest, up, pc, base, candidate, handle, inodes, tmp, final>>
    BY <1>1 DEF vars, Done, callVars, fileVars
  <2>2. OnDisk' = OnDisk
    BY <2>1, OnDiskKept
  <2>3. CommittedBody' = CommittedBody
    BY <2>1, <2>2 DEF CommittedBody, LockFree
  <2>4. SeparateFiles'
    BY <2>1 DEF FileInv, SeparateFiles
  <2>5. OwnFile' /\ OwnName'
    BY <2>1 DEF FileInv, OwnFile, OwnName, TmpName, Encoded
  <2> QED
    BY <2>2, <2>3, <2>4, <2>5 DEF FileInv, CommittedOnDisk
<1>2. CASE Crash \/ Recover
  <2>1. UNCHANGED <<inodes, tmp, final>> /\ \A u \in Updaters : pc'[u] = "Idle"
    BY <1>2 DEF Crash, Recover, fileVars, Inv, DownInv
  <2>2. OnDisk' = OnDisk
    BY <2>1, OnDiskKept
  <2>3. CommittedBody' = OnDisk.body
    <3>1. CASE Crash
      BY <2>2, <3>1 DEF Crash, CommittedBody
    <3>2. CASE Recover
      <4>1. LockFree' /\ up' = TRUE
        BY <2>1, <3>2 DEF LockFree, Recover
      <4> QED
        BY <3>2, <4>1, RecoverFact DEF CommittedBody
    <3> QED
      BY <1>2, <3>1, <3>2
  <2>4. SeparateFiles'
    BY <2>1 DEF FileInv, SeparateFiles
  <2>5. OwnFile' /\ OwnName'
    BY <2>1 DEF OwnFile, OwnName, Writing
  <2> QED
    BY <2>2, <2>3, <2>4, <2>5 DEF FileInv, CommittedOnDisk
<1>3. CASE OwnTmp /\ \E u \in Updaters : Call(u) \/ Step(u)
  BY <1>3, UpdaterFileStep
<1> QED
  BY <1>1, <1>2, <1>3 DEF Next

LEMMA FileInvariant == Spec /\ [][OwnTmp]_vars => []Inv /\ []DiskInv /\ []FileInv
<1>1. Init => FileInv
  <2> SUFFICES ASSUME Init PROVE FileInv
    OBVIOUS
  <2>1. SeparateFiles /\ OwnFile /\ OwnName
    BY DEF Init, SeparateFiles, OwnFile, OwnName, Writing
  <2>2. Newest = 0
    <3>1. 0 \in Nat /\ DOMAIN final = 0 .. 0
      BY DEF Init
    <3> QED
      BY <3>1, NewestFact
  <2>3. OnDisk = [valid |-> TRUE, body |-> <<>>]
    BY <2>2 DEF Init, OnDisk
  <2>4. CommittedBody = <<>>
    BY DEF Init, CommittedBody, LockFree, Fresh
  <2> QED
    BY <2>1, <2>3, <2>4 DEF FileInv, CommittedOnDisk
<1>2. Inv /\ Inv' /\ DiskInv /\ DiskInv' /\ FileInv /\ [Next]_vars /\ [OwnTmp]_vars => FileInv'
  BY FileStep
<1> QED
  BY <1>1, <1>2, Invariant, PTL DEF Spec

\* The newest manifest file is complete and is the manifest in memory, whatever failed
\* or crashed before: a restart finds every committed change.  For any number of
\* updaters: only two that write to one temporary file can make it wrong.
THEOREM NewestFileIsMemory == Spec /\ [][OwnTmp]_vars => []DiskMatchesMemory
<1>1. Inv /\ DiskInv /\ FileInv => DiskMatchesMemory
  <2> SUFFICES ASSUME DiskInv, FileInv, up, LockFree
               PROVE  OnDisk = [valid |-> TRUE, body |-> manifest.body]
    BY DEF DiskMatchesMemory
  <2>1. OnDisk \in Contents
    BY NewestFinal
  <2>2. OnDisk.valid = TRUE /\ OnDisk.body = manifest.body
    BY <2>1 DEF FileInv, CommittedOnDisk, CommittedBody, Contents
  <2> QED
    BY <2>1, <2>2 DEF Contents
<1> QED
  BY <1>1, FileInvariant, PTL

\* Every step, a crash and a recovery included, is a step of AtomicManifest or none.
LEMMA CrashRefinementStep ==
    ASSUME Inv, Inv', DiskInv, FileInv, FileInv', [Next]_vars
    PROVE  [Atomic!Next]_<<Authors(CommittedBody), Busy, Outcomes>>
<1>1. CASE up /\ up'
  BY <1>1, RefinementStep
<1>2. CASE Crash
  <2>1. /\ \A u \in Updaters : pc'[u] = "Idle" /\ outcome'[u] = "none"
        /\ UNCHANGED <<inodes, final>> /\ up' = FALSE
    BY <1>2 DEF Crash, fileVars
  <2>2. CommittedBody' = CommittedBody
    <3>1. OnDisk' = OnDisk
      BY <2>1 DEF OnDisk, Newest
    <3> QED
      BY <2>1, <3>1 DEF CommittedBody, FileInv, CommittedOnDisk
  <2>3. Busy' = {}
    BY <2>1 DEF Busy
  <2>4. Outcomes' = [u \in Updaters |-> "none"]
    BY <2>1 DEF Outcomes, AbstractOutcome
  <2>5. Atomic!Crash
    BY <2>2, <2>3, <2>4 DEF Atomic!Crash, Authors, Busy, Outcomes
  <2> QED
    BY <2>5 DEF Atomic!Next
<1>3. CASE Recover
  <2>1. UNCHANGED <<pc, outcome, inodes, final>>
    BY <1>3 DEF Recover, fileVars
  <2>2. OnDisk' = OnDisk
    BY <2>1 DEF OnDisk, Newest
  <2>3. CommittedBody' = CommittedBody
    BY <2>2 DEF FileInv, CommittedOnDisk
  <2>4. Busy' = Busy /\ Outcomes' = Outcomes
    BY <2>1 DEF Busy, Outcomes, AbstractOutcome
  <2> QED
    BY <2>3, <2>4 DEF Authors
<1>4. CASE ~ up /\ UNCHANGED vars
  <2>1. UNCHANGED <<manifest, up, pc, outcome, candidate, inodes, final>>
    BY <1>4 DEF vars, callVars, fileVars
  <2>2. UNCHANGED <<Authors(CommittedBody), Busy, Outcomes>>
    BY <2>1 DEF Authors, CommittedBody, LockFree, OnDisk, Newest, Busy, Outcomes, AbstractOutcome
  <2> QED
    BY <2>2
<1>5. CASE up /\ (UNCHANGED vars \/ Done)
  BY <1>1, <1>5 DEF vars, Done
<1>6. CASE \E u \in Updaters : Call(u) \/ Step(u)
  BY <1>1, <1>6, Running
<1> QED
  BY <1>2, <1>3, <1>4, <1>5, <1>6 DEF Next, Done

\* apply_atomic_update implements AtomicManifest through crashes as well: a crash ends
\* the call and loses no change whose file was renamed, and recovery invents none, for
\* any number of updaters that keep to temporary files of their own.
THEOREM UpdatesSurviveCrashes == Spec /\ [][OwnTmp]_vars => AtomicUpdates
<1>2. Inv /\ Inv' /\ DiskInv /\ FileInv /\ FileInv' /\ [Next]_vars =>
        [Atomic!Next]_<<Authors(CommittedBody), Busy, Outcomes>>
  BY CrashRefinementStep
<1> QED
  BY <1>2, AtomicInit, FileInvariant, PTL DEF Spec, AtomicUpdates, Atomic!Spec, Authors, Busy, Outcomes
=============================================================================
