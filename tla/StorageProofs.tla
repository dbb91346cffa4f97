----------------------------- MODULE StorageProofs -----------------------------
(***************************************************************************)
(* Proofs about the directory, for every number of writers and every       *)
(* trigger, with all of the races and errors of module Storage: every      *)
(* number that names something is in range, the LSNs follow the order of   *)
(* the appends in each WAL, and no SSTable of the manifest loses its name. *)
(***************************************************************************)
EXTENDS Storage, SequenceTheorems, FiniteSetTheorems, WellFoundedInduction, TLAPS

\* The local variables of a rotation and of the compaction thread.
LocalsOK ==
    /\ IsVersion(rotSeen, Len(data), Len(tables)) /\ IsVersion(seen, Len(data), Len(tables))
    /\ rotWal \in 1 .. Len(data)
    /\ rotSnap \in Manifest
    /\ rot # "Idle" => leader # 0
    /\ Len(lsn) <= MaxWrites

JobOK ==
    /\ job.tables \in Seq(1 .. Len(tables)) /\ job.ids \in Seq(Ids) /\ job.wals \in Seq(Ids)
    /\ job.l0 \subseteq Ids /\ job.l1 \subseteq Ids
    /\ thread = "FlushWrite" => Len(job.tables) \in 1 .. Len(job.ids)
    /\ thread = "CompactWrite" => manifest.next_sstable_id <= MaxId
    /\ rotSnap.next_sstable_id <= manifest.next_sstable_id

\* The WAL that the rotations of this life open, and the last one of the manifest.
NewWal  == manifest.next_wal_id
LastWal == manifest.wals[Len(manifest.wals)]

\* The last WAL of the manifest, which Db::new reads the LSN from, is the largest of the
\* list; no file has a larger id than the next.
WalIds ==
    /\ NewWal <= restarts + 1
    /\ rotSnap.next_wal_id = NewWal
    /\ \A i \in DOMAIN manifest.wals : manifest.wals[i] <= LastWal
    /\ manifest.wals # <<>> => LastWal \in {NewWal, NewWal - 1}
    /\ \A i \in Ids : walDir[i] # 0 => i <= NewWal

\* The inodes to which a write may still go.
Handles == {current.wal, rotWal, rotSeen.wal, seen.wal}

\* The last WAL that the manifest lists is from before this life.
NotRotated == manifest.wals # <<>> /\ LastWal # NewWal

\* Nothing has been written to the next WAL until a rotation has put it into the manifest.
NewWalEmpty ==
    NotRotated =>
        /\ rot # "Reopen"
        /\ walDir[NewWal] # 0 => /\ data[walDir[NewWal]] = {}
                                 /\ walDir[NewWal] \notin Handles

WalInodes == Handles \cup {walDir[i] : i \in {j \in Ids : walDir[j] # 0}}

\* A file is a WAL or an SSTable, and a WAL has one name at most.
OneFile ==
    /\ \A i \in Ids : sstDir[i] # 0 => sstDir[i] \notin WalInodes
    /\ \A i, j \in Ids : walDir[i] # 0 /\ walDir[i] = walDir[j] => i = j

\* In every WAL, named or open, the LSNs follow the order of the appends, and in the ones
\* that may be written the next LSN is larger than all.
InOrder ==
    /\ \A k \in WalInodes : \A w \in data[k] : w \in 1 .. Len(lsn)
    /\ \A k \in WalInodes : \A v, w \in data[k] : v < w => lsn[v] < lsn[w]
    /\ \A k \in Handles \cup ({walDir[NewWal]} \ {0}) : \A w \in data[k] : lsn[w] < nextLsn

\* What a rotation has read is the manifest or older, and garbage_collect has found no
\* SSTable obsolete that the manifest lists.
Listed ==
    /\ SstablesKept
    /\ rotSnap.version <= manifest.version
    /\ rotSnap.version = manifest.version =>
         rotSnap.wals = manifest.wals /\ rotSnap.l0 = manifest.l0 /\ rotSnap.l1 = manifest.l1
    /\ thread = "GcDelete" => job.sstsSeen \cap Refs(manifest).ssts = {}

Types == TypeOK /\ LocalsOK /\ JobOK
Files == NewWalEmpty /\ OneFile /\ InOrder
IInv  == Types /\ WalIds /\ Files /\ Listed
-----------------------------------------------------------------------------
(* Numbers, sequences and files. *)

\* The bounds are numbers, and every life has a next WAL id.
LEMMA ConstantFact ==
    /\ MaxWrites \in Nat /\ MaxJobs \in Nat /\ MaxRestarts \in Nat /\ MaxId \in Nat
    /\ MaxRestarts < MaxId
    /\ Ids = 0 .. MaxId /\ Ids \subseteq Nat /\ 0 \in Ids
    /\ Writes = 1 .. MaxWrites
BY ConstantsAssumption DEF Ids, Writes

\* A set of numbers that is not empty has a least element.
LEMMA LeastNumber ==
    ASSUME NEW T, T \subseteq Nat, T # {}
    PROVE  \E m \in T : \A n \in T : m <= n
<1> DEFINE R == {p \in Nat \X Nat : p[1] < p[2]}
<1>1. IsWellFoundedOn(R, Nat)
  BY NatLessThanWellFounded DEF OpToRel
<1>2. PICK m \in T : \A n \in T : ~ (<<n, m>> \in R)
  <2> HIDE DEF R
  <2> QED
    BY <1>1, WFMin
<1>3. ASSUME NEW n \in T, n < m PROVE FALSE
  <2>1. <<n, m>> \in R
    BY <1>3
  <2> QED
    BY <1>2, <2>1
<1> QED
  BY <1>2, <1>3

\* Max is the largest element of a set of numbers up to n.
LEMMA MaxFact ==
    ASSUME NEW n \in Nat, NEW S, S \subseteq 0 .. n, S # {}
    PROVE  Max(S) \in S /\ \A x \in S : x <= Max(S)
<1> DEFINE T == {n - x : x \in S}
<1>1. \A x \in S : x \in Nat /\ n - x \in Nat
  OBVIOUS
<1>2. T \subseteq Nat /\ T # {}
  BY <1>1
<1>3. PICK m \in T : \A k \in T : m <= k
  BY <1>2, LeastNumber
<1>4. PICK y \in S : m = n - y
  OBVIOUS
<1>5. \A x \in S : y >= x
  <2>1. \A x \in S : n - y <= n - x
    BY <1>3, <1>4
  <2> QED
    BY <1>1, <2>1
<1> HIDE DEF T
<1>6. Max(S) \in S /\ \A x \in S : Max(S) >= x
  BY <1>4, <1>5 DEF Max
<1> QED
  BY <1>1, <1>6

\* The next id is larger than all, by one than the largest.
LEMMA NextIdFact ==
    ASSUME NEW n \in Nat, NEW S, S \subseteq 0 .. n
    PROVE  /\ NextId(S) \in Nat /\ NextId(S) <= n + 1
           /\ \A x \in S : x < NextId(S)
           /\ \A y \in S : (\A x \in S : x <= y) => NextId(S) = y + 1
<1> DEFINE T == S \cup {0}
           k == Max(T)
<1>1. T \subseteq 0 .. n /\ T # {}
  OBVIOUS
<1> HIDE DEF T
<1>2. k \in T /\ \A x \in T : x <= k
  BY <1>1, MaxFact
<1>3. NextId(S) = 1 + k
  BY DEF NextId, T
<1> HIDE DEF k
<1>4. k \in Nat /\ k <= n /\ \A x \in S : x \in Nat /\ x <= k
  BY <1>1, <1>2 DEF T
<1>5. ASSUME NEW y \in S, \A x \in S : x <= y PROVE k = y
  <2>1. y <= k /\ y \in Nat
    BY <1>4
  <2>2. k \in S \/ k = 0
    BY <1>2 DEF T
  <2> QED
    BY <1>4, <1>5, <2>1, <2>2
<1> QED
  BY <1>3, <1>4, <1>5

\* What names an inode or a memtable still names it when there are more.
LEMMA VersionFact ==
    ASSUME NEW v, NEW n \in Nat, NEW t \in Nat, NEW n2 \in Nat, NEW t2 \in Nat,
           IsVersion(v, n, t), n <= n2, t <= t2
    PROVE  IsVersion(v, n2, t2) /\ v.wal \in 1 .. n
<1>1. v.wal \in Nat \ {0} /\ v.mutable \in Nat
  BY DEF IsVersion, Version
<1>2. v.wal <= n2 /\ v.mutable <= t2
  BY <1>1 DEF IsVersion
<1> QED
  BY <1>1, <1>2 DEF IsVersion

\* A directory in which files were created: the inodes there were are the first.
More ==
    /\ data' \in Seq(SUBSET Writes) /\ Len(data') \in Nat /\ Len(data) <= Len(data')
    /\ walDir' \in [Ids -> 0 .. Len(data')] /\ sstDir' \in [Ids -> 0 .. Len(data')]

\* Wal::open creates an empty file or finds the one that is there.
LEMMA OpenWalFact ==
    ASSUME TypeOK, NEW id \in Ids, OpenWal(id), sstDir' = sstDir
    PROVE  /\ More
           /\ \A k \in 1 .. Len(data) : data'[k] = data[k]
           /\ \A j \in Ids : j # id => walDir'[j] = walDir[j]
           /\ walDir'[id] # 0 /\ walDir'[id] \in 1 .. Len(data')
           /\ \/ walDir'[id] = walDir[id]
              \/ walDir[id] = 0 /\ walDir'[id] = Len(data) + 1 /\ data'[Len(data) + 1] = {}
<1>1. /\ data \in Seq(SUBSET Writes) /\ Len(data) \in Nat
      /\ walDir \in [Ids -> 0 .. Len(data)] /\ sstDir \in [Ids -> 0 .. Len(data)]
  BY DEF TypeOK, DirectoryOK
<1>2. CASE walDir[id] # 0
  <2>1. data' = data /\ walDir' = walDir
    BY <1>2 DEF OpenWal
  <2>2. walDir[id] \in 1 .. Len(data)
    BY <1>1, <1>2
  <2> QED
    BY <1>1, <1>2, <2>1, <2>2 DEF More
<1>3. CASE walDir[id] = 0
  <2> DEFINE n == Len(data) + 1
  <2>1. data' = Append(data, {}) /\ walDir' = [walDir EXCEPT ![id] = n]
    BY <1>3 DEF OpenWal
  <2>2. data' \in Seq(SUBSET Writes) /\ Len(data') = n /\ data'[n] = {}
        /\ \A i \in 1 .. Len(data) : data'[i] = data[i]
    BY <1>1, <2>1, AppendProperties
  <2>3. n \in Nat /\ n # 0 /\ Len(data) <= n /\ n \in 1 .. n
        /\ 0 .. Len(data) \subseteq 0 .. n /\ n \in 0 .. n
    BY <1>1
  <2> HIDE DEF n
  <2>4. walDir' \in [Ids -> 0 .. n] /\ sstDir' \in [Ids -> 0 .. n]
    BY <1>1, <2>1, <2>3
  <2>5. walDir'[id] = n /\ \A j \in Ids : j # id => walDir'[j] = walDir[j]
    BY <1>1, <2>1
  <2>6. More
    BY <2>2, <2>3, <2>4 DEF More
  <2> QED
    BY <1>3, <2>2, <2>3, <2>5, <2>6 DEF n
<1> QED
  BY <1>2, <1>3

\* Writing an SSTable changes one inode, which is that of the SSTable or a new one.
LEMMA WriteSstFact ==
    ASSUME TypeOK, NEW id \in Ids, NEW W, W \subseteq Writes, WriteSst(id, W), walDir' = walDir
    PROVE  /\ More
           /\ \A k \in 1 .. Len(data) : k # sstDir[id] => data'[k] = data[k]
           /\ \A j \in Ids : j # id => sstDir'[j] = sstDir[j]
           /\ sstDir'[id] # 0
           /\ \/ sstDir'[id] = sstDir[id]
              \/ sstDir[id] = 0 /\ sstDir'[id] = Len(data) + 1
<1>1. /\ data \in Seq(SUBSET Writes) /\ Len(data) \in Nat
      /\ walDir \in [Ids -> 0 .. Len(data)] /\ sstDir \in [Ids -> 0 .. Len(data)]
  BY DEF TypeOK, DirectoryOK
<1>2. CASE sstDir[id] # 0
  <2> DEFINE n == sstDir[id]
  <2>1. data' = [data EXCEPT ![n] = W] /\ sstDir' = sstDir
    BY <1>2 DEF WriteSst
  <2>2. n \in 1 .. Len(data)
    BY <1>1, <1>2
  <2> HIDE DEF n
  <2>3. data' \in Seq(SUBSET Writes) /\ Len(data') = Len(data)
        /\ \A i \in 1 .. Len(data) : i # n => data'[i] = data[i]
    BY <1>1, <2>1, <2>2, ExceptSeq
  <2>4. More
    BY <1>1, <2>1, <2>3 DEF More
  <2> QED
    BY <1>2, <2>1, <2>3, <2>4 DEF n
<1>3. CASE sstDir[id] = 0
  <2> DEFINE n == Len(data) + 1
  <2>1. data' = Append(data, W) /\ sstDir' = [sstDir EXCEPT ![id] = n]
    BY <1>3 DEF WriteSst
  <2>2. data' \in Seq(SUBSET Writes) /\ Len(data') = n
        /\ \A i \in 1 .. Len(data) : data'[i] = data[i]
    BY <1>1, <2>1, AppendProperties
  <2>3. n \in Nat /\ n # 0 /\ Len(data) <= n
        /\ 0 .. Len(data) \subseteq 0 .. n /\ n \in 0 .. n
    BY <1>1
  <2> HIDE DEF n
  <2>4. walDir' \in [Ids -> 0 .. n] /\ sstDir' \in [Ids -> 0 .. n]
    BY <1>1, <2>1, <2>3
  <2>5. sstDir'[id] = n /\ \A j \in Ids : j # id => sstDir'[j] = sstDir[j]
    BY <1>1, <2>1
  <2>6. More
    BY <2>2, <2>3, <2>4 DEF More
  <2> QED
    BY <1>3, <2>2, <2>3, <2>5, <2>6 DEF n
<1> QED
  BY <1>2, <1>3

\* In more detail, what the types say of the inodes.
LEMMA InodeFact ==
    ASSUME Types
    PROVE  /\ Len(data) \in Nat /\ DOMAIN data = 1 .. Len(data) /\ Len(tables) \in Nat
           /\ DOMAIN tables = 1 .. Len(tables)
           /\ current.wal \in 1 .. Len(data) /\ rotSeen.wal \in 1 .. Len(data)
           /\ seen.wal \in 1 .. Len(data) /\ rotWal \in 1 .. Len(data)
           /\ \A i \in Ids : walDir[i] # 0 => walDir[i] \in 1 .. Len(data)
           /\ \A i \in Ids : sstDir[i] # 0 => sstDir[i] \in 1 .. Len(data)
           /\ Handles \subseteq WalInodes /\ WalInodes \subseteq 1 .. Len(data)
           /\ Handles \cup ({walDir[NewWal]} \ {0}) \subseteq WalInodes
           /\ NewWal \in Ids
<1>1. /\ data \in Seq(SUBSET Writes) /\ tables \in Seq(SUBSET Writes)
      /\ walDir \in [Ids -> 0 .. Len(data)] /\ sstDir \in [Ids -> 0 .. Len(data)]
  BY DEF Types, TypeOK, DirectoryOK, MemoryOK
<1>2. Len(data) \in Nat /\ DOMAIN data = 1 .. Len(data) /\ Len(tables) \in Nat
      /\ DOMAIN tables = 1 .. Len(tables)
  BY <1>1
<1>3. current.wal \in 1 .. Len(data) /\ rotSeen.wal \in 1 .. Len(data)
      /\ seen.wal \in 1 .. Len(data) /\ rotWal \in 1 .. Len(data)
  <2>1. /\ IsVersion(current, Len(data), Len(tables)) /\ IsVersion(rotSeen, Len(data), Len(tables))
        /\ IsVersion(seen, Len(data), Len(tables)) /\ rotWal \in 1 .. Len(data)
    BY DEF Types, TypeOK, MemoryOK, LocalsOK
  <2>2. Len(data) <= Len(data) /\ Len(tables) <= Len(tables)
    BY <1>2
  <2> QED
    BY <1>2, <2>1, <2>2, VersionFact
<1>4. /\ \A i \in Ids : walDir[i] # 0 => walDir[i] \in 1 .. Len(data)
      /\ \A i \in Ids : sstDir[i] # 0 => sstDir[i] \in 1 .. Len(data)
  BY <1>1, <1>2
<1>5. NewWal \in Ids
  BY DEF Types, TypeOK, ManifestOK, Manifest, NewWal
<1> QED
  BY <1>2, <1>3, <1>4, <1>5 DEF Handles, WalInodes
-----------------------------------------------------------------------------
(* Steps that only forget: they write to no WAL and open none. *)

\* No WAL is written, created or renamed; an SSTable may be created.
Forgets ==
    /\ \A i \in Ids : walDir'[i] \in {0, walDir[i]}
    /\ \A i \in Ids : sstDir'[i] \in {0, sstDir[i], Len(data) + 1}
    /\ \A k \in WalInodes : data'[k] = data[k]
    /\ Handles' \subseteq Handles
    /\ NewWal' = NewWal /\ lsn' = lsn /\ nextLsn' = nextLsn

\* Such a step keeps the order in the files.
LEMMA FilesKept ==
    ASSUME IInv, Forgets, NotRotated' => NotRotated /\ rot' # "Reopen"
    PROVE  Files'
<1>1. OneFile /\ InOrder /\ NewWalEmpty
  BY DEF IInv, Files
<1>2. /\ Len(data) \in Nat /\ Handles \subseteq WalInodes /\ WalInodes \subseteq 1 .. Len(data)
      /\ Handles \cup ({walDir[NewWal]} \ {0}) \subseteq WalInodes /\ NewWal \in Ids
  BY InodeFact DEF IInv
<1>3. WalInodes' \subseteq WalInodes
  BY DEF WalInodes, Forgets
<1>4. \A k \in WalInodes : data'[k] = data[k]
  BY DEF Forgets
<1>5. Handles' \cup ({walDir[NewWal]} \ {0})' \subseteq Handles \cup ({walDir[NewWal]} \ {0})
  BY <1>2 DEF Forgets
<1>6. OneFile'
  <2>1. \A i \in Ids : sstDir'[i] # 0 => sstDir'[i] \notin WalInodes
    <3>1. Len(data) + 1 \notin WalInodes
      BY <1>2
    <3> QED
      BY <1>1, <3>1 DEF OneFile, Forgets
  <2>2. \A i, j \in Ids : walDir'[i] # 0 /\ walDir'[i] = walDir'[j] => i = j
    BY <1>1 DEF OneFile, Forgets
  <2> QED
    BY <1>3, <2>1, <2>2 DEF OneFile
<1>7. InOrder'
  <2> DEFINE A == WalInodes
             B == Handles \cup ({walDir[NewWal]} \ {0})
  <2>1. /\ \A k \in A : \A w \in data[k] : w \in 1 .. Len(lsn)
        /\ \A k \in A : \A v, w \in data[k] : v < w => lsn[v] < lsn[w]
        /\ \A k \in B : \A w \in data[k] : lsn[w] < nextLsn
    BY <1>1 DEF InOrder
  <2>2. A' \subseteq A /\ B' \subseteq B /\ B \subseteq A
    BY <1>2, <1>3, <1>5
  <2>3. lsn' = lsn /\ nextLsn' = nextLsn /\ \A k \in A : data'[k] = data[k]
    BY <1>4 DEF Forgets
  <2> HIDE DEF A, B
  <2>4. /\ \A k \in A' : \A w \in data'[k] : w \in 1 .. Len(lsn')
        /\ \A k \in A' : \A v, w \in data'[k] : v < w => lsn'[v] < lsn'[w]
        /\ \A k \in B' : \A w \in data'[k] : lsn'[w] < nextLsn'
    BY <2>1, <2>2, <2>3
  <2> QED
    BY <2>4 DEF InOrder, A, B
<1>8. NewWalEmpty'
  <2> SUFFICES ASSUME NotRotated'
               PROVE  /\ rot' # "Reopen"
                      /\ walDir'[NewWal'] # 0 => /\ data'[walDir'[NewWal']] = {}
                                                 /\ walDir'[NewWal'] \notin Handles'
    BY DEF NewWalEmpty
  <2>1. rot' # "Reopen" /\ NotRotated /\ NewWal' = NewWal
    BY DEF Forgets
  <2>2. ASSUME walDir'[NewWal] # 0
        PROVE  data'[walDir'[NewWal]] = {} /\ walDir'[NewWal] \notin Handles'
    <3>1. walDir'[NewWal] = walDir[NewWal] /\ walDir[NewWal] # 0
      BY <1>2, <2>2 DEF Forgets
    <3>2. data[walDir[NewWal]] = {} /\ walDir[NewWal] \notin Handles
      BY <1>1, <2>1, <3>1 DEF NewWalEmpty
    <3>3. walDir[NewWal] \in WalInodes
      BY <1>2, <3>1 DEF WalInodes
    <3> QED
      BY <1>4, <3>1, <3>2, <3>3 DEF Forgets
  <2> QED
    BY <2>1, <2>2
<1> QED
  BY <1>6, <1>7, <1>8 DEF Files
-----------------------------------------------------------------------------
(* Steps that open the next WAL, or write to the one of db.current. *)

LEMMA FilesOpened ==
    ASSUME IInv, OpenWal(NewWal), sstDir' = sstDir, NewWal' = NewWal,
           lsn' = lsn, nextLsn' = nextLsn, Handles' \subseteq Handles \cup {walDir'[NewWal]},
           NotRotated' => NotRotated /\ rot' # "Reopen" /\ Handles' \subseteq Handles
    PROVE  Files'
<1> DEFINE x == walDir'[NewWal]
           B == Handles \cup ({walDir[NewWal]} \ {0})
<1>1. OneFile /\ InOrder /\ NewWalEmpty /\ TypeOK
  BY DEF IInv, Files, Types
<1>2. /\ Len(data) \in Nat /\ Handles \subseteq WalInodes /\ WalInodes \subseteq 1 .. Len(data)
      /\ B \subseteq WalInodes /\ NewWal \in Ids
      /\ \A i \in Ids : sstDir[i] # 0 => sstDir[i] \in 1 .. Len(data)
      /\ \A i \in Ids : walDir[i] # 0 => walDir[i] \in WalInodes
  BY InodeFact DEF IInv, WalInodes
<1>3. /\ \A k \in 1 .. Len(data) : data'[k] = data[k]
      /\ \A j \in Ids : j # NewWal => walDir'[j] = walDir[j]
      /\ x # 0
      /\ \/ x = walDir[NewWal]
         \/ walDir[NewWal] = 0 /\ x = Len(data) + 1 /\ data'[Len(data) + 1] = {}
  BY <1>1, <1>2, OpenWalFact
<1>4. WalInodes' \subseteq WalInodes \cup {x} /\ Handles' \subseteq Handles \cup {x}
  BY <1>2, <1>3 DEF WalInodes
<1>5. Len(data) + 1 \notin 1 .. Len(data) /\ Len(data) + 1 \notin WalInodes
  BY <1>2
<1> HIDE DEF x, B
<1>6. x \in B \/ data'[x] = {}
  BY <1>3 DEF B
<1>7. OneFile'
  <2>1. \A i \in Ids : sstDir'[i] # 0 => sstDir'[i] \notin WalInodes \cup {x}
    BY <1>1, <1>2, <1>3, <1>5 DEF OneFile
  <2>2. \A i, j \in Ids : walDir'[i] # 0 /\ walDir'[i] = walDir'[j] => i = j
    BY <1>1, <1>2, <1>3, <1>5 DEF OneFile, x
  <2> QED
    BY <1>4, <2>1, <2>2 DEF OneFile
<1>8. InOrder'
  <2>1. /\ \A k \in WalInodes : \A w \in data[k] : w \in 1 .. Len(lsn)
        /\ \A k \in WalInodes : \A v, w \in data[k] : v < w => lsn[v] < lsn[w]
        /\ \A k \in B : \A w \in data[k] : lsn[w] < nextLsn
    BY <1>1 DEF InOrder, B
  <2>2. \A k \in WalInodes : data'[k] = data[k]
    BY <1>2, <1>3
  <2>3. (Handles \cup ({walDir[NewWal]} \ {0}))' \subseteq B \cup {x}
    BY <1>4 DEF B, x
  <2>4. /\ \A k \in WalInodes \cup {x} : \A w \in data'[k] : w \in 1 .. Len(lsn)
        /\ \A k \in WalInodes \cup {x} : \A v, w \in data'[k] : v < w => lsn[v] < lsn[w]
        /\ \A k \in B \cup {x} : \A w \in data'[k] : lsn[w] < nextLsn
    BY <1>2, <1>6, <2>1, <2>2
  <2>5. /\ \A k \in WalInodes' : \A w \in data'[k] : w \in 1 .. Len(lsn')
        /\ \A k \in WalInodes' : \A v, w \in data'[k] : v < w => lsn'[v] < lsn'[w]
        /\ \A k \in (Handles \cup ({walDir[NewWal]} \ {0}))' : \A w \in data'[k] : lsn'[w] < nextLsn'
    BY <1>4, <2>3, <2>4
  <2> QED
    BY <2>5 DEF InOrder
<1>9. NewWalEmpty'
  <2> SUFFICES ASSUME NotRotated'
               PROVE  rot' # "Reopen" /\ data'[x] = {} /\ x \notin Handles'
    BY DEF NewWalEmpty, x
  <2>1. rot' # "Reopen" /\ NotRotated /\ Handles' \subseteq Handles
    OBVIOUS
  <2>2. CASE x = walDir[NewWal]
    <3>1. data[x] = {} /\ x \notin Handles
      BY <1>1, <1>3, <2>1, <2>2 DEF NewWalEmpty
    <3>2. x \in 1 .. Len(data)
      BY <1>2, <1>3, <2>2
    <3> QED
      BY <1>3, <2>1, <3>1, <3>2
  <2>3. CASE x = Len(data) + 1 /\ data'[Len(data) + 1] = {}
    BY <1>2, <1>5, <2>1, <2>3
  <2> QED
    BY <1>3, <2>1, <2>2, <2>3
<1> QED
  BY <1>7, <1>8, <1>9 DEF Files

\* write_wal appends an entry with the next LSN to the WAL of db.current.
LEMMA FilesWritten == ASSUME IInv, WriteWal PROVE Files'
<1> DEFINE w == Len(lsn) + 1
           B == Handles \cup ({walDir[NewWal]} \ {0})
<1>1. OneFile /\ InOrder /\ NewWalEmpty /\ Types
  BY DEF IInv, Files
<1>2. /\ Len(data) \in Nat /\ Handles \subseteq WalInodes /\ WalInodes \subseteq 1 .. Len(data)
      /\ B \subseteq WalInodes /\ current.wal \in 1 .. Len(data) /\ NewWal \in Ids
      /\ current.wal \in Handles
  BY <1>1, InodeFact DEF Handles
<1>3. /\ data \in Seq(SUBSET Writes) /\ lsn \in Seq(Nat) /\ nextLsn \in Nat
  BY <1>1 DEF Types, TypeOK, DirectoryOK, WritersOK
<1>4. /\ data' = [data EXCEPT ![current.wal] = @ \cup {w}]
      /\ lsn' = Append(lsn, nextLsn) /\ nextLsn' = nextLsn + 1
      /\ walDir' = walDir /\ sstDir' = sstDir /\ manifest' = manifest /\ current' = current
      /\ rot' = rot /\ rotWal' = rotWal /\ rotSeen' = rotSeen /\ seen' = seen
  BY DEF WriteWal, rotVars, threadVars
<1>5. /\ WalInodes' = WalInodes /\ Handles' = Handles /\ NewWal' = NewWal
      /\ NotRotated' = NotRotated
  BY <1>4 DEF WalInodes, Handles, NewWal, NotRotated, LastWal
<1>6. OneFile'
  BY <1>1, <1>4, <1>5 DEF OneFile
<1>7. /\ data'[current.wal] = data[current.wal] \cup {w}
      /\ \A k \in 1 .. Len(data) : k # current.wal => data'[k] = data[k]
  <2>1. DOMAIN data = 1 .. Len(data)
    BY <1>3
  <2> HIDE DEF w
  <2> QED
    BY <1>2, <1>4, <2>1
<1>8. /\ Len(lsn) \in Nat /\ w \in 1 .. w /\ w \in Nat /\ Len(lsn') = w /\ lsn'[w] = nextLsn
      /\ \A i \in 1 .. Len(lsn) : lsn'[i] = lsn[i]
  <2>1. Len(lsn) \in Nat /\ w \in 1 .. w /\ w \in Nat
    BY <1>3
  <2>2. Len(lsn') = Len(lsn) + 1
    BY <1>3, <1>4, AppendProperties
  <2>3. lsn'[Len(lsn) + 1] = nextLsn
    BY <1>3, <1>4, AppendProperties
  <2>4. \A i \in 1 .. Len(lsn) : lsn'[i] = lsn[i]
    BY <1>3, <1>4, AppendProperties
  <2> QED
    BY <2>1, <2>2, <2>3, <2>4
<1>9. \A i \in 1 .. Len(lsn) : lsn[i] \in Nat /\ i \in Nat /\ i < w /\ i \in 1 .. w
  BY <1>3
<1>10. InOrder'
  <2>1. /\ \A k \in WalInodes : \A u \in data[k] : u \in 1 .. Len(lsn)
        /\ \A k \in WalInodes : \A u, v \in data[k] : u < v => lsn[u] < lsn[v]
        /\ \A k \in B : \A u \in data[k] : lsn[u] < nextLsn
    BY <1>1 DEF InOrder
  <2> HIDE DEF w, B
  <2>2. \A k \in WalInodes : \A u \in data'[k] : u \in data[k] \/ (u = w /\ k = current.wal)
    BY <1>2, <1>7
  <2>3. w \in 1 .. w
    BY <1>8
  <2>4. \A k \in WalInodes : \A u \in data'[k] : u \in 1 .. w
    BY <1>9, <2>1, <2>2, <2>3
  <2>5. ASSUME NEW k \in WalInodes, NEW u \in data'[k], NEW v \in data'[k], u < v
        PROVE  lsn'[u] < lsn'[v]
    <3>1. CASE u \in data[k] /\ v \in data[k]
      <4>1. u \in 1 .. Len(lsn) /\ v \in 1 .. Len(lsn) /\ lsn[u] < lsn[v]
        BY <2>1, <2>5, <3>1
      <4> QED
        BY <1>8, <4>1
    <3>2. CASE u \in data[k] /\ v = w /\ k = current.wal
      <4>1. u \in 1 .. Len(lsn) /\ lsn[u] < nextLsn
        BY <1>2, <2>1, <3>2 DEF B
      <4> QED
        BY <1>8, <3>2, <4>1
    <3>3. CASE u = w
      <4>1. v \in 1 .. w /\ w \in Nat
        BY <1>8, <2>4
      <4> QED
        BY <2>5, <3>3, <4>1
    <3> QED
      BY <2>2, <3>1, <3>2, <3>3
  <2>6. \A k \in B : \A u \in data'[k] : lsn'[u] < nextLsn'
    <3> SUFFICES ASSUME NEW k \in B, NEW u \in data'[k] PROVE lsn'[u] < nextLsn'
      OBVIOUS
    <3>1. nextLsn' = nextLsn + 1 /\ nextLsn \in Nat
      BY <1>3, <1>4
    <3>2. CASE u = w
      BY <1>8, <3>1, <3>2
    <3>3. CASE u \in data[k]
      <4>1. u \in 1 .. Len(lsn) /\ lsn[u] < nextLsn
        BY <1>2, <2>1, <3>3
      <4>2. lsn'[u] = lsn[u] /\ lsn[u] \in Nat
        BY <1>8, <1>9, <4>1
      <4> QED
        BY <3>1, <4>1, <4>2
    <3> QED
      BY <1>2, <2>2, <3>2, <3>3
  <2>7. (Handles \cup ({walDir[NewWal]} \ {0}))' = B
    BY <1>4, <1>5 DEF B
  <2>8. /\ \A k \in WalInodes' : \A u \in data'[k] : u \in 1 .. Len(lsn')
        /\ \A k \in WalInodes' : \A u, v \in data'[k] : u < v => lsn'[u] < lsn'[v]
        /\ \A k \in (Handles \cup ({walDir[NewWal]} \ {0}))' : \A u \in data'[k] : lsn'[u] < nextLsn'
    BY <1>5, <1>8, <2>4, <2>5, <2>6, <2>7
  <2> QED
    BY <2>8 DEF InOrder
<1>11. NewWalEmpty'
  <2> SUFFICES ASSUME NotRotated, walDir[NewWal] # 0
               PROVE  /\ data'[walDir[NewWal]] = {} /\ walDir[NewWal] \notin Handles
    BY <1>1, <1>4, <1>5 DEF NewWalEmpty
  <2>1. data[walDir[NewWal]] = {} /\ walDir[NewWal] \notin Handles
    BY <1>1 DEF NewWalEmpty
  <2>2. walDir[NewWal] \in 1 .. Len(data) /\ walDir[NewWal] # current.wal
    BY <1>2, <2>1
  <2> QED
    BY <1>7, <2>1, <2>2
<1> QED
  BY <1>6, <1>10, <1>11 DEF Files
-----------------------------------------------------------------------------
(* What the steps that leave a part of the state alone have in common. *)

\* A step that changes no file.
LEMMA SameFiles ==
    ASSUME IInv, UNCHANGED <<data, walDir, sstDir, lsn, nextLsn>>, NewWal' = NewWal,
           Handles' \subseteq Handles, NotRotated' => NotRotated /\ rot' # "Reopen"
    PROVE  Files'
<1>1. Forgets
  BY InodeFact DEF Forgets, IInv
<1> QED
  BY <1>1, FilesKept

\* A step that leaves the list of WALs alone and does not come to "Reopen".
LEMMA SameRotation ==
    ASSUME IInv, manifest'.wals = manifest.wals, NewWal' = NewWal, rot' = rot \/ rot' # "Reopen"
    PROVE  NotRotated' => NotRotated /\ rot' # "Reopen"
<1>1. NotRotated' = NotRotated
  BY DEF NotRotated, LastWal
<1>2. NotRotated => rot # "Reopen"
  BY DEF IInv, Files, NewWalEmpty
<1> QED
  BY <1>1, <1>2

\* A step that writes an SSTable.
LEMMA SstForgets ==
    ASSUME IInv, NEW id \in Ids, NEW W, W \subseteq Writes, WriteSst(id, W),
           UNCHANGED <<walDir, lsn, nextLsn>>, NewWal' = NewWal, Handles' = Handles
    PROVE  Forgets /\ More /\ \A j \in Ids : sstDir[j] # 0 => sstDir'[j] # 0
<1>1. TypeOK /\ OneFile
  BY DEF IInv, Types, Files
<1>2. /\ More
      /\ \A k \in 1 .. Len(data) : k # sstDir[id] => data'[k] = data[k]
      /\ \A j \in Ids : j # id => sstDir'[j] = sstDir[j]
      /\ sstDir'[id] # 0
      /\ \/ sstDir'[id] = sstDir[id]
         \/ sstDir[id] = 0 /\ sstDir'[id] = Len(data) + 1
  BY <1>1, WriteSstFact
<1>3. WalInodes \subseteq 1 .. Len(data)
  BY InodeFact DEF IInv
<1>4. \A k \in WalInodes : k # sstDir[id]
  BY <1>1, <1>3 DEF OneFile
<1> QED
  BY <1>2, <1>3, <1>4 DEF Forgets

\* A step that names no WAL but the next one.
LEMMA WalIdsKept ==
    ASSUME IInv, NewWal' = NewWal, rotSnap'.next_wal_id = NewWal, manifest'.wals = manifest.wals,
           restarts' = restarts, \A i \in Ids : walDir'[i] # 0 => walDir[i] # 0 \/ i = NewWal
    PROVE  WalIds'
<1>1. WalIds /\ NewWal \in Nat
  BY InodeFact, ConstantFact DEF IInv
<1>2. \A i \in Ids : walDir'[i] # 0 => i <= NewWal
  BY <1>1 DEF WalIds
<1>3. LastWal' = LastWal
  BY DEF LastWal
<1> QED
  BY <1>1, <1>2, <1>3 DEF WalIds

\* A step that changes the files of no manifest.
LEMMA ListedKept ==
    ASSUME IInv, manifest'.wals = manifest.wals, manifest'.l0 = manifest.l0,
           manifest'.l1 = manifest.l1, manifest'.version = manifest.version,
           rotSnap' = rotSnap, \A i \in Ids : sstDir[i] # 0 => sstDir'[i] # 0,
           thread' # "GcDelete" \/ (thread' = thread /\ job' = job)
    PROVE  Listed'
<1>1. Listed /\ manifest.l0 \subseteq Ids /\ manifest.l1 \subseteq Ids
  BY DEF IInv, Types, TypeOK, ManifestOK, Manifest
<1>2. Refs(manifest').ssts = Refs(manifest).ssts
  BY DEF Refs
<1>3. SstablesKept'
  BY <1>1, <1>2 DEF Listed, SstablesKept, Refs
<1> QED
  BY <1>1, <1>2, <1>3 DEF Listed

\* The versions that are held stay good when inodes and memtables are added.
LEMMA VersionsKept ==
    ASSUME Types, NEW n \in Nat, NEW t \in Nat, Len(data) <= n, Len(tables) <= t
    PROVE  /\ IsVersion(current, n, t) /\ IsVersion(rotSeen, n, t) /\ IsVersion(seen, n, t)
           /\ rotWal \in 1 .. n
<1>1. Len(data) \in Nat /\ Len(tables) \in Nat /\ rotWal \in 1 .. Len(data)
  BY InodeFact
<1>2. /\ IsVersion(current, Len(data), Len(tables)) /\ IsVersion(rotSeen, Len(data), Len(tables))
      /\ IsVersion(seen, Len(data), Len(tables))
  BY DEF Types, TypeOK, MemoryOK, LocalsOK
<1>3. IsVersion(current, n, t) /\ IsVersion(rotSeen, n, t) /\ IsVersion(seen, n, t)
  BY <1>1, <1>2, VersionFact
<1> QED
  BY <1>1, <1>3

LEMMA SeqSubset ==
    ASSUME NEW A, NEW B, A \subseteq B, NEW s \in Seq(A)
    PROVE  s \in Seq(B)
OBVIOUS

\* A step of the writers or of the rotation.
ThreadRests == thread' = thread /\ job' = job /\ jobs' = jobs /\ seen' = seen
\* A step of the compaction thread.
RotationRests ==
    /\ rot' = rot /\ rotSnap' = rotSnap /\ rotWal' = rotWal /\ rotSeen' = rotSeen
    /\ lsn' = lsn /\ nextLsn' = nextLsn /\ pending' = pending /\ leader' = leader
    /\ acked' = acked /\ alive' = alive /\ restarts' = restarts

\* The types after a step that adds to the directory at most.
LEMMA SameTypes ==
    ASSUME IInv, More, RotationRests, tables' = tables, current' = current,
           seen' \in {seen, current}
    PROVE  DirectoryOK' /\ MemoryOK' /\ WritersOK' /\ LocalsOK'
<1>1. Types /\ Len(tables) \in Nat /\ Len(tables) <= Len(tables)
  BY InodeFact DEF IInv
<1>2. Len(data') \in Nat /\ Len(data) <= Len(data')
  BY DEF More
<1>3. /\ IsVersion(current, Len(data'), Len(tables)) /\ IsVersion(rotSeen, Len(data'), Len(tables))
      /\ IsVersion(seen, Len(data'), Len(tables)) /\ rotWal \in 1 .. Len(data')
  BY <1>1, <1>2, VersionsKept
<1>4. DirectoryOK'
  BY DEF More, DirectoryOK
<1>5. MemoryOK'
  BY <1>1, <1>3 DEF MemoryOK, Types, TypeOK
<1>6. WritersOK'
  BY <1>1 DEF WritersOK, RotationRests, Types, TypeOK
<1>7. LocalsOK'
  <2>1. IsVersion(seen', Len(data'), Len(tables')) /\ IsVersion(rotSeen', Len(data'), Len(tables'))
    BY <1>3 DEF RotationRests
  <2>2. LocalsOK
    BY <1>1 DEF Types
  <2> QED
    BY <1>3, <2>1, <2>2 DEF LocalsOK, RotationRests
<1> QED
  BY <1>4, <1>5, <1>6, <1>7

\* A step that leaves the directory as it is.
LEMMA SameDirectory == ASSUME IInv, UNCHANGED diskVars PROVE More
BY InodeFact DEF IInv, Types, TypeOK, DirectoryOK, More, diskVars
-----------------------------------------------------------------------------
(* The writers and the rotation. *)

\* What a step of the writers or the rotation leaves to the compaction thread.
LEMMA ThreadRestsFact ==
    ASSUME IInv, ThreadRests, Len(tables) <= Len(tables'), Len(tables') \in Nat,
           manifest'.next_sstable_id \in Nat,
           manifest'.next_sstable_id <= manifest.next_sstable_id,
           rotSnap'.next_sstable_id <= manifest'.next_sstable_id
    PROVE  ThreadOK' /\ JobOK'
<1>1. ThreadOK /\ JobOK /\ manifest.next_sstable_id \in Nat /\ Len(tables) \in Nat
  BY InodeFact DEF IInv, Types, TypeOK, ManifestOK, Manifest
<1>2. ThreadOK'
  BY <1>1 DEF ThreadOK, ThreadRests
<1>3. job.tables \in Seq(1 .. Len(tables'))
  <2>1. 1 .. Len(tables) \subseteq 1 .. Len(tables') /\ job.tables \in Seq(1 .. Len(tables))
    BY <1>1 DEF JobOK
  <2> QED
    BY <2>1, SeqSubset
<1>4. thread' = "CompactWrite" => manifest'.next_sstable_id <= MaxId
  BY <1>1, ConstantFact DEF JobOK, ThreadRests
<1> QED
  BY <1>1, <1>2, <1>3, <1>4 DEF JobOK, ThreadRests

LEMMA WriteWalStep == ASSUME IInv, WriteWal PROVE IInv'
<1>1. Types /\ WalIds /\ Listed
  BY DEF IInv
<1>2. /\ data' = [data EXCEPT ![current.wal] = @ \cup {Len(lsn) + 1}]
      /\ lsn' = Append(lsn, nextLsn) /\ nextLsn' = nextLsn + 1
      /\ pending' = Append(pending, Len(lsn) + 1) /\ Len(lsn) < MaxWrites
      /\ walDir' = walDir /\ sstDir' = sstDir /\ previous' = previous /\ alive' = alive
      /\ manifest' = manifest /\ current' = current /\ tables' = tables /\ leader' = leader
      /\ acked' = acked /\ rot' = rot /\ rotSnap' = rotSnap /\ rotWal' = rotWal
      /\ rotSeen' = rotSeen /\ thread' = thread /\ job' = job /\ seen' = seen /\ jobs' = jobs
      /\ restarts' = restarts
  BY DEF WriteWal, rotVars, threadVars
<1>3. /\ data \in Seq(SUBSET Writes) /\ lsn \in Seq(Nat) /\ nextLsn \in Nat /\ pending \in Seq(Writes)
      /\ Len(lsn) \in Nat /\ Len(data) \in Nat /\ current.wal \in 1 .. Len(data)
      /\ Len(tables) \in Nat /\ DOMAIN data = 1 .. Len(data)
  BY <1>1, InodeFact DEF Types, TypeOK, DirectoryOK, WritersOK
<1>4. Len(lsn) + 1 \in Writes
  BY <1>2, <1>3, ConstantFact
<1>5. data' \in Seq(SUBSET Writes) /\ Len(data') = Len(data)
  <2>1. data[current.wal] \cup {Len(lsn) + 1} \in SUBSET Writes
    BY <1>3, <1>4
  <2>2. data' = [data EXCEPT ![current.wal] = data[current.wal] \cup {Len(lsn) + 1}]
    BY <1>2
  <2> QED
    BY <1>3, <2>1, <2>2, ExceptSeq
<1>6. DirectoryOK' /\ MemoryOK'
  BY <1>1, <1>2, <1>5 DEF Types, TypeOK, DirectoryOK, MemoryOK
<1>7. lsn' \in Seq(Nat) /\ Len(lsn') = Len(lsn) + 1 /\ nextLsn' \in Nat /\ pending' \in Seq(Writes)
  <2>1. lsn' \in Seq(Nat)
    BY <1>2, <1>3, AppendProperties
  <2>2. Len(lsn') = Len(lsn) + 1
    BY <1>2, <1>3, AppendProperties
  <2>3. pending' \in Seq(Writes)
    BY <1>2, <1>3, <1>4, AppendProperties
  <2> QED
    BY <1>2, <1>3, <2>1, <2>2, <2>3
<1>8. WritersOK' /\ ManifestOK'
  BY <1>1, <1>2, <1>7 DEF Types, TypeOK, WritersOK, ManifestOK
<1>9. LocalsOK'
  <2>1. Len(lsn') <= MaxWrites
    BY <1>2, <1>3, <1>7, ConstantFact
  <2> QED
    BY <1>1, <1>2, <1>5, <2>1 DEF Types, LocalsOK
<1>10. ThreadOK' /\ JobOK'
  BY <1>1, <1>2 DEF Types, TypeOK, ThreadOK, JobOK
<1>11. WalIds'
  BY <1>1, <1>2 DEF WalIds, NewWal, LastWal
<1>12. Listed'
  BY <1>1, <1>2 DEF Listed, SstablesKept, Refs
<1>13. Files'
  BY FilesWritten
<1> QED
  BY <1>1, <1>2, <1>6, <1>8, <1>9, <1>10, <1>11, <1>12, <1>13 DEF IInv, Types, TypeOK

LEMMA WriteMemtableStep == ASSUME IInv, WriteMemtable PROVE IInv'
<1>1. Types /\ WalIds /\ Listed
  BY DEF IInv
<1> DEFINE t == tables[current.mutable] \cup {Head(pending)}
<1>2. /\ tables' = [tables EXCEPT ![current.mutable] = t]
      /\ pending # <<>> /\ pending' = Tail(pending)
      /\ \/ rot' = "Open" /\ leader' = Head(pending) /\ acked' = acked
         \/ acked' = acked \cup {Head(pending)} /\ rot' = rot /\ leader' = leader
      /\ UNCHANGED <<data, walDir, sstDir, previous, alive, manifest, current, lsn, nextLsn, rotSnap,
                     rotWal, rotSeen, thread, job, seen, jobs, restarts>>
  BY DEF WriteMemtable, diskVars, threadVars
<1>3. /\ tables \in Seq(SUBSET Writes) /\ pending \in Seq(Writes) /\ acked \subseteq Writes
      /\ Len(tables) \in Nat /\ IsVersion(current, Len(data), Len(tables))
  BY <1>1, InodeFact DEF Types, TypeOK, MemoryOK, WritersOK
<1>4. current.mutable \in 1 .. Len(tables) /\ DOMAIN tables = 1 .. Len(tables)
  BY <1>3 DEF IsVersion, Version
<1>5. Head(pending) \in Writes /\ Tail(pending) \in Seq(Writes)
  BY <1>2, <1>3
<1>6. tables' \in Seq(SUBSET Writes) /\ Len(tables') = Len(tables)
  <2>1. t \in SUBSET Writes
    BY <1>3, <1>4, <1>5
  <2> HIDE DEF t
  <2> QED
    BY <1>2, <1>3, <1>4, <2>1, ExceptSeq
<1> HIDE DEF t
<1>7. DirectoryOK' /\ MemoryOK' /\ ManifestOK'
  BY <1>1, <1>2, <1>6 DEF Types, TypeOK, DirectoryOK, MemoryOK, ManifestOK
<1>8. Head(pending) \in 0 .. MaxWrites /\ Head(pending) # 0
  BY <1>5, ConstantFact
<1>9. WritersOK'
  BY <1>1, <1>2, <1>5, <1>8 DEF Types, TypeOK, WritersOK
<1>10. LocalsOK'
  BY <1>1, <1>2, <1>6, <1>8 DEF Types, LocalsOK
<1>11. ThreadOK' /\ JobOK'
  BY <1>1, <1>2, <1>6 DEF Types, TypeOK, ThreadOK, JobOK
<1>12. WalIds'
  BY <1>1, <1>2 DEF WalIds, NewWal, LastWal
<1>13. Listed'
  BY <1>1, <1>2 DEF Listed, SstablesKept, Refs
<1>14. Files'
  <2>1. Handles' = Handles /\ NewWal' = NewWal
    BY <1>2 DEF Handles, NewWal
  <2> QED
    BY <1>2, <2>1, SameRotation, SameFiles
<1> QED
  BY <1>1, <1>2, <1>7, <1>9, <1>10, <1>11, <1>12, <1>13, <1>14 DEF IInv, Types, TypeOK

\* The end of the memtable stage, and other steps of the rotation that keep its locals.
LEMMA RotateOnly ==
    ASSUME IInv, rot' \in {"Idle", "Open"}, leader' \in 0 .. MaxWrites, acked' \subseteq Writes,
           rot' = "Open" => leader' # 0,
           UNCHANGED <<diskVars, previous, alive, manifest, current, tables, lsn, nextLsn, pending,
                       rotSnap, rotWal, rotSeen, threadVars, restarts>>
    PROVE  IInv'
<1>1. Types /\ WalIds /\ Listed
  BY DEF IInv
<1>2. UNCHANGED <<data, walDir, sstDir, previous, alive, manifest, current, tables, lsn, nextLsn,
                  pending, rotSnap, rotWal, rotSeen, thread, job, seen, jobs, restarts>>
  BY DEF diskVars, threadVars
<1>3. DirectoryOK' /\ MemoryOK' /\ ManifestOK'
  BY <1>1, <1>2 DEF Types, TypeOK, DirectoryOK, MemoryOK, ManifestOK
<1>4. WritersOK'
  BY <1>1, <1>2 DEF Types, TypeOK, WritersOK
<1>5. LocalsOK'
  BY <1>1, <1>2 DEF Types, LocalsOK
<1>6. ThreadOK' /\ JobOK'
  BY <1>1, <1>2 DEF Types, TypeOK, ThreadOK, JobOK
<1>7. WalIds'
  BY <1>1, <1>2 DEF WalIds, NewWal, LastWal
<1>8. Listed'
  BY <1>1, <1>2 DEF Listed, SstablesKept, Refs
<1>9. Files'
  <2>1. Handles' = Handles /\ NewWal' = NewWal /\ rot' # "Reopen"
    BY <1>2 DEF Handles, NewWal
  <2> QED
    BY <1>2, <2>1, SameRotation, SameFiles
<1> QED
  BY <1>1, <1>2, <1>3, <1>4, <1>5, <1>6, <1>7, <1>8, <1>9 DEF IInv, Types, TypeOK

\* The leader of a rotation is a write.
LEMMA LeaderFact ==
    ASSUME IInv, rot # "Idle"
    PROVE  leader \in 0 .. MaxWrites /\ leader # 0 /\ acked \cup {leader} \subseteq Writes
<1>1. leader \in 0 .. MaxWrites /\ leader # 0 /\ acked \subseteq Writes
  BY DEF IInv, Types, TypeOK, WritersOK, LocalsOK
<1> QED
  BY <1>1, ConstantFact

LEMMA RotateRetryStep == ASSUME IInv, RotateRetry PROVE IInv'
<1>1. leader \in 0 .. MaxWrites /\ leader # 0 /\ acked \subseteq Writes
  BY LeaderFact DEF RotateRetry
<1> QED
  BY <1>1, RotateOnly DEF RotateRetry, writeVars

LEMMA RotateFailsStep == ASSUME IInv, RotateFails PROVE IInv'
<1>1. acked \cup {leader} \subseteq Writes /\ 0 \in 0 .. MaxWrites
  BY LeaderFact, ConstantFact DEF RotateFails
<1> QED
  BY <1>1, RotateOnly DEF RotateFails, LeaveMemStage

LEMMA RotateReopenFailsStep == ASSUME IInv, RotateReopenFails PROVE IInv'
<1>1. acked \cup {leader} \subseteq Writes /\ 0 \in 0 .. MaxWrites
  BY LeaderFact, ConstantFact DEF RotateReopenFails
<1> QED
  BY <1>1, RotateOnly DEF RotateReopenFails, LeaveMemStage

LEMMA RotateOpenStep == ASSUME IInv, RotateOpen PROVE IInv'
<1>1. Types /\ WalIds /\ Listed /\ TypeOK
  BY DEF IInv, Types
<1>2. /\ OpenWal(NewWal) /\ rotSnap' = manifest /\ rot' = "Commit"
      /\ UNCHANGED <<sstDir, previous, alive, manifest, current, tables, lsn, nextLsn, pending,
                     leader, acked, rotWal, rotSeen, thread, job, seen, jobs, restarts>>
  BY DEF RotateOpen, NewWal, writeVars, threadVars
<1>3. leader # 0
  BY <1>1 DEF RotateOpen, Types, LocalsOK
<1>4. /\ NewWal \in Ids /\ Len(data) \in Nat /\ Len(tables) \in Nat /\ manifest \in Manifest
      /\ Len(tables) <= Len(tables)
  BY <1>1, InodeFact DEF TypeOK, ManifestOK
<1>5. /\ More
      /\ \A j \in Ids : j # NewWal => walDir'[j] = walDir[j]
  BY <1>1, <1>2, <1>4, OpenWalFact
<1>6. /\ IsVersion(current, Len(data'), Len(tables)) /\ IsVersion(rotSeen, Len(data'), Len(tables))
      /\ IsVersion(seen, Len(data'), Len(tables)) /\ rotWal \in 1 .. Len(data')
  BY <1>1, <1>4, <1>5, VersionsKept DEF More
<1>7. DirectoryOK' /\ MemoryOK' /\ ManifestOK'
  <2>1. DirectoryOK'
    BY <1>5 DEF More, DirectoryOK
  <2>2. MemoryOK'
    BY <1>1, <1>2, <1>6 DEF TypeOK, MemoryOK
  <2>3. ManifestOK'
    BY <1>1, <1>2 DEF TypeOK, ManifestOK
  <2> QED
    BY <2>1, <2>2, <2>3
<1>8. WritersOK'
  BY <1>1, <1>2 DEF TypeOK, WritersOK
<1>9. LocalsOK'
  BY <1>1, <1>2, <1>3, <1>4, <1>6 DEF Types, LocalsOK
<1>10. ThreadOK' /\ JobOK'
  BY <1>1, <1>2, <1>4 DEF Types, TypeOK, ThreadOK, JobOK, Manifest
<1>11. WalIds'
  <2>1. NewWal' = NewWal /\ rotSnap'.next_wal_id = NewWal
    BY <1>2 DEF NewWal
  <2> QED
    BY <1>2, <1>5, <2>1, WalIdsKept
<1>12. Listed'
  <2>1. manifest.version <= manifest.version
    BY <1>4 DEF Manifest
  <2> QED
    BY <1>1, <1>2, <2>1 DEF Listed, SstablesKept, Refs
<1>13. Files'
  <2>1. NewWal' = NewWal /\ Handles' = Handles /\ rot' # "Reopen"
    BY <1>2 DEF NewWal, Handles
  <2>2. NotRotated' => NotRotated /\ rot' # "Reopen"
    BY <1>2, <2>1, SameRotation
  <2> QED
    BY <1>2, <2>1, <2>2, FilesOpened
<1> QED
  BY <1>1, <1>2, <1>7, <1>8, <1>9, <1>10, <1>11, <1>12, <1>13 DEF IInv, Types, TypeOK

LEMMA RotateCommitStep == ASSUME IInv, RotateCommit PROVE IInv'
<1>1. Types /\ WalIds /\ Listed /\ TypeOK
  BY DEF IInv, Types
<1>2. /\ manifest' = [rotSnap EXCEPT !.wals = Append(rotSnap.wals, rotSnap.next_wal_id),
                                     !.version = rotSnap.version + 1]
      /\ previous' = Refs(manifest) /\ rot' = "Reopen" /\ rot = "Commit"
      /\ manifest.version = rotSnap.version
      /\ UNCHANGED <<data, walDir, sstDir, alive, current, tables, lsn, nextLsn, pending, leader,
                     acked, rotSnap, rotWal, rotSeen, thread, job, seen, jobs, restarts>>
  BY DEF RotateCommit, diskVars, writeVars, threadVars
<1>3. /\ manifest \in Manifest /\ rotSnap \in Manifest /\ manifest.wals \in Seq(Ids)
      /\ NewWal \in Ids /\ Len(manifest.wals) \in Nat /\ manifest.version \in Nat
  BY <1>1, InodeFact DEF Types, TypeOK, ManifestOK, LocalsOK, Manifest
<1>4. /\ rotSnap.wals = manifest.wals /\ rotSnap.l0 = manifest.l0 /\ rotSnap.l1 = manifest.l1
      /\ rotSnap.next_wal_id = NewWal /\ rotSnap.next_sstable_id <= manifest.next_sstable_id
  BY <1>1, <1>2 DEF Listed, WalIds, Types, JobOK
<1> DEFINE s == Append(manifest.wals, NewWal)
           n == Len(manifest.wals)
<1>5. s \in Seq(Ids) /\ Len(s) = n + 1 /\ s[n + 1] = NewWal /\ \A i \in 1 .. n : s[i] = manifest.wals[i]
  <2>1. s \in Seq(Ids)
    BY <1>3, AppendProperties
  <2>2. Len(s) = n + 1
    BY <1>3, AppendProperties
  <2>3. s[n + 1] = NewWal
    BY <1>3, AppendProperties
  <2>4. \A i \in 1 .. n : s[i] = manifest.wals[i]
    BY <1>3, AppendProperties
  <2> QED
    BY <2>1, <2>2, <2>3, <2>4
<1> HIDE DEF s
<1>6. /\ manifest' \in Manifest /\ manifest'.wals = s /\ manifest'.l0 = manifest.l0
      /\ manifest'.l1 = manifest.l1 /\ manifest'.next_wal_id = NewWal
      /\ manifest'.next_sstable_id = rotSnap.next_sstable_id
      /\ manifest'.version = manifest.version + 1
  <2>1. manifest' = [rotSnap EXCEPT !.wals = s, !.version = manifest.version + 1]
    BY <1>2, <1>4 DEF s
  <2>2. manifest.version + 1 \in Nat
    BY <1>3
  <2> QED
    BY <1>3, <1>4, <1>5, <2>1, <2>2 DEF Manifest
<1>7. NewWal' = NewWal /\ LastWal' = NewWal
  BY <1>3, <1>5, <1>6 DEF NewWal, LastWal
<1>8. ManifestOK'
  <2>1. {manifest.wals[i] : i \in DOMAIN manifest.wals} \subseteq Ids
    BY <1>3
  <2>2. manifest.l0 \cup manifest.l1 \subseteq Ids
    BY <1>3 DEF Manifest
  <2> QED
    BY <1>2, <1>6, <2>1, <2>2 DEF ManifestOK, Refs
<1>9. DirectoryOK' /\ MemoryOK' /\ WritersOK'
  BY <1>1, <1>2 DEF TypeOK, DirectoryOK, MemoryOK, WritersOK
<1>10. LocalsOK'
  BY <1>1, <1>2 DEF Types, LocalsOK
<1>11. ThreadOK' /\ JobOK'
  <2>1. /\ manifest'.next_sstable_id \in Nat /\ manifest'.next_sstable_id <= manifest.next_sstable_id
        /\ rotSnap'.next_sstable_id <= manifest'.next_sstable_id
    BY <1>2, <1>3, <1>4, <1>6 DEF Manifest
  <2>2. ThreadRests /\ Len(tables) <= Len(tables') /\ Len(tables') \in Nat
    BY <1>1, <1>2, InodeFact DEF ThreadRests
  <2> QED
    BY <2>1, <2>2, ThreadRestsFact
<1>12. WalIds'
  <2>1. \A i \in DOMAIN manifest'.wals : manifest'.wals[i] <= NewWal
    <3> SUFFICES ASSUME NEW i \in 1 .. n + 1 PROVE s[i] <= NewWal
      BY <1>5, <1>6
    <3>1. CASE i = n + 1
      BY <1>3, <1>5, <3>1, ConstantFact
    <3>2. CASE i \in 1 .. n
      <4>1. s[i] = manifest.wals[i] /\ manifest.wals[i] <= LastWal /\ manifest.wals # <<>>
        BY <1>1, <1>3, <1>5, <3>2 DEF WalIds
      <4>2. LastWal \in {NewWal, NewWal - 1}
        BY <1>1, <4>1 DEF WalIds
      <4>3. manifest.wals[i] \in Nat /\ NewWal \in Nat
        BY <1>3, <3>2, ConstantFact
      <4> QED
        BY <4>1, <4>2, <4>3
    <3> QED
      BY <1>3, <3>1, <3>2
  <2> QED
    BY <1>1, <1>2, <1>7, <2>1 DEF WalIds
<1>13. Listed'
  <2>1. /\ rotSnap'.version = manifest.version /\ manifest.version <= manifest.version + 1
        /\ manifest.version # manifest.version + 1
    BY <1>2, <1>3
  <2>2. Refs(manifest').ssts = Refs(manifest).ssts
    BY <1>6 DEF Refs
  <2>3. SstablesKept'
    BY <1>1, <1>2, <2>2 DEF Listed, SstablesKept
  <2> QED
    BY <1>1, <1>2, <1>6, <2>1, <2>2, <2>3 DEF Listed
<1>14. Files'
  <2>1. Handles' = Handles /\ ~ NotRotated'
    BY <1>2, <1>7 DEF Handles, NotRotated
  <2> QED
    BY <1>2, <1>7, <2>1, SameFiles
<1> QED
  BY <1>1, <1>2, <1>8, <1>9, <1>10, <1>11, <1>12, <1>13, <1>14 DEF IInv, Types, TypeOK

LEMMA RotateReopenStep == ASSUME IInv, RotateReopen PROVE IInv'
<1>1. Types /\ WalIds /\ Listed /\ TypeOK
  BY DEF IInv, Types
<1>2. /\ OpenWal(NewWal) /\ rotWal' = walDir'[NewWal] /\ rot = "Reopen" /\ rot' = "Load"
      /\ UNCHANGED <<sstDir, previous, alive, manifest, current, tables, lsn, nextLsn, pending,
                     leader, acked, rotSnap, rotSeen, thread, job, seen, jobs, restarts>>
  BY <1>1 DEF RotateReopen, WalIds, writeVars, threadVars
<1>3. /\ NewWal \in Ids /\ Len(data) \in Nat /\ Len(tables) \in Nat /\ Len(tables) <= Len(tables)
  BY <1>1, InodeFact
<1>4. /\ More
      /\ \A j \in Ids : j # NewWal => walDir'[j] = walDir[j]
      /\ walDir'[NewWal] \in 1 .. Len(data')
  BY <1>1, <1>2, <1>3, OpenWalFact
<1>5. /\ IsVersion(current, Len(data'), Len(tables)) /\ IsVersion(rotSeen, Len(data'), Len(tables))
      /\ IsVersion(seen, Len(data'), Len(tables))
  BY <1>1, <1>3, <1>4, VersionsKept DEF More
<1>6. DirectoryOK' /\ MemoryOK' /\ ManifestOK'
  <2>1. DirectoryOK'
    BY <1>4 DEF More, DirectoryOK
  <2>2. MemoryOK'
    BY <1>1, <1>2, <1>5 DEF TypeOK, MemoryOK
  <2>3. ManifestOK'
    BY <1>1, <1>2 DEF TypeOK, ManifestOK
  <2> QED
    BY <2>1, <2>2, <2>3
<1>7. WritersOK'
  BY <1>1, <1>2 DEF TypeOK, WritersOK
<1>8. LocalsOK'
  BY <1>1, <1>2, <1>4, <1>5 DEF Types, LocalsOK
<1>9. ThreadOK' /\ JobOK'
  BY <1>1, <1>2 DEF Types, TypeOK, ThreadOK, JobOK
<1>10. NewWal' = NewWal
  BY <1>2 DEF NewWal
<1>11. WalIds'
  <2>1. rotSnap'.next_wal_id = NewWal
    BY <1>1, <1>2 DEF WalIds
  <2> QED
    BY <1>2, <1>4, <1>10, <2>1, WalIdsKept
<1>12. Listed'
  BY <1>1, <1>2 DEF Listed, SstablesKept, Refs
<1>13. Files'
  <2>1. ~ NotRotated' /\ Handles' \subseteq Handles \cup {walDir'[NewWal]}
    <3>1. ~ NotRotated
      BY <1>2 DEF IInv, Files, NewWalEmpty
    <3>2. NotRotated' = NotRotated
      BY <1>2, <1>10 DEF NotRotated, LastWal
    <3> QED
      BY <1>2, <3>1, <3>2 DEF Handles
  <2> QED
    BY <1>2, <1>10, <2>1, FilesOpened
<1> QED
  BY <1>1, <1>2, <1>6, <1>7, <1>8, <1>9, <1>11, <1>12, <1>13 DEF IInv, Types, TypeOK

LEMMA RotateLoadStep == ASSUME IInv, RotateLoad PROVE IInv'
<1>1. Types /\ WalIds /\ Listed /\ TypeOK
  BY DEF IInv, Types
<1>2. /\ rotSeen' = current /\ rot = "Load" /\ rot' = "Store"
      /\ UNCHANGED <<data, walDir, sstDir, previous, alive, manifest, current, tables, lsn, nextLsn,
                     pending, leader, acked, rotSnap, rotWal, thread, job, seen, jobs, restarts>>
  BY DEF RotateLoad, diskVars, writeVars, threadVars
<1>3. DirectoryOK' /\ MemoryOK' /\ ManifestOK'
  BY <1>1, <1>2 DEF TypeOK, DirectoryOK, MemoryOK, ManifestOK
<1>4. WritersOK'
  BY <1>1, <1>2 DEF TypeOK, WritersOK
<1>5. LocalsOK'
  BY <1>1, <1>2 DEF Types, TypeOK, MemoryOK, LocalsOK
<1>6. ThreadOK' /\ JobOK'
  BY <1>1, <1>2 DEF Types, TypeOK, ThreadOK, JobOK
<1>7. WalIds'
  BY <1>1, <1>2 DEF WalIds, NewWal, LastWal
<1>8. Listed'
  BY <1>1, <1>2 DEF Listed, SstablesKept, Refs
<1>9. Files'
  <2>1. NewWal' = NewWal /\ Handles' \subseteq Handles /\ rot' # "Reopen"
    BY <1>2 DEF NewWal, Handles
  <2> QED
    BY <1>2, <2>1, SameRotation, SameFiles
<1> QED
  BY <1>1, <1>2, <1>3, <1>4, <1>5, <1>6, <1>7, <1>8, <1>9 DEF IInv, Types, TypeOK

LEMMA RotateStoreStep == ASSUME IInv, RotateStore PROVE IInv'
<1>1. Types /\ WalIds /\ Listed /\ TypeOK
  BY DEF IInv, Types
<1> DEFINE t == Len(tables) + 1
           f == Append(rotSeen.frozen, rotSeen.mutable)
<1>2. /\ tables' = Append(tables, {})
      /\ current' = [rotSeen EXCEPT !.wal = rotWal, !.mutable = t, !.frozen = f]
      /\ rot = "Store" /\ rot' = "Idle" /\ leader' = 0 /\ acked' = acked \cup {leader}
      /\ UNCHANGED <<data, walDir, sstDir, previous, alive, manifest, lsn, nextLsn, pending, rotSnap,
                     rotWal, rotSeen, thread, job, seen, jobs, restarts>>
  BY DEF RotateStore, LeaveMemStage, diskVars, threadVars
<1>3. /\ tables \in Seq(SUBSET Writes) /\ Len(tables) \in Nat /\ Len(data) \in Nat
      /\ rotWal \in 1 .. Len(data) /\ IsVersion(rotSeen, Len(data), Len(tables))
  BY <1>1, InodeFact DEF Types, TypeOK, MemoryOK, LocalsOK
<1>4. tables' \in Seq(SUBSET Writes) /\ Len(tables') = t
  BY <1>2, <1>3, AppendProperties
<1>5. t \in Nat \ {0} /\ Len(tables) <= t /\ t <= t
  BY <1>3
<1>6. /\ rotSeen \in Version /\ rotSeen.frozen \in Seq(Nat \ {0}) /\ rotSeen.mutable \in Nat \ {0}
      /\ rotSeen.mutable < t /\ \A i \in DOMAIN rotSeen.frozen : rotSeen.frozen[i] < t
  <2>1. /\ rotSeen \in Version /\ rotSeen.frozen \in Seq(Nat \ {0}) /\ rotSeen.mutable \in Nat \ {0}
        /\ rotSeen.mutable <= Len(tables)
        /\ \A i \in DOMAIN rotSeen.frozen : rotSeen.frozen[i] < rotSeen.mutable
    BY <1>3 DEF IsVersion, Version
  <2>2. \A i \in DOMAIN rotSeen.frozen : rotSeen.frozen[i] \in Nat
    BY <2>1
  <2> QED
    BY <1>3, <2>1, <2>2
<1>7. f \in Seq(Nat \ {0}) /\ \A i \in DOMAIN f : f[i] < t
  <2> DEFINE n == Len(rotSeen.frozen)
  <2>1. f \in Seq(Nat \ {0})
    BY <1>6, AppendProperties
  <2>2. Len(f) = n + 1
    BY <1>6, AppendProperties
  <2>3. f[n + 1] = rotSeen.mutable
    BY <1>6, AppendProperties
  <2>4. \A i \in 1 .. n : f[i] = rotSeen.frozen[i]
    BY <1>6, AppendProperties
  <2>5. n \in Nat /\ DOMAIN rotSeen.frozen = 1 .. n
    BY <1>6
  <2> HIDE DEF f, n, t
  <2>6. DOMAIN f = 1 .. n + 1
    BY <2>1, <2>2
  <2>7. \A i \in DOMAIN f : i \in 1 .. n \/ i = n + 1
    BY <2>5, <2>6
  <2> QED
    BY <1>6, <2>1, <2>3, <2>4, <2>5, <2>7
<1> HIDE DEF t, f
<1>8. IsVersion(current', Len(data), t) /\ current'.wal = rotWal
  <2>1. rotWal <= Len(data) /\ rotWal \in Nat \ {0}
    BY <1>3
  <2>2. /\ current'.wal = rotWal /\ current'.mutable = t /\ current'.frozen = f
        /\ current'.l0 = rotSeen.l0 /\ current'.l1 = rotSeen.l1
    BY <1>2, <1>6 DEF Version
  <2>3. current' = [wal |-> rotWal, mutable |-> t, frozen |-> f, l0 |-> rotSeen.l0, l1 |-> rotSeen.l1]
    BY <1>2, <1>6 DEF Version
  <2>4. rotSeen.l0 \in SUBSET (Ids \X Nat) /\ rotSeen.l1 \in SUBSET (Ids \X Nat)
    BY <1>6 DEF Version
  <2>5. current' \in Version
    BY <1>5, <1>7, <2>1, <2>3, <2>4 DEF Version
  <2> QED
    BY <1>5, <1>7, <2>1, <2>2, <2>5 DEF IsVersion
<1>9. IsVersion(rotSeen, Len(data), t) /\ IsVersion(seen, Len(data), t)
  <2>1. Len(data) <= Len(data)
    BY <1>3
  <2> QED
    BY <1>1, <1>3, <1>5, <2>1, VersionsKept
<1>10. DirectoryOK' /\ MemoryOK' /\ ManifestOK'
  BY <1>1, <1>2, <1>4, <1>8 DEF TypeOK, DirectoryOK, MemoryOK, ManifestOK
<1>11. WritersOK'
  <2>1. acked' \subseteq Writes /\ 0 \in 0 .. MaxWrites
    BY <1>2, LeaderFact, ConstantFact
  <2> QED
    BY <1>1, <1>2, <2>1 DEF TypeOK, WritersOK
<1>12. LocalsOK'
  BY <1>1, <1>2, <1>4, <1>9 DEF Types, LocalsOK
<1>13. ThreadOK' /\ JobOK'
  <2>1. /\ manifest'.next_sstable_id \in Nat /\ manifest'.next_sstable_id <= manifest.next_sstable_id
        /\ rotSnap'.next_sstable_id <= manifest'.next_sstable_id
    BY <1>1, <1>2 DEF Types, TypeOK, ManifestOK, Manifest, JobOK
  <2>2. ThreadRests
    BY <1>2 DEF ThreadRests
  <2> QED
    BY <1>4, <1>5, <2>1, <2>2, ThreadRestsFact
<1>14. WalIds'
  BY <1>1, <1>2 DEF WalIds, NewWal, LastWal
<1>15. Listed'
  BY <1>1, <1>2 DEF Listed, SstablesKept, Refs
<1>16. Files'
  <2>1. NewWal' = NewWal /\ Handles' \subseteq Handles /\ rot' # "Reopen"
    BY <1>2, <1>8 DEF NewWal, Handles
  <2> QED
    BY <1>2, <2>1, SameRotation, SameFiles
<1> QED
  BY <1>1, <1>2, <1>10, <1>11, <1>12, <1>13, <1>14, <1>15, <1>16 DEF IInv, Types, TypeOK
-----------------------------------------------------------------------------
(* Flushes. *)

\* What the compaction thread works on when it has no job.
LEMMA NoJobFact ==
    ASSUME IInv, RotationRests, tables' = tables, job' = NoJob, thread' = "Rest", jobs' = jobs,
           manifest'.next_sstable_id >= manifest.next_sstable_id,
           manifest'.next_sstable_id \in Nat
    PROVE  ThreadOK' /\ JobOK'
<1>1. /\ rotSnap.next_sstable_id <= manifest.next_sstable_id /\ rotSnap.next_sstable_id \in Nat
      /\ manifest.next_sstable_id \in Nat /\ jobs \in 0 .. MaxJobs
  BY DEF IInv, Types, TypeOK, ManifestOK, Manifest, LocalsOK, JobOK, ThreadOK
<1>2. rotSnap'.next_sstable_id <= manifest'.next_sstable_id
  BY <1>1 DEF RotationRests
<1>3. <<>> \in Seq(1 .. Len(tables)) /\ <<>> \in Seq(Ids)
  OBVIOUS
<1>4. JobOK'
  BY <1>2, <1>3 DEF JobOK, NoJob
<1> QED
  BY <1>1, <1>4 DEF ThreadOK

\* A step of the compaction thread, from what it disturbs.
LEMMA ThreadStep ==
    ASSUME IInv, More, RotationRests, tables' = tables, current' = current,
           seen' \in {seen, current}, ManifestOK', ThreadOK', JobOK', WalIds', Listed', Files'
    PROVE  IInv'
<1>1. DirectoryOK' /\ MemoryOK' /\ WritersOK' /\ LocalsOK'
  BY SameTypes
<1>2. alive' \in BOOLEAN /\ restarts' \in 0 .. MaxRestarts
  BY DEF RotationRests, IInv, Types, TypeOK
<1> QED
  BY <1>1, <1>2 DEF IInv, Types, TypeOK

\* A manifest that has only its next SSTable id changed.
LEMMA ReservedFact ==
    ASSUME IInv, NEW n \in Nat, manifest' = [manifest EXCEPT !.next_sstable_id = n],
           previous' = previous
    PROVE  /\ ManifestOK' /\ manifest'.next_sstable_id = n /\ NewWal' = NewWal
           /\ manifest'.wals = manifest.wals /\ manifest'.l0 = manifest.l0
           /\ manifest'.l1 = manifest.l1 /\ manifest'.version = manifest.version
<1>1. ManifestOK /\ manifest \in Manifest
  BY DEF IInv, Types, TypeOK, ManifestOK
<1>2. manifest' \in Manifest
  BY <1>1 DEF Manifest
<1> QED
  BY <1>1, <1>2 DEF ManifestOK, Manifest, NewWal

LEMMA FlushPrepareStep == ASSUME IInv, FlushPrepare PROVE IInv'
<1>1. Types /\ TypeOK /\ WalIds
  BY DEF IInv, Types
<1> DEFINE n == Len(current.frozen)
           r == manifest.next_sstable_id
           ids == [i \in 1 .. n |-> r + i - 1]
           wals == SubSeq(manifest.wals, 1, n)
<1>2. /\ current.frozen # <<>> /\ r + n <= MaxId + 1 /\ jobs < MaxJobs /\ jobs' = jobs + 1
      /\ manifest' = [manifest EXCEPT !.next_sstable_id = r + 1] /\ thread = "Rest"
      /\ \/ thread' = thread /\ job' = job
         \/ /\ n <= Len(manifest.wals) /\ thread' = "FlushWrite"
            /\ job' = [NoJob EXCEPT !.tables = current.frozen, !.wals = wals, !.ids = ids]
      /\ UNCHANGED <<data, walDir, sstDir, previous, alive, current, tables, lsn, nextLsn, pending,
                     leader, acked, rot, rotSnap, rotWal, rotSeen, seen, restarts>>
  <2>1. manifest.wals \in Seq(Ids) /\ Len(manifest.wals) \in Nat /\ n \in Nat
    BY <1>1 DEF TypeOK, ManifestOK, Manifest, MemoryOK, IsVersion, Version
  <2> QED
    BY <2>1 DEF FlushPrepare, diskVars, writeVars, rotVars
<1>3. /\ manifest.wals \in Seq(Ids) /\ r \in Nat /\ current.frozen \in Seq(Nat \ {0})
      /\ n \in Nat /\ Len(tables) \in Nat /\ rotSnap.next_sstable_id \in Nat
      /\ rotSnap.next_sstable_id <= r /\ jobs \in 0 .. MaxJobs
      /\ current.mutable \in Nat /\ current.mutable <= Len(tables)
      /\ \A i \in DOMAIN current.frozen : current.frozen[i] < current.mutable
  <2>1. /\ manifest.wals \in Seq(Ids) /\ r \in Nat /\ rotSnap.next_sstable_id \in Nat
        /\ rotSnap.next_sstable_id <= r
    BY <1>1 DEF Types, TypeOK, ManifestOK, Manifest, LocalsOK, JobOK
  <2>2. /\ current.frozen \in Seq(Nat \ {0}) /\ current.mutable \in Nat
        /\ current.mutable <= Len(tables)
        /\ \A i \in DOMAIN current.frozen : current.frozen[i] < current.mutable
    BY <1>1 DEF TypeOK, MemoryOK, IsVersion, Version
  <2>3. n \in Nat
    BY <2>2
  <2>4. jobs \in 0 .. MaxJobs /\ Len(tables) \in Nat
    BY <1>1, InodeFact DEF TypeOK, ThreadOK
  <2> QED
    BY <2>1, <2>2, <2>3, <2>4
<1>4. RotationRests /\ More
  BY <1>2, SameDirectory DEF RotationRests, diskVars
<1>5. r + 1 \in Nat
  BY <1>3
<1>6. /\ ManifestOK' /\ manifest'.next_sstable_id = r + 1 /\ NewWal' = NewWal
      /\ manifest'.wals = manifest.wals /\ manifest'.l0 = manifest.l0
      /\ manifest'.l1 = manifest.l1 /\ manifest'.version = manifest.version
  <2> HIDE DEF r
  <2> QED
    BY <1>2, <1>5, ReservedFact
<1>7. ThreadOK'
  <2>1. jobs' \in 0 .. MaxJobs
    BY <1>2, <1>3, ConstantFact
  <2> QED
    BY <1>1, <1>2, <2>1 DEF TypeOK, ThreadOK
<1>8. JobOK'
  <2>1. rotSnap'.next_sstable_id <= manifest'.next_sstable_id
    BY <1>2, <1>3, <1>6
  <2>2. CASE thread' = thread /\ job' = job
    BY <1>1, <1>2, <2>1, <2>2 DEF Types, JobOK
  <2>3. CASE /\ n <= Len(manifest.wals) /\ thread' = "FlushWrite"
             /\ job' = [NoJob EXCEPT !.tables = current.frozen, !.wals = wals, !.ids = ids]
    <3>1. current.frozen \in Seq(1 .. Len(tables))
      <4>1. \A i \in 1 .. n : current.frozen[i] \in 1 .. Len(tables)
        <5> SUFFICES ASSUME NEW i \in 1 .. n PROVE current.frozen[i] \in 1 .. Len(tables)
          OBVIOUS
        <5>1. current.frozen[i] \in Nat \ {0} /\ current.frozen[i] < current.mutable
          BY <1>3
        <5> QED
          BY <1>3, <5>1
      <4>2. current.frozen \in Seq(Nat \ {0})
        BY <1>3
      <4> QED
        BY <4>1, <4>2
    <3>2. ids \in Seq(Ids) /\ Len(ids) = n
      <4>1. \A i \in 1 .. n : r + i - 1 \in Ids
        <5> SUFFICES ASSUME NEW i \in 1 .. n PROVE r + i - 1 \in Ids
          OBVIOUS
        <5>1. i \in Nat /\ 1 <= i /\ i <= n /\ r \in Nat /\ n \in Nat /\ r + n <= MaxId + 1
          BY <1>2, <1>3
        <5>2. MaxId \in Nat /\ Ids = 0 .. MaxId
          BY ConstantFact
        <5> HIDE DEF r, n
        <5> QED
          BY <5>1, <5>2
      <4> QED
        BY <1>3, <4>1
    <3>3. wals \in Seq(Ids)
      <4>1. Len(manifest.wals) \in Nat /\ \A i \in 1 .. n : manifest.wals[i] \in Ids
        BY <1>3, <2>3
      <4> QED
        BY <1>3, <4>1, SubSeqProperties
    <3>4. n \in 1 .. n
      BY <1>2, <1>3
    <3> HIDE DEF ids, wals
    <3>5. /\ job'.tables = current.frozen /\ job'.wals = wals /\ job'.ids = ids
          /\ job'.l0 = {} /\ job'.l1 = {}
      BY <2>3 DEF NoJob
    <3>6. Len(job'.tables) \in 1 .. Len(job'.ids)
      BY <3>2, <3>4, <3>5
    <3> QED
      BY <1>2, <2>1, <2>3, <3>1, <3>2, <3>3, <3>5, <3>6 DEF JobOK
  <2> QED
    BY <1>2, <2>2, <2>3
<1>9. WalIds'
  <2>1. rotSnap'.next_wal_id = NewWal
    BY <1>1, <1>2 DEF WalIds
  <2> QED
    BY <1>2, <1>6, <2>1, WalIdsKept
<1>10. Listed'
  BY <1>2, <1>6, ListedKept
<1>11. Files'
  <2>1. Handles' \subseteq Handles
    BY <1>2 DEF Handles
  <2> QED
    BY <1>2, <1>6, <2>1, SameRotation, SameFiles
<1> QED
  BY <1>2, <1>4, <1>6, <1>7, <1>8, <1>9, <1>10, <1>11, ThreadStep

\* A step that writes an SSTable of the job, or fails to.
LEMMA SstStep ==
    ASSUME IInv, RotationRests, NEW id \in Ids, NEW W, W \subseteq Writes,
           WriteSst(id, W) \/ UNCHANGED <<data, sstDir>>,
           UNCHANGED <<walDir, previous, current, tables, seen>>,
           ManifestOK', NewWal' = NewWal, manifest'.wals = manifest.wals,
           manifest'.l0 = manifest.l0, manifest'.l1 = manifest.l1,
           manifest'.version = manifest.version, thread' # "GcDelete", ThreadOK', JobOK'
    PROVE  IInv'
<1>1. Handles' = Handles /\ UNCHANGED <<lsn, nextLsn>> /\ rotSnap' = rotSnap
  BY DEF Handles, RotationRests
<1>2. Forgets /\ More /\ \A j \in Ids : sstDir[j] # 0 => sstDir'[j] # 0
  <2>1. CASE WriteSst(id, W)
    BY <1>1, <2>1, SstForgets
  <2>2. CASE UNCHANGED <<data, sstDir>>
    <3>1. More
      BY <2>2, SameDirectory DEF diskVars
    <3>2. Forgets
      BY <1>1, <2>2 DEF Forgets
    <3> QED
      BY <2>2, <3>1, <3>2
  <2> QED
    BY <2>1, <2>2
<1>3. Files'
  <2>1. NotRotated' => NotRotated /\ rot' # "Reopen"
    BY SameRotation DEF RotationRests
  <2> QED
    BY <1>2, <2>1, FilesKept
<1>4. WalIds'
  <2>1. rotSnap'.next_wal_id = NewWal /\ restarts' = restarts
    BY <1>1 DEF IInv, WalIds, RotationRests
  <2> QED
    BY <2>1, WalIdsKept
<1>5. Listed'
  BY <1>1, <1>2, ListedKept
<1> QED
  BY <1>2, <1>3, <1>4, <1>5, ThreadStep

\* The id and the memtable that FlushWrite takes.
LEMMA FlushWriteFact ==
    ASSUME IInv, thread = "FlushWrite"
    PROVE  /\ job.ids[Len(job.ids) - Len(job.tables) + 1] \in Ids
           /\ tables[Head(job.tables)] \subseteq Writes
           /\ Tail(job.tables) \in Seq(1 .. Len(tables))
           /\ Len(Tail(job.tables)) = Len(job.tables) - 1
           /\ Len(job.tables) \in Nat /\ Len(job.ids) \in Nat
           /\ Len(job.tables) \in 1 .. Len(job.ids)
<1>1. /\ job.tables \in Seq(1 .. Len(tables)) /\ job.ids \in Seq(Ids)
      /\ Len(job.tables) \in 1 .. Len(job.ids) /\ tables \in Seq(SUBSET Writes)
  BY DEF IInv, Types, TypeOK, MemoryOK, JobOK
<1>2. Len(job.tables) \in Nat /\ Len(job.ids) \in Nat /\ Len(tables) \in Nat
  BY <1>1
<1>3. Len(job.ids) - Len(job.tables) + 1 \in 1 .. Len(job.ids)
  <2>1. \A a, b \in Nat : a \in 1 .. b => b - a + 1 \in 1 .. b
    OBVIOUS
  <2> QED
    BY <1>1, <1>2, <2>1, Zenon
<1>4. job.tables # <<>>
  BY <1>1, <1>2
<1>5. Head(job.tables) \in 1 .. Len(tables) /\ Tail(job.tables) \in Seq(1 .. Len(tables))
      /\ Len(Tail(job.tables)) = Len(job.tables) - 1
  BY <1>1, <1>4, HeadTailProperties, Zenon
<1>6. tables[Head(job.tables)] \in SUBSET Writes
  BY <1>1, <1>5
<1>7. job.ids[Len(job.ids) - Len(job.tables) + 1] \in Ids
  BY <1>1, <1>3, ElementOfSeq, Zenon
<1> QED
  BY <1>1, <1>2, <1>5, <1>6, <1>7

LEMMA FlushWriteStep == ASSUME IInv, FlushWrite PROVE IInv'
<1> DEFINE id == job.ids[Len(job.ids) - Len(job.tables) + 1]
<1>1. Types /\ TypeOK /\ ManifestOK
  BY DEF IInv, Types, TypeOK
<1>2. /\ thread = "FlushWrite" /\ WriteSst(id, tables[Head(job.tables)])
      /\ job' = [job EXCEPT !.tables = Tail(job.tables)]
      /\ thread' = (IF Len(job.tables) = 1 THEN "FlushCommit" ELSE "FlushWrite")
      /\ UNCHANGED <<walDir, previous, alive, manifest, current, tables, lsn, nextLsn, pending,
                     leader, acked, rot, rotSnap, rotWal, rotSeen, seen, jobs, restarts>>
  BY DEF FlushWrite, writeVars, rotVars
<1>3. /\ id \in Ids /\ tables[Head(job.tables)] \subseteq Writes
      /\ Tail(job.tables) \in Seq(1 .. Len(tables))
      /\ Len(Tail(job.tables)) = Len(job.tables) - 1
      /\ Len(job.tables) \in Nat /\ Len(job.ids) \in Nat
      /\ Len(job.tables) \in 1 .. Len(job.ids)
  BY <1>2, FlushWriteFact
<1> HIDE DEF id
<1>4. RotationRests
  BY <1>2 DEF RotationRests
<1>5. ManifestOK' /\ NewWal' = NewWal
  BY <1>1, <1>2 DEF ManifestOK, NewWal
<1>6. ThreadOK' /\ thread' # "GcDelete"
  BY <1>1, <1>2 DEF TypeOK, ThreadOK
<1>7. JobOK'
  <2>1. JobOK
    BY <1>1 DEF Types
  <2>2. /\ job'.wals = job.wals /\ job'.ids = job.ids /\ job'.l0 = job.l0 /\ job'.l1 = job.l1
        /\ job'.tables = Tail(job.tables)
    BY <1>2
  <2>3. thread' = "FlushWrite" => Len(Tail(job.tables)) \in 1 .. Len(job.ids)
    <3>1. \A a, b \in Nat : a \in 1 .. b /\ a # 1 => a - 1 \in 1 .. b
      OBVIOUS
    <3>2. thread' = "FlushWrite" => Len(job.tables) # 1
      BY <1>2
    <3> QED
      BY <1>3, <3>1, <3>2
  <2> QED
    BY <1>2, <1>3, <2>1, <2>2, <2>3 DEF JobOK
<1> QED
  BY <1>2, <1>3, <1>4, <1>5, <1>6, <1>7, SstStep

LEMMA FlushFailsStep == ASSUME IInv, FlushFails PROVE IInv'
<1>1. Types /\ TypeOK /\ ManifestOK /\ manifest.next_sstable_id \in Nat
  BY DEF IInv, Types, TypeOK, ManifestOK, Manifest
<1>2. /\ \/ UNCHANGED <<data, sstDir>>
         \/ /\ thread = "FlushWrite"
            /\ WriteSst(job.ids[Len(job.ids) - Len(job.tables) + 1], {})
      /\ thread' = "Rest" /\ job' = NoJob
      /\ UNCHANGED <<walDir, previous, alive, manifest, current, tables, lsn, nextLsn, pending,
                     leader, acked, rot, rotSnap, rotWal, rotSeen, seen, jobs, restarts>>
  BY DEF FlushFails, writeVars, rotVars
<1>3. PICK id \in Ids : WriteSst(id, {}) \/ UNCHANGED <<data, sstDir>>
  BY <1>2, FlushWriteFact, ConstantFact
<1>4. RotationRests /\ NewWal' = NewWal
  BY <1>2 DEF RotationRests, NewWal
<1>5. ManifestOK' /\ thread' # "GcDelete"
  BY <1>1, <1>2 DEF ManifestOK
<1>6. ThreadOK' /\ JobOK'
  BY <1>1, <1>2, <1>4, NoJobFact
<1>7. {} \subseteq Writes
  OBVIOUS
<1> QED
  BY <1>2, <1>3, <1>4, <1>5, <1>6, <1>7, SstStep

\* What is left of a sequence without its first n elements.
LEMMA DropFact ==
    ASSUME NEW T, NEW s \in Seq(T), NEW n \in Nat
    PROVE  LET u == SubSeq(s, n + 1, Len(s)) IN
           /\ u \in Seq(T)
           /\ \A i \in DOMAIN u : \E j \in DOMAIN s : u[i] = s[j]
           /\ u # <<>> => s # <<>> /\ u[Len(u)] = s[Len(s)]
<1> DEFINE u == SubSeq(s, n + 1, Len(s))
<1> SUFFICES /\ u \in Seq(T)
             /\ \A i \in DOMAIN u : \E j \in DOMAIN s : u[i] = s[j]
             /\ u # <<>> => s # <<>> /\ u[Len(u)] = s[Len(s)]
  OBVIOUS
<1>0. u = SubSeq(s, n + 1, Len(s))
  OBVIOUS
<1> HIDE DEF u
<1>1. Len(s) \in Nat /\ DOMAIN s = 1 .. Len(s)
  OBVIOUS
<1>2. ASSUME n + 1 > Len(s) PROVE u = <<>>
  BY <1>0, <1>1, <1>2, SubSeqEmpty
<1>3. CASE n + 1 <= Len(s)
  <2>1. PICK k \in Nat : k = Len(s) - n /\ k >= 1
    <3>1. Len(s) - n \in Nat /\ Len(s) - n >= 1
      BY <1>1, <1>3
    <3> QED
      BY <3>1
  <2>2. Len(s) - (n + 1) + 1 = k /\ n + k = Len(s) /\ Len(s) \in Int /\ n + 1 \in Int
    BY <1>1, <2>1
  <2>3. /\ u \in Seq(T)
        /\ Len(u) = IF n + 1 <= Len(s) THEN Len(s) - (n + 1) + 1 ELSE 0
        /\ \A i \in 1 .. Len(s) - (n + 1) + 1 : u[i] = s[n + 1 + i - 1]
    <3>1. \A i \in n + 1 .. Len(s) : s[i] \in T
      BY <1>1
    <3> QED
      BY <1>0, <2>2, <3>1, SubSeqProperties
  <2>4. Len(u) = k /\ \A i \in 1 .. k : u[i] = s[n + 1 + i - 1]
    BY <1>3, <2>2, <2>3
  <2>5. \A i \in 1 .. k : n + 1 + i - 1 = n + i /\ n + i \in 1 .. Len(s)
    BY <1>1, <2>1, <2>2
  <2>6. DOMAIN u = 1 .. k
    BY <2>3, <2>4
  <2>7. k \in 1 .. k
    BY <2>1
  <2>8. u[Len(u)] = s[Len(s)]
    BY <2>2, <2>4, <2>5, <2>7
  <2>9. \A i \in DOMAIN u : \E j \in DOMAIN s : u[i] = s[j]
    BY <1>1, <2>4, <2>5, <2>6
  <2>10. s # <<>>
    BY <1>1, <1>3
  <2> QED
    BY <2>3, <2>8, <2>9, <2>10
<1>4. CASE u = <<>>
  <2>1. <<>> \in Seq(T) /\ DOMAIN <<>> = {}
    OBVIOUS
  <2> QED
    BY <1>4, <2>1
<1>5. n + 1 > Len(s) \/ n + 1 <= Len(s)
  BY <1>1
<1> QED
  BY <1>2, <1>3, <1>4, <1>5

\* A commit of the compaction thread, whose outputs are named.
LEMMA CommitStep ==
    ASSUME IInv, RotationRests, UNCHANGED <<data, walDir, sstDir, current, tables, seen, job, jobs>>,
           manifest' \in Manifest, manifest'.version = manifest.version + 1,
           manifest'.next_wal_id = manifest.next_wal_id,
           manifest'.next_sstable_id = manifest.next_sstable_id,
           \A i \in DOMAIN manifest'.wals :
             \E j \in DOMAIN manifest.wals : manifest'.wals[i] = manifest.wals[j],
           manifest'.wals # <<>> => manifest.wals # <<>> /\ LastWal' = LastWal,
           previous' = Refs(manifest),
           \A id \in manifest'.l0 \cup manifest'.l1 : id \in Refs(manifest).ssts \/ sstDir[id] # 0,
           thread' \in {"FlushLoad", "CompactLoad"}
    PROVE  IInv'
<1>1. Types /\ TypeOK /\ WalIds /\ Listed
  BY DEF IInv, Types
<1>2. /\ manifest \in Manifest /\ manifest.wals \in Seq(Ids) /\ manifest.version \in Nat
      /\ rotSnap \in Manifest /\ rotSnap.version \in Nat /\ rotSnap.version <= manifest.version
  BY <1>1 DEF Types, TypeOK, ManifestOK, LocalsOK, Manifest, Listed
<1>3. ManifestOK'
  <2>1. {manifest.wals[i] : i \in DOMAIN manifest.wals} \subseteq Ids
    BY <1>2
  <2>2. manifest.l0 \cup manifest.l1 \subseteq Ids
    BY <1>2 DEF Manifest
  <2> QED
    BY <2>1, <2>2 DEF ManifestOK, Refs
<1>4. NewWal' = NewWal /\ NewWal \in Ids /\ rot' = rot
  BY <1>1, InodeFact DEF NewWal, RotationRests
<1>5. ThreadOK' /\ JobOK'
  BY <1>1 DEF Types, TypeOK, ThreadOK, JobOK, RotationRests
<1>6. WalIds'
  <2>1. \A i \in DOMAIN manifest'.wals : manifest'.wals[i] <= LastWal /\ manifest'.wals # <<>>
    <3>1. manifest'.wals \in Seq(Ids)
      BY DEF Manifest
    <3> QED
      BY <1>1, <3>1 DEF WalIds
  <2>2. rotSnap' = rotSnap /\ restarts' = restarts
    BY DEF RotationRests
  <2> QED
    BY <1>1, <1>4, <2>1, <2>2 DEF WalIds
<1>7. Listed'
  <2>1. SstablesKept'
    <3>1. Refs(manifest').ssts = manifest'.l0 \cup manifest'.l1
      BY DEF Refs
    <3> QED
      BY <1>1, <3>1 DEF SstablesKept, Listed, Refs
  <2>2. /\ rotSnap'.version <= manifest'.version /\ rotSnap'.version # manifest'.version
    BY <1>2 DEF RotationRests
  <2> QED
    BY <2>1, <2>2 DEF Listed
<1>8. Files'
  <2>1. NotRotated' => NotRotated
    BY <1>4 DEF NotRotated
  <2>2. NotRotated => rot # "Reopen"
    BY DEF IInv, Files, NewWalEmpty
  <2>3. Handles' \subseteq Handles /\ UNCHANGED <<lsn, nextLsn>>
    BY DEF Handles, RotationRests
  <2> QED
    BY <1>4, <2>1, <2>2, <2>3, SameFiles
<1>9. More
  BY SameDirectory DEF diskVars
<1> QED
  BY <1>3, <1>5, <1>6, <1>7, <1>8, <1>9, ThreadStep

LEMMA FlushCommitStep == ASSUME IInv, FlushCommit PROVE IInv'
<1> DEFINE wals == SubSeq(manifest.wals, Len(job.wals) + 1, Len(manifest.wals))
           l0 == manifest.l0 \cup IdsOf(job.ids)
<1>1. /\ manifest \in Manifest /\ manifest.wals \in Seq(Ids) /\ manifest.version + 1 \in Nat
      /\ job.ids \in Seq(Ids) /\ Len(job.wals) \in Nat
  <2>1. manifest \in Manifest /\ job.ids \in Seq(Ids) /\ job.wals \in Seq(Ids)
    BY DEF IInv, Types, TypeOK, ManifestOK, JobOK
  <2> QED
    BY <2>1 DEF Manifest
<1>2. /\ Opens(IdsOf(job.ids))
      /\ manifest' = [manifest EXCEPT !.wals = wals, !.l0 = l0, !.version = manifest.version + 1]
      /\ previous' = Refs(manifest) /\ thread' = "FlushLoad"
      /\ UNCHANGED <<data, walDir, sstDir, alive, current, tables, lsn, nextLsn, pending, leader,
                     acked, rot, rotSnap, rotWal, rotSeen, job, seen, jobs, restarts>>
  BY DEF FlushCommit, diskVars, writeVars, rotVars
<1>3. /\ wals \in Seq(Ids)
      /\ \A i \in DOMAIN wals : \E j \in DOMAIN manifest.wals : wals[i] = manifest.wals[j]
      /\ wals # <<>> => manifest.wals # <<>>
                         /\ wals[Len(wals)] = manifest.wals[Len(manifest.wals)]
  BY <1>1, DropFact, Zenon
<1>4. l0 \subseteq Ids /\ \A id \in l0 \cup manifest.l1 : id \in Refs(manifest).ssts \/ sstDir[id] # 0
  BY <1>1, <1>2 DEF IdsOf, Opens, Manifest, Refs
<1> HIDE DEF l0, wals
<1>5. /\ manifest' \in Manifest /\ manifest'.version = manifest.version + 1
      /\ manifest'.next_wal_id = manifest.next_wal_id
      /\ manifest'.next_sstable_id = manifest.next_sstable_id
      /\ manifest'.wals = wals /\ manifest'.l0 = l0 /\ manifest'.l1 = manifest.l1
  BY <1>1, <1>2, <1>3, <1>4 DEF Manifest
<1>6. manifest'.wals # <<>> => manifest.wals # <<>> /\ LastWal' = LastWal
  BY <1>3, <1>5 DEF LastWal
<1>7. RotationRests
  BY <1>2 DEF RotationRests
<1> QED
  BY <1>2, <1>3, <1>4, <1>5, <1>6, <1>7, CommitStep

LEMMA LoadVersionStep == ASSUME IInv, LoadVersion PROVE IInv'
<1>1. Types /\ TypeOK /\ WalIds /\ Listed
  BY DEF IInv, Types
<1>2. /\ seen' = current /\ thread \in {"FlushLoad", "CompactLoad"}
      /\ thread' \in {"FlushStore", "CompactStore"}
      /\ UNCHANGED <<data, walDir, sstDir, previous, alive, manifest, current, tables, lsn, nextLsn,
                     pending, leader, acked, rot, rotSnap, rotWal, rotSeen, job, jobs, restarts>>
  BY DEF LoadVersion, diskVars, writeVars, rotVars
<1>3. RotationRests /\ More
  BY <1>2, SameDirectory DEF RotationRests, diskVars
<1>4. ManifestOK' /\ ThreadOK' /\ JobOK'
  BY <1>1, <1>2 DEF Types, TypeOK, ManifestOK, ThreadOK, JobOK
<1>5. WalIds' /\ NewWal' = NewWal
  BY <1>1, <1>2 DEF WalIds, NewWal, LastWal
<1>6. Listed'
  BY <1>2, ListedKept
<1>7. Files'
  <2>1. Handles' \subseteq Handles
    BY <1>2 DEF Handles
  <2> QED
    BY <1>2, <1>5, <2>1, SameRotation, SameFiles
<1> QED
  BY <1>2, <1>3, <1>4, <1>5, <1>6, <1>7, ThreadStep

\* The compaction thread stores a version with the handles of the one it has loaded.
LEMMA StoreStep ==
    ASSUME IInv, RotationRests, thread' = "GcList",
           UNCHANGED <<data, walDir, sstDir, previous, manifest, tables, job, jobs, seen>>,
           IsVersion(current', Len(data), Len(tables)), current'.wal = seen.wal
    PROVE  IInv'
<1>1. Types /\ TypeOK /\ WalIds /\ Listed
  BY DEF IInv, Types
<1>2. /\ rot' = rot /\ rotSnap' = rotSnap /\ rotWal' = rotWal /\ rotSeen' = rotSeen
      /\ lsn' = lsn /\ nextLsn' = nextLsn /\ pending' = pending /\ leader' = leader
      /\ acked' = acked /\ alive' = alive /\ restarts' = restarts
  BY DEF RotationRests
<1>3. DirectoryOK' /\ MemoryOK' /\ ManifestOK'
  BY <1>1 DEF TypeOK, DirectoryOK, MemoryOK, ManifestOK
<1>4. WritersOK' /\ LocalsOK'
  BY <1>1, <1>2 DEF Types, TypeOK, WritersOK, LocalsOK
<1>5. ThreadOK' /\ JobOK'
  BY <1>1, <1>2 DEF Types, TypeOK, ThreadOK, JobOK
<1>6. WalIds' /\ NewWal' = NewWal
  BY <1>1, <1>2 DEF WalIds, NewWal, LastWal
<1>7. Listed'
  BY <1>2, ListedKept
<1>8. Files'
  <2>1. Handles' \subseteq Handles
    BY <1>2 DEF Handles
  <2> QED
    BY <1>2, <1>6, <2>1, SameRotation, SameFiles
<1> QED
  BY <1>1, <1>2, <1>3, <1>4, <1>5, <1>6, <1>7, <1>8 DEF IInv, Types, TypeOK

\* The SSTables of ids are pairs of an id and an inode.
LEMMA ObjectsFact ==
    ASSUME TypeOK, NEW ids, ids \subseteq Ids
    PROVE  Objects(ids) \subseteq Ids \X Nat
<1>1. \A id \in Ids : sstDir[id] \in 0 .. Len(data) /\ Len(data) \in Nat
  BY DEF TypeOK, DirectoryOK
<1>2. \A id \in Ids : sstDir[id] \in Nat
  BY <1>1
<1> QED
  BY <1>2 DEF Objects

LEMMA FlushStoreStep == ASSUME IInv, FlushStore PROVE IInv'
<1> DEFINE f == SubSeq(seen.frozen, Len(job.wals) + 1, Len(seen.frozen))
           l0 == seen.l0 \cup Objects(IdsOf(job.ids))
<1>1. /\ IsVersion(seen, Len(data), Len(tables)) /\ job.wals \in Seq(Ids) /\ job.ids \in Seq(Ids)
      /\ TypeOK
  BY DEF IInv, Types, LocalsOK, JobOK
<1>2. /\ current' = [seen EXCEPT !.frozen = f, !.l0 = l0] /\ thread' = "GcList"
      /\ UNCHANGED <<data, walDir, sstDir, previous, manifest, tables, job, jobs, seen, alive, lsn,
                     nextLsn, pending, leader, acked, rot, rotSnap, rotWal, rotSeen, restarts>>
  BY DEF FlushStore, diskVars, writeVars, rotVars
<1>3. RotationRests
  BY <1>2 DEF RotationRests
<1>4. seen \in Version /\ seen.frozen \in Seq(Nat \ {0}) /\ seen.l0 \subseteq Ids \X Nat
  BY <1>1 DEF IsVersion, Version
<1>5. f \in Seq(Nat \ {0}) /\ \A i \in DOMAIN f : f[i] < seen.mutable
  <2>1. Len(job.wals) \in Nat /\ seen.frozen \in Seq(Nat \ {0})
    BY <1>1, <1>4
  <2>2. \A i \in DOMAIN seen.frozen : seen.frozen[i] < seen.mutable
    BY <1>1 DEF IsVersion
  <2>3. /\ f \in Seq(Nat \ {0})
        /\ \A i \in DOMAIN f : \E j \in DOMAIN seen.frozen : f[i] = seen.frozen[j]
        /\ f # <<>> => seen.frozen # <<>> /\ f[Len(f)] = seen.frozen[Len(seen.frozen)]
    BY <2>1, DropFact, ZenonT(60)
  <2> HIDE DEF f
  <2> QED
    BY <2>2, <2>3
<1>6. l0 \subseteq Ids \X Nat
  <2>1. IdsOf(job.ids) \subseteq Ids
    BY <1>1 DEF IdsOf
  <2> QED
    BY <1>1, <1>4, <2>1, ObjectsFact
<1> HIDE DEF f, l0
<1>7. /\ current' \in Version /\ current'.wal = seen.wal /\ current'.mutable = seen.mutable
      /\ current'.frozen = f
  BY <1>2, <1>4, <1>5, <1>6 DEF Version
<1>8. IsVersion(current', Len(data), Len(tables))
  BY <1>1, <1>5, <1>7 DEF IsVersion
<1> QED
  BY <1>2, <1>3, <1>7, <1>8, StoreStep
-----------------------------------------------------------------------------
(* Compactions and garbage collection. *)

LEMMA CompactSelectStep == ASSUME IInv, CompactSelect PROVE IInv'
<1>1. Types /\ TypeOK /\ ManifestOK /\ ThreadOK /\ JobOK /\ manifest \in Manifest
  BY DEF IInv, Types, TypeOK, ManifestOK
<1>2. /\ manifest.next_sstable_id <= MaxId /\ jobs < MaxJobs /\ jobs' = jobs + 1
      /\ thread' = "CompactWrite"
      /\ UNCHANGED <<data, walDir, sstDir, previous, alive, manifest, current, tables, lsn, nextLsn,
                     pending, leader, acked, rot, rotSnap, rotWal, rotSeen, seen, restarts>>
  BY DEF CompactSelect, diskVars, writeVars, rotVars
<1>3. PICK overlap \in SUBSET manifest.l1 :
        job' = [NoJob EXCEPT !.l0 = manifest.l0, !.l1 = overlap]
  BY DEF CompactSelect
<1>4. RotationRests
  BY <1>2 DEF RotationRests
<1>5. ManifestOK' /\ NewWal' = NewWal
  BY <1>1, <1>2 DEF ManifestOK, NewWal
<1>6. ThreadOK' /\ thread' # "GcDelete"
  <2>1. jobs' \in 0 .. MaxJobs
    BY <1>1, <1>2, ConstantFact DEF ThreadOK
  <2> QED
    BY <1>2, <2>1 DEF ThreadOK
<1>7. JobOK'
  <2>1. /\ job'.tables = <<>> /\ job'.ids = <<>> /\ job'.wals = <<>>
        /\ job'.l0 = manifest.l0 /\ job'.l1 = overlap
    BY <1>3 DEF NoJob
  <2>2. job'.l0 \subseteq Ids /\ job'.l1 \subseteq Ids
    BY <1>1, <2>1 DEF Manifest
  <2>3. <<>> \in Seq(1 .. Len(tables)) /\ <<>> \in Seq(Ids)
    OBVIOUS
  <2> QED
    BY <1>1, <1>2, <2>1, <2>2, <2>3 DEF JobOK
<1>8. 0 \in Ids /\ {} \subseteq Writes
  BY ConstantFact
<1> QED
  BY <1>2, <1>4, <1>5, <1>6, <1>7, <1>8, SstStep

\* The id and the entries that an output of a compaction gets.
LEMMA CompactWriteFact ==
    ASSUME IInv, thread = "CompactWrite"
    PROVE  /\ manifest.next_sstable_id \in Ids
           /\ manifest.next_sstable_id + 1 \in Nat
           /\ manifest.next_sstable_id <= manifest.next_sstable_id + 1
           /\ \A id \in Ids : sstDir[id] # 0 => data[sstDir[id]] \subseteq Writes
<1>1. manifest.next_sstable_id \in Nat /\ manifest.next_sstable_id <= MaxId
      /\ data \in Seq(SUBSET Writes)
  BY DEF IInv, Types, TypeOK, ManifestOK, Manifest, JobOK, DirectoryOK
<1>2. \A id \in Ids : sstDir[id] # 0 => sstDir[id] \in 1 .. Len(data)
  BY InodeFact DEF IInv
<1> QED
  BY <1>1, <1>2, ConstantFact

LEMMA CompactWriteStep == ASSUME IInv, CompactWrite PROVE IInv'
<1> DEFINE id == manifest.next_sstable_id
           inputs == job.l0 \cup job.l1
<1>1. Types /\ TypeOK /\ ThreadOK /\ JobOK
  BY DEF IInv, Types, TypeOK
<1>2. /\ thread = "CompactWrite" /\ Opens(inputs)
      /\ manifest' = [manifest EXCEPT !.next_sstable_id = id + 1]
      /\ job' = [job EXCEPT !.ids = <<id>>] /\ thread' = "CompactCommit"
      /\ UNCHANGED <<walDir, previous, alive, current, tables, lsn, nextLsn, pending, leader, acked,
                     rot, rotSnap, rotWal, rotSeen, seen, jobs, restarts>>
  BY DEF CompactWrite, writeVars, rotVars
<1>3. PICK read \in SUBSET (IF id \in inputs THEN data[sstDir[id]] ELSE {}) :
        WriteSst(id, read \cup UNION {data[sstDir[i]] : i \in inputs \ {id}})
  BY DEF CompactWrite
<1>4. /\ id \in Ids /\ id + 1 \in Nat /\ id <= id + 1
      /\ \A i \in Ids : sstDir[i] # 0 => data[sstDir[i]] \subseteq Writes
  BY <1>2, CompactWriteFact
<1>5. inputs \subseteq Ids /\ \A i \in inputs : sstDir[i] # 0
  BY <1>1, <1>2 DEF JobOK, Opens
<1>6. read \cup UNION {data[sstDir[i]] : i \in inputs \ {id}} \subseteq Writes
  BY <1>3, <1>4, <1>5
<1>7. /\ ManifestOK' /\ manifest'.next_sstable_id = id + 1 /\ NewWal' = NewWal
      /\ manifest'.wals = manifest.wals /\ manifest'.l0 = manifest.l0
      /\ manifest'.l1 = manifest.l1 /\ manifest'.version = manifest.version
  <2> HIDE DEF id
  <2> QED
    BY <1>2, <1>4, ReservedFact
<1>8. RotationRests
  BY <1>2 DEF RotationRests
<1>9. ThreadOK' /\ thread' # "GcDelete"
  BY <1>1, <1>2 DEF ThreadOK
<1>10. JobOK'
  <2>1. <<id>> \in Seq(Ids)
    BY <1>4
  <2>2. /\ job'.tables = job.tables /\ job'.wals = job.wals /\ job'.l0 = job.l0 /\ job'.l1 = job.l1
        /\ job'.ids = <<id>>
    BY <1>2
  <2>3. rotSnap'.next_sstable_id <= manifest'.next_sstable_id
    <3>1. rotSnap.next_sstable_id \in Nat /\ rotSnap.next_sstable_id <= id /\ id \in Nat
      BY <1>1 DEF Types, TypeOK, ManifestOK, LocalsOK, Manifest, JobOK
    <3> QED
      BY <1>2, <1>7, <3>1
  <2> QED
    BY <1>1, <1>2, <2>1, <2>2, <2>3 DEF JobOK
<1> HIDE DEF id, inputs
<1> QED
  BY <1>2, <1>3, <1>4, <1>6, <1>7, <1>8, <1>9, <1>10, SstStep

LEMMA CompactCommitStep == ASSUME IInv, CompactCommit PROVE IInv'
<1> DEFINE l0 == manifest.l0 \ job.l0
           l1 == (manifest.l1 \ job.l1) \cup IdsOf(job.ids)
<1>1. /\ manifest \in Manifest /\ manifest.wals \in Seq(Ids) /\ manifest.version + 1 \in Nat
      /\ job.ids \in Seq(Ids)
  <2>1. manifest \in Manifest /\ job.ids \in Seq(Ids)
    BY DEF IInv, Types, TypeOK, ManifestOK, JobOK
  <2> QED
    BY <2>1 DEF Manifest
<1>2. /\ Opens(IdsOf(job.ids))
      /\ manifest' = [manifest EXCEPT !.l0 = l0, !.l1 = l1, !.version = manifest.version + 1]
      /\ previous' = Refs(manifest) /\ thread' = "CompactLoad"
      /\ UNCHANGED <<data, walDir, sstDir, alive, current, tables, lsn, nextLsn, pending, leader,
                     acked, rot, rotSnap, rotWal, rotSeen, job, seen, jobs, restarts>>
  BY DEF CompactCommit, diskVars, writeVars, rotVars
<1>3. l0 \subseteq Ids /\ l1 \subseteq Ids
      /\ \A id \in l0 \cup l1 : id \in Refs(manifest).ssts \/ sstDir[id] # 0
  BY <1>1, <1>2 DEF IdsOf, Opens, Manifest, Refs
<1> HIDE DEF l0, l1
<1>4. /\ manifest' \in Manifest /\ manifest'.version = manifest.version + 1
      /\ manifest'.next_wal_id = manifest.next_wal_id
      /\ manifest'.next_sstable_id = manifest.next_sstable_id
      /\ manifest'.wals = manifest.wals /\ manifest'.l0 = l0 /\ manifest'.l1 = l1
  BY <1>1, <1>2, <1>3 DEF Manifest
<1>5. manifest'.wals # <<>> => manifest.wals # <<>> /\ LastWal' = LastWal
  BY <1>4 DEF LastWal
<1>6. RotationRests
  BY <1>2 DEF RotationRests
<1> QED
  BY <1>2, <1>3, <1>4, <1>5, <1>6, CommitStep

LEMMA CompactFailsStep == ASSUME IInv, CompactFails PROVE IInv'
<1> DEFINE id == manifest.next_sstable_id
<1>1. Types /\ TypeOK /\ ManifestOK /\ id \in Nat /\ JobOK
  BY DEF IInv, Types, TypeOK, ManifestOK, Manifest
<1>2. /\ \/ UNCHANGED <<data, sstDir, manifest>>
         \/ /\ thread = "CompactWrite"
            /\ manifest' = [manifest EXCEPT !.next_sstable_id = id + 1]
            /\ WriteSst(id, {}) \/ UNCHANGED <<data, sstDir>>
      /\ thread' = "Rest" /\ job' = NoJob
      /\ UNCHANGED <<walDir, previous, alive, current, tables, lsn, nextLsn, pending, leader, acked,
                     rot, rotSnap, rotWal, rotSeen, seen, jobs, restarts>>
  BY DEF CompactFails, writeVars, rotVars
<1>3. PICK i \in Ids : WriteSst(i, {}) \/ UNCHANGED <<data, sstDir>>
  BY <1>2, CompactWriteFact, ConstantFact
<1>4. RotationRests
  BY <1>2 DEF RotationRests
<1> HIDE DEF id
<1>5. PICK n \in Nat : manifest' = [manifest EXCEPT !.next_sstable_id = n] /\ n >= id
  <2>1. CASE UNCHANGED manifest
    <3>1. manifest' = [manifest EXCEPT !.next_sstable_id = id] /\ id >= id
      BY <1>1, <2>1 DEF Manifest, ManifestOK, id
    <3> QED
      BY <1>1, <3>1
  <2>2. CASE manifest' = [manifest EXCEPT !.next_sstable_id = id + 1]
    <3>1. id + 1 \in Nat /\ id + 1 >= id
      BY <1>1
    <3> QED
      BY <2>2, <3>1
  <2> QED
    BY <1>2, <2>1, <2>2
<1>6. /\ ManifestOK' /\ manifest'.next_sstable_id = n /\ NewWal' = NewWal
      /\ manifest'.wals = manifest.wals /\ manifest'.l0 = manifest.l0
      /\ manifest'.l1 = manifest.l1 /\ manifest'.version = manifest.version
  BY <1>2, <1>5, ReservedFact
<1>7. ThreadOK' /\ JobOK' /\ thread' # "GcDelete"
  BY <1>1, <1>2, <1>4, <1>5, <1>6, NoJobFact DEF id
<1>8. {} \subseteq Writes
  OBVIOUS
<1> QED
  BY <1>2, <1>3, <1>4, <1>6, <1>7, <1>8, SstStep

LEMMA CompactStoreStep == ASSUME IInv, CompactStore PROVE IInv'
<1> DEFINE l0 == {o \in seen.l0 : o[1] \notin job.l0}
           l1 == {o \in seen.l1 : o[1] \notin job.l1} \cup Objects(IdsOf(job.ids))
<1>1. IsVersion(seen, Len(data), Len(tables)) /\ job.ids \in Seq(Ids) /\ TypeOK
  BY DEF IInv, Types, LocalsOK, JobOK
<1>2. /\ current' = [seen EXCEPT !.l0 = l0, !.l1 = l1] /\ thread' = "GcList"
      /\ UNCHANGED <<data, walDir, sstDir, previous, manifest, tables, job, jobs, seen, alive, lsn,
                     nextLsn, pending, leader, acked, rot, rotSnap, rotWal, rotSeen, restarts>>
  BY DEF CompactStore, diskVars, writeVars, rotVars
<1>3. RotationRests
  BY <1>2 DEF RotationRests
<1>4. seen \in Version /\ seen.l0 \subseteq Ids \X Nat /\ seen.l1 \subseteq Ids \X Nat
  BY <1>1 DEF IsVersion, Version
<1>5. l0 \subseteq Ids \X Nat /\ l1 \subseteq Ids \X Nat
  <2>1. IdsOf(job.ids) \subseteq Ids
    BY <1>1 DEF IdsOf
  <2> QED
    BY <1>1, <1>4, <2>1, ObjectsFact
<1> HIDE DEF l0, l1
<1>6. /\ current' \in Version /\ current'.wal = seen.wal /\ current'.mutable = seen.mutable
      /\ current'.frozen = seen.frozen
  BY <1>2, <1>4, <1>5 DEF Version
<1>7. IsVersion(current', Len(data), Len(tables))
  BY <1>1, <1>6 DEF IsVersion
<1> QED
  BY <1>2, <1>3, <1>6, <1>7, StoreStep

LEMMA GcListStep == ASSUME IInv, GcList PROVE IInv'
<1>1. Types /\ TypeOK /\ ManifestOK /\ ThreadOK /\ JobOK /\ Listed /\ WalIds
  BY DEF IInv, Types, TypeOK
<1>2. /\ job' = [job EXCEPT !.walsSeen = Obsolete(walDir, "wal"),
                            !.sstsSeen = Obsolete(sstDir, "sst")]
      /\ thread' = "GcDelete"
      /\ UNCHANGED <<data, walDir, sstDir, previous, alive, manifest, current, tables, lsn, nextLsn,
                     pending, leader, acked, rot, rotSnap, rotWal, rotSeen, seen, jobs, restarts>>
  BY DEF GcList, diskVars, writeVars, rotVars
<1>3. RotationRests /\ More
  BY <1>2, SameDirectory DEF RotationRests, diskVars
<1>4. ManifestOK' /\ ThreadOK'
  BY <1>1, <1>2 DEF ManifestOK, ThreadOK
<1>5. JobOK'
  <2>1. /\ job'.tables = job.tables /\ job'.wals = job.wals /\ job'.l0 = job.l0 /\ job'.l1 = job.l1
        /\ job'.ids = job.ids
    BY <1>2
  <2> QED
    BY <1>1, <1>2, <2>1 DEF JobOK
<1>6. WalIds' /\ NewWal' = NewWal
  BY <1>1, <1>2 DEF WalIds, NewWal, LastWal
<1>7. Listed'
  <2>1. job'.sstsSeen = Obsolete(sstDir, "sst")
    <3>1. job'.sstsSeen \in {Obsolete(sstDir, "sst")}
      BY <1>2 DEF NoJob
    <3> QED
      BY <3>1
  <2>2. job'.sstsSeen \cap Refs(manifest).ssts = {}
    BY <2>1 DEF Obsolete
  <2> QED
    BY <1>1, <1>2, <2>2 DEF Listed, SstablesKept, Refs
<1>8. Files'
  <2>1. Handles' \subseteq Handles
    BY <1>2 DEF Handles
  <2> QED
    BY <1>2, <1>6, <2>1, SameRotation, SameFiles
<1> QED
  BY <1>2, <1>3, <1>4, <1>5, <1>6, <1>7, <1>8, ThreadStep

LEMMA GcDeleteStep == ASSUME IInv, GcDelete PROVE IInv'
<1>1. Types /\ TypeOK /\ ManifestOK /\ DirectoryOK /\ Listed /\ manifest \in Manifest
  BY DEF IInv, Types, TypeOK, ManifestOK
<1>2. /\ thread = "GcDelete"
      /\ walDir' = [i \in Ids |-> IF i \in job.walsSeen THEN 0 ELSE walDir[i]]
      /\ sstDir' = [i \in Ids |-> IF i \in job.sstsSeen THEN 0 ELSE sstDir[i]]
      /\ thread' = "Rest" /\ job' = NoJob
      /\ UNCHANGED <<data, previous, alive, manifest, current, tables, lsn, nextLsn, pending,
                     leader, acked, rot, rotSnap, rotWal, rotSeen, seen, jobs, restarts>>
  BY DEF GcDelete, writeVars, rotVars
<1>3. /\ \A i \in Ids : walDir'[i] \in {0, walDir[i]}
      /\ \A i \in Ids : sstDir'[i] \in {0, sstDir[i]}
      /\ \A i \in Ids : i \notin job.sstsSeen => sstDir'[i] = sstDir[i]
  BY <1>2
<1>4. RotationRests /\ Handles' = Handles /\ NewWal' = NewWal
  BY <1>2 DEF RotationRests, Handles, NewWal
<1>5. More
  <2>1. /\ data \in Seq(SUBSET Writes) /\ Len(data) \in Nat
        /\ walDir \in [Ids -> 0 .. Len(data)] /\ sstDir \in [Ids -> 0 .. Len(data)]
    BY <1>1 DEF DirectoryOK
  <2>2. 0 \in 0 .. Len(data) /\ Len(data) <= Len(data)
    BY <2>1
  <2>3. walDir' \in [Ids -> 0 .. Len(data)] /\ sstDir' \in [Ids -> 0 .. Len(data)]
    BY <1>2, <2>1, <2>2
  <2> QED
    BY <1>2, <2>1, <2>2, <2>3 DEF More
<1>6. ManifestOK' /\ manifest.next_sstable_id \in Nat
  BY <1>1, <1>2 DEF ManifestOK, Manifest
<1>7. ThreadOK' /\ JobOK'
  BY <1>2, <1>4, <1>6, NoJobFact
<1>8. WalIds'
  <2>1. rotSnap'.next_wal_id = NewWal
    BY <1>2 DEF IInv, WalIds
  <2> QED
    BY <1>2, <1>3, <1>4, <2>1, WalIdsKept
<1>9. Listed'
  <2>1. \A id \in Refs(manifest).ssts : id \in Ids /\ id \notin job.sstsSeen /\ sstDir[id] # 0
    BY <1>1, <1>2 DEF Listed, SstablesKept, Refs, Manifest
  <2>2. SstablesKept'
    BY <1>2, <1>3, <2>1 DEF SstablesKept, Refs
  <2> QED
    BY <1>1, <1>2, <2>2 DEF Listed
<1>10. Files'
  <2>1. Forgets
    BY <1>2, <1>3, <1>4 DEF Forgets
  <2>2. NotRotated' => NotRotated /\ rot' # "Reopen"
    BY <1>2, <1>4, SameRotation
  <2> QED
    BY <2>1, <2>2, FilesKept
<1> QED
  BY <1>2, <1>4, <1>5, <1>6, <1>7, <1>8, <1>9, <1>10, ThreadStep
-----------------------------------------------------------------------------
(* A restart. *)

\* What a restart does to every process.
LEMMA RestartFact ==
    ASSUME IInv, Restart
    PROVE  /\ restarts \in Nat /\ restarts' = restarts + 1 /\ restarts' \in 0 .. MaxRestarts
           /\ restarts + 1 < MaxId
           /\ alive' \in BOOLEAN
           /\ pending' = <<>> /\ leader' = 0 /\ rot' = "Idle" /\ thread' = "Rest" /\ job' = NoJob
           /\ UNCHANGED <<data, walDir, sstDir, previous, lsn, acked, jobs>>
<1>1. restarts \in 0 .. MaxRestarts /\ restarts < MaxRestarts /\ restarts' = restarts + 1
  BY DEF Restart, IInv, Types, TypeOK
<1>2. restarts \in Nat /\ restarts' \in 0 .. MaxRestarts /\ restarts + 1 < MaxId
  BY <1>1, ConstantFact
<1>3. alive' \in BOOLEAN
  BY DEF Restart, FilesExist, Opens
<1> QED
  BY <1>1, <1>2, <1>3 DEF Restart, diskVars

\* Db::new fails: the files stay, and nothing runs any more.
LEMMA RestartFailsStep == ASSUME IInv, Restart, ~ alive' PROVE IInv'
<1>1. Types /\ TypeOK /\ WalIds /\ Listed
  BY DEF IInv, Types
<1>2. UNCHANGED <<manifest, current, tables, nextLsn, rotSnap, rotWal, rotSeen, seen>>
  BY DEF Restart
<1>3. /\ restarts \in Nat /\ restarts' = restarts + 1 /\ restarts' \in 0 .. MaxRestarts
      /\ alive' \in BOOLEAN
      /\ pending' = <<>> /\ leader' = 0 /\ rot' = "Idle" /\ thread' = "Rest" /\ job' = NoJob
      /\ UNCHANGED <<data, walDir, sstDir, previous, lsn, acked, jobs>>
  BY RestartFact
<1>4. DirectoryOK' /\ MemoryOK' /\ ManifestOK'
  BY <1>1, <1>2, <1>3 DEF TypeOK, DirectoryOK, MemoryOK, ManifestOK
<1>5. WritersOK' /\ LocalsOK'
  <2>1. <<>> \in Seq(Writes) /\ 0 \in 0 .. MaxWrites
    BY ConstantFact
  <2> QED
    BY <1>1, <1>2, <1>3, <2>1 DEF Types, TypeOK, WritersOK, LocalsOK
<1>6. ThreadOK' /\ JobOK'
  <2>1. <<>> \in Seq(1 .. Len(tables)) /\ <<>> \in Seq(Ids)
    OBVIOUS
  <2> QED
    BY <1>1, <1>2, <1>3, <2>1 DEF Types, TypeOK, ThreadOK, JobOK, NoJob
<1>7. WalIds' /\ NewWal' = NewWal
  <2>1. NewWal \in Nat /\ NewWal <= restarts + 1
    BY <1>1, InodeFact, ConstantFact DEF WalIds
  <2>2. NewWal <= restarts' + 1
    BY <1>3, <2>1
  <2> QED
    BY <1>1, <1>2, <1>3, <2>2 DEF WalIds, NewWal, LastWal
<1>8. Listed'
  BY <1>1, <1>2, <1>3 DEF Listed, SstablesKept
<1>9. Files'
  <2>1. Handles' \subseteq Handles
    BY <1>2 DEF Handles
  <2>2. NotRotated' => NotRotated /\ rot' # "Reopen"
    BY <1>2, <1>3, <1>7, SameRotation
  <2> QED
    BY <1>2, <1>3, <1>7, <2>1, <2>2, SameFiles
<1> QED
  BY <1>1, <1>3, <1>4, <1>5, <1>6, <1>7, <1>8, <1>9 DEF IInv, Types, TypeOK

\* The ids that a restart computes: the next WAL id comes after the last WAL.
LEMMA RestartIds ==
    ASSUME IInv, FilesExist, restarts + 1 < MaxId, restarts \in Nat
    PROVE  LET wid == NextId(Refs(manifest).wals)
               sid == NextId(Refs(manifest).ssts) IN
           /\ Len(manifest.wals) \in Nat \ {0} /\ DOMAIN manifest.wals = 1 .. Len(manifest.wals)
           /\ LastWal \in Ids /\ walDir[LastWal] # 0
           /\ wid = LastWal + 1 /\ wid \in Ids /\ wid <= restarts + 2 /\ NewWal <= wid
           /\ sid \in Nat
<1>1. /\ manifest.wals \in Seq(Ids) /\ manifest.wals # <<>> /\ WalIds
      /\ manifest.l0 \subseteq Ids /\ manifest.l1 \subseteq Ids
  BY DEF FilesExist, IInv, Types, TypeOK, ManifestOK, Manifest
<1>2. Len(manifest.wals) \in Nat \ {0} /\ DOMAIN manifest.wals = 1 .. Len(manifest.wals)
  BY <1>1
<1>3. LastWal \in Ids /\ LastWal \in Refs(manifest).wals /\ Refs(manifest).wals \subseteq Ids
      /\ \A id \in Refs(manifest).wals : id <= LastWal
  <2>1. Len(manifest.wals) \in DOMAIN manifest.wals
    BY <1>2
  <2> QED
    BY <1>1, <2>1 DEF LastWal, Refs, WalIds
<1>4. walDir[LastWal] # 0
  BY <1>3 DEF FilesExist
<1>5. Ids = 0 .. MaxId /\ MaxId \in Nat /\ Refs(manifest).ssts \subseteq Ids
  BY <1>1, ConstantFact DEF Refs
<1>6. NextId(Refs(manifest).wals) = LastWal + 1
  BY <1>3, <1>5, NextIdFact
<1>7. NextId(Refs(manifest).ssts) \in Nat
  BY <1>5, NextIdFact
<1>8. /\ NewWal \in Nat /\ NewWal <= restarts + 1 /\ LastWal \in {NewWal, NewWal - 1}
      /\ LastWal \in Nat
  BY <1>1, <1>3, <1>5, InodeFact DEF IInv, WalIds
<1>9. LastWal + 1 \in Ids /\ LastWal + 1 <= restarts + 2 /\ NewWal <= LastWal + 1
  BY <1>5, <1>8
<1> QED
  BY <1>2, <1>3, <1>4, <1>6, <1>7, <1>9

\* The LSN that a restart computes: the last entry of the last WAL has the largest.
LEMMA RestartLsn ==
    ASSUME IInv, NEW k \in WalInodes
    PROVE  LastLsn(data[k]) \in Nat /\ \A w \in data[k] : lsn[w] < LastLsn(data[k]) + 1
<1> DEFINE W == data[k]
<1>1. /\ lsn \in Seq(Nat) /\ Len(lsn) \in Nat /\ W \subseteq 1 .. Len(lsn)
      /\ \A v, w \in W : v < w => lsn[v] < lsn[w]
  BY DEF IInv, Types, TypeOK, WritersOK, Files, InOrder
<1> HIDE DEF W
<1>2. CASE W = {}
  BY <1>2 DEF LastLsn, W
<1>3. CASE W # {}
  <2>1. Max(W) \in W /\ \A w \in W : w <= Max(W)
    <3>1. W \subseteq 0 .. Len(lsn)
      BY <1>1
    <3> QED
      BY <1>1, <1>3, <3>1, MaxFact
  <2>2. LastLsn(W) = lsn[Max(W)]
    BY <1>3 DEF LastLsn
  <2>3. \A w \in W : w \in Nat /\ lsn[w] \in Nat
    BY <1>1
  <2>4. \A w \in W : lsn[w] <= lsn[Max(W)]
    <3> SUFFICES ASSUME NEW w \in W PROVE lsn[w] <= lsn[Max(W)]
      OBVIOUS
    <3>1. w = Max(W) \/ w < Max(W)
      BY <2>1, <2>3
    <3>2. lsn[w] \in Nat /\ lsn[Max(W)] \in Nat /\ Max(W) \in W
      BY <2>1, <2>3
    <3>3. w < Max(W) => lsn[w] < lsn[Max(W)]
      BY <1>1, <3>2
    <3> QED
      BY <3>1, <3>2, <3>3
  <2> QED
    BY <2>1, <2>2, <2>3, <2>4 DEF W
<1> QED
  BY <1>2, <1>3

\* The files of a process that has recovered: it may write to the last WAL, and the next
\* one is not there or empty.
LEMMA RestartFiles ==
    ASSUME IInv, UNCHANGED <<data, walDir, sstDir, lsn>>, manifest'.wals = manifest.wals,
           manifest.wals # <<>>, LastWal \in Ids, walDir[LastWal] # 0,
           NewWal' = LastWal + 1, NewWal' \in Ids, Handles' = {walDir[LastWal]},
           nextLsn' = LastLsn(data[walDir[LastWal]]) + 1, rot' = "Idle"
    PROVE  Files'
<1> DEFINE x == walDir[LastWal]
<1>1. OneFile /\ InOrder /\ NewWalEmpty /\ WalIds
  BY DEF IInv, Files
<1>2. x \in WalInodes /\ WalInodes \subseteq 1 .. Len(data)
  BY InodeFact DEF IInv, WalInodes
<1>3. WalInodes' \subseteq WalInodes
  BY <1>2 DEF WalInodes
<1>4. LastWal \in Nat /\ NewWal \in Nat /\ LastWal' = LastWal /\ NewWal' # LastWal
  BY ConstantFact, InodeFact DEF IInv, LastWal
<1>5. walDir[NewWal'] # 0 => data[walDir[NewWal']] = {} /\ walDir[NewWal'] # x
  <2> SUFFICES ASSUME walDir[NewWal'] # 0
               PROVE  data[walDir[NewWal']] = {} /\ walDir[NewWal'] # x
    OBVIOUS
  <2>1. NewWal' <= NewWal
    BY <1>1 DEF WalIds
  <2>2. LastWal \in {NewWal, NewWal - 1}
    BY <1>1 DEF WalIds
  <2>3. NewWal' = NewWal /\ LastWal # NewWal
    BY <1>4, <2>1, <2>2
  <2>4. data[walDir[NewWal']] = {}
    BY <1>1, <2>3 DEF NewWalEmpty, NotRotated
  <2>5. walDir[NewWal'] # x
    BY <1>1, <1>4 DEF OneFile
  <2> QED
    BY <2>4, <2>5
<1>6. OneFile'
  BY <1>1, <1>3 DEF OneFile
<1>7. InOrder'
  <2>1. /\ \A k \in WalInodes : \A w \in data[k] : w \in 1 .. Len(lsn)
        /\ \A k \in WalInodes : \A v, w \in data[k] : v < w => lsn[v] < lsn[w]
    BY <1>1 DEF InOrder
  <2>2. \A w \in data[x] : lsn[w] < nextLsn'
    BY <1>2, RestartLsn
  <2>3. \A k \in Handles' \cup ({walDir'[NewWal']} \ {0}) : \A w \in data[k] : lsn[w] < nextLsn'
    BY <1>5, <2>2
  <2> QED
    BY <1>3, <2>1, <2>3 DEF InOrder
<1>8. NewWalEmpty'
  BY <1>5 DEF NewWalEmpty
<1> QED
  BY <1>6, <1>7, <1>8 DEF Files

\* The memtables that a restart replays from the WALs.
LEMMA RestartTables ==
    ASSUME IInv, FilesExist,
           tables' = [i \in DOMAIN manifest.wals |-> data[walDir[manifest.wals[i]]]]
    PROVE  tables' \in Seq(SUBSET Writes) /\ Len(tables') = Len(manifest.wals)
<1>1. manifest.wals \in Seq(Ids) /\ data \in Seq(SUBSET Writes)
  BY DEF IInv, Types, TypeOK, ManifestOK, Manifest, DirectoryOK
<1>2. Len(manifest.wals) \in Nat /\ DOMAIN manifest.wals = 1 .. Len(manifest.wals)
  BY <1>1
<1>3. ASSUME NEW i \in DOMAIN manifest.wals PROVE data[walDir[manifest.wals[i]]] \in SUBSET Writes
  <2>1. manifest.wals[i] \in Ids /\ manifest.wals[i] \in Refs(manifest).wals
    BY <1>1 DEF Refs
  <2>2. walDir[manifest.wals[i]] \in 1 .. Len(data)
    BY <2>1, InodeFact DEF FilesExist, IInv
  <2> QED
    BY <1>1, <2>2
<1> QED
  BY <1>2, <1>3

LEMMA RestartSucceedsStep == ASSUME IInv, Restart, alive' PROVE IInv'
<1> DEFINE n == Len(manifest.wals)
           wid == NextId(Refs(manifest).wals)
           sid == NextId(Refs(manifest).ssts)
           x == walDir[manifest.wals[Len(manifest.wals)]]
           fr == [i \in 1 .. n - 1 |-> i]
           O0 == Objects(manifest.l0)
           O1 == Objects(manifest.l1)
<1>1. Types /\ TypeOK /\ WalIds /\ Listed /\ manifest \in Manifest /\ ManifestOK
  BY DEF IInv, Types, TypeOK, ManifestOK
<1>2. FilesExist
  BY DEF Restart
<1>3. /\ restarts \in Nat /\ restarts' = restarts + 1 /\ restarts' \in 0 .. MaxRestarts
      /\ restarts + 1 < MaxId
      /\ pending' = <<>> /\ leader' = 0 /\ rot' = "Idle" /\ thread' = "Rest" /\ job' = NoJob
      /\ UNCHANGED <<data, walDir, sstDir, previous, lsn, acked, jobs>>
  BY RestartFact
<1>4. /\ n \in Nat \ {0} /\ DOMAIN manifest.wals = 1 .. n
      /\ LastWal \in Ids /\ walDir[LastWal] # 0
      /\ wid = LastWal + 1 /\ wid \in Ids /\ wid <= restarts + 2 /\ NewWal <= wid
      /\ sid \in Nat /\ x = walDir[LastWal]
  BY <1>2, <1>3, RestartIds DEF LastWal
<1>5. /\ manifest' = [manifest EXCEPT !.next_wal_id = wid, !.next_sstable_id = sid]
      /\ current' = [wal |-> x, mutable |-> n, frozen |-> fr,
                     l0 |-> Objects(manifest'.l0), l1 |-> Objects(manifest'.l1)]
      /\ tables' = [i \in DOMAIN manifest.wals |-> data[walDir[manifest.wals[i]]]]
      /\ nextLsn' = LastLsn(data[x]) + 1
      /\ rotSnap' = manifest' /\ rotWal' = current'.wal /\ rotSeen' = current' /\ seen' = current'
  BY DEF Restart
<1> HIDE DEF n, wid, sid, x
<1>6. /\ manifest' \in Manifest /\ manifest'.wals = manifest.wals /\ manifest'.l0 = manifest.l0
      /\ manifest'.l1 = manifest.l1 /\ manifest'.next_wal_id = wid
      /\ manifest'.next_sstable_id = sid
  BY <1>1, <1>4, <1>5 DEF Manifest
<1>7. current' = [wal |-> x, mutable |-> n, frozen |-> fr, l0 |-> O0, l1 |-> O1]
  BY <1>5, <1>6
<1>8. x \in 1 .. Len(data) /\ x \in WalInodes /\ Len(data) \in Nat
  BY <1>1, <1>4, InodeFact DEF WalInodes
<1>9. fr \in Seq(Nat \ {0}) /\ \A i \in DOMAIN fr : fr[i] < n
  <2>1. n - 1 \in Nat /\ \A i \in 1 .. n - 1 : i \in Nat \ {0} /\ i < n
    BY <1>4
  <2> QED
    BY <2>1
<1>10. O0 \subseteq Ids \X Nat /\ O1 \subseteq Ids \X Nat
  BY <1>1, ObjectsFact DEF Manifest
<1> HIDE DEF fr, O0, O1
<1>11. /\ current' \in Version /\ current'.wal = x /\ current'.mutable = n /\ current'.frozen = fr
  BY <1>4, <1>7, <1>8, <1>9, <1>10 DEF Version
<1>12. tables' \in Seq(SUBSET Writes) /\ Len(tables') = n
  BY <1>2, <1>5, RestartTables DEF n
<1>13. IsVersion(current', Len(data'), Len(tables'))
  <2>1. x <= Len(data') /\ n <= Len(tables')
    BY <1>3, <1>4, <1>8, <1>12
  <2> QED
    BY <1>9, <1>11, <2>1 DEF IsVersion
<1>14. DirectoryOK' /\ MemoryOK' /\ ManifestOK'
  BY <1>1, <1>3, <1>6, <1>12, <1>13 DEF TypeOK, DirectoryOK, MemoryOK, ManifestOK
<1>15. WritersOK'
  <2>1. <<>> \in Seq(Writes) /\ 0 \in 0 .. MaxWrites
    BY ConstantFact
  <2>2. nextLsn' \in Nat
    <3>1. LastLsn(data[x]) \in Nat
      BY <1>8, RestartLsn
    <3> QED
      BY <1>5, <3>1
  <2> QED
    BY <1>1, <1>3, <2>1, <2>2 DEF TypeOK, WritersOK
<1>16. LocalsOK'
  <2>1. Len(lsn') <= MaxWrites
    BY <1>1, <1>3 DEF Types, LocalsOK
  <2> QED
    BY <1>3, <1>5, <1>6, <1>8, <1>11, <1>13, <2>1 DEF LocalsOK
<1>17. ThreadOK' /\ JobOK'
  <2>1. <<>> \in Seq(1 .. Len(tables')) /\ <<>> \in Seq(Ids)
    OBVIOUS
  <2>2. rotSnap'.next_sstable_id <= manifest'.next_sstable_id
    BY <1>4, <1>5, <1>6
  <2> QED
    BY <1>1, <1>3, <2>1, <2>2 DEF TypeOK, ThreadOK, JobOK, NoJob
<1>18. NewWal' = wid /\ LastWal' = LastWal /\ LastWal \in Nat
  BY <1>4, <1>6, ConstantFact DEF NewWal, LastWal
<1>19. WalIds'
  <2>1. NewWal' <= restarts' + 1 /\ LastWal' = NewWal' - 1
    BY <1>3, <1>4, <1>18
  <2>2. \A i \in DOMAIN manifest'.wals : manifest'.wals[i] <= LastWal'
    BY <1>1, <1>6, <1>18 DEF WalIds
  <2>3. \A i \in Ids : walDir[i] # 0 => i <= NewWal'
    <3> SUFFICES ASSUME NEW i \in Ids, walDir[i] # 0 PROVE i <= NewWal'
      OBVIOUS
    <3>1. i <= NewWal /\ NewWal <= wid /\ i \in Nat /\ NewWal \in Nat /\ wid \in Nat
      BY <1>1, <1>4, ConstantFact, InodeFact DEF WalIds
    <3> QED
      BY <1>18, <3>1
  <2>4. rotSnap'.next_wal_id = NewWal'
    BY <1>5 DEF NewWal
  <2> QED
    BY <1>3, <2>1, <2>2, <2>3, <2>4 DEF WalIds
<1>20. Listed'
  <2>1. SstablesKept'
    BY <1>1, <1>3, <1>6 DEF Listed, SstablesKept, Refs
  <2>2. manifest'.version \in Nat /\ thread' # "GcDelete"
    BY <1>3, <1>6 DEF Manifest
  <2> QED
    BY <1>5, <2>1, <2>2 DEF Listed
<1>21. Files'
  <2>1. Handles' = {walDir[LastWal]}
    BY <1>4, <1>5, <1>11 DEF Handles
  <2>2. manifest.wals # <<>>
    BY <1>2 DEF FilesExist
  <2>3. nextLsn' = LastLsn(data[walDir[LastWal]]) + 1
    BY <1>4, <1>5
  <2> QED
    BY <1>3, <1>4, <1>6, <1>18, <2>1, <2>2, <2>3, RestartFiles
<1> QED
  BY <1>3, <1>14, <1>15, <1>16, <1>17, <1>19, <1>20, <1>21 DEF IInv, Types, TypeOK

LEMMA RestartStep == ASSUME IInv, Restart PROVE IInv'
BY RestartFailsStep, RestartSucceedsStep
-----------------------------------------------------------------------------
(* The invariant and the theorems. *)

LEMMA StutterStep == ASSUME IInv, UNCHANGED vars PROVE IInv'
<1>1. Types /\ TypeOK /\ WalIds /\ Listed
  BY DEF IInv, Types
<1>2. UNCHANGED <<data, walDir, sstDir, previous, alive, manifest, current, tables, lsn, nextLsn,
                  pending, leader, acked, rot, rotSnap, rotWal, rotSeen, thread, job, seen, jobs,
                  restarts>>
  BY DEF vars, diskVars, writeVars, rotVars, threadVars
<1>3. RotationRests /\ More
  BY <1>2, SameDirectory DEF RotationRests, diskVars
<1>4. ManifestOK' /\ ThreadOK' /\ JobOK'
  BY <1>1, <1>2 DEF Types, TypeOK, ManifestOK, ThreadOK, JobOK
<1>5. WalIds' /\ NewWal' = NewWal
  BY <1>1, <1>2 DEF WalIds, NewWal, LastWal
<1>6. Listed'
  BY <1>2, ListedKept
<1>7. Files'
  <2>1. Handles' \subseteq Handles
    BY <1>2 DEF Handles
  <2> QED
    BY <1>2, <1>5, <2>1, SameRotation, SameFiles
<1> QED
  BY <1>2, <1>3, <1>4, <1>5, <1>6, <1>7, ThreadStep

LEMMA InitInv == Init => IInv
<1> SUFFICES ASSUME Init PROVE IInv
  OBVIOUS
<1>1. /\ data = <<{}>> /\ tables = <<{}>> /\ lsn = <<>> /\ pending = <<>>
      /\ alive = TRUE /\ leader = 0 /\ acked = {} /\ nextLsn = 1
      /\ rot = "Idle" /\ thread = "Rest" /\ jobs = 0 /\ restarts = 0
      /\ job = NoJob /\ rotSnap = manifest /\ rotWal = 1 /\ rotSeen = current /\ seen = current
      /\ previous = [wals |-> {}, ssts |-> {}]
  BY DEF Init
<1>2. manifest = [wals |-> <<0>>, l0 |-> {}, l1 |-> {}, next_wal_id |-> 1,
                  next_sstable_id |-> 0, version |-> 0]
  BY DEF Init
<1>3. current = [wal |-> 1, mutable |-> 1, frozen |-> <<>>, l0 |-> {}, l1 |-> {}]
  BY DEF Init
<1>4. /\ walDir = [i \in Ids |-> IF i = 0 THEN 1 ELSE 0] /\ sstDir = [i \in Ids |-> 0]
  BY DEF Init
<1>5. 0 \in Ids /\ 1 \in Ids
  BY ConstantFact
<1>6. Len(data) = 1 /\ DOMAIN data = {1} /\ data[1] = {} /\ data \in Seq(SUBSET Writes)
  BY <1>1
<1>7. Len(tables) = 1 /\ tables \in Seq(SUBSET Writes)
  BY <1>1
<1>8. /\ manifest \in Manifest /\ manifest.wals = <<0>> /\ manifest.l0 = {} /\ manifest.l1 = {}
      /\ manifest.next_wal_id = 1 /\ manifest.next_sstable_id = 0 /\ manifest.version = 0
  <2>1. <<0>> \in Seq(Ids)
    BY <1>5
  <2> QED
    BY <1>2, <1>5, <2>1 DEF Manifest
<1>9. /\ current \in Version /\ current.wal = 1 /\ current.mutable = 1 /\ current.frozen = <<>>
  <2>1. <<>> \in Seq(Nat \ {0})
    OBVIOUS
  <2> QED
    BY <1>3, <2>1 DEF Version
<1>10. IsVersion(current, Len(data), Len(tables))
  BY <1>6, <1>7, <1>9 DEF IsVersion
<1>11. DirectoryOK /\ MemoryOK /\ ManifestOK
  <2>1. walDir \in [Ids -> 0 .. Len(data)] /\ sstDir \in [Ids -> 0 .. Len(data)]
    BY <1>4, <1>6
  <2> QED
    BY <1>1, <1>6, <1>7, <1>8, <1>10, <2>1 DEF DirectoryOK, MemoryOK, ManifestOK
<1>12. WritersOK /\ ThreadOK /\ alive \in BOOLEAN /\ restarts \in 0 .. MaxRestarts
  <2>1. lsn \in Seq(Nat) /\ pending \in Seq(Writes)
    BY <1>1
  <2> QED
    BY <1>1, <2>1, ConstantFact DEF WritersOK, ThreadOK
<1>13. LocalsOK
  <2>1. Len(lsn) = 0
    BY <1>1
  <2> QED
    BY <1>1, <1>6, <1>8, <1>10, <2>1, ConstantFact DEF LocalsOK
<1>14. JobOK
  <2>1. <<>> \in Seq(1 .. Len(tables)) /\ <<>> \in Seq(Ids)
    OBVIOUS
  <2> QED
    BY <1>1, <1>8, <2>1 DEF JobOK, NoJob
<1>15. NewWal = 1 /\ LastWal = 0 /\ manifest.wals # <<>> /\ DOMAIN manifest.wals = {1}
       /\ manifest.wals[1] = 0
  BY <1>8 DEF NewWal, LastWal
<1>16. WalIds
  <2>1. \A i \in Ids : walDir[i] # 0 => i = 0
    BY <1>4
  <2> QED
    BY <1>1, <1>15, <2>1 DEF WalIds, NewWal
<1>17. Handles = {1} /\ WalInodes = {1}
  BY <1>1, <1>4, <1>5, <1>9 DEF Handles, WalInodes
<1>18. NewWalEmpty
  BY <1>1, <1>4, <1>5, <1>15 DEF NewWalEmpty
<1>19. OneFile /\ InOrder
  <2>1. walDir[NewWal] = 0
    BY <1>4, <1>5, <1>15
  <2> QED
    BY <1>4, <1>6, <1>17, <2>1 DEF OneFile, InOrder
<1>20. Listed
  <2>1. Refs(manifest).ssts = {}
    BY <1>8 DEF Refs
  <2> QED
    BY <1>1, <1>8, <2>1 DEF Listed, SstablesKept
<1> QED
  BY <1>11, <1>12, <1>13, <1>14, <1>16, <1>18, <1>19, <1>20 DEF IInv, Types, TypeOK, Files

LEMMA StepInv == IInv /\ [Next]_vars => IInv'
<1> SUFFICES ASSUME IInv, [Next]_vars PROVE IInv'
  OBVIOUS
<1>1. CASE WriteWal \/ WriteMemtable
  BY <1>1, WriteWalStep, WriteMemtableStep
<1>2. CASE RotateOpen \/ RotateCommit \/ RotateRetry \/ RotateFails \/ RotateReopen
           \/ RotateReopenFails \/ RotateLoad \/ RotateStore
  BY <1>2, RotateOpenStep, RotateCommitStep, RotateRetryStep, RotateFailsStep, RotateReopenStep,
     RotateReopenFailsStep, RotateLoadStep, RotateStoreStep
<1>3. CASE FlushPrepare \/ FlushWrite \/ FlushCommit \/ FlushFails \/ LoadVersion \/ FlushStore
  BY <1>3, FlushPrepareStep, FlushWriteStep, FlushCommitStep, FlushFailsStep, LoadVersionStep,
     FlushStoreStep
<1>4. CASE CompactSelect \/ CompactWrite \/ CompactCommit \/ CompactFails \/ CompactStore
  BY <1>4, CompactSelectStep, CompactWriteStep, CompactCommitStep, CompactFailsStep,
     CompactStoreStep
<1>5. CASE GcList \/ GcDelete
  BY <1>5, GcListStep, GcDeleteStep
<1>6. CASE Restart
  BY <1>6, RestartStep
<1>7. CASE UNCHANGED vars
  BY <1>7, StutterStep
<1> QED
  BY <1>1, <1>2, <1>3, <1>4, <1>5, <1>6, <1>7 DEF Next

\* The inductive invariant: which inodes the handles, the manifest and the directory name,
\* which WAL a restart will continue, and which SSTables garbage collection has found
\* (src/lib.rs, src/compact.rs).
THEOREM Invariant == Spec => []IInv
<1>1. Init => IInv
  BY InitInv
<1>2. IInv /\ [Next]_vars => IInv'
  BY StepInv
<1> QED
  BY <1>1, <1>2, PTL DEF Spec

\* The types (TypeOK): every inode, memtable and id that a handle or the manifest names is
\* in range, through rotations, flushes of any length, compactions that write over their
\* inputs, garbage collection of files that are in use, their errors and restarts.
THEOREM TypeCorrect == Spec => []TypeOK
<1>1. IInv => TypeOK
  BY DEF IInv, Types
<1> QED
  BY <1>1, Invariant, PTL

\* The LSNs in every WAL follow the order of its appends, although rotations of one life
\* share a WAL, the next life goes on in it, and replay_mutable_wal (src/lib.rs) computes
\* the next LSN from the last entry of the last WAL alone: also when stale versions of
\* db.current come back and garbage_collect deletes WALs that are written to.
THEOREM LsnsInOrder == Spec => []LsnsFollowWal
<1>1. ASSUME IInv PROVE LsnsFollowWal
  <2>1. InOrder
    BY <1>1 DEF IInv, Files
  <2>2. \A id \in Named(walDir) : walDir[id] \in WalInodes
    BY DEF Named, WalInodes
  <2> QED
    BY <2>1, <2>2 DEF LsnsFollowWal, InOrder
<1> QED
  BY <1>1, Invariant, PTL

\* garbage_collect (src/compact.rs) never takes the name of an SSTable that the manifest
\* lists, although the rotation commits other manifests between the listing of the
\* directory and the deletion, and puts next_sstable_id back: Db::new finds them all.
THEOREM SstablesNamed == Spec => []SstablesKept
<1>1. IInv => SstablesKept
  BY DEF IInv, Listed
<1> QED
  BY <1>1, Invariant, PTL
=============================================================================
