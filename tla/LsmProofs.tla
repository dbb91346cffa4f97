------------------------------ MODULE LsmProofs ------------------------------
(***************************************************************************)
(* Proofs about the LSM tree, for any keys, limits, levels and errors: the *)
(* files below L0 stay sorted and apart, a search of a file finds the      *)
(* newest version that it holds, the tree is a store of versions, and a    *)
(* get reads the newest one unless an older one shadows it.                *)
(***************************************************************************)
EXTENDS Lsm, SstableProofs

\* Every entry of the first precedes every entry of the second.
AllBefore(f, g) == \A a \in ToSet(f), b \in ToSet(g) : Before(a, b)

EntriesOf(F) == UNION {ToSet(f) : f \in F}

\* The types.
MemType ==
    /\ memtables \in Seq(SUBSET Entry) /\ memtables # <<>>
    /\ \A t \in DOMAIN memtables : IsFiniteSet(memtables[t])
    /\ frozen \in Seq(Nat)
    /\ \A i \in DOMAIN frozen : frozen[i] \in 1 .. Len(memtables) - 1
    /\ \A i, j \in DOMAIN frozen : i # j => frozen[i] # frozen[j]
    /\ writes \in 0 .. MaxWrites

LevelType == levels \in [Levels -> Seq(Files)]

JobType ==
    /\ thread \in {"Rest", "Flush", "Merge", "Commit"}
    /\ job \in [count: Nat, level: Nat, source: SUBSET Files, target: SUBSET Files]
    /\ job.count \in 0 .. Len(frozen) /\ job.level \in 0 .. MaxLevel - 1
    /\ outputs \in Seq(Files) /\ writer \in Files

GetType ==
    /\ get \in [key: Nat, seen: Nat, mem: Nat, below: Entry \cup {NoEntry}]
    /\ get # NoGet => get.key \in Keys /\ get.mem # 0
    /\ get.seen <= writes /\ get.mem <= Len(memtables)

    /\ answer \in Entry \cup {NoEntry}

\* A file is sorted and has an entry, and below L0 the files are in order.
FilesInv ==
    /\ \A l \in Levels : \A i \in DOMAIN levels[l] : levels[l][i] # <<>> /\ Sorted(levels[l][i])
    /\ \A l \in Levels \ {0} : \A i, j \in DOMAIN levels[l] :
         i < j => AllBefore(levels[l][i], levels[l][j])

\* No entry is in two files.
OneFileInv ==
    \A l, m \in Levels : \A i \in DOMAIN levels[l], j \in DOMAIN levels[m] :
      ToSet(levels[l][i]) \cap ToSet(levels[m][j]) # {} => l = m /\ i = j

\* The memtables of db.current.
Live == {Mutable} \cup {frozen[i] : i \in DOMAIN frozen}

\* No entry of a live memtable is in another one, or in a file; what is frozen is not empty.
LiveInv ==
    /\ \A t, u \in Live : memtables[t] \cap memtables[u] # {} => t = u
    /\ \A t \in Live : memtables[t] \cap FileEntries = {}
    /\ \A i \in DOMAIN frozen : memtables[frozen[i]] # {}

\* Each write is a version, and each version has its own LSN.
VersionsInv ==
    /\ Unique(Contents)
    /\ \A e \in Contents : 1 <= e.lsn /\ e.lsn <= writes
    /\ IsFiniteSet(Contents) /\ Cardinality(Contents) = writes
    /\ \A t \in DOMAIN memtables : memtables[t] \subseteq Contents

\* What is compacted are still the files that CompactSelect found.
SelectedInv ==
    thread \in {"Merge", "Commit"} =>
      /\ levels[job.level] # <<>>
      /\ job.source = Source(job.level)
      /\ job.target = {f \in ToSet(levels[job.level + 1]) :
                          Overlaps(f, Smallest({MinKey(g) : g \in job.source}),
                                      Largest({MaxKey(g) : g \in job.source}))}

\* What the merge has written and what it has not read yet.
Written == ToSet(writer) \cup UNION {ToSet(outputs[i]) : i \in DOMAIN outputs}
Pending == UNION {ToSet(inputs[f]) : f \in DOMAIN inputs}

\* The files of the merge are sorted, each ends before the next begins, and only the last
\* one is open.
OutputsInv ==
    /\ \A i \in DOMAIN outputs : outputs[i] # <<>> /\ Sorted(outputs[i])
    /\ \A i, j \in DOMAIN outputs : i < j => AllBefore(outputs[i], outputs[j])
    /\ Sorted(writer)
    /\ \A i \in DOMAIN outputs : AllBefore(outputs[i], writer)
    /\ thread # "Merge" => writer = <<>> /\ inputs = <<>>
    /\ thread \in {"Rest", "Flush"} => outputs = <<>>
    /\ thread = "Merge" /\ writer = <<>> => outputs = <<>>

\* The merge has written the first of the entries of its inputs, and has the others to read.
MergeInv ==
    thread = "Merge" =>
      /\ inputs \in [job.source \cup job.target -> Files]
      /\ \A f \in DOMAIN inputs : Sorted(inputs[f]) /\ ToSet(inputs[f]) \subseteq ToSet(f)
      /\ Written \cup Pending = EntriesOf(job.source \cup job.target)
      /\ \A a \in Written, b \in Pending : Before(a, b)

CommitInv == thread = "Commit" => Written = EntriesOf(job.source \cup job.target)

\* e is no put, or no longer the newest version of its key among S.
Hidden(e, S) == e.del \/ (\E w \in S : w.key = e.key /\ w.lsn > e.lsn)

\* The versions that a get must find below the mutable memtable it has loaded.
OldVersions == {v \in Contents \ memtables[get.mem] : v.key = get.key /\ v.lsn <= get.seen}

\* What a get has found below is a version of its key; and nothing only if none is there
\* but deleted ones.
GetInv ==
    get # NoGet =>
      \/ get.below \in Contents /\ get.below.key = get.key
      \/ get.below = NoEntry /\ \A v \in OldVersions : Hidden(v, OldVersions)

TreeInv == MemType /\ LevelType /\ FilesInv /\ OneFileInv /\ LiveInv /\ VersionsInv
WorkInv == JobType /\ SelectedInv /\ OutputsInv /\ MergeInv /\ CommitInv
ReadInv == GetType /\ GetInv

IInv == TreeInv /\ WorkInv /\ ReadInv
-----------------------------------------------------------------------------
(* Where the entries are. *)

\* What is in a file, and what a get of db.current can reach.
IsInFile(e) == \E l \in Levels : \E i \in DOMAIN levels[l] : e \in ToSet(levels[l][i])
IsLive(e)   == \E t \in Live : e \in memtables[t]

Where == \A e : /\ e \in FileEntries <=> IsInFile(e)
                /\ e \in Contents <=> (IsInFile(e) \/ IsLive(e))

\* An entry is in the contents iff a file or a live memtable has it.
LEMMA WhereNow == Where
<1> SUFFICES ASSUME NEW e
             PROVE  /\ e \in FileEntries <=> IsInFile(e)
                    /\ e \in Contents <=> (IsInFile(e) \/ IsLive(e))
  BY DEF Where
<1>1. e \in FileEntries <=> IsInFile(e)
  BY DEF FileEntries, LevelEntries, IsInFile
<1> DEFINE F == {memtables[frozen[i]] : i \in DOMAIN frozen}
<1>2. e \in UNION F <=> \E i \in DOMAIN frozen : e \in memtables[frozen[i]]
  OBVIOUS
<1>3. Contents = (memtables[Mutable] \cup UNION F) \cup FileEntries
  BY DEF Contents
<1> HIDE DEF F
<1>4. IsLive(e) <=> \/ e \in memtables[Mutable]
                    \/ \E i \in DOMAIN frozen : e \in memtables[frozen[i]]
  BY DEF Live, IsLive
<1> QED
  BY <1>1, <1>2, <1>3, <1>4

\* The same after a step.
LEMMA WhereNext == Where'
BY WhereNow, PTL

\* The constants are numbers, and the levels up to MaxLevel - 1 have a next one.
LEMMA ConstantFact ==
    /\ MemLimit \in Nat \ {0} /\ FlushTrigger \in Nat \ {0}
    /\ MaxLevel \in Nat \ {0} /\ MaxWrites \in Nat
    /\ LevelTrigger \in [0 .. MaxLevel - 1 -> Nat \ {0}]
    /\ 0 \in Levels /\ Levels \subseteq Nat
    /\ \A l \in 0 .. MaxLevel - 1 : l \in Levels /\ l + 1 \in Levels \ {0}
BY LsmAssumption DEF Levels

\* NoEntry is no entry: its key 0 is none.
LEMMA NoEntryFact == NoEntry \notin Entry
BY SstableAssumption DEF NoEntry, Entry

\* An empty directory satisfies the invariant.
LEMMA InitInv == Init => IInv
<1> SUFFICES ASSUME Init PROVE IInv
  OBVIOUS
<1>1. /\ memtables = <<{}>> /\ frozen = <<>> /\ levels = [l \in Levels |-> <<>>]
      /\ writes = 0 /\ thread = "Rest" /\ job = NoJob
      /\ inputs = <<>> /\ outputs = <<>> /\ writer = <<>>
      /\ get = NoGet /\ answer = NoEntry
  BY DEF Init
<1>2. IsFiniteSet({}) /\ Cardinality({}) = 0
  BY FS_EmptySet
<1>3. MemType
  <2>1. memtables \in Seq(SUBSET Entry) /\ DOMAIN memtables = {1} /\ memtables[1] = {}
    BY <1>1
  <2>2. frozen \in Seq(Nat) /\ DOMAIN frozen = {}
    <3>1. <<>> \in Seq(Nat) /\ DOMAIN <<>> = {}
      OBVIOUS
    <3> QED
      BY <1>1, <3>1
  <2>3. memtables # <<>>
    BY <1>1
  <2>4. writes \in 0 .. MaxWrites
    BY <1>1, ConstantFact
  <2> QED
    BY <1>2, <2>1, <2>2, <2>3, <2>4 DEF MemType
<1>4. LevelType
  BY <1>1 DEF LevelType, Files
<1>5. \A l \in Levels : levels[l] = <<>> /\ DOMAIN levels[l] = {}
  BY <1>1
<1>6. FilesInv /\ OneFileInv
  BY <1>5 DEF FilesInv, OneFileInv
<1>7. FileEntries = {}
  BY <1>5 DEF FileEntries, LevelEntries
<1>8. Live = {1} /\ memtables[1] = {} /\ Mutable = 1 /\ DOMAIN memtables = {1}
  BY <1>1 DEF Live, Mutable
<1>9. LiveInv
  BY <1>1, <1>8 DEF LiveInv
<1>10. Contents = {}
  BY <1>1, <1>7, <1>8 DEF Contents
<1>11. VersionsInv
  BY <1>1, <1>2, <1>8, <1>10 DEF VersionsInv, Unique
<1>12. JobType
  BY <1>1, ConstantFact DEF JobType, NoJob, Files
<1>13. SelectedInv /\ MergeInv /\ CommitInv
  BY <1>1 DEF SelectedInv, MergeInv, CommitInv
<1>14. OutputsInv
  BY <1>1 DEF OutputsInv, Sorted
<1>15. ReadInv
  BY <1>1, <1>8 DEF ReadInv, GetType, GetInv, NoGet
<1> QED
  BY <1>3, <1>4, <1>6, <1>9, <1>11, <1>12, <1>13, <1>14, <1>15 DEF IInv, TreeInv, WorkInv
-----------------------------------------------------------------------------
(* Writes. *)

\* e is inserted into the mutable memtable, which is frozen after it or not.
GrownBy(e) ==
    /\ memtables' \in Seq(SUBSET Entry) /\ memtables' # <<>>
    /\ memtables'[Mutable] = memtables[Mutable] \cup {e}
    /\ \A t \in 1 .. Mutable - 1 : memtables'[t] = memtables[t]
    /\ \/ /\ Len(memtables') = Mutable + 1 /\ memtables'[Mutable + 1] = {}
          /\ frozen' = Append(frozen, Mutable)
       \/ Len(memtables') = Mutable /\ frozen' = frozen

NewEntry(k, d) == [key |-> k, lsn |-> writes + 1, del |-> d]

\* What Write does: one new entry with the next LSN, rotated or not.
LEMMA WriteFact ==
    ASSUME MemType, Write
    PROVE  \E k \in Keys, d \in BOOLEAN :
             /\ NewEntry(k, d) \in Entry /\ GrownBy(NewEntry(k, d))
             /\ writes' = writes + 1 /\ writes < MaxWrites /\ NewEntry(k, d).lsn = writes + 1
             /\ UNCHANGED <<levels, thread, job, mergeVars, getVars>>
<1>1. PICK k \in Keys, d \in BOOLEAN :
        /\ writes < MaxWrites /\ writes' = writes + 1
        /\ \/ memtables' = Append([memtables EXCEPT ![Mutable] = @ \cup {NewEntry(k, d)}], {}) /\ frozen' = Append(frozen, Mutable)
           \/ memtables' = [memtables EXCEPT ![Mutable] = @ \cup {NewEntry(k, d)}] /\ frozen' = frozen
        /\ UNCHANGED <<levels, thread, job, mergeVars, getVars>>
  BY DEF Write, NewEntry
<1> DEFINE e == NewEntry(k, d)
<1>2. e \in Entry /\ e.lsn = writes + 1
  <2>1. writes \in Nat
    BY ConstantFact DEF MemType
  <2> QED
    BY <2>1 DEF NewEntry, Entry
<1> DEFINE g == [memtables EXCEPT ![Mutable] = @ \cup {e}]
<1>10. \/ memtables' = Append(g, {}) /\ frozen' = Append(frozen, Mutable)
       \/ memtables' = g /\ frozen' = frozen
  BY <1>1
<1> HIDE DEF e
<1>3. memtables \in Seq(SUBSET Entry) /\ Mutable = Len(memtables) /\ Mutable \in 1 .. Len(memtables)
      /\ Mutable \in Nat
  BY DEF MemType, Mutable
<1>4. memtables[Mutable] \cup {e} \in SUBSET Entry
  BY <1>2, <1>3
<1>5. /\ g \in Seq(SUBSET Entry) /\ Len(g) = Mutable
      /\ g[Mutable] = memtables[Mutable] \cup {e}
      /\ \A t \in 1 .. Mutable - 1 : g[t] = memtables[t]
  <2>1. g \in [1 .. Mutable -> SUBSET Entry]
    BY <1>3, <1>4
  <2>4. DOMAIN memtables = 1 .. Mutable
    BY <1>3
  <2>2. g[Mutable] = memtables[Mutable] \cup {e} /\ \A t \in 1 .. Mutable - 1 : g[t] = memtables[t]
    BY <1>3, <2>4
  <2> HIDE DEF g
  <2>3. g \in Seq(SUBSET Entry) /\ Len(g) = Mutable
    BY <1>3, <2>1
  <2> QED
    BY <2>2, <2>3
<1> HIDE DEF g
<1>9. g # <<>>
  BY <1>3, <1>5
<1>6. ASSUME memtables' = g, frozen' = frozen PROVE GrownBy(e)
  BY <1>5, <1>6, <1>9 DEF GrownBy
<1>7. ASSUME memtables' = Append(g, {}), frozen' = Append(frozen, Mutable) PROVE GrownBy(e)
  <2>1. {} \in SUBSET Entry
    OBVIOUS
  <2>2. /\ memtables' \in Seq(SUBSET Entry) /\ memtables' # <<>> /\ Len(memtables') = Mutable + 1
        /\ \A t \in 1 .. Mutable : memtables'[t] = g[t]
        /\ memtables'[Mutable + 1] = {}
    BY <1>3, <1>5, <1>7, <2>1, AppendProperties
  <2> QED
    BY <1>3, <1>5, <1>7, <2>2 DEF GrownBy
<1>8. GrownBy(e)
  BY <1>10, <1>6, <1>7
<1> QED
  BY <1>1, <1>2, <1>8 DEF e

\* The frozen memtables after a write, and what the live ones hold.
LEMMA GrownFact ==
    ASSUME MemType, NEW e \in Entry, GrownBy(e)
    PROVE  /\ frozen' \in Seq(Nat)
           /\ \A i \in DOMAIN frozen : i \in DOMAIN frozen' /\ frozen'[i] = frozen[i]
           /\ \A i \in DOMAIN frozen' : \/ i \in DOMAIN frozen
                                        \/ i = Len(frozen) + 1 /\ frozen'[i] = Mutable
           /\ Len(memtables') = Mutable => frozen' = frozen
           /\ \A i \in DOMAIN frozen' : frozen'[i] \in 1 .. Len(memtables') - 1
           /\ \A i, j \in DOMAIN frozen' : i # j => frozen'[i] # frozen'[j]
           /\ Live' = Live \cup {Len(memtables')}
           /\ Live \subseteq 1 .. Mutable /\ Mutable \in Live /\ Mutable \in Nat
           /\ Len(memtables') \in {Mutable, Mutable + 1}
           /\ memtables'[Mutable] = memtables[Mutable] \cup {e}
           /\ \A t \in 1 .. Mutable - 1 : memtables'[t] = memtables[t]
           /\ Len(memtables') # Mutable => memtables'[Len(memtables')] = {}
<1>1. /\ frozen \in Seq(Nat) /\ Mutable = Len(memtables) /\ Mutable \in Nat
      /\ \A i \in DOMAIN frozen : frozen[i] \in 1 .. Mutable - 1
      /\ \A i, j \in DOMAIN frozen : i # j => frozen[i] # frozen[j]
  BY DEF MemType, Mutable
<1>2. Live \subseteq 1 .. Mutable /\ Mutable \in Live
  BY <1>1 DEF Live, MemType, Mutable
<1>3. Mutable' = Len(memtables')
  BY DEF Mutable
<1>4. CASE Len(memtables') = Mutable /\ frozen' = frozen
  <2>1. Live' = Live \cup {Len(memtables')}
    BY <1>2, <1>3, <1>4 DEF Live
  <2> QED
    BY <1>1, <1>2, <1>4, <2>1 DEF GrownBy
<1>5. CASE /\ Len(memtables') = Mutable + 1 /\ memtables'[Mutable + 1] = {}
           /\ frozen' = Append(frozen, Mutable)
  <2>1. /\ frozen' \in Seq(Nat) /\ Len(frozen') = Len(frozen) + 1 /\ Len(frozen) \in Nat
        /\ \A i \in 1 .. Len(frozen) : frozen'[i] = frozen[i]
        /\ frozen'[Len(frozen) + 1] = Mutable
    BY <1>1, <1>5, AppendProperties
  <2>2. DOMAIN frozen = 1 .. Len(frozen) /\ DOMAIN frozen' = 1 .. Len(frozen) + 1
    BY <1>1, <2>1
  <2>3. /\ \A i \in DOMAIN frozen : i \in DOMAIN frozen' /\ frozen'[i] = frozen[i]
        /\ \A i \in DOMAIN frozen' : \/ i \in DOMAIN frozen
                                     \/ i = Len(frozen) + 1 /\ frozen'[i] = Mutable
    BY <2>1, <2>2
  <2> DEFINE n == Len(frozen) + 1
  <2>8. n \notin DOMAIN frozen /\ n \in DOMAIN frozen' /\ frozen'[n] = Mutable
    BY <2>1, <2>2
  <2> HIDE DEF n
  <2>4. \A i \in DOMAIN frozen' : \/ i \in DOMAIN frozen /\ frozen'[i] = frozen[i]
                                  \/ i = n /\ frozen'[i] = Mutable
    BY <2>3, <2>8 DEF n
  <2>5. \A i \in DOMAIN frozen' : frozen'[i] \in 1 .. Len(memtables') - 1
    BY <1>1, <1>2, <1>5, <2>4
  <2>6. \A i, j \in DOMAIN frozen' : i # j => frozen'[i] # frozen'[j]
    BY <1>1, <2>4
  <2>7. Live' = Live \cup {Len(memtables')}
    <3>1. {frozen'[i] : i \in DOMAIN frozen'} = {frozen[i] : i \in DOMAIN frozen} \cup {Mutable}
      BY <2>3, <2>4, <2>8
    <3> QED
      BY <1>3, <3>1 DEF Live
  <2> QED
    BY <1>1, <1>2, <1>5, <2>1, <2>3, <2>5, <2>6, <2>7 DEF GrownBy
<1> QED
  BY <1>4, <1>5 DEF GrownBy

\* The files stay as they are.
LEMMA SameFiles ==
    ASSUME levels' = levels
    PROVE  /\ LevelType => LevelType'
           /\ FilesInv => FilesInv'
           /\ OneFileInv => OneFileInv'
           /\ FileEntries' = FileEntries
           /\ \A e : IsInFile(e)' <=> IsInFile(e)
<1>1. LevelType => LevelType'
  BY DEF LevelType
<1>2. FilesInv => FilesInv'
  BY DEF FilesInv
<1>3. OneFileInv => OneFileInv'
  BY DEF OneFileInv
<1>4. FileEntries' = FileEntries
  BY DEF FileEntries, LevelEntries
<1>5. \A e : IsInFile(e)' <=> IsInFile(e)
  BY DEF IsInFile
<1> QED
  BY <1>1, <1>2, <1>3, <1>4, <1>5

\* A write adds its version to the contents.
LEMMA WriteContents ==
    ASSUME MemType, NEW e \in Entry, GrownBy(e), levels' = levels
    PROVE  Contents' = Contents \cup {e}
<1>1. ASSUME NEW x, IsLive(x) PROVE IsLive(x)'
  <2>1. PICK t \in Live : x \in memtables[t]
    BY <1>1 DEF IsLive
  <2>2. t \in Live' /\ x \in memtables'[t]
    BY <2>1, GrownFact
  <2> QED
    BY <2>2 DEF IsLive
<1>2. IsLive(e)'
  <2>1. Mutable \in Live' /\ e \in memtables'[Mutable]
    BY GrownFact
  <2> QED
    BY <2>1 DEF IsLive
<1>3. ASSUME NEW x, IsLive(x)', x # e PROVE IsLive(x)
  <2>1. PICK t \in Live' : x \in memtables'[t]
    BY <1>3 DEF IsLive
  <2>3. /\ Live' = Live \cup {Len(memtables')} /\ Live \subseteq 1 .. Mutable /\ Mutable \in Live
        /\ Mutable \in Nat /\ memtables'[Mutable] = memtables[Mutable] \cup {e}
        /\ \A u \in 1 .. Mutable - 1 : memtables'[u] = memtables[u]
        /\ Len(memtables') = Mutable \/ memtables'[Len(memtables')] = {}
    BY GrownFact
  <2>2. t \in Live /\ x \in memtables[t]
    BY <1>3, <2>1, <2>3
  <2> QED
    BY <2>2 DEF IsLive
<1>4. \A x : IsInFile(x)' <=> IsInFile(x)
  BY SameFiles
<1>5. \A x : x \in Contents' <=> (x \in Contents \/ x = e)
  BY <1>1, <1>2, <1>3, <1>4, WhereNow, WhereNext DEF Where
<1> QED
  BY <1>5

\* A write keeps the invariant of the tree.
LEMMA WriteTree ==
    ASSUME TreeInv, NEW e \in Entry, GrownBy(e), levels' = levels,
           writes' = writes + 1, writes < MaxWrites, e.lsn = writes + 1
    PROVE  TreeInv' /\ Contents' = Contents \cup {e} /\ e \notin Contents
<1>1. /\ MemType /\ LevelType /\ FilesInv /\ OneFileInv /\ LiveInv /\ VersionsInv
  BY DEF TreeInv
<1>2. Contents' = Contents \cup {e}
  BY <1>1, WriteContents
<1>3. writes \in Nat /\ writes' \in 0 .. MaxWrites
  BY <1>1, ConstantFact DEF MemType
<1>4. \A x \in Contents : x.lsn \in Nat /\ x.lsn <= writes
  BY <1>1 DEF VersionsInv, Unique, Entry
<1>5. e \notin Contents
  BY <1>3, <1>4
<1>6. Unique(Contents')
  BY <1>1, <1>2, <1>3, <1>4 DEF VersionsInv, Unique
<1>7. /\ Mutable = Len(memtables) /\ Mutable \in Nat \ {0}
      /\ \A t \in 1 .. Mutable : IsFiniteSet(memtables[t]) /\ memtables[t] \subseteq Contents
  BY <1>1 DEF MemType, Mutable, VersionsInv
<1>12. /\ Live' = Live \cup {Len(memtables')} /\ Live \subseteq 1 .. Mutable /\ Mutable \in Live
       /\ memtables'[Mutable] = memtables[Mutable] \cup {e}
       /\ \A u \in 1 .. Mutable - 1 : memtables'[u] = memtables[u]
       /\ \/ Len(memtables') = Mutable
          \/ Len(memtables') = Mutable + 1 /\ memtables'[Mutable + 1] = {}
  BY <1>1, GrownFact
<1>8. DOMAIN memtables' = 1 .. Len(memtables')
  BY DEF GrownBy
<1>15. Len(memtables') = Mutable + 1 => memtables'[Mutable + 1] = {}
  BY <1>7, <1>12
<1>14. Mutable \in Nat \ {0} /\ \A t \in DOMAIN memtables' : t \in 1 .. Mutable + 1
       /\ (t = Mutable + 1 => Len(memtables') = Mutable + 1)
  <2>1. Mutable \in Nat \ {0}
    BY <1>7
  <2>2. Len(memtables') = Mutable \/ Len(memtables') = Mutable + 1
    BY <1>12
  <2> DEFINE D == DOMAIN memtables'
             L == Len(memtables')
  <2>3. D = 1 .. L /\ (L = Mutable \/ L = Mutable + 1)
    BY <1>8, <2>2
  <2> HIDE DEF D, L
  <2>4. \A t \in D : t \in 1 .. Mutable + 1 /\ (t = Mutable + 1 => L = Mutable + 1)
    BY <2>1, <2>3
  <2> QED
    BY <2>1, <2>4 DEF D, L
<1>9. ASSUME NEW t \in DOMAIN memtables'
      PROVE  IsFiniteSet(memtables'[t]) /\ memtables'[t] \subseteq Contents'
  <2>1. CASE t = Mutable
    <3>2. IsFiniteSet(memtables[t])
      BY <1>7, <2>1
    <3>1. IsFiniteSet(memtables[t] \cup {e})
      BY <3>2, FS_AddElement
    <3> QED
      BY <1>2, <1>7, <1>12, <2>1, <3>1
  <2>2. CASE t \in 1 .. Mutable - 1
    BY <1>2, <1>7, <1>12, <2>2
  <2>3. CASE t = Mutable + 1
    <3>1. memtables'[t] = {}
      BY <1>9, <1>14, <1>15, <2>3
    <3> QED
      BY <3>1, FS_EmptySet
  <2>4. t \in 1 .. Mutable + 1
    BY <1>9, <1>14
  <2> QED
    BY <1>7, <2>1, <2>2, <2>3, <2>4
<1>10. MemType'
  <2>1. memtables' \in Seq(SUBSET Entry) /\ memtables' # <<>>
    BY DEF GrownBy
  <2>2. \A t \in DOMAIN memtables' : IsFiniteSet(memtables'[t])
    BY <1>9
  <2> QED
    BY <1>1, <1>3, <2>1, <2>2, GrownFact DEF MemType
<1>11. VersionsInv'
  <2>1. \A x \in Contents' : 1 <= x.lsn /\ x.lsn <= writes'
    BY <1>1, <1>2, <1>3, <1>4 DEF VersionsInv
  <2>2. IsFiniteSet(Contents') /\ Cardinality(Contents') = writes'
    BY <1>1, <1>2, <1>5, FS_AddElement DEF VersionsInv
  <2>3. \A t \in DOMAIN memtables' : memtables'[t] \subseteq Contents'
    BY <1>9
  <2> QED
    BY <1>6, <2>1, <2>2, <2>3 DEF VersionsInv
<1>13. LiveInv'
  <2>1. \A t \in Live : t \in 1 .. Mutable /\ memtables[t] \subseteq Contents /\ e \notin memtables[t]
    BY <1>1, <1>5, <1>7, GrownFact
  <2>2. \A t \in Live' : \/ t \in Live /\ (t = Mutable \/ memtables'[t] = memtables[t])
                         \/ memtables'[t] = {}
    BY <1>7, <1>12, <2>1
  <2>3. memtables'[Mutable] = memtables[Mutable] \cup {e} /\ Mutable \in Live
    BY <1>1, GrownFact
  <2>4. \A t, u \in Live' : memtables'[t] \cap memtables'[u] # {} => t = u
    <3>1. \A t, u \in Live : memtables[t] \cap memtables[u] # {} => t = u
      BY <1>1 DEF LiveInv
    <3> QED
      BY <2>1, <2>2, <2>3, <3>1
  <2>5. FileEntries' = FileEntries /\ FileEntries \subseteq Contents
    BY SameFiles, WhereNow DEF Where
  <2>6. \A t \in Live' : memtables'[t] \cap FileEntries' = {}
    <3>1. \A t \in Live : memtables[t] \cap FileEntries = {}
      BY <1>1 DEF LiveInv
    <3> QED
      BY <1>5, <2>2, <2>3, <2>5, <3>1
  <2>7. ASSUME NEW i \in DOMAIN frozen' PROVE memtables'[frozen'[i]] # {}
    <3>1. CASE i \in DOMAIN frozen
      <4>1. frozen'[i] = frozen[i] /\ memtables[frozen[i]] # {} /\ frozen[i] \in 1 .. Mutable - 1
        BY <1>1, <3>1, <1>7, GrownFact DEF LiveInv, MemType
      <4> QED
        BY <1>1, <4>1, GrownFact
    <3>2. CASE i \notin DOMAIN frozen
      BY <1>1, <2>3, <3>2, GrownFact
    <3> QED
      BY <3>1, <3>2
  <2> QED
    BY <2>4, <2>6, <2>7 DEF LiveInv
<1> QED
  BY <1>1, <1>2, <1>5, <1>10, <1>11, <1>13, SameFiles DEF TreeInv

\* A step that leaves the compaction alone.
LEMMA SameWork ==
    ASSUME UNCHANGED <<levels, thread, job, mergeVars>>
    PROVE  /\ SelectedInv => SelectedInv'
           /\ OutputsInv => OutputsInv'
           /\ MergeInv => MergeInv'
           /\ CommitInv => CommitInv'
<1>1. UNCHANGED <<levels, thread, job, inputs, outputs, writer>>
  BY DEF mergeVars
<1>2. SelectedInv => SelectedInv'
  BY <1>1 DEF SelectedInv, Source
<1>3. OutputsInv => OutputsInv'
  BY <1>1 DEF OutputsInv
<1>4. MergeInv => MergeInv'
  <2>1. Written' = Written /\ Pending' = Pending
    BY <1>1 DEF Written, Pending
  <2> QED
    BY <1>1, <2>1 DEF MergeInv
<1>5. CommitInv => CommitInv'
  BY <1>1 DEF CommitInv, Written
<1> QED
  BY <1>2, <1>3, <1>4, <1>5

\* What a step may do while a get runs: it adds versions, and what it inserts into the
\* memtable of the get is new.
Undisturbed ==
    /\ get' = get /\ Contents \subseteq Contents'
    /\ \A e \in Contents' \ Contents : ~ (e.lsn <= get.seen)
    /\ memtables[get.mem] \subseteq memtables'[get.mem]
    /\ memtables'[get.mem] \cap Contents \subseteq memtables[get.mem]

\* What a get has found stays right while writers and the thread work.
LEMMA GetUndisturbed ==
    ASSUME GetInv, get' = get, get # NoGet => Undisturbed
    PROVE  GetInv'
<1> SUFFICES ASSUME get # NoGet PROVE GetInv'
  BY DEF GetInv
<1>1. \A v : v \in OldVersions' <=> v \in OldVersions
  BY DEF OldVersions, Undisturbed
<1>2. OldVersions' = OldVersions
  BY <1>1
<1> QED
  BY <1>2 DEF GetInv, Undisturbed, Hidden

\* Write: put_batch, and rotate_memtable or its failure.
LEMMA WriteStep ==
    ASSUME IInv, Write
    PROVE  /\ IInv'
           /\ \E k \in Keys, d \in BOOLEAN :
                Contents' = Contents \cup {[key |-> k, lsn |-> Cardinality(Contents) + 1, del |-> d]}
<1>1. MemType /\ TreeInv /\ JobType /\ GetType /\ GetInv
  BY DEF IInv, TreeInv, WorkInv, ReadInv
<1>2. PICK k \in Keys, d \in BOOLEAN :
         /\ NewEntry(k, d) \in Entry /\ GrownBy(NewEntry(k, d))
         /\ writes' = writes + 1 /\ writes < MaxWrites /\ NewEntry(k, d).lsn = writes + 1
         /\ UNCHANGED <<levels, thread, job, mergeVars, getVars>>
  BY <1>1, WriteFact
<1> DEFINE e == NewEntry(k, d)
<1>3. /\ e \in Entry /\ GrownBy(e) /\ writes' = writes + 1 /\ writes < MaxWrites /\ e.lsn = writes + 1
      /\ levels' = levels /\ thread' = thread /\ job' = job /\ outputs' = outputs /\ writer' = writer
      /\ get' = get /\ answer' = answer
  BY <1>2 DEF mergeVars, getVars
<1> HIDE DEF e
<1>4. TreeInv' /\ Contents' = Contents \cup {e} /\ e \notin Contents
  BY <1>1, <1>3, WriteTree
<1>5. /\ memtables'[Mutable] = memtables[Mutable] \cup {e}
      /\ \A u \in 1 .. Mutable - 1 : memtables'[u] = memtables[u]
      /\ Mutable = Len(memtables) /\ Mutable \in Nat
      /\ Len(memtables') = Mutable \/ Len(memtables') = Mutable + 1
      /\ frozen' = frozen \/ frozen' = Append(frozen, Mutable)
  BY <1>1, <1>3, GrownFact DEF Mutable, GrownBy
<1>6. WorkInv'
  <2>1. Len(frozen) \in Nat /\ frozen \in Seq(Nat)
    BY <1>1 DEF MemType
  <2>2. Len(frozen') = Len(frozen) \/ Len(frozen') = Len(frozen) + 1
    BY <1>5, <2>1, AppendProperties
  <2>3. job.count \in 0 .. Len(frozen')
    BY <1>1, <2>1, <2>2 DEF JobType
  <2>4. JobType'
    BY <1>1, <1>3, <2>3 DEF JobType
  <2> QED
    BY <1>2, <2>4, SameWork DEF IInv, WorkInv
<1>7. writes \in Nat
  BY <1>1, ConstantFact DEF MemType
<1>8. GetType'
  <2>1. get.seen \in Nat /\ get.mem \in Nat /\ get.seen <= writes /\ get.mem <= Len(memtables)
    BY <1>1 DEF GetType
  <2>2. get.seen <= writes' /\ get.mem <= Len(memtables')
    BY <1>3, <1>5, <1>7, <2>1
  <2> QED
    BY <1>1, <1>3, <2>2 DEF GetType
<1>9. ASSUME get # NoGet PROVE Undisturbed
  <2>1. get.seen \in Nat /\ get.seen <= writes /\ get.mem \in 1 .. Mutable
    BY <1>1, <1>5, <1>9 DEF GetType
  <2>2. ~ (e.lsn <= get.seen)
    BY <1>3, <1>7, <2>1
  <2>3. memtables'[get.mem] = memtables[get.mem] \/ memtables'[get.mem] = memtables[get.mem] \cup {e}
    BY <1>5, <2>1
  <2> QED
    BY <1>3, <1>4, <2>2, <2>3 DEF Undisturbed
<1>10. GetInv'
  BY <1>1, <1>3, <1>9, GetUndisturbed
<1>11. writes = Cardinality(Contents)
  BY <1>1 DEF TreeInv, VersionsInv
<1>12. e = [key |-> k, lsn |-> Cardinality(Contents) + 1, del |-> d]
  BY <1>11 DEF e, NewEntry
<1> QED
  BY <1>4, <1>6, <1>8, <1>10, <1>12 DEF IInv, ReadInv
-----------------------------------------------------------------------------
(* Flushes. *)

\* A step that leaves the tree alone.
LEMMA SameTree ==
    ASSUME UNCHANGED treeVars
    PROVE  (TreeInv => TreeInv') /\ Contents' = Contents
<1>1. memtables' = memtables /\ frozen' = frozen /\ levels' = levels /\ writes' = writes
  BY DEF treeVars
<1>2. FileEntries' = FileEntries /\ Live' = Live
  BY <1>1 DEF FileEntries, LevelEntries, Live, Mutable
<1>3. Contents' = Contents
  BY <1>1, <1>2 DEF Contents, Mutable
<1>4. MemType => MemType'
  BY <1>1 DEF MemType
<1>5. LiveInv => LiveInv'
  BY <1>1, <1>2 DEF LiveInv
<1>6. VersionsInv => VersionsInv'
  BY <1>1, <1>3 DEF VersionsInv
<1> QED
  BY <1>1, <1>3, <1>4, <1>5, <1>6, SameFiles DEF TreeInv

\* A step that leaves the tree and the gets alone.
LEMMA SameRead ==
    ASSUME UNCHANGED <<treeVars, getVars>>
    PROVE  ReadInv => ReadInv'
<1>1. memtables' = memtables /\ writes' = writes /\ get' = get /\ answer' = answer /\ Contents' = Contents
  BY SameTree DEF treeVars, getVars
<1>2. GetType => GetType'
  BY <1>1 DEF GetType
<1>3. GetInv => GetInv'
  BY <1>1, GetUndisturbed DEF Undisturbed
<1> QED
  BY <1>2, <1>3 DEF ReadInv

\* The thread is at rest, or begins to flush, and merges nothing.
LEMMA RestStep ==
    ASSUME IInv, UNCHANGED treeVars, UNCHANGED getVars,
           thread' \in {"Rest", "Flush"},
           job' \in [count: 0 .. Len(frozen), level: {0}, source: {{}}, target: {{}}],
           inputs' = <<>>, outputs' = <<>>, writer' = <<>>
    PROVE  IInv'
<1>1. TreeInv' /\ ReadInv'
  BY SameTree, SameRead DEF IInv
<1>2. Len(frozen) \in Nat /\ frozen' = frozen
  BY DEF IInv, TreeInv, MemType, treeVars
<1>3. JobType'
  <2>1. /\ job'.count \in 0 .. Len(frozen) /\ job'.level \in 0 .. MaxLevel - 1
        /\ job' \in [count: Nat, level: Nat, source: SUBSET Files, target: SUBSET Files]
    BY <1>2, ConstantFact
  <2>2. outputs' \in Seq(Files) /\ writer' \in Files
    BY DEF Files
  <2> QED
    BY <1>2, <2>1, <2>2 DEF JobType
<1>4. SelectedInv' /\ MergeInv' /\ CommitInv'
  BY DEF SelectedInv, MergeInv, CommitInv
<1>5. OutputsInv'
  BY DEF OutputsInv, Sorted
<1> QED
  BY <1>1, <1>3, <1>4, <1>5 DEF IInv, WorkInv

\* FlushStart and FlushFails change no data.
LEMMA FlushStartStep ==
    ASSUME IInv, FlushStart \/ FlushFails
    PROVE  IInv'
<1>1. thread \in {"Rest", "Flush"} /\ UNCHANGED <<treeVars, mergeVars, getVars>>
  BY DEF FlushStart, FlushFails
<1>2. outputs' = <<>> /\ inputs' = <<>> /\ writer' = <<>>
  BY <1>1 DEF IInv, WorkInv, OutputsInv, mergeVars
<1>3. Len(frozen) \in Nat
  BY DEF IInv, TreeInv, MemType
<1>4. /\ thread' \in {"Rest", "Flush"}
      /\ job' \in [count: 0 .. Len(frozen), level: {0}, source: {{}}, target: {{}}]
  BY <1>3 DEF FlushStart, FlushFails, NoJob
<1> QED
  BY <1>1, <1>2, <1>4, RestStep

\* body holds what the memtable m held, in the order of the keys.
IsFlushed(body, m) == body \in Files /\ body # <<>> /\ Sorted(body) /\ ToSet(body) = m

\* A frozen memtable becomes a sorted file with the same entries.
LEMMA FlushedFact ==
    ASSUME TreeInv, NEW i \in DOMAIN frozen
    PROVE  IsFlushed(InOrder(memtables[frozen[i]]), memtables[frozen[i]])
<1> DEFINE m == memtables[frozen[i]]
<1>1. m # {} /\ IsFiniteSet(m) /\ m \subseteq Contents
  BY DEF TreeInv, LiveInv, MemType, VersionsInv
<1>2. Unique(m)
  BY <1>1 DEF TreeInv, VersionsInv, Unique
<1> HIDE DEF m
<1>3. /\ InOrder(m) \in Seq(Entry) /\ ToSet(InOrder(m)) = m
      /\ Sorted(InOrder(m))
  BY <1>1, <1>2, InOrderFact
<1>4. InOrder(m) # <<>>
  BY <1>1, <1>3 DEF ToSet
<1>5. IsFlushed(InOrder(m), m)
  BY <1>3, <1>4 DEF IsFlushed, Files
<1> QED
  BY <1>5 DEF m

\* The levels after a flush: the first memtables have become the last files of L0.
Flushed ==
    /\ \A l \in Levels : \A i \in DOMAIN levels[l] : i \in DOMAIN levels'[l] /\ levels'[l][i] = levels[l][i]
    /\ \A j \in 1 .. job.count : /\ Len(levels[0]) + j \in DOMAIN levels'[0]
                                 /\ IsFlushed(levels'[0][Len(levels[0]) + j], memtables[frozen[j]])
    /\ \A l \in Levels : \A i \in DOMAIN levels'[l] :
         \/ i \in DOMAIN levels[l]
         \/ l = 0 /\ \E j \in 1 .. job.count : i = Len(levels[0]) + j

\* What FlushCommit makes of the levels.
LEMMA FlushLevels ==
    ASSUME TreeInv, JobType, FlushCommit
    PROVE  LevelType' /\ Flushed
<1> DEFINE c == job.count
           old == levels[0]
           n == Len(old)
           new == [i \in 1 .. c |-> InOrder(memtables[frozen[i]])]
<1>1. levels' = [levels EXCEPT ![0] = old \o new]
  BY DEF FlushCommit
<1>2. /\ levels \in [Levels -> Seq(Files)] /\ 0 \in Levels /\ old \in Seq(Files) /\ n \in Nat
      /\ c \in Nat /\ c <= Len(frozen) /\ frozen \in Seq(Nat)
  BY ConstantFact DEF TreeInv, LevelType, JobType, MemType
<1>3. 1 .. c \subseteq DOMAIN frozen
  BY <1>2
<1>4. \A j \in 1 .. c : IsFlushed(new[j], memtables[frozen[j]])
  BY <1>3, FlushedFact
<1>5. new \in [1 .. c -> Files]
  <2> HIDE DEF c
  <2>1. \A j \in 1 .. c : InOrder(memtables[frozen[j]]) \in Files
    BY <1>4 DEF IsFlushed
  <2> QED
    BY <2>1
<1> HIDE DEF c, new
<1>6. new \in Seq(Files) /\ Len(new) = c
  BY <1>2, <1>5
<1> DEFINE joined == old \o new
<1>7. /\ joined \in Seq(Files) /\ Len(joined) = n + c
      /\ \A i \in 1 .. n + c : joined[i] = IF i <= n THEN old[i] ELSE new[i - n]
  BY <1>2, <1>6, ConcatProperties
<1>8. levels' \in [Levels -> Seq(Files)] /\ levels'[0] = joined
      /\ \A l \in Levels \ {0} : levels'[l] = levels[l]
  BY <1>1, <1>2, <1>7
<1> HIDE DEF joined
<1>9. DOMAIN old = 1 .. n /\ DOMAIN joined = 1 .. n + c
  BY <1>2, <1>7
<1>10. \A i \in 1 .. n : i \in 1 .. n + c /\ joined[i] = old[i]
  BY <1>2, <1>7
<1>11. \A j \in 1 .. c : n + j \in 1 .. n + c /\ joined[n + j] = new[j]
  <2>1. \A j \in 1 .. c : n + j \in 1 .. n + c /\ ~ (n + j <= n) /\ (n + j) - n = j
    BY <1>2
  <2> QED
    BY <1>7, <2>1
<1>12. \A i \in 1 .. n + c : i \in 1 .. n \/ \E j \in 1 .. c : i = n + j
  <2>1. \A i \in 1 .. n + c : i \in 1 .. n \/ (i - n \in 1 .. c /\ i = n + (i - n))
    BY <1>2
  <2> QED
    BY <2>1
<1> HIDE DEF n
<1>13. \A l \in Levels : \A i \in DOMAIN levels[l] : i \in DOMAIN levels'[l] /\ levels'[l][i] = levels[l][i]
  BY <1>8, <1>9, <1>10
<1>14. \A j \in 1 .. c : n + j \in DOMAIN levels'[0] /\ IsFlushed(levels'[0][n + j], memtables[frozen[j]])
  BY <1>4, <1>8, <1>9, <1>11
<1>15. \A l \in Levels : \A i \in DOMAIN levels'[l] :
         i \in DOMAIN levels[l] \/ (l = 0 /\ \E j \in 1 .. c : i = n + j)
  BY <1>8, <1>9, <1>12
<1>16. LevelType'
  BY <1>8 DEF LevelType
<1>17. Flushed
  BY <1>13, <1>14, <1>15 DEF Flushed, c, n
<1> QED
  BY <1>16, <1>17

\* The memtables after a flush: the first are no longer frozen, and are freed unless a
\* get holds them.
LEMMA FlushMemory ==
    ASSUME MemType, JobType, FlushCommit
    PROVE  /\ MemType' /\ Mutable' = Mutable
           /\ \A t \in Live' : memtables'[t] = memtables[t]
           /\ \A t \in DOMAIN memtables' : t \in DOMAIN memtables /\ memtables'[t] \in {memtables[t], {}}
           /\ get.mem \in DOMAIN memtables => memtables'[get.mem] = memtables[get.mem]
           /\ \A t : t \in Live <=> t \in Live' \/ \E i \in 1 .. job.count : t = frozen[i]
           /\ \A t \in Live' : \A i \in 1 .. job.count : t # frozen[i]
           /\ \A i \in DOMAIN frozen' : \E j \in DOMAIN frozen : frozen'[i] = frozen[j]
           /\ \A i \in DOMAIN frozen' : job.count + i \in DOMAIN frozen /\ frozen'[i] = frozen[job.count + i]
           /\ 1 .. job.count \subseteq DOMAIN frozen
           /\ job.count <= Len(frozen)
<1> DEFINE c == job.count
           n == Len(frozen)
<1>1. /\ frozen' = SubSeq(frozen, c + 1, n) /\ writes' = writes /\ get' = get
      /\ memtables' = [t \in DOMAIN memtables |->
            IF t \in ToSet(frozen') \cup {Mutable, get.mem} THEN memtables[t] ELSE {}]
  BY DEF FlushCommit, Freed, getVars
<1>2. /\ memtables \in Seq(SUBSET Entry) /\ memtables # <<>> /\ DOMAIN memtables = 1 .. Mutable
      /\ Mutable = Len(memtables) /\ Mutable \in Nat \ {0}
      /\ frozen \in Seq(Nat) /\ DOMAIN frozen = 1 .. n /\ n \in Nat
      /\ \A i \in 1 .. n : frozen[i] \in 1 .. Mutable - 1
      /\ \A i, j \in 1 .. n : i # j => frozen[i] # frozen[j]
      /\ c \in Nat /\ c <= n
  BY DEF MemType, JobType, Mutable
<1> HIDE DEF c, n
<1>3. /\ frozen' \in Seq(Nat) /\ Len(frozen') = n - c
      /\ \A i \in 1 .. n - c : frozen'[i] = frozen[c + i] /\ c + i \in 1 .. n
  <2>1. \A i \in c + 1 .. n : frozen[i] \in Nat
    BY <1>2
  <2>2. c + 1 \in Int /\ n \in Int
    BY <1>2
  <2>3. /\ frozen' \in Seq(Nat)
        /\ Len(frozen') = IF c + 1 <= n THEN n - (c + 1) + 1 ELSE 0
        /\ \A i \in 1 .. n - (c + 1) + 1 : frozen'[i] = frozen[(c + 1) + i - 1]
    BY <1>1, <2>1, <2>2, SubSeqProperties
  <2>4. n - (c + 1) + 1 = n - c /\ Len(frozen') = n - c
    BY <1>2, <2>3
  <2>5. \A i \in 1 .. n - c : (c + 1) + i - 1 = c + i /\ c + i \in 1 .. n
    BY <1>2
  <2> QED
    BY <2>3, <2>4, <2>5
<1>4. DOMAIN frozen' = 1 .. n - c
  BY <1>3
<1>5. \A j \in c + 1 .. n : \E i \in 1 .. n - c : frozen'[i] = frozen[j]
  <2>1. \A j \in c + 1 .. n : j - c \in 1 .. n - c /\ c + (j - c) = j
    BY <1>2
  <2> QED
    BY <1>3, <2>1
<1>6. /\ DOMAIN memtables' = 1 .. Mutable
      /\ \A t \in 1 .. Mutable : memtables'[t] \in {memtables[t], {}}
      /\ \A t \in 1 .. Mutable :
            t \in ToSet(frozen') \cup {Mutable, get.mem} => memtables'[t] = memtables[t]
  BY <1>1, <1>2
<1>7. memtables' \in Seq(SUBSET Entry) /\ Len(memtables') = Mutable
  <2>1. \A t \in 1 .. Mutable : memtables'[t] \in SUBSET Entry
    <3>1. \A t \in 1 .. Mutable : memtables[t] \in SUBSET Entry
      BY <1>2
    <3> QED
      BY <1>6, <3>1
  <2>2. memtables' = [t \in 1 .. Mutable |-> memtables'[t]]
    BY <1>1, <1>2
  <2>3. memtables' \in [1 .. Mutable -> SUBSET Entry]
    BY <2>1, <2>2
  <2> QED
    BY <1>2, <2>3
<1>8. Mutable' = Mutable /\ memtables' # <<>>
  BY <1>2, <1>7 DEF Mutable
<1>9. \A i \in 1 .. n - c : frozen'[i] \in 1 .. Mutable - 1
  BY <1>2, <1>3
<1>10. \A i, j \in 1 .. n - c : i # j => frozen'[i] # frozen'[j]
  <2>1. \A i, j \in 1 .. n - c : i # j => c + i # c + j
    BY <1>2
  <2> QED
    BY <1>2, <1>3, <2>1
<1>11. \A t \in DOMAIN memtables' : IsFiniteSet(memtables'[t])
  BY <1>2, <1>6, FS_EmptySet DEF MemType
<1>12. MemType'
  BY <1>1, <1>3, <1>4, <1>7, <1>8, <1>9, <1>10, <1>11 DEF MemType
<1>13. Live' = {Mutable} \cup {frozen'[i] : i \in 1 .. n - c}
  BY <1>4, <1>8 DEF Live
<1>14. Live = {Mutable} \cup {frozen[i] : i \in 1 .. n}
  BY <1>2 DEF Live
<1>15. \A t \in Live' : memtables'[t] = memtables[t]
  <2>1. \A t \in Live' : t \in 1 .. Mutable /\ t \in ToSet(frozen') \cup {Mutable, get.mem}
    <3>1. ToSet(frozen') = {frozen'[i] : i \in 1 .. n - c}
      BY <1>4 DEF ToSet
    <3>2. Mutable \in 1 .. Mutable /\ \A t \in 1 .. Mutable - 1 : t \in 1 .. Mutable
      BY <1>2
    <3> QED
      BY <1>9, <1>13, <3>1, <3>2
  <2> QED
    BY <1>6, <2>1
<1>16. \A t : t \in Live <=> t \in Live' \/ \E i \in 1 .. c : t = frozen[i]
  <2>1. \A i \in 1 .. n : i \in 1 .. c \/ i \in c + 1 .. n
    BY <1>2
  <2>2. 1 .. c \subseteq 1 .. n
    BY <1>2
  <2> QED
    BY <1>3, <1>5, <1>13, <1>14, <2>1, <2>2, SMTT(20)
<1>17. \A t \in Live' : \A i \in 1 .. c : t # frozen[i]
  <2>1. \A i \in 1 .. c : i \in 1 .. n /\ frozen[i] # Mutable
    BY <1>2
  <2>2. \A i \in 1 .. c, j \in 1 .. n - c : i # c + j
    BY <1>2
  <2>3. ASSUME NEW t \in Live', NEW i \in 1 .. c PROVE t # frozen[i]
    <3>1. CASE t = Mutable
      BY <2>1, <3>1
    <3>2. ASSUME NEW j \in 1 .. n - c, t = frozen'[j] PROVE t # frozen[i]
      <4>1. t = frozen[c + j] /\ c + j \in 1 .. n /\ i \in 1 .. n /\ i # c + j
        BY <1>3, <2>1, <2>2, <3>2
      <4> QED
        BY <1>2, <4>1
    <3> QED
      BY <1>13, <3>1, <3>2
  <2> QED
    BY <2>3
<1>18. get.mem \in DOMAIN memtables => memtables'[get.mem] = memtables[get.mem]
  BY <1>2, <1>6
<1>19. \A i \in DOMAIN frozen' : \E j \in DOMAIN frozen : frozen'[i] = frozen[j]
  BY <1>2, <1>3, <1>4
<1>21. \A i \in DOMAIN frozen' : c + i \in DOMAIN frozen /\ frozen'[i] = frozen[c + i]
  BY <1>2, <1>3, <1>4
<1>20. 1 .. c \subseteq DOMAIN frozen
  BY <1>2
<1> QED
  BY <1>2, <1>6, <1>8, <1>12, <1>15, <1>16, <1>17, <1>18, <1>19, <1>20, <1>21 DEF c, n

\* FlushCommit: the entries move from the memtables to L0, and none is lost.
LEMMA FlushCommitStep ==
    ASSUME IInv, FlushCommit
    PROVE  IInv' /\ Contents' = Contents
<1>1. /\ TreeInv /\ MemType /\ FilesInv /\ OneFileInv /\ LiveInv /\ VersionsInv /\ JobType
      /\ GetType /\ GetInv /\ OutputsInv
  BY DEF IInv, TreeInv, WorkInv, ReadInv
<1>2. LevelType' /\ Flushed
  BY <1>1, FlushLevels
<1> DEFINE c == job.count
           n == Len(levels[0])
<1>3. /\ MemType' /\ Mutable' = Mutable
      /\ \A t \in Live' : memtables'[t] = memtables[t]
      /\ \A t \in DOMAIN memtables' : t \in DOMAIN memtables /\ memtables'[t] \in {memtables[t], {}}
      /\ get.mem \in DOMAIN memtables => memtables'[get.mem] = memtables[get.mem]
      /\ \A t : t \in Live <=> t \in Live' \/ \E i \in 1 .. c : t = frozen[i]
      /\ \A t \in Live' : \A i \in 1 .. c : t # frozen[i]
      /\ \A i \in DOMAIN frozen' : \E j \in DOMAIN frozen : frozen'[i] = frozen[j]
      /\ 1 .. c \subseteq DOMAIN frozen
  BY <1>1, FlushMemory
<1>4. /\ \A l \in Levels : \A i \in DOMAIN levels[l] : i \in DOMAIN levels'[l] /\ levels'[l][i] = levels[l][i]
      /\ \A j \in 1 .. c : /\ n + j \in DOMAIN levels'[0]
                           /\ IsFlushed(levels'[0][n + j], memtables[frozen[j]])
      /\ \A l \in Levels : \A i \in DOMAIN levels'[l] :
           \/ i \in DOMAIN levels[l]
           \/ l = 0 /\ \E j \in 1 .. c : i = n + j
  BY <1>2 DEF Flushed
<1>5. thread' = "Rest" /\ job' = NoJob /\ writes' = writes /\ UNCHANGED <<mergeVars, getVars>>
      /\ thread = "Flush"
  BY DEF FlushCommit
<1> HIDE DEF c, n
<1>6. 0 \in Levels
  BY ConstantFact
<1>7. ASSUME NEW x, IsInFile(x)' PROVE IsInFile(x) \/ \E j \in 1 .. c : x \in memtables[frozen[j]]
  <2>4. PICK l \in Levels : \E i \in DOMAIN levels'[l] : x \in ToSet(levels'[l][i])
    BY <1>7 DEF IsInFile
  <2>1. PICK i \in DOMAIN levels'[l] : x \in ToSet(levels'[l][i])
    BY <2>4
  <2>2. CASE i \in DOMAIN levels[l]
    BY <1>4, <2>1, <2>2 DEF IsInFile
  <2>3. CASE l = 0 /\ \E j \in 1 .. c : i = n + j
    BY <1>4, <2>1, <2>3 DEF IsFlushed
  <2> QED
    BY <1>4, <2>2, <2>3
<1>8. ASSUME NEW x, IsInFile(x) PROVE IsInFile(x)'
  BY <1>4, <1>8 DEF IsInFile
<1>9. ASSUME NEW x, NEW j \in 1 .. c, x \in memtables[frozen[j]] PROVE IsInFile(x)'
  BY <1>4, <1>6, <1>9 DEF IsInFile, IsFlushed
<1>10. \A x : IsLive(x) <=> IsLive(x)' \/ \E j \in 1 .. c : x \in memtables[frozen[j]]
  BY <1>3 DEF IsLive
<1>11. Contents' = Contents
  <2>1. \A x : x \in Contents' <=> x \in Contents
    BY <1>7, <1>8, <1>9, <1>10, WhereNow, WhereNext DEF Where
  <2> QED
    BY <2>1
<1>12. FilesInv'
  <2>1. ASSUME NEW l \in Levels, NEW i \in DOMAIN levels'[l]
        PROVE  levels'[l][i] # <<>> /\ Sorted(levels'[l][i])
    <3>1. CASE i \in DOMAIN levels[l]
      BY <1>1, <1>4, <3>1 DEF FilesInv
    <3>2. CASE l = 0 /\ \E j \in 1 .. c : i = n + j
      BY <1>4, <3>2 DEF IsFlushed
    <3> QED
      BY <1>4, <3>1, <3>2
  <2>2. ASSUME NEW l \in Levels \ {0}, NEW i \in DOMAIN levels'[l], NEW j \in DOMAIN levels'[l], i < j
        PROVE  AllBefore(levels'[l][i], levels'[l][j])
    <3>1. i \in DOMAIN levels[l] /\ j \in DOMAIN levels[l]
      BY <1>4
    <3> QED
      BY <1>1, <1>4, <2>2, <3>1 DEF FilesInv
  <2> QED
    BY <2>1, <2>2 DEF FilesInv
<1>13. \A j \in 1 .. c : frozen[j] \in Live /\ memtables[frozen[j]] \cap FileEntries = {}
  BY <1>1, <1>3 DEF LiveInv
<1>14. \A i, j \in 1 .. c : memtables[frozen[i]] \cap memtables[frozen[j]] # {} => i = j
  <2>1. \A i, j \in DOMAIN frozen : i # j => frozen[i] # frozen[j]
    BY <1>1 DEF MemType
  <2> QED
    BY <1>1, <1>3, <1>13, <2>1 DEF LiveInv
<1>15. \A l \in Levels : \A i \in DOMAIN levels[l] : ToSet(levels[l][i]) \subseteq FileEntries
  BY WhereNow DEF Where, IsInFile
<1>22. \A j \in 1 .. c : ToSet(levels'[0][n + j]) = memtables[frozen[j]]
  BY <1>4 DEF IsFlushed
<1>23. \A l \in Levels : \A i \in DOMAIN levels[l] : ToSet(levels'[l][i]) \subseteq FileEntries
  BY <1>4, <1>15
<1>16. OneFileInv'
  <2> SUFFICES ASSUME NEW l \in Levels, NEW m \in Levels,
                      NEW i \in DOMAIN levels'[l], NEW j \in DOMAIN levels'[m],
                      ToSet(levels'[l][i]) \cap ToSet(levels'[m][j]) # {}
               PROVE  l = m /\ i = j
    BY DEF OneFileInv
  <2>1. CASE i \in DOMAIN levels[l] /\ j \in DOMAIN levels[m]
    <3>1. levels'[l][i] = levels[l][i] /\ levels'[m][j] = levels[m][j]
      BY <1>4, <2>1
    <3>2. ToSet(levels[l][i]) \cap ToSet(levels[m][j]) # {}
      BY <3>1
    <3>3. OneFileInv
      BY <1>1
    <3> QED
      BY <2>1, <3>2, <3>3 DEF OneFileInv
  <2>2. CASE i \in DOMAIN levels[l] /\ m = 0 /\ \E v \in 1 .. c : j = n + v
    <3>1. PICK v \in 1 .. c : j = n + v
      BY <2>2
    <3>2. ToSet(levels'[m][j]) = memtables[frozen[v]] /\ memtables[frozen[v]] \cap FileEntries = {}
      BY <1>13, <1>22, <2>2, <3>1
    <3>3. ToSet(levels'[l][i]) \subseteq FileEntries
      BY <1>23, <2>2
    <3> QED
      BY <3>2, <3>3
  <2>3. CASE j \in DOMAIN levels[m] /\ l = 0 /\ \E u \in 1 .. c : i = n + u
    <3>1. PICK u \in 1 .. c : i = n + u
      BY <2>3
    <3>2. ToSet(levels'[l][i]) = memtables[frozen[u]] /\ memtables[frozen[u]] \cap FileEntries = {}
      BY <1>13, <1>22, <2>3, <3>1
    <3>3. ToSet(levels'[m][j]) \subseteq FileEntries
      BY <1>23, <2>3
    <3> QED
      BY <3>2, <3>3
  <2>4. CASE l = 0 /\ m = 0 /\ (\E u \in 1 .. c : i = n + u) /\ (\E v \in 1 .. c : j = n + v)
    <3>1. PICK u \in 1 .. c : i = n + u
      BY <2>4
    <3>2. PICK v \in 1 .. c : j = n + v
      BY <2>4
    <3>3. /\ ToSet(levels'[l][i]) = memtables[frozen[u]]
          /\ ToSet(levels'[m][j]) = memtables[frozen[v]]
      BY <1>22, <2>4, <3>1, <3>2
    <3>4. u = v
      BY <1>14, <3>3
    <3> QED
      BY <2>4, <3>1, <3>2, <3>4
  <2> QED
    BY <1>4, <2>1, <2>2, <2>3, <2>4
<1>17. LiveInv'
  <2>1. \A t \in Live' : t \in Live
    BY <1>3
  <2>2. \A t, u \in Live' : memtables'[t] \cap memtables'[u] # {} => t = u
    BY <1>1, <1>3, <2>1 DEF LiveInv
  <2>3. ASSUME NEW t \in Live', NEW x \in memtables'[t], x \in FileEntries' PROVE FALSE
    <3>1. x \in memtables[t] /\ t \in Live
      BY <1>3, <2>1, <2>3
    <3>2. x \notin FileEntries
      BY <1>1, <3>1 DEF LiveInv
    <3>3. PICK j \in 1 .. c : x \in memtables[frozen[j]]
      BY <1>7, <2>3, <3>2, WhereNow, WhereNext DEF Where
    <3>4. t = frozen[j]
      BY <1>1, <1>13, <3>1, <3>3 DEF LiveInv
    <3> QED
      BY <1>3, <3>4
  <2>4. \A i \in DOMAIN frozen' : memtables'[frozen'[i]] # {}
    <3>1. \A i \in DOMAIN frozen' : frozen'[i] \in Live'
      BY DEF Live
    <3> QED
      BY <1>1, <1>3, <3>1 DEF LiveInv
  <2> QED
    BY <2>2, <2>3, <2>4 DEF LiveInv
<1>18. VersionsInv'
  <2>1. \A t \in DOMAIN memtables' : memtables'[t] \subseteq Contents'
    BY <1>1, <1>3, <1>11 DEF VersionsInv
  <2> QED
    BY <1>1, <1>5, <1>11, <2>1 DEF VersionsInv
<1>19. TreeInv'
  BY <1>2, <1>3, <1>12, <1>16, <1>17, <1>18 DEF TreeInv
<1>20. WorkInv'
  <2>1. outputs' = <<>> /\ inputs' = <<>> /\ writer' = <<>>
    BY <1>1, <1>5 DEF OutputsInv, mergeVars
  <2>2. JobType'
    <3>1. Len(frozen') \in Nat
      BY <1>3 DEF MemType
    <3>2. NoJob \in [count: Nat, level: Nat, source: SUBSET Files, target: SUBSET Files]
          /\ NoJob.count = 0 /\ NoJob.level = 0 /\ 0 \in 0 .. MaxLevel - 1
      BY ConstantFact DEF NoJob
    <3>3. outputs' \in Seq(Files) /\ writer' \in Files
      BY <2>1 DEF Files
    <3> QED
      BY <1>5, <3>1, <3>2, <3>3 DEF JobType
  <2>3. SelectedInv' /\ MergeInv' /\ CommitInv'
    BY <1>5 DEF SelectedInv, MergeInv, CommitInv
  <2>4. OutputsInv'
    BY <2>1 DEF OutputsInv, Sorted
  <2> QED
    BY <2>2, <2>3, <2>4 DEF WorkInv
<1>21. ReadInv'
  <2>1. get' = get /\ answer' = answer
    BY <1>5 DEF getVars
  <2>2. Len(memtables') = Len(memtables)
    BY <1>3 DEF Mutable
  <2>3. GetType'
    BY <1>1, <1>5, <2>1, <2>2 DEF GetType
  <2>4. get # NoGet => Undisturbed
    <3>1. get # NoGet => get.mem \in DOMAIN memtables
      BY <1>1 DEF GetType, MemType
    <3> QED
      BY <1>3, <1>11, <2>1, <3>1 DEF Undisturbed
  <2> QED
    BY <1>1, <2>1, <2>3, <2>4, GetUndisturbed DEF ReadInv
<1> QED
  BY <1>11, <1>19, <1>20, <1>21 DEF IInv
-----------------------------------------------------------------------------
(* The selection and the merge. *)

\* f is a file of the tree.
Placed(f) == \E l \in Levels : \E i \in DOMAIN levels[l] : f = levels[l][i]

\* A file of the tree is sorted, not empty, and part of the contents.
LEMMA PlacedFact ==
    ASSUME TreeInv, NEW f, Placed(f)
    PROVE  f \in Files /\ f \in Seq(Entry) /\ f # <<>> /\ Sorted(f) /\ ToSet(f) \subseteq Contents
<1>1. PICK l \in Levels : \E i \in DOMAIN levels[l] : f = levels[l][i]
  BY DEF Placed
<1>2. PICK i \in DOMAIN levels[l] : f = levels[l][i]
  BY <1>1
<1>3. levels[l] \in Seq(Files)
  BY DEF TreeInv, LevelType
<1>4. f \in Files
  BY <1>2, <1>3
<1>5. f # <<>> /\ Sorted(f)
  BY <1>2 DEF TreeInv, FilesInv
<1>6. \A x \in ToSet(f) : IsInFile(x)
  BY <1>2 DEF IsInFile
<1> QED
  BY <1>4, <1>5, <1>6, WhereNow DEF Where, Files

\* Two files of the tree have no entry in common.
LEMMA PlacedApart ==
    ASSUME TreeInv, NEW f, Placed(f), NEW g, Placed(g), f # g
    PROVE  ToSet(f) \cap ToSet(g) = {}
BY DEF Placed, TreeInv, OneFileInv

\* The files that CompactSelect takes at level l, and those that overlap with them.
Overlapping(source, l) ==
    {f \in ToSet(levels[l + 1]) : Overlaps(f, Smallest({MinKey(g) : g \in source}),
                                              Largest({MaxKey(g) : g \in source}))}

\* A selection takes files of the tree, and at least one.
LEMMA SelectionFact ==
    ASSUME TreeInv, NEW l \in 0 .. MaxLevel - 1, levels[l] # <<>>
    PROVE  /\ Source(l) # {} /\ Source(l) \subseteq ToSet(levels[l])
           /\ \A f \in Source(l) \cup Overlapping(Source(l), l) : Placed(f)
<1>1. l \in Levels /\ l + 1 \in Levels
  BY ConstantFact
<1>2. levels[l] \in Seq(Files) /\ levels[l + 1] \in Seq(Files)
  BY <1>1 DEF TreeInv, LevelType
<1>3. levels[l][1] \in ToSet(levels[l]) /\ ToSet(levels[l]) # {}
  <2>1. 1 \in DOMAIN levels[l]
    BY <1>2, EmptySeq, LenProperties
  <2> QED
    BY <2>1 DEF ToSet
<1>4. Source(l) # {} /\ Source(l) \subseteq ToSet(levels[l])
  BY <1>3 DEF Source
<1>5. \A f \in ToSet(levels[l]) \cup ToSet(levels[l + 1]) : Placed(f)
  BY <1>1 DEF ToSet, Placed
<1> QED
  BY <1>4, <1>5 DEF Overlapping

\* The inputs of a merge are files of the tree, and one of them has an entry.
LEMMA InputFact ==
    ASSUME TreeInv, JobType, SelectedInv, thread \in {"Merge", "Commit"}
    PROVE  /\ \A f \in job.source \cup job.target : Placed(f)
           /\ EntriesOf(job.source \cup job.target) # {}
<1>1. /\ job.level \in 0 .. MaxLevel - 1 /\ levels[job.level] # <<>>
      /\ job.source = Source(job.level) /\ job.target = Overlapping(job.source, job.level)
  BY DEF JobType, SelectedInv, Overlapping
<1>2. job.source # {} /\ \A f \in job.source \cup job.target : Placed(f)
  BY <1>1, SelectionFact
<1>3. PICK f \in job.source : TRUE
  BY <1>2
<1>4. f \in Seq(Entry) /\ f # <<>>
  BY <1>2, PlacedFact
<1>5. ToSet(f) # {}
  BY <1>4, ToSetFact
<1> QED
  BY <1>2, <1>5 DEF EntriesOf

\* CompactSelect: the inputs are opened and nothing is written yet.
LEMMA CompactSelectStep ==
    ASSUME IInv, CompactSelect
    PROVE  IInv' /\ Contents' = Contents
<1>1. PICK l \in 0 .. MaxLevel - 1 :
        /\ thread = "Rest" /\ thread' = "Merge" /\ Due(l)
        /\ job' = [count |-> 0, level |-> l, source |-> Source(l), target |-> Overlapping(Source(l), l)]
        /\ inputs' = [f \in Source(l) \cup Overlapping(Source(l), l) |-> f]
        /\ outputs' = <<>> /\ writer' = <<>>
        /\ UNCHANGED <<treeVars, getVars>>
  BY DEF CompactSelect, Overlapping
<1> DEFINE S == Source(l)
           T == Overlapping(S, l)
<1>2. TreeInv' /\ ReadInv' /\ Contents' = Contents
  BY <1>1, SameTree, SameRead DEF IInv
<1>3. levels' = levels /\ frozen' = frozen
  BY <1>1 DEF treeVars
<1>4. TreeInv /\ Len(frozen) \in Nat
  BY DEF IInv, TreeInv, MemType
<1>5. levels[l] # <<>>
  <2> SUFFICES ASSUME levels[l] = <<>> PROVE FALSE
    OBVIOUS
  <2>1. LevelEntries(l) = {}
    BY DEF LevelEntries
  <2>2. Cardinality(LevelEntries(l)) = 0
    BY <2>1, FS_EmptySet
  <2>3. LevelTrigger[l] \in Nat \ {0}
    BY ConstantFact
  <2> QED
    BY <1>1, <2>2, <2>3 DEF Due, Size
<1>6. \A f \in S \cup T : Placed(f)
  BY <1>4, <1>5, SelectionFact
<1>7. \A f \in S \cup T : f \in Files /\ Sorted(f)
  BY <1>4, <1>6, PlacedFact
<1>8. JobType'
  <2>1. S \in SUBSET Files /\ T \in SUBSET Files /\ l \in Nat
    BY <1>7
  <2> HIDE DEF S, T
  <2>2. job' \in [count: Nat, level: Nat, source: SUBSET Files, target: SUBSET Files]
        /\ job'.count = 0 /\ job'.level = l
    BY <1>1, <2>1 DEF S, T
  <2>3. outputs' \in Seq(Files) /\ writer' \in Files
    BY <1>1 DEF Files
  <2> QED
    BY <1>1, <1>3, <1>4, <2>2, <2>3 DEF JobType
<1>9. SelectedInv'
  <2>1. job'.level = l /\ job'.source = S /\ job'.target = T
    BY <1>1
  <2>2. Source(l)' = Source(l) /\ Overlapping(S, l)' = Overlapping(S, l)
    BY <1>3 DEF Source, Overlapping
  <2> QED
    BY <1>3, <1>5, <2>1 DEF SelectedInv, Source, Overlapping
<1> HIDE DEF S, T
<1>10. OutputsInv'
  BY <1>1, ToSetFact DEF OutputsInv, Sorted
<1>11. MergeInv'
  <2>1. job'.source = S /\ job'.target = T /\ inputs' = [f \in S \cup T |-> f]
    BY <1>1 DEF S, T
  <2>2. inputs' \in [S \cup T -> Files] /\ DOMAIN inputs' = S \cup T /\ \A f \in S \cup T : inputs'[f] = f
    BY <1>7, <2>1
  <2>3. Written' = {}
    BY <1>1 DEF Written, ToSet
  <2>4. Pending' = EntriesOf(S \cup T)
    BY <2>2 DEF Pending, EntriesOf
  <2> QED
    BY <1>7, <2>1, <2>2, <2>3, <2>4 DEF MergeInv
<1>12. CommitInv'
  BY <1>1 DEF CommitInv
<1> QED
  BY <1>2, <1>8, <1>9, <1>10, <1>11, <1>12 DEF IInv, WorkInv

\* CompactFails: the outputs are given up and the tree is as before.
LEMMA CompactFailsStep ==
    ASSUME IInv, CompactFails
    PROVE  IInv' /\ Contents' = Contents
<1>1. /\ thread' = "Rest" /\ job' = NoJob /\ UNCHANGED treeVars /\ UNCHANGED getVars
      /\ inputs' = <<>> /\ outputs' = <<>> /\ writer' = <<>>
  BY DEF CompactFails
<1>2. Len(frozen) \in Nat
  BY DEF IInv, TreeInv, MemType
<1>3. job' \in [count: 0 .. Len(frozen), level: {0}, source: {{}}, target: {{}}]
  BY <1>1, <1>2 DEF NoJob
<1> QED
  BY <1>1, <1>3, RestStep, SameTree

\* What the pop of the heap takes from the inputs: the first of all pending entries.
LEMMA PopFact ==
    ASSUME TreeInv, JobType, SelectedInv, MergeInv, thread = "Merge",
           NEW f \in Unread, \A g \in Unread : NotAfter(Head(inputs[f]), Head(inputs[g])),
           inputs' = [inputs EXCEPT ![f] = Tail(@)], job' = job
    PROVE  /\ Head(inputs[f]) \in Entry /\ Head(inputs[f]) \in Pending
           /\ Pending' = Pending \ {Head(inputs[f])}
           /\ \A b \in Pending' : Before(Head(inputs[f]), b)
           /\ inputs' \in [job.source \cup job.target -> Files]
           /\ \A g \in DOMAIN inputs' : Sorted(inputs'[g]) /\ ToSet(inputs'[g]) \subseteq ToSet(g)
<1> DEFINE D == job.source \cup job.target
           e == Head(inputs[f])
<1>1. /\ inputs \in [D -> Files]
      /\ \A g \in D : inputs[g] \in Seq(Entry) /\ Sorted(inputs[g]) /\ ToSet(inputs[g]) \subseteq ToSet(g)
  BY DEF MergeInv, Files
<1>2. f \in D /\ inputs[f] # <<>>
  BY <1>1 DEF Unread
<1>3. \A g \in D : Placed(g)
  BY InputFact
<1> HIDE DEF D
<1>4. /\ e \in Entry /\ Tail(inputs[f]) \in Seq(Entry) /\ Sorted(Tail(inputs[f]))
      /\ ToSet(inputs[f]) = {e} \cup ToSet(Tail(inputs[f]))
      /\ \A b \in ToSet(Tail(inputs[f])) : Before(e, b)
  BY <1>1, <1>2, SortedTail
<1> HIDE DEF e
<1>5. /\ inputs' \in [D -> Files] /\ inputs'[f] = Tail(inputs[f])
      /\ \A g \in D \ {f} : inputs'[g] = inputs[g]
  <2>1. Tail(inputs[f]) \in Files
    BY <1>4 DEF Files
  <2> QED
    BY <1>1, <1>2, <2>1
<1>6. \A g \in DOMAIN inputs' : Sorted(inputs'[g]) /\ ToSet(inputs'[g]) \subseteq ToSet(g)
  BY <1>1, <1>2, <1>4, <1>5
<1>7. \A x : x \in Pending <=> \E g \in D : x \in ToSet(inputs[g])
  BY <1>1 DEF Pending
<1>8. \A x : x \in Pending' <=> \E g \in D : x \in ToSet(inputs'[g])
  BY <1>5 DEF Pending
<1>9. e \in Pending
  BY <1>2, <1>4, <1>7
<1>10. ASSUME NEW g \in D \ {f}, NEW b \in ToSet(inputs[g]) PROVE Before(e, b)
  <2>1. inputs[g] \in Seq(Entry) /\ Sorted(inputs[g]) /\ inputs[g] # <<>> /\ g \in Unread
    <3>1. inputs[g] # <<>>
      BY <1>10 DEF ToSet
    <3> QED
      BY <1>1, <3>1 DEF Unread
  <2>2. /\ Head(inputs[g]) \in Entry /\ ToSet(inputs[g]) = {Head(inputs[g])} \cup ToSet(Tail(inputs[g]))
        /\ \A c \in ToSet(Tail(inputs[g])) : Before(Head(inputs[g]), c)
    BY <2>1, SortedTail
  <2>3. NotAfter(e, Head(inputs[g]))
    BY <2>1 DEF e
  <2>4. e # Head(inputs[g])
    <3>1. ToSet(f) \cap ToSet(g) = {}
      BY <1>2, <1>3, PlacedApart
    <3> QED
      BY <1>1, <1>2, <1>4, <2>2, <3>1
  <2>5. Before(e, Head(inputs[g]))
    BY <2>3, <2>4 DEF NotAfter
  <2>6. b \in Entry
    BY <1>1, <1>10, ToSetFact
  <2>7. b = Head(inputs[g]) \/ Before(Head(inputs[g]), b)
    BY <1>10, <2>2
  <2> QED
    BY <1>4, <2>2, <2>5, <2>6, <2>7, BeforeFact
<1>11. \A b \in Pending' : Before(e, b)
  BY <1>4, <1>5, <1>8, <1>10
<1>12. ~ Before(e, e)
  BY <1>4, BeforeFact
<1>13. \A x : x \in Pending' <=> (x \in Pending /\ x # e)
  BY <1>2, <1>4, <1>5, <1>7, <1>8, <1>11, <1>12
<1>14. Pending' = Pending \ {e}
  BY <1>13
<1> QED
  BY <1>4, <1>5, <1>6, <1>9, <1>11, <1>14 DEF e, D

\* Where the entry goes.
Pushed(e) ==
    \/ writer # <<>> /\ outputs' = Append(outputs, writer) /\ writer' = <<e>>
    \/ outputs' = outputs /\ writer' = Append(writer, e)

\* The next entry extends the current file, or begins a new one behind it.
LEMMA PushFact ==
    ASSUME OutputsInv, outputs \in Seq(Files), writer \in Files, thread = "Merge", thread' = "Merge",
           NEW e \in Entry, \A a \in Written : Before(a, e), Pushed(e)
    PROVE  OutputsInv' /\ Written' = Written \cup {e} /\ outputs' \in Seq(Files) /\ writer' \in Files
<1>1. writer \in Seq(Entry) /\ \A i \in DOMAIN outputs : outputs[i] \in Seq(Entry)
  BY DEF Files
<1>2. /\ \A a \in ToSet(writer) : Before(a, e)
      /\ \A i \in DOMAIN outputs : \A a \in ToSet(outputs[i]) : Before(a, e)
  BY DEF Written
<1>3. /\ \A i \in DOMAIN outputs : outputs[i] # <<>> /\ Sorted(outputs[i])
      /\ \A i, j \in DOMAIN outputs : i < j => AllBefore(outputs[i], outputs[j])
      /\ Sorted(writer)
      /\ \A i \in DOMAIN outputs : AllBefore(outputs[i], writer)
  BY DEF OutputsInv
<1>4. CASE writer # <<>> /\ outputs' = Append(outputs, writer) /\ writer' = <<e>>
  <2> DEFINE n == Len(outputs)
  <2>1. /\ n \in Nat /\ DOMAIN outputs = 1 .. n /\ DOMAIN outputs' = 1 .. n + 1
        /\ \A i \in 1 .. n : outputs'[i] = outputs[i]
        /\ outputs'[n + 1] = writer /\ outputs' \in Seq(Files)
    BY <1>4, AppendProperties
  <2> HIDE DEF n
  <2>2. \A i \in 1 .. n + 1 : i \in 1 .. n \/ i = n + 1
    BY <2>1
  <2>3. ToSet(writer') = {e} /\ Sorted(writer') /\ writer' \in Files /\ writer' # <<>>
    <3>1. ToSet(<<e>>) = {e}
      BY <1>1, ToSetFact
    <3>2. Sorted(<<e>>) /\ <<e>> \in Seq(Entry) /\ <<e>> # <<>>
      BY DEF Sorted
    <3> QED
      BY <1>4, <3>1, <3>2 DEF Files
  <2>4. \A i \in DOMAIN outputs' : outputs'[i] # <<>> /\ Sorted(outputs'[i])
    BY <1>3, <1>4, <2>1, <2>2
  <2>5. \A i, j \in DOMAIN outputs' : i < j => AllBefore(outputs'[i], outputs'[j])
    <3>1. \A i, j \in 1 .. n + 1 : i < j => i \in 1 .. n /\ (j \in 1 .. n \/ j = n + 1)
      BY <2>1
    <3> QED
      BY <1>3, <2>1, <3>1
  <2>6. \A i \in DOMAIN outputs' : AllBefore(outputs'[i], writer')
    BY <1>2, <2>1, <2>2, <2>3 DEF AllBefore
  <2>7. OutputsInv'
    BY <2>3, <2>4, <2>5, <2>6 DEF OutputsInv
  <2>8. \A x : x \in Written' <=> (x \in Written \/ x = e)
    <3>1. n + 1 \in 1 .. n + 1 /\ \A i \in 1 .. n : i \in 1 .. n + 1
      BY <2>1
    <3>2. \A x : x \in Written <=> (x \in ToSet(writer) \/ \E i \in 1 .. n : x \in ToSet(outputs[i]))
      BY <2>1 DEF Written
    <3>3. \A x : x \in Written' <=> (x = e \/ \E i \in 1 .. n + 1 : x \in ToSet(outputs'[i]))
      BY <2>1, <2>3 DEF Written
    <3> QED
      BY <2>1, <2>2, <3>1, <3>2, <3>3
  <2>9. Written' = Written \cup {e}
    BY <2>8
  <2> QED
    BY <2>1, <2>3, <2>7, <2>9
<1>5. CASE outputs' = outputs /\ writer' = Append(writer, e)
  <2>1. writer' \in Seq(Entry) /\ Sorted(writer') /\ writer' # <<>> /\ ToSet(writer') = ToSet(writer) \cup {e}
    BY <1>1, <1>2, <1>3, <1>5, SortedAppend, AppendProperties, ToSetFact
  <2>2. \A i \in DOMAIN outputs : AllBefore(outputs[i], writer')
    BY <1>2, <1>3, <2>1 DEF AllBefore
  <2>3. OutputsInv'
    BY <1>3, <1>5, <2>1, <2>2 DEF OutputsInv
  <2>4. Written' = Written \cup {e}
    BY <1>5, <2>1 DEF Written
  <2> QED
    BY <1>5, <2>1, <2>3, <2>4 DEF Files
<1> QED
  BY <1>4, <1>5 DEF Pushed

\* MergeNext: the smallest head goes from what is pending to what is written.
LEMMA MergeNextStep ==
    ASSUME IInv, MergeNext
    PROVE  IInv' /\ Contents' = Contents
<1>1. /\ TreeInv /\ JobType /\ SelectedInv /\ OutputsInv /\ MergeInv
  BY DEF IInv, WorkInv
<1>2. thread = "Merge" /\ UNCHANGED <<treeVars, thread, job, getVars>>
  BY DEF MergeNext
<1>3. PICK f \in Unread :
        /\ \A g \in Unread : NotAfter(Head(inputs[f]), Head(inputs[g]))
        /\ inputs' = [inputs EXCEPT ![f] = Tail(@)]
        /\ Pushed(Head(inputs[f]))
  BY DEF MergeNext, Pushed
<1> DEFINE e == Head(inputs[f])
<1>4. TreeInv' /\ ReadInv' /\ Contents' = Contents
  BY <1>2, SameTree, SameRead DEF IInv
<1>5. thread' = "Merge" /\ job' = job /\ levels' = levels /\ frozen' = frozen
  BY <1>2 DEF treeVars
<1>6. /\ e \in Entry /\ e \in Pending
      /\ Pending' = Pending \ {e}
      /\ \A b \in Pending' : Before(e, b)
      /\ inputs' \in [job.source \cup job.target -> Files]
      /\ \A g \in DOMAIN inputs' : Sorted(inputs'[g]) /\ ToSet(inputs'[g]) \subseteq ToSet(g)
  BY <1>1, <1>2, <1>3, <1>5, PopFact
<1> HIDE DEF e
<1>7. /\ Written \cup Pending = EntriesOf(job.source \cup job.target)
      /\ \A a \in Written, b \in Pending : Before(a, b)
  BY <1>1, <1>2 DEF MergeInv
<1>8. OutputsInv' /\ Written' = Written \cup {e} /\ outputs' \in Seq(Files) /\ writer' \in Files
  <2>1. outputs \in Seq(Files) /\ writer \in Files
    BY <1>1 DEF JobType
  <2>2. \A a \in Written : Before(a, e)
    BY <1>6, <1>7
  <2>3. Pushed(e)
    BY <1>3 DEF e
  <2> QED
    BY <1>1, <1>2, <1>5, <1>6, <2>1, <2>2, <2>3, PushFact
<1>9. MergeInv'
  <2>1. Written' \cup Pending' = EntriesOf(job.source \cup job.target)
    BY <1>6, <1>7, <1>8
  <2>2. \A a \in Written', b \in Pending' : Before(a, b)
    BY <1>6, <1>7, <1>8
  <2> QED
    BY <1>5, <1>6, <2>1, <2>2 DEF MergeInv
<1>10. JobType'
  BY <1>1, <1>5, <1>8 DEF JobType
<1>11. SelectedInv'
  BY <1>1, <1>2, <1>5 DEF SelectedInv, Source
<1>12. CommitInv'
  BY <1>5 DEF CommitInv
<1> QED
  BY <1>4, <1>8, <1>9, <1>10, <1>11, <1>12 DEF IInv, WorkInv

\* MergeEnd: nothing is pending, and the outputs hold all entries of the inputs.
LEMMA MergeEndStep ==
    ASSUME IInv, MergeEnd
    PROVE  IInv' /\ Contents' = Contents
<1>1. /\ TreeInv /\ JobType /\ SelectedInv /\ OutputsInv /\ MergeInv
  BY DEF IInv, WorkInv
<1>2. /\ thread = "Merge" /\ thread' = "Commit" /\ Unread = {}
      /\ outputs' = Append(outputs, writer) /\ writer' = <<>> /\ inputs' = <<>>
      /\ job' = job /\ levels' = levels /\ frozen' = frozen /\ UNCHANGED <<treeVars, getVars>>
  BY DEF MergeEnd, treeVars
<1>3. TreeInv' /\ ReadInv' /\ Contents' = Contents
  BY <1>2, SameTree, SameRead DEF IInv
<1>4. Written = EntriesOf(job.source \cup job.target)
  <2>1. Pending = {}
    BY <1>2 DEF Unread, Pending, ToSet
  <2> QED
    BY <1>1, <1>2, <2>1 DEF MergeInv
<1>5. outputs \in Seq(Files) /\ writer \in Files
  BY <1>1 DEF JobType
<1>6. writer # <<>>
  <2> SUFFICES ASSUME writer = <<>> PROVE FALSE
    OBVIOUS
  <2>1. outputs = <<>>
    BY <1>1, <1>2 DEF OutputsInv
  <2>2. Written = {}
    BY <2>1 DEF Written, ToSet
  <2> QED
    BY <1>1, <1>2, <1>4, <2>2, InputFact
<1> DEFINE n == Len(outputs)
<1>7. /\ n \in Nat /\ DOMAIN outputs = 1 .. n /\ DOMAIN outputs' = 1 .. n + 1
      /\ \A i \in 1 .. n : outputs'[i] = outputs[i]
      /\ outputs'[n + 1] = writer /\ outputs' \in Seq(Files)
  BY <1>2, <1>5, AppendProperties
<1> HIDE DEF n
<1>8. /\ \A i \in 1 .. n + 1 : i \in 1 .. n \/ i = n + 1
      /\ n + 1 \in 1 .. n + 1 /\ \A i \in 1 .. n : i \in 1 .. n + 1
      /\ \A i, j \in 1 .. n + 1 : i < j => i \in 1 .. n /\ (j \in 1 .. n \/ j = n + 1)
  BY <1>7
<1>9. OutputsInv'
  <2>1. /\ \A i \in DOMAIN outputs : outputs[i] # <<>> /\ Sorted(outputs[i])
        /\ \A i, j \in DOMAIN outputs : i < j => AllBefore(outputs[i], outputs[j])
        /\ Sorted(writer)
        /\ \A i \in DOMAIN outputs : AllBefore(outputs[i], writer)
    BY <1>1 DEF OutputsInv
  <2>2. \A i \in DOMAIN outputs' : outputs'[i] # <<>> /\ Sorted(outputs'[i])
    BY <1>6, <1>7, <1>8, <2>1
  <2>3. \A i, j \in DOMAIN outputs' : i < j => AllBefore(outputs'[i], outputs'[j])
    BY <1>7, <1>8, <2>1
  <2>4. Sorted(writer') /\ \A i \in DOMAIN outputs' : AllBefore(outputs'[i], writer')
    BY <1>2 DEF Sorted, AllBefore, ToSet
  <2> QED
    BY <1>2, <2>2, <2>3, <2>4 DEF OutputsInv
<1>10. Written' = Written
  <2>1. \A x : x \in Written <=> (x \in ToSet(writer) \/ \E i \in 1 .. n : x \in ToSet(outputs[i]))
    BY <1>7 DEF Written
  <2>2. \A x : x \in Written' <=> \E i \in 1 .. n + 1 : x \in ToSet(outputs'[i])
    <3>1. ToSet(writer') = {}
      BY <1>2 DEF ToSet
    <3> QED
      BY <1>7, <3>1 DEF Written
  <2>3. \A x : x \in Written' <=> x \in Written
    BY <1>7, <1>8, <2>1, <2>2
  <2> QED
    BY <2>3
<1>11. JobType'
  <2>1. writer' \in Files
    BY <1>2 DEF Files
  <2> QED
    BY <1>1, <1>2, <1>7, <2>1 DEF JobType
<1>12. SelectedInv'
  BY <1>1, <1>2 DEF SelectedInv, Source
<1>13. MergeInv' /\ CommitInv'
  BY <1>2, <1>4, <1>10 DEF MergeInv, CommitInv
<1> QED
  BY <1>3, <1>9, <1>11, <1>12, <1>13 DEF IInv, WorkInv
-----------------------------------------------------------------------------
(* The commit of a compaction. *)

\* The elements of a sequence are finitely many.
LEMMA ToSetFinite ==
    ASSUME NEW T, NEW s \in Seq(T)
    PROVE  IsFiniteSet(ToSet(s))
<1>1. Len(s) \in Nat /\ DOMAIN s = 1 .. Len(s) /\ s \in [1 .. Len(s) -> T]
  BY LenProperties
<1>2. s \in Surjection(1 .. Len(s), ToSet(s))
  BY <1>1 DEF ToSet, Surjection
<1>3. IsFiniteSet(1 .. Len(s))
  BY <1>1, FS_Interval
<1> QED
  BY <1>2, <1>3, FS_Surjection

\* w has some of the elements of fs, in their order; the function says where they were.
Picks(w, fs, from) ==
    /\ from \in [DOMAIN w -> DOMAIN fs]
    /\ \A i \in DOMAIN w : w[i] = fs[from[i]]
    /\ \A i, j \in DOMAIN w : i < j => from[i] < from[j]

\* Without keeps the other files, in their order.
LEMMA WithoutFact ==
    ASSUME NEW T, NEW fs \in Seq(T), NEW gone
    PROVE  /\ Without(fs, gone) \in Seq(T)
           /\ ToSet(Without(fs, gone)) = ToSet(fs) \ gone
           /\ \E from : Picks(Without(fs, gone), fs, from)
<1> DEFINE left == {i \in DOMAIN fs : fs[i] \notin gone}
           R == {p \in left \X left : p[1] < p[2]}
           from == Ordered(left, R)
           w == [i \in DOMAIN from |-> fs[from[i]]]
<1>1. Without(fs, gone) = w
  BY DEF Without
<1>2. Len(fs) \in Nat /\ DOMAIN fs = 1 .. Len(fs) /\ \A i \in DOMAIN fs : fs[i] \in T
  BY LenProperties
<1>3. IsFiniteSet(left) /\ left \subseteq Nat
  <2>1. IsFiniteSet(1 .. Len(fs))
    BY <1>2, FS_Interval
  <2> QED
    BY <1>2, <2>1, FS_Subset
<1>4. \A i, j \in left : <<i, j>> \in R <=> i < j
  OBVIOUS
<1>5. \A i \in left : i \in DOMAIN fs /\ fs[i] \notin gone
  OBVIOUS
<1>6. \A i \in DOMAIN fs : fs[i] \notin gone => i \in left
  OBVIOUS
<1> HIDE DEF left, R
<1>7. Orders(R, left)
  BY <1>3, <1>4 DEF Orders
<1>8. Lists(from, left, R)
  BY <1>3, <1>7, OrderedFact
<1> HIDE DEF from
<1>9. Cardinality(left) \in Nat
  BY <1>3, FS_CardinalityType
<1>10. /\ from \in [1 .. Cardinality(left) -> left] /\ ToSet(from) = left
       /\ \A i, j \in 1 .. Cardinality(left) : i < j => <<from[i], from[j]>> \in R
  BY <1>8 DEF Lists
<1>11. w \in [1 .. Cardinality(left) -> T]
  BY <1>2, <1>5, <1>10
<1>12. w \in Seq(T)
  BY <1>9, <1>11
<1>13. ToSet(w) = ToSet(fs) \ gone
  <2>1. \A i \in DOMAIN from : w[i] \in ToSet(fs) \ gone
    BY <1>5, <1>10 DEF ToSet
  <2>2. ASSUME NEW i \in DOMAIN fs, fs[i] \notin gone PROVE \E j \in DOMAIN from : w[j] = fs[i]
    <3>1. PICK j \in DOMAIN from : from[j] = i
      BY <1>6, <1>10, <2>2 DEF ToSet
    <3> QED
      BY <3>1
  <2> HIDE DEF w
  <2>3. DOMAIN w = DOMAIN from
    BY DEF w
  <2> QED
    BY <2>1, <2>2, <2>3 DEF ToSet
<1>14. Picks(w, fs, from)
  BY <1>4, <1>5, <1>10 DEF Picks
<1> HIDE DEF w
<1> QED
  BY <1>1, <1>12, <1>13, <1>14

\* Files that lie apart, each with an entry.
Separate(F) ==
    /\ \A f \in F : f \in Files /\ f # <<>> /\ Sorted(f)
    /\ \A f, g \in F : f # g => AllBefore(f, g) \/ AllBefore(g, f)

\* Sorted by their first keys, separate files are in order.
LEMMA ByMinKeyFact ==
    ASSUME NEW F, IsFiniteSet(F), Separate(F)
    PROVE  /\ ByMinKey(F) \in Seq(Files)
           /\ ToSet(ByMinKey(F)) = F
           /\ \A i, j \in DOMAIN ByMinKey(F) : i < j => AllBefore(ByMinKey(F)[i], ByMinKey(F)[j])
<1> DEFINE R == {p \in F \X F : Before(MinKey(p[1]), MinKey(p[2]))}
           s == ByMinKey(F)
<1>1. \A f, g \in F : <<f, g>> \in R <=> Before(MinKey(f), MinKey(g))
  OBVIOUS
<1>2. s = Ordered(F, R)
  BY DEF ByMinKey
<1> HIDE DEF R, s
<1>3. \A f \in F : MinKey(f) \in Entry /\ MinKey(f) \in ToSet(f)
  BY SortedEnds, ToSetFact DEF Separate, Files
<1>4. \A f, g \in F : AllBefore(f, g) => Before(MinKey(f), MinKey(g))
  BY <1>3 DEF AllBefore
<1>5. Orders(R, F)
  <2>1. \A f \in F : <<f, f>> \notin R
    BY <1>1, <1>3, BeforeFact
  <2>2. \A f, g, h \in F : <<f, g>> \in R /\ <<g, h>> \in R => <<f, h>> \in R
    BY <1>1, <1>3, BeforeFact
  <2>3. \A f, g \in F : f # g => <<f, g>> \in R \/ <<g, f>> \in R
    BY <1>1, <1>4 DEF Separate
  <2> QED
    BY <2>1, <2>2, <2>3 DEF Orders
<1>6. Lists(s, F, R)
  BY <1>2, <1>5, OrderedFact
<1>7. /\ s \in [1 .. Cardinality(F) -> F] /\ ToSet(s) = F /\ Cardinality(F) \in Nat
      /\ \A i, j \in DOMAIN s : i < j => <<s[i], s[j]>> \in R
  BY <1>6, FS_CardinalityType DEF Lists
<1>8. s \in Seq(Files)
  BY <1>7 DEF Separate
<1>9. ASSUME NEW i \in DOMAIN s, NEW j \in DOMAIN s, i < j PROVE AllBefore(s[i], s[j])
  <2>1. s[i] \in F /\ s[j] \in F /\ Before(MinKey(s[i]), MinKey(s[j]))
    BY <1>1, <1>7, <1>9
  <2>2. ~ Before(MinKey(s[j]), MinKey(s[i])) /\ s[i] # s[j]
    BY <1>3, <2>1, BeforeFact
  <2> QED
    BY <1>4, <2>1, <2>2 DEF Separate
<1> QED
  BY <1>7, <1>8, <1>9 DEF s

\* The first and the last of a finite set of entries.
LEMMA SmallestFact ==
    ASSUME NEW M, IsFiniteSet(M), Unique(M), M # {}
    PROVE  Smallest(M) \in M /\ \A f \in M : NotAfter(Smallest(M), f)
<1> DEFINE R == {p \in M \X M : Before(p[1], p[2])}
<1>1. Orders(R, M)
  BY BeforeOrders
<1>2. \A f, g \in M : <<f, g>> \in R => Before(f, g)
  OBVIOUS
<1> HIDE DEF R
<1>3. PICK m \in M : \A x \in M \ {m} : <<m, x>> \in R
  BY <1>1, LeastExists
<1>4. \A f \in M : NotAfter(m, f)
  BY <1>2, <1>3 DEF NotAfter
<1> QED
  BY <1>4 DEF Smallest

\* The same for the largest.
LEMMA LargestFact ==
    ASSUME NEW M, IsFiniteSet(M), Unique(M), M # {}
    PROVE  Largest(M) \in M /\ \A f \in M : NotAfter(f, Largest(M))
<1> DEFINE R == {p \in M \X M : Before(p[2], p[1])}
<1>1. \A f, g \in M : <<f, g>> \in R <=> Before(g, f)
  OBVIOUS
<1>2. \A a \in M : a \in Entry
  BY DEF Unique
<1> HIDE DEF R
<1>3. Orders(R, M)
  <2>1. \A f \in M : <<f, f>> \notin R
    BY <1>1, <1>2, BeforeFact
  <2>2. \A f, g, h \in M : <<f, g>> \in R /\ <<g, h>> \in R => <<f, h>> \in R
    BY <1>1, <1>2, BeforeFact
  <2>3. \A f, g \in M : f # g => <<f, g>> \in R \/ <<g, f>> \in R
    BY <1>1, BeforeTotal
  <2> QED
    BY <2>1, <2>2, <2>3 DEF Orders
<1>4. PICK m \in M : \A x \in M \ {m} : <<m, x>> \in R
  BY <1>3, LeastExists
<1>5. \A f \in M : NotAfter(f, m)
  BY <1>1, <1>4 DEF NotAfter
<1> QED
  BY <1>5 DEF Largest

\* A file that no input overlaps lies before or after all of them.
LEMMA UntouchedApart ==
    ASSUME TreeInv, NEW l \in 0 .. MaxLevel - 1, levels[l] # <<>>,
           NEW S, S = Source(l), NEW T, T = Overlapping(S, l),
           NEW h \in ToSet(levels[l + 1]) \ T
    PROVE  \/ \A a \in ToSet(h), b \in EntriesOf(S \cup T) : Before(a, b)
           \/ \A a \in ToSet(h), b \in EntriesOf(S \cup T) : Before(b, a)
<1> DEFINE A == {MinKey(g) : g \in S}
           B == {MaxKey(g) : g \in S}
           min == Smallest(A)
           max == Largest(B)
<1>1. S # {} /\ (\A f \in S \cup T : Placed(f)) /\ Placed(h)
  <2>1. l + 1 \in Levels
    BY ConstantFact
  <2> QED
    BY <2>1, SelectionFact DEF Placed, ToSet
<1>2. \A f \in S \cup T \cup {h} : /\ f \in Seq(Entry) /\ f # <<>> /\ Sorted(f)
                                   /\ ToSet(f) \subseteq Contents
  BY <1>1, PlacedFact
<1>3. \A f \in S \cup T \cup {h} :
        /\ MinKey(f) \in ToSet(f) /\ MaxKey(f) \in ToSet(f)
        /\ \A a \in ToSet(f) : NotAfter(MinKey(f), a) /\ NotAfter(a, MaxKey(f))
  BY <1>2, SortedEnds
<1>4. \A f \in S \cup T \cup {h} : MinKey(f) \in Contents /\ MaxKey(f) \in Contents
  BY <1>2, <1>3
<1>5. IsFiniteSet(Contents) /\ Unique(Contents) /\ \A a \in Contents : a \in Entry
  BY DEF TreeInv, VersionsInv, Unique
<1>6. A \subseteq Contents /\ B \subseteq Contents /\ A # {} /\ B # {}
  BY <1>1, <1>4
<1>7. IsFiniteSet(A) /\ Unique(A) /\ IsFiniteSet(B) /\ Unique(B)
  <2> HIDE DEF A, B
  <2> QED
    BY <1>5, <1>6, FS_Subset DEF Unique
<1>8. min \in Contents /\ \A f \in S : NotAfter(min, MinKey(f))
  <2>1. \A f \in S : MinKey(f) \in A
    OBVIOUS
  <2> HIDE DEF A
  <2> QED
    BY <1>6, <1>7, <2>1, SmallestFact
<1>9. max \in Contents /\ \A f \in S : NotAfter(MaxKey(f), max)
  <2>1. \A f \in S : MaxKey(f) \in B
    OBVIOUS
  <2> HIDE DEF B
  <2> QED
    BY <1>6, <1>7, <2>1, LargestFact
<1>10. \A f \in ToSet(levels[l + 1]) : f \in T <=> (NotAfter(min, MaxKey(f)) /\ NotAfter(MinKey(f), max))
  BY DEF Overlapping, Overlaps
<1> HIDE DEF min, max, A, B
<1>11. \A f \in T : f \in ToSet(levels[l + 1]) /\ f # h
  BY DEF Overlapping
<1>12. \A f \in T : AllBefore(f, h) \/ AllBefore(h, f)
  <2>1. l + 1 \in Levels \ {0}
    BY ConstantFact
  <2>2. levels[l + 1] \in Seq(Files)
    BY <2>1 DEF TreeInv, LevelType
  <2>3. \A i, j \in DOMAIN levels[l + 1] : i < j \/ j < i \/ i = j
    BY <2>2, LenProperties
  <2>4. \A i, j \in DOMAIN levels[l + 1] :
          i # j => \/ AllBefore(levels[l + 1][i], levels[l + 1][j])
                   \/ AllBefore(levels[l + 1][j], levels[l + 1][i])
    BY <2>1, <2>3 DEF TreeInv, FilesInv
  <2> QED
    BY <1>11, <2>4 DEF ToSet
<1>13. Before(MaxKey(h), min) \/ Before(max, MinKey(h))
  <2>1. ~ NotAfter(min, MaxKey(h)) \/ ~ NotAfter(MinKey(h), max)
    BY <1>10
  <2> QED
    BY <1>4, <1>5, <1>8, <1>9, <2>1, BeforeTotal DEF NotAfter
<1>14. \A b \in EntriesOf(S \cup T) : \E f \in S \cup T : b \in ToSet(f)
  BY DEF EntriesOf
<1>15. CASE Before(MaxKey(h), min)
  <2> SUFFICES ASSUME NEW a \in ToSet(h), NEW f \in S \cup T, NEW b \in ToSet(f) PROVE Before(a, b)
    BY <1>14
  <2>1. /\ a \in Entry /\ b \in Entry /\ min \in Entry /\ MaxKey(h) \in Entry
        /\ MinKey(f) \in Entry /\ MaxKey(f) \in Entry
    BY <1>2, <1>4, <1>5, <1>8
  <2>2. Before(a, min)
    BY <1>3, <1>15, <2>1, BeforeFact
  <2>3. CASE f \in S
    BY <1>3, <1>8, <2>1, <2>2, <2>3, BeforeFact
  <2>4. CASE f \in T
    <3>1. NotAfter(min, MaxKey(f))
      BY <1>10, <1>11, <2>4
    <3>2. Before(MaxKey(h), MaxKey(f))
      BY <1>15, <2>1, <3>1, BeforeFact
    <3>3. ~ Before(MaxKey(f), MaxKey(h))
      BY <2>1, <3>2, BeforeFact
    <3>4. ~ AllBefore(f, h)
      BY <1>3, <3>3 DEF AllBefore
    <3> QED
      BY <1>12, <2>4, <3>4 DEF AllBefore
  <2> QED
    BY <2>3, <2>4
<1>16. CASE Before(max, MinKey(h))
  <2> SUFFICES ASSUME NEW a \in ToSet(h), NEW f \in S \cup T, NEW b \in ToSet(f) PROVE Before(b, a)
    BY <1>14
  <2>1. /\ a \in Entry /\ b \in Entry /\ max \in Entry /\ MinKey(h) \in Entry
        /\ MinKey(f) \in Entry /\ MaxKey(f) \in Entry
    BY <1>2, <1>4, <1>5, <1>9
  <2>2. Before(max, a)
    BY <1>3, <1>16, <2>1, BeforeFact
  <2>3. CASE f \in S
    BY <1>3, <1>9, <2>1, <2>2, <2>3, BeforeFact
  <2>4. CASE f \in T
    <3>1. NotAfter(MinKey(f), max)
      BY <1>10, <1>11, <2>4
    <3>2. Before(MinKey(f), MinKey(h))
      BY <1>16, <2>1, <3>1, BeforeFact
    <3>3. ~ Before(MinKey(h), MinKey(f))
      BY <2>1, <3>2, BeforeFact
    <3>4. ~ AllBefore(h, f)
      BY <1>3, <3>3 DEF AllBefore
    <3> QED
      BY <1>12, <2>4, <3>4 DEF AllBefore
  <2> QED
    BY <2>3, <2>4
<1> QED
  BY <1>13, <1>15, <1>16

\* The files of the next level: what is kept of it, and the outputs.
Kept == ToSet(levels[job.level + 1]) \ job.target
Outcome == Kept \cup ToSet(outputs)

\* They lie apart from each other.
LEMMA OutcomeFact ==
    ASSUME TreeInv, JobType, SelectedInv, OutputsInv, CommitInv, thread = "Commit"
    PROVE  IsFiniteSet(Outcome) /\ Separate(Outcome)
<1>1. /\ job.level \in 0 .. MaxLevel - 1 /\ levels[job.level] # <<>>
      /\ job.source = Source(job.level) /\ job.target = Overlapping(job.source, job.level)
      /\ outputs \in Seq(Files)
  BY DEF JobType, SelectedInv, Overlapping
<1>2. job.level + 1 \in Levels \ {0} /\ levels[job.level + 1] \in Seq(Files)
  BY <1>1, ConstantFact DEF TreeInv, LevelType
<1>3. IsFiniteSet(Outcome)
  <2>1. IsFiniteSet(ToSet(levels[job.level + 1])) /\ IsFiniteSet(ToSet(outputs))
    BY <1>1, <1>2, ToSetFinite
  <2>2. IsFiniteSet(Kept)
    BY <2>1, FS_Subset DEF Kept
  <2> QED
    BY <2>1, <2>2, FS_Union DEF Outcome
<1>4. \A f \in Kept : Placed(f)
  BY <1>2 DEF Kept, ToSet, Placed
<1>5. \A f \in Outcome : f \in Files /\ f # <<>> /\ Sorted(f)
  <2>1. \A f \in ToSet(outputs) : f \in Files /\ f # <<>> /\ Sorted(f)
    BY <1>1 DEF ToSet, OutputsInv
  <2> QED
    BY <1>4, <2>1, PlacedFact DEF Outcome
<1>6. \A f \in ToSet(outputs) : ToSet(f) \subseteq EntriesOf(job.source \cup job.target)
  <2>1. \A f \in ToSet(outputs) : \E i \in DOMAIN outputs : f = outputs[i]
    BY DEF ToSet
  <2> QED
    BY <2>1 DEF CommitInv, Written
<1>7. ASSUME NEW f \in Kept, NEW g \in ToSet(outputs) PROVE AllBefore(f, g) \/ AllBefore(g, f)
  <2>1. f \in ToSet(levels[job.level + 1]) \ job.target
    BY DEF Kept
  <2>2. \/ \A a \in ToSet(f), b \in EntriesOf(job.source \cup job.target) : Before(a, b)
        \/ \A a \in ToSet(f), b \in EntriesOf(job.source \cup job.target) : Before(b, a)
    BY <1>1, <2>1, UntouchedApart
  <2> QED
    BY <1>6, <2>2 DEF AllBefore
<1>8. ASSUME NEW f \in Kept, NEW g \in Kept, f # g PROVE AllBefore(f, g) \/ AllBefore(g, f)
  <2>1. PICK i \in DOMAIN levels[job.level + 1] : f = levels[job.level + 1][i]
    BY DEF Kept, ToSet
  <2>2. PICK j \in DOMAIN levels[job.level + 1] : g = levels[job.level + 1][j]
    BY DEF Kept, ToSet
  <2>3. i < j \/ j < i
    BY <1>2, <1>8, <2>1, <2>2, LenProperties
  <2> QED
    BY <1>2, <2>1, <2>2, <2>3 DEF TreeInv, FilesInv
<1>9. ASSUME NEW f \in ToSet(outputs), NEW g \in ToSet(outputs), f # g
      PROVE  AllBefore(f, g) \/ AllBefore(g, f)
  <2>1. PICK i \in DOMAIN outputs : f = outputs[i]
    BY DEF ToSet
  <2>2. PICK j \in DOMAIN outputs : g = outputs[j]
    BY DEF ToSet
  <2>3. i < j \/ j < i
    BY <1>1, <1>9, <2>1, <2>2, LenProperties
  <2> QED
    BY <2>1, <2>2, <2>3 DEF OutputsInv
<1> QED
  BY <1>3, <1>5, <1>7, <1>8, <1>9 DEF Separate, Outcome

\* A file is in one place.
LEMMA OnePlace ==
    ASSUME TreeInv, NEW l \in Levels, NEW m \in Levels,
           NEW i \in DOMAIN levels[l], NEW j \in DOMAIN levels[m], levels[l][i] = levels[m][j]
    PROVE  l = m /\ i = j
<1>1. ToSet(levels[l][i]) # {}
  <2>1. Placed(levels[l][i])
    BY DEF Placed
  <2> QED
    BY <2>1, PlacedFact, ToSetFact
<1> QED
  BY <1>1 DEF TreeInv, OneFileInv

\* The levels after a commit: the files of the source have left their level, and the
\* next one has its outcome.
Committed(from) ==
    /\ levels' \in [Levels -> Seq(Files)]
    /\ \A m \in Levels : m # job.level /\ m # job.level + 1 => levels'[m] = levels[m]
    /\ ToSet(levels'[job.level]) = ToSet(levels[job.level]) \ job.source
    /\ Picks(levels'[job.level], levels[job.level], from)
    /\ ToSet(levels'[job.level + 1]) = Outcome
    /\ \A i, j \in DOMAIN levels'[job.level + 1] :
         i < j => AllBefore(levels'[job.level + 1][i], levels'[job.level + 1][j])

\* What CompactCommit makes of the levels.
LEMMA CommittedFact ==
    ASSUME TreeInv, JobType, SelectedInv, OutputsInv, CommitInv, CompactCommit
    PROVE  \E from : Committed(from)
<1> DEFINE l == job.level
           upper == Without(levels[l], job.source)
           lower == ByMinKey(Outcome)
<1>1. thread = "Commit"
  BY DEF CompactCommit
<1>2. l \in Levels /\ l + 1 \in Levels /\ l # l + 1 /\ levels \in [Levels -> Seq(Files)]
  BY ConstantFact DEF JobType, TreeInv, LevelType
<1>3. levels' = [levels EXCEPT ![l] = upper, ![l + 1] = lower]
  <2>1. levels' = [levels EXCEPT ![l] = Without(@, job.source),
                                 ![l + 1] = ByMinKey((ToSet(@) \ job.target) \cup ToSet(outputs))]
    BY DEF CompactCommit
  <2> QED
    BY <1>2, <2>1 DEF Outcome, Kept
<1>4. /\ lower \in Seq(Files) /\ ToSet(lower) = Outcome
      /\ \A i, j \in DOMAIN lower : i < j => AllBefore(lower[i], lower[j])
  BY <1>1, OutcomeFact, ByMinKeyFact
<1>5. /\ upper \in Seq(Files) /\ ToSet(upper) = ToSet(levels[l]) \ job.source
      /\ \E from : Picks(upper, levels[l], from)
  BY <1>2, WithoutFact
<1> HIDE DEF upper, lower, l
<1>6. PICK from : Picks(upper, levels[l], from)
  BY <1>5
<1>7. /\ levels' \in [Levels -> Seq(Files)] /\ levels'[l] = upper /\ levels'[l + 1] = lower
      /\ \A m \in Levels : m # l /\ m # l + 1 => levels'[m] = levels[m]
  BY <1>2, <1>3, <1>4, <1>5
<1>8. Committed(from)
  BY <1>4, <1>5, <1>6, <1>7 DEF Committed, l
<1> QED
  BY <1>8

\* A file of the tree after the commit was there before it and was no input, or it is an
\* output.
LEMMA CommittedFiles ==
    ASSUME TreeInv, JobType, SelectedInv, thread = "Commit", NEW from, Committed(from),
           NEW m \in Levels, NEW i \in DOMAIN levels'[m]
    PROVE  \/ /\ \E p \in DOMAIN levels[m] :
                   /\ levels'[m][i] = levels[m][p]
                   /\ m = job.level => p = from[i]
                   /\ m # job.level /\ m # job.level + 1 => p = i
              /\ levels'[m][i] \notin job.source \cup job.target
           \/ m = job.level + 1 /\ levels'[m][i] \in ToSet(outputs)
<1> DEFINE l == job.level
           f == levels'[m][i]
<1>1. /\ l \in 0 .. MaxLevel - 1 /\ levels[l] # <<>> /\ l \in Levels /\ l + 1 \in Levels /\ l # l + 1
      /\ job.source \subseteq ToSet(levels[l]) /\ job.target \subseteq ToSet(levels[l + 1])
  <2>1. l \in 0 .. MaxLevel - 1 /\ levels[l] # <<>> /\ job.source = Source(l)
    BY DEF JobType, SelectedInv
  <2>2. job.target \subseteq ToSet(levels[l + 1])
    BY DEF SelectedInv
  <2> QED
    BY <2>1, <2>2, ConstantFact, SelectionFact
<1>2. /\ \A k \in Levels : k # l /\ k # l + 1 => levels'[k] = levels[k]
      /\ ToSet(levels'[l]) = ToSet(levels[l]) \ job.source
      /\ Picks(levels'[l], levels[l], from)
      /\ ToSet(levels'[l + 1]) = Outcome
  BY DEF Committed
<1>0. l \in Levels /\ l + 1 \in Levels
  BY <1>1
<1>3. ASSUME NEW p \in DOMAIN levels[m], f = levels[m][p], m # l PROVE f \notin job.source
  <2> SUFFICES ASSUME f \in job.source PROVE FALSE
    OBVIOUS
  <2>1. PICK q \in DOMAIN levels[l] : f = levels[l][q]
    BY <1>1 DEF ToSet
  <2>2. levels[m][p] = levels[l][q] /\ m # l
    BY <1>3, <2>1
  <2> QED
    BY <1>0, <2>2, OnePlace
<1>4. ASSUME NEW p \in DOMAIN levels[m], f = levels[m][p], m # l + 1 PROVE f \notin job.target
  <2> SUFFICES ASSUME f \in job.target PROVE FALSE
    OBVIOUS
  <2>1. PICK q \in DOMAIN levels[l + 1] : f = levels[l + 1][q]
    BY <1>1 DEF ToSet
  <2>2. levels[m][p] = levels[l + 1][q] /\ m # l + 1
    BY <1>4, <2>1
  <2> QED
    BY <1>0, <2>2, OnePlace
<1> HIDE DEF l
<1>5. CASE m # l /\ m # l + 1
  BY <1>2, <1>3, <1>4, <1>5 DEF l
<1>6. CASE m = l
  <2>1. from[i] \in DOMAIN levels[m] /\ f = levels[m][from[i]]
    BY <1>2, <1>6 DEF Picks
  <2>2. f \notin job.source
    BY <1>2, <1>6 DEF ToSet
  <2>3. f \notin job.target
    BY <1>1, <1>4, <1>6, <2>1
  <2> QED
    BY <1>1, <1>6, <2>1, <2>2, <2>3 DEF l
<1>7. CASE m = l + 1
  <2>1. f \in Outcome
    BY <1>2, <1>7 DEF ToSet
  <2>2. CASE f \in ToSet(outputs)
    BY <1>7, <2>2 DEF l
  <2>3. CASE f \in Kept
    <3>1. f \notin job.target
      BY <2>3 DEF Kept
    <3>2. PICK p \in DOMAIN levels[m] : f = levels[m][p]
      BY <1>7, <2>3 DEF Kept, ToSet, l
    <3>3. f \notin job.source
      BY <1>1, <1>3, <1>7, <3>2
    <3> QED
      BY <1>1, <1>7, <3>1, <3>2, <3>3 DEF l
  <2> QED
    BY <2>1, <2>2, <2>3 DEF Outcome
<1> QED
  BY <1>5, <1>6, <1>7

\* A commit leaves every entry in some file.
LEMMA CommittedContents ==
    ASSUME TreeInv, JobType, SelectedInv, OutputsInv, CommitInv, thread = "Commit",
           NEW from, Committed(from)
    PROVE  \A x : IsInFile(x)' <=> IsInFile(x)
<1> DEFINE l == job.level
           I == job.source \cup job.target
<1>1. /\ l \in Levels /\ l + 1 \in Levels /\ l # l + 1
      /\ \A f \in I : Placed(f)
  BY ConstantFact, InputFact DEF JobType
<1>2. \A x : x \in EntriesOf(I) <=> \E f \in ToSet(outputs) : x \in ToSet(f)
  <2>1. Written = EntriesOf(I)
    BY DEF CommitInv
  <2>2. ToSet(writer) = {}
    BY DEF OutputsInv, ToSet
  <2>3. \A x : x \in Written <=> \E i \in DOMAIN outputs : x \in ToSet(outputs[i])
    BY <2>2 DEF Written
  <2>4. \A x : (\E i \in DOMAIN outputs : x \in ToSet(outputs[i])) <=> \E f \in ToSet(outputs) : x \in ToSet(f)
    <3>1. ToSet(outputs) = {outputs[i] : i \in DOMAIN outputs}
      BY DEF ToSet
    <3> QED
      BY <3>1
  <2> QED
    BY <2>1, <2>3, <2>4
<1>3. \A x : x \in EntriesOf(I) <=> \E f \in I : x \in ToSet(f)
  BY DEF EntriesOf
<1>4. /\ \A k \in Levels : k # l /\ k # l + 1 => levels'[k] = levels[k]
      /\ ToSet(levels'[l]) = ToSet(levels[l]) \ job.source
      /\ ToSet(levels'[l + 1]) = (ToSet(levels[l + 1]) \ job.target) \cup ToSet(outputs)
  BY DEF Committed, Outcome, Kept
<1> HIDE DEF l, I
<1>5. ASSUME NEW x, IsInFile(x)' PROVE IsInFile(x)
  <2>1. PICK m \in Levels : \E i \in DOMAIN levels'[m] : x \in ToSet(levels'[m][i])
    BY <1>5 DEF IsInFile
  <2>2. PICK i \in DOMAIN levels'[m] : x \in ToSet(levels'[m][i])
    BY <2>1
  <2>3. CASE \E p \in DOMAIN levels[m] : levels'[m][i] = levels[m][p]
    BY <2>2, <2>3 DEF IsInFile
  <2>4. CASE levels'[m][i] \in ToSet(outputs)
    <3>1. PICK f \in I : x \in ToSet(f)
      BY <1>2, <1>3, <2>2, <2>4
    <3> QED
      BY <1>1, <3>1 DEF Placed, IsInFile
  <2> QED
    BY <2>3, <2>4, CommittedFiles
<1>6. ASSUME NEW x, IsInFile(x) PROVE IsInFile(x)'
  <2>1. PICK m \in Levels : \E i \in DOMAIN levels[m] : x \in ToSet(levels[m][i])
    BY <1>6 DEF IsInFile
  <2>2. PICK i \in DOMAIN levels[m] : x \in ToSet(levels[m][i])
    BY <2>1
  <2> DEFINE f == levels[m][i]
  <2>3. f \in ToSet(levels[m]) /\ x \in ToSet(f)
    BY <2>2 DEF ToSet
  <2> HIDE DEF f
  <2>4. ASSUME NEW k \in Levels, NEW g \in ToSet(levels'[k]), x \in ToSet(g) PROVE IsInFile(x)'
    BY <2>4 DEF IsInFile, ToSet
  <2>5. CASE f \in I
    <3>1. PICK g \in ToSet(outputs) : x \in ToSet(g)
      BY <1>2, <1>3, <2>3, <2>5
    <3> QED
      BY <1>1, <1>4, <2>4, <3>1
  <2>6. CASE f \notin I
    <3>1. f \in ToSet(levels'[m])
      BY <1>4, <2>3, <2>6 DEF I
    <3> QED
      BY <2>3, <2>4, <3>1
  <2> QED
    BY <2>5, <2>6
<1> QED
  BY <1>5, <1>6

\* A commit keeps the invariant of the tree.
LEMMA CommittedTree ==
    ASSUME TreeInv, JobType, SelectedInv, OutputsInv, CommitInv, thread = "Commit",
           NEW from, Committed(from), UNCHANGED <<memtables, frozen, writes>>
    PROVE  TreeInv' /\ Contents' = Contents
<1> DEFINE l == job.level
           I == job.source \cup job.target
<1>1. /\ MemType /\ LevelType /\ FilesInv /\ OneFileInv /\ LiveInv /\ VersionsInv
      /\ l \in Levels /\ l + 1 \in Levels \ {0} /\ l # l + 1
  BY ConstantFact DEF TreeInv, JobType
<1>2. /\ levels' \in [Levels -> Seq(Files)]
      /\ \A m \in Levels : m # l /\ m # l + 1 => levels'[m] = levels[m]
      /\ Picks(levels'[l], levels[l], from)
      /\ ToSet(levels'[l + 1]) = Outcome
      /\ \A i, j \in DOMAIN levels'[l + 1] :
           i < j => AllBefore(levels'[l + 1][i], levels'[l + 1][j])
  BY DEF Committed
<1>3. Separate(Outcome)
  BY OutcomeFact
<1>4. FileEntries' = FileEntries /\ Live' = Live /\ Contents' = Contents
  <2>1. \A x : IsInFile(x)' <=> IsInFile(x)
    BY CommittedContents
  <2>2. Live' = Live
    BY DEF Live, Mutable
  <2>3. \A x : IsLive(x)' <=> IsLive(x)
    BY <2>2 DEF IsLive
  <2>4. \A x : x \in FileEntries' <=> x \in FileEntries
    BY <2>1, WhereNow, WhereNext DEF Where
  <2>5. \A x : x \in Contents' <=> x \in Contents
    BY <2>1, <2>3, WhereNow, WhereNext DEF Where
  <2> QED
    BY <2>2, <2>4, <2>5
<1>5. ASSUME NEW m \in Levels, NEW i \in DOMAIN levels'[m]
      PROVE  levels'[m][i] # <<>> /\ Sorted(levels'[m][i]) /\ ToSet(levels'[m][i]) \subseteq Contents
  <2>1. CASE m # l + 1
    <3>1. \E p \in DOMAIN levels[m] : levels'[m][i] = levels[m][p]
      BY <2>1, CommittedFiles
    <3>2. Placed(levels'[m][i])
      BY <3>1 DEF Placed
    <3> QED
      BY <3>2, PlacedFact
  <2>2. CASE m = l + 1
    <3>1. levels'[m][i] \in Outcome
      BY <1>2, <2>2 DEF ToSet
    <3>2. \A x \in ToSet(levels'[m][i]) : IsInFile(x)'
      BY DEF IsInFile
    <3> QED
      BY <1>3, <1>4, <3>1, <3>2, WhereNext DEF Separate, Where
  <2> QED
    BY <2>1, <2>2
<1>6. ASSUME NEW m \in Levels \ {0}, NEW i \in DOMAIN levels'[m], NEW j \in DOMAIN levels'[m], i < j
      PROVE  AllBefore(levels'[m][i], levels'[m][j])
  <2>1. CASE m # l /\ m # l + 1
    BY <1>1, <1>2, <1>6, <2>1 DEF FilesInv
  <2>2. CASE m = l
    <3>1. /\ from[i] \in DOMAIN levels[m] /\ from[j] \in DOMAIN levels[m] /\ from[i] < from[j]
          /\ levels'[m][i] = levels[m][from[i]] /\ levels'[m][j] = levels[m][from[j]]
      BY <1>2, <1>6, <2>2 DEF Picks
    <3> QED
      BY <1>1, <3>1 DEF FilesInv
  <2>3. CASE m = l + 1
    BY <1>2, <1>6, <2>3
  <2> QED
    BY <2>1, <2>2, <2>3
<1>7. OneFileInv'
  <2> SUFFICES ASSUME NEW m \in Levels, NEW k \in Levels,
                      NEW i \in DOMAIN levels'[m], NEW j \in DOMAIN levels'[k],
                      NEW x \in ToSet(levels'[m][i]), x \in ToSet(levels'[k][j])
               PROVE  m = k /\ i = j
    BY DEF OneFileInv
  <2> DEFINE f == levels'[m][i]
             g == levels'[k][j]
             KeptAt(h, q, u) ==
                 \E p \in DOMAIN levels[q] : /\ h = levels[q][p]
                                             /\ q = l => p = from[u]
                                             /\ q # l /\ q # l + 1 => p = u
  <2>1. \/ KeptAt(f, m, i) /\ f \notin I
        \/ m = l + 1 /\ f \in ToSet(outputs)
    BY CommittedFiles
  <2>2. \/ KeptAt(g, k, j) /\ g \notin I
        \/ k = l + 1 /\ g \in ToSet(outputs)
    BY CommittedFiles
  <2>3. x \in Entry /\ ~ Before(x, x)
    <3>1. x \in Contents
      BY <1>5
    <3>2. x \in Entry
      BY <1>1, <3>1 DEF VersionsInv, Unique
    <3> QED
      BY <3>2, BeforeFact
  <2>4. CASE m = l + 1 /\ k = l + 1
    <3>1. ~ AllBefore(f, g) /\ ~ AllBefore(g, f)
      BY <2>3 DEF AllBefore
    <3>2. i < j \/ j < i \/ i = j
      BY <1>1, <1>2, <2>4, LenProperties
    <3> QED
      BY <1>2, <2>4, <3>1, <3>2
  <2>5. CASE KeptAt(f, m, i) /\ KeptAt(g, k, j) /\ ~ (m = l + 1 /\ k = l + 1)
    <3>1. PICK p \in DOMAIN levels[m] : /\ f = levels[m][p]
                                        /\ m = l => p = from[i]
                                        /\ m # l /\ m # l + 1 => p = i
      BY <2>5
    <3>2. PICK q \in DOMAIN levels[k] : /\ g = levels[k][q]
                                        /\ k = l => q = from[j]
                                        /\ k # l /\ k # l + 1 => q = j
      BY <2>5
    <3>3. m = k /\ p = q
      BY <1>1, <3>1, <3>2 DEF OneFileInv
    <3>4. CASE m = l
      <4>1. from[i] = from[j] /\ i \in DOMAIN levels'[l] /\ j \in DOMAIN levels'[l]
        BY <3>1, <3>2, <3>3, <3>4
      <4>2. i < j \/ j < i \/ i = j
        BY <1>1, <1>2, <4>1, LenProperties
      <4>3. from[i] \in Int
        <5>1. from[i] \in DOMAIN levels[l] /\ levels[l] \in Seq(Files)
          BY <1>1, <1>2, <4>1 DEF Picks, LevelType
        <5> QED
          BY <5>1, LenProperties
      <4>4. ~ (from[i] < from[j]) /\ ~ (from[j] < from[i])
        BY <4>1, <4>3
      <4> QED
        BY <1>2, <3>3, <4>1, <4>2, <4>4 DEF Picks
    <3>5. CASE m # l
      BY <2>5, <3>1, <3>2, <3>3, <3>5
    <3> QED
      BY <3>4, <3>5
  <2>6. ASSUME NEW h \in ToSet(outputs), NEW b, b \notin I, Placed(b), x \in ToSet(h), x \in ToSet(b)
        PROVE  FALSE
    <3>1. x \in Written
      BY <2>6 DEF Written, ToSet
    <3>2. PICK c \in I : x \in ToSet(c)
      BY <3>1 DEF CommitInv, EntriesOf
    <3>3. Placed(c) /\ c # b
      BY <2>6, InputFact
    <3> QED
      BY <2>6, <3>2, <3>3, PlacedApart
  <2>7. (KeptAt(f, m, i) => Placed(f)) /\ (KeptAt(g, k, j) => Placed(g))
    BY DEF Placed
  <2> HIDE DEF f, g, KeptAt, I
  <2>8. x \in ToSet(f) /\ x \in ToSet(g)
    BY DEF f, g
  <2> QED
    BY <2>1, <2>2, <2>4, <2>5, <2>6, <2>7, <2>8
<1>8. LevelType' /\ FilesInv'
  BY <1>2, <1>5, <1>6 DEF LevelType, FilesInv
<1>9. MemType' /\ LiveInv' /\ VersionsInv'
  <2>1. MemType'
    BY <1>1 DEF MemType
  <2>2. LiveInv'
    BY <1>1, <1>4 DEF LiveInv
  <2>3. VersionsInv'
    BY <1>1, <1>4 DEF VersionsInv
  <2> QED
    BY <2>1, <2>2, <2>3
<1> QED
  BY <1>4, <1>7, <1>8, <1>9 DEF TreeInv

\* CompactCommit: the outputs replace the inputs, and the next level stays in order.
LEMMA CompactCommitStep ==
    ASSUME IInv, CompactCommit
    PROVE  IInv' /\ Contents' = Contents
<1>1. /\ TreeInv /\ JobType /\ SelectedInv /\ OutputsInv /\ CommitInv /\ ReadInv
  BY DEF IInv, WorkInv
<1>2. /\ thread = "Commit" /\ thread' = "Rest" /\ job' = NoJob /\ outputs' = <<>>
      /\ memtables' = memtables /\ frozen' = frozen /\ writes' = writes
      /\ inputs' = inputs /\ writer' = writer /\ get' = get /\ answer' = answer
  BY DEF CompactCommit, getVars
<1>3. inputs = <<>> /\ writer = <<>>
  BY <1>1, <1>2 DEF OutputsInv
<1>4. PICK from : Committed(from)
  BY <1>1, CommittedFact
<1>5. TreeInv' /\ Contents' = Contents
  BY <1>1, <1>2, <1>4, CommittedTree
<1>6. JobType'
  <2>1. Len(frozen) \in Nat
    BY <1>1 DEF TreeInv, MemType
  <2>2. /\ job' \in [count: Nat, level: Nat, source: SUBSET Files, target: SUBSET Files]
        /\ job'.count \in 0 .. Len(frozen) /\ job'.level \in 0 .. MaxLevel - 1
    BY <1>2, <2>1, ConstantFact DEF NoJob
  <2>3. outputs' \in Seq(Files) /\ writer' \in Files
    BY <1>2, <1>3 DEF Files
  <2> QED
    BY <1>2, <2>2, <2>3 DEF JobType
<1>7. SelectedInv' /\ MergeInv' /\ CommitInv'
  BY <1>2 DEF SelectedInv, MergeInv, CommitInv
<1>8. OutputsInv'
  BY <1>2, <1>3 DEF OutputsInv, Sorted
<1>9. GetType'
  BY <1>1, <1>2 DEF ReadInv, GetType
<1>10. GetInv'
  BY <1>1, <1>2, <1>5, GetUndisturbed DEF ReadInv, Undisturbed
<1> QED
  BY <1>5, <1>6, <1>7, <1>8, <1>9, <1>10 DEF IInv, WorkInv, ReadInv
-----------------------------------------------------------------------------
(* Gets. *)

\* What a chain of lookups finds is what one of them finds, and it finds nothing only if
\* none does.
LEMMA FoundFact ==
    ASSUME NEW found, DOMAIN found \subseteq Nat
    PROVE  \/ /\ FirstFound(found) = NoEntry
              /\ \A i \in DOMAIN found : found[i] = NoEntry
           \/ /\ FirstFound(found) # NoEntry
              /\ \E i \in DOMAIN found : FirstFound(found) = found[i]
<1> DEFINE hits == {i \in DOMAIN found : found[i] # NoEntry}
<1>1. FirstFound(found) = IF hits = {} THEN NoEntry ELSE found[Min(hits)]
  BY DEF FirstFound
<1>2. CASE hits = {}
  BY <1>1, <1>2
<1>3. CASE hits # {}
  <2>1. Min(hits) \in hits
    BY <1>3, MinFact
  <2> QED
    BY <1>1, <1>3, <2>1
<1> QED
  BY <1>2, <1>3

\* r is what a lookup of k among S can find: one of its versions.
IsVersion(r, S, k) == r \in S /\ r.key = k

\* A search of a file finds a version if the file has one.
LEMMA PlacedSearch ==
    ASSUME TreeInv, NEW f, Placed(f), NEW k \in Keys
    PROVE  /\ Search(f, k) = Newest(ToSet(f), k)
           /\ \/ Search(f, k) = NoEntry /\ \A e \in ToSet(f) : e.key # k
              \/ IsVersion(Search(f, k), Contents, k)
<1>1. f \in Seq(Entry) /\ Sorted(f) /\ ToSet(f) \subseteq Contents
  BY PlacedFact
<1>2. Unique(ToSet(f)) /\ IsFiniteSet(ToSet(f))
  BY <1>1, FS_Subset DEF TreeInv, VersionsInv, Unique
<1>3. Search(f, k) = Newest(ToSet(f), k)
  BY <1>1, <1>2, SearchFact
<1>4. CASE \A e \in ToSet(f) : e.key # k
  BY <1>3, <1>4 DEF Newest
<1>5. CASE \E e \in ToSet(f) : e.key = k
  <2>1. PICK e \in ToSet(f) : e.key = k /\ \A g \in ToSet(f) : g.key = k => g.lsn <= e.lsn /\ NotAfter(e, g)
    BY <1>2, <1>5, NewestExists
  <2>2. IsNewest(e, ToSet(f), k)
    BY <2>1 DEF IsNewest
  <2>3. Search(f, k) = e
    BY <1>2, <1>3, <2>2, NewestFact
  <2> QED
    BY <1>1, <1>3, <2>1, <2>3 DEF IsVersion
<1> QED
  BY <1>3, <1>4, <1>5

\* A search of a level finds a version if one of its files has one.
LEMMA SearchLevelFact ==
    ASSUME TreeInv, NEW l \in Levels, NEW k \in Keys
    PROVE  \/ /\ SearchLevel(l, k) = NoEntry
              /\ \A i \in DOMAIN levels[l] : \A e \in ToSet(levels[l][i]) : e.key # k
           \/ IsVersion(SearchLevel(l, k), Contents, k)
<1> DEFINE found == [i \in DOMAIN levels[l] |-> Search(levels[l][i], k)]
<1>1. SearchLevel(l, k) = FirstFound(found)
  BY DEF SearchLevel
<1>2. DOMAIN found \subseteq Nat
  <2>1. levels[l] \in Seq(Files)
    BY DEF TreeInv, LevelType
  <2>2. DOMAIN levels[l] = 1 .. Len(levels[l])
    BY <2>1, LenProperties
  <2> QED
    BY <2>2
<1>3. \A i \in DOMAIN levels[l] :
        \/ found[i] = NoEntry /\ \A e \in ToSet(levels[l][i]) : e.key # k
        \/ IsVersion(found[i], Contents, k)
  <2>1. \A i \in DOMAIN levels[l] : Placed(levels[l][i]) /\ found[i] = Search(levels[l][i], k)
    BY DEF Placed
  <2> QED
    BY <2>1, PlacedSearch
<1>4. DOMAIN found = DOMAIN levels[l]
  OBVIOUS
<1>5. NoEntry \notin Contents
  BY NoEntryFact DEF TreeInv, VersionsInv, Unique
<1> HIDE DEF found
<1> QED
  BY <1>1, <1>2, <1>3, <1>4, <1>5, FoundFact DEF IsVersion

\* A lookup in a memtable of db.current finds a version, or the memtable has none or its
\* newest one is a tombstone.
LEMMA MemVersion ==
    ASSUME TreeInv, NEW t \in DOMAIN memtables, NEW k \in Keys
    PROVE  \/ /\ MemGet(memtables[t], k) = NoEntry
              /\ \A v \in memtables[t] : v.key = k => Hidden(v, {w \in memtables[t] : w.key = k})
           \/ IsVersion(MemGet(memtables[t], k), Contents, k)
<1> DEFINE m == memtables[t]
<1>1. m \subseteq Contents /\ IsFiniteSet(m)
  BY DEF TreeInv, MemType, VersionsInv
<1>2. Unique(m)
  BY <1>1 DEF TreeInv, VersionsInv, Unique
<1> HIDE DEF m
<1>3. CASE MemGet(m, k) = NoEntry /\ \A e \in m : e.key # k
  BY <1>3 DEF m
<1>4. CASE MemGet(m, k) = NoEntry /\ \E e \in m : IsNewest(e, m, k) /\ e.del
  <2>1. PICK e \in m : IsNewest(e, m, k) /\ e.del
    BY <1>4
  <2>2. ASSUME NEW v \in m, v.key = k PROVE Hidden(v, {w \in m : w.key = k})
    <3>1. v.lsn <= e.lsn /\ e.key = k
      BY <2>1, <2>2 DEF IsNewest
    <3>2. v.lsn \in Nat /\ e.lsn \in Nat
      BY <1>2 DEF Unique, Entry
    <3>3. CASE v.lsn = e.lsn
      BY <1>2, <2>1, <3>3 DEF Unique, Hidden
    <3>4. CASE e.lsn > v.lsn
      BY <2>2, <3>1, <3>4 DEF Hidden
    <3> QED
      BY <3>1, <3>2, <3>3, <3>4
  <2> QED
    BY <1>4, <2>2 DEF m
<1>5. CASE IsNewest(MemGet(m, k), m, k) /\ ~ MemGet(m, k).del
  BY <1>1, <1>5 DEF m, IsNewest, IsVersion
<1> QED
  BY <1>1, <1>2, <1>3, <1>4, <1>5, MemGetFact

\* The lookups below the mutable memtable, in the order of the search.
IsChain(found, k) ==
    /\ DOMAIN found \subseteq Nat /\ Below(k) = FirstFound(found)
    /\ \A i \in DOMAIN frozen :
         /\ Len(frozen) - i + 1 \in DOMAIN found
         /\ found[Len(frozen) - i + 1] = MemGet(memtables[frozen[i]], k)
    /\ \A l \in Levels :
         /\ Len(frozen) + l + 1 \in DOMAIN found
         /\ found[Len(frozen) + l + 1] = SearchLevel(l, k)
    /\ \A j \in DOMAIN found : \/ \E i \in DOMAIN frozen : j = Len(frozen) - i + 1
                               \/ \E l \in Levels : j = Len(frozen) + l + 1

\* The search asks the frozen memtables from the newest on, and then the levels.
LEMMA BelowChain ==
    ASSUME MemType, NEW k
    PROVE  \E found : IsChain(found, k)
<1> DEFINE n == Len(frozen)
           N == MaxLevel + 1
           asked == [i \in DOMAIN frozen |-> MemGet(memtables[frozen[Len(frozen) - i + 1]], k)]
           searched == [i \in 1 .. MaxLevel + 1 |-> SearchLevel(i - 1, k)]
           found == asked \o searched
           Result == {MemGet(memtables[frozen[i]], k) : i \in DOMAIN frozen} \cup {SearchLevel(l, k) : l \in Levels}
<1>1. Below(k) = FirstFound(found)
  BY DEF Below
<1>2. n \in Nat /\ DOMAIN frozen = 1 .. n
  BY LenProperties DEF MemType
<1>3. N \in Nat /\ MaxLevel \in Nat /\ Levels = 0 .. MaxLevel
  BY ConstantFact DEF Levels
<1>4. \A i \in 1 .. n : n - i + 1 \in 1 .. n /\ n - (n - i + 1) + 1 = i
  BY <1>2
<1>5. \A l \in Levels : l + 1 \in 1 .. N /\ (l + 1) - 1 = l /\ l \in Nat
  BY <1>3
<1>6. \A j \in 1 .. N : j - 1 \in Levels /\ j = (j - 1) + 1
  BY <1>3
<1>7. asked \in [1 .. n -> Result]
  <2>1. \A i \in 1 .. n : MemGet(memtables[frozen[n - i + 1]], k) \in Result
    BY <1>2, <1>4
  <2> HIDE DEF Result
  <2> QED
    BY <1>2, <2>1
<1>8. searched \in [1 .. N -> Result]
  <2>1. \A j \in 1 .. N : SearchLevel(j - 1, k) \in Result
    BY <1>6
  <2> HIDE DEF Result
  <2> QED
    BY <2>1
<1>9. \A i \in 1 .. n : asked[n - i + 1] = MemGet(memtables[frozen[i]], k)
  <2>1. \A i \in 1 .. n : asked[n - i + 1] = MemGet(memtables[frozen[n - (n - i + 1) + 1]], k)
    BY <1>2, <1>4
  <2> QED
    BY <1>4, <2>1
<1>10. \A l \in Levels : searched[l + 1] = SearchLevel(l, k)
  <2>1. \A j \in 1 .. N : searched[j] = SearchLevel(j - 1, k)
    OBVIOUS
  <2> HIDE DEF searched, N
  <2> QED
    BY <1>5, <2>1
<1> HIDE DEF asked, searched, Result, n, N
<1>11. asked \in Seq(Result) /\ searched \in Seq(Result) /\ Len(asked) = n /\ Len(searched) = N
  BY <1>2, <1>3, <1>7, <1>8
<1>12. /\ found \in Seq(Result) /\ Len(found) = n + N
       /\ \A i \in 1 .. n + N : found[i] = IF i <= n THEN asked[i] ELSE searched[i - n]
  BY <1>11, ConcatProperties
<1> HIDE DEF found
<1>13. DOMAIN found = 1 .. n + N /\ DOMAIN found \subseteq Nat
  BY <1>2, <1>3, <1>12
<1>14. \A i \in 1 .. n : n - i + 1 \in 1 .. n + N /\ n - i + 1 <= n
  BY <1>2, <1>3
<1>15. \A l \in Levels : n + l + 1 \in 1 .. n + N /\ ~ (n + l + 1 <= n) /\ (n + l + 1) - n = l + 1
  <2>1. \A l \in Levels : l \in Nat /\ l + 1 <= N
    BY <1>3 DEF N
  <2> QED
    BY <1>2, <1>3, <2>1
<1>16. \A i \in 1 .. n : n - i + 1 \in DOMAIN found /\ found[n - i + 1] = MemGet(memtables[frozen[i]], k)
  BY <1>9, <1>12, <1>13, <1>14
<1>17. \A l \in Levels : n + l + 1 \in DOMAIN found /\ found[n + l + 1] = SearchLevel(l, k)
  BY <1>10, <1>12, <1>13, <1>15
<1>18. ASSUME NEW j \in 1 .. n + N
       PROVE  (\E i \in 1 .. n : j = n - i + 1) \/ (\E l \in Levels : j = n + l + 1)
  <2>1. CASE j <= n
    <3>1. n - j + 1 \in 1 .. n /\ j = n - (n - j + 1) + 1
      BY <1>2, <2>1
    <3> QED
      BY <3>1
  <2>2. CASE ~ (j <= n)
    <3>1. (j - n) - 1 \in Levels /\ j = n + ((j - n) - 1) + 1
      <4>1. j - n \in 1 .. N
        BY <1>2, <1>3, <2>2
      <4> QED
        BY <1>2, <1>3, <1>6, <4>1
    <3> QED
      BY <3>1
  <2> QED
    BY <2>1, <2>2
<1>19. IsChain(found, k)
  BY <1>1, <1>2, <1>13, <1>16, <1>17, <1>18 DEF IsChain, n
<1> QED
  BY <1>19

\* What the frozen memtables and the files say of a key.
LEMMA BelowFact ==
    ASSUME TreeInv, NEW k \in Keys
    PROVE  \/ IsVersion(Below(k), Contents, k)
           \/ /\ Below(k) = NoEntry
              /\ \A v \in Contents \ memtables[Mutable] : v.key = k =>
                   \E i \in DOMAIN frozen :
                     /\ v \in memtables[frozen[i]]
                     /\ Hidden(v, {w \in memtables[frozen[i]] : w.key = k})
<1>1. PICK found : IsChain(found, k)
  BY BelowChain DEF TreeInv
<1>2. \A i \in DOMAIN frozen : frozen[i] \in DOMAIN memtables
  <2>1. /\ memtables \in Seq(SUBSET Entry) /\ frozen \in Seq(Nat)
        /\ \A i \in DOMAIN frozen : frozen[i] \in 1 .. Len(memtables) - 1
    BY DEF TreeInv, MemType
  <2>2. DOMAIN memtables = 1 .. Len(memtables) /\ Len(memtables) \in Nat
    BY <2>1, LenProperties
  <2>3. \A t \in 1 .. Len(memtables) - 1 : t \in DOMAIN memtables
    BY <2>2
  <2> QED
    BY <2>1, <2>3
<1>3. ASSUME NEW i \in DOMAIN frozen
      PROVE  \/ /\ MemGet(memtables[frozen[i]], k) = NoEntry
                /\ \A v \in memtables[frozen[i]] : v.key = k =>
                     Hidden(v, {w \in memtables[frozen[i]] : w.key = k})
             \/ IsVersion(MemGet(memtables[frozen[i]], k), Contents, k)
  BY <1>2, MemVersion
<1>4. ASSUME NEW l \in Levels
      PROVE  \/ /\ SearchLevel(l, k) = NoEntry
                /\ \A i \in DOMAIN levels[l] : \A e \in ToSet(levels[l][i]) : e.key # k
             \/ IsVersion(SearchLevel(l, k), Contents, k)
  BY SearchLevelFact
<1>5. NoEntry \notin Contents
  BY NoEntryFact DEF TreeInv, VersionsInv, Unique
<1>6. CASE FirstFound(found) # NoEntry
  <2>1. PICK j \in DOMAIN found : FirstFound(found) = found[j]
    BY <1>1, <1>6, FoundFact DEF IsChain
  <2>2. \/ \E i \in DOMAIN frozen : found[j] = MemGet(memtables[frozen[i]], k)
        \/ \E l \in Levels : found[j] = SearchLevel(l, k)
    BY <1>1 DEF IsChain
  <2>3. IsVersion(found[j], Contents, k)
    BY <1>3, <1>4, <1>6, <2>1, <2>2
  <2> QED
    BY <1>1, <2>1, <2>3 DEF IsChain
<1>7. CASE FirstFound(found) = NoEntry
  <2>1. \A j \in DOMAIN found : found[j] = NoEntry
    BY <1>1, <1>7, FoundFact DEF IsChain
  <2>2. \A i \in DOMAIN frozen : MemGet(memtables[frozen[i]], k) = NoEntry
    BY <1>1, <2>1 DEF IsChain
  <2>3. \A l \in Levels : SearchLevel(l, k) = NoEntry
    BY <1>1, <2>1 DEF IsChain
  <2>4. ASSUME NEW v \in Contents \ memtables[Mutable], v.key = k
        PROVE  \E i \in DOMAIN frozen : /\ v \in memtables[frozen[i]]
                                        /\ Hidden(v, {w \in memtables[frozen[i]] : w.key = k})
    <3>1. ~ IsInFile(v)
      <4>1. ASSUME NEW l \in Levels PROVE ~ \E i \in DOMAIN levels[l] : v \in ToSet(levels[l][i])
        BY <1>4, <1>5, <2>3, <2>4 DEF IsVersion
      <4> QED
        BY <4>1 DEF IsInFile
    <3>2. IsLive(v)
      BY <3>1, WhereNow DEF Where
    <3>3. PICK t \in Live : v \in memtables[t]
      BY <3>2 DEF IsLive
    <3>4. PICK i \in DOMAIN frozen : t = frozen[i]
      BY <2>4, <3>3 DEF Live
    <3>5. Hidden(v, {w \in memtables[frozen[i]] : w.key = k})
      BY <1>3, <1>5, <2>2, <2>4, <3>3, <3>4 DEF IsVersion
    <3> QED
      BY <3>3, <3>4, <3>5
  <2>5. Below(k) = NoEntry
    BY <1>1, <1>7 DEF IsChain
  <2> QED
    BY <2>4, <2>5
<1> QED
  BY <1>6, <1>7

\* GetLoad: the frozen memtables and the files are asked.
LEMMA GetLoadStep ==
    ASSUME IInv, GetLoad
    PROVE  /\ IInv' /\ Contents' = Contents
           /\ \E k \in Keys :
                /\ get = NoGet /\ answer' = NoEntry
                /\ get'.key = k /\ get'.seen = Cardinality(Contents) /\ get'.key # 0
<1>1. /\ TreeInv /\ MemType /\ LiveInv /\ VersionsInv /\ WorkInv /\ JobType
  BY DEF IInv, TreeInv, WorkInv
<1>2. PICK k \in Keys :
        /\ get = NoGet /\ answer' = NoEntry
        /\ get' = [key |-> k, seen |-> writes, mem |-> Mutable, below |-> Below(k)]
        /\ UNCHANGED <<treeVars, thread, job, mergeVars>>
  BY DEF GetLoad
<1>3. TreeInv' /\ Contents' = Contents
  BY <1>1, <1>2, SameTree
<1>4. WorkInv'
  <2>1. UNCHANGED <<levels, thread, job, mergeVars, frozen>>
    BY <1>2 DEF treeVars
  <2>2. JobType'
    BY <1>1, <2>1 DEF JobType, mergeVars
  <2> QED
    BY <1>1, <2>1, <2>2, SameWork DEF WorkInv
<1>5. /\ memtables' = memtables /\ writes' = writes
      /\ get'.key = k /\ get'.seen = writes /\ get'.mem = Mutable /\ get'.below = Below(k)
  BY <1>2 DEF treeVars
<1>6. \/ IsVersion(Below(k), Contents, k)
      \/ /\ Below(k) = NoEntry
         /\ \A v \in Contents \ memtables[Mutable] : v.key = k =>
              \E i \in DOMAIN frozen :
                /\ v \in memtables[frozen[i]]
                /\ Hidden(v, {w \in memtables[frozen[i]] : w.key = k})
  BY <1>1, BelowFact
<1>7. writes \in Nat /\ Mutable \in Nat \ {0} /\ Mutable = Len(memtables) /\ k \in Nat \ {0}
  BY <1>1, SstableAssumption, ConstantFact DEF MemType, Mutable
<1>8. Below(k) \in Entry \cup {NoEntry}
  BY <1>1, <1>6 DEF IsVersion, VersionsInv, Unique
<1>9. GetType'
  <2>1. get' \in [key: Nat, seen: Nat, mem: Nat, below: Entry \cup {NoEntry}]
    BY <1>2, <1>7, <1>8
  <2> QED
    BY <1>2, <1>5, <1>7, <2>1 DEF GetType
<1>10. GetInv'
  <2>1. CASE IsVersion(Below(k), Contents, k)
    BY <1>3, <1>5, <2>1 DEF GetInv, IsVersion
  <2>2. CASE /\ Below(k) = NoEntry
             /\ \A v \in Contents \ memtables[Mutable] : v.key = k =>
                  \E i \in DOMAIN frozen :
                    /\ v \in memtables[frozen[i]]
                    /\ Hidden(v, {w \in memtables[frozen[i]] : w.key = k})
    <3>1. OldVersions' = {v \in Contents \ memtables[Mutable] : v.key = k /\ v.lsn <= writes}
      BY <1>3, <1>5 DEF OldVersions
    <3>2. ASSUME NEW v \in OldVersions' PROVE Hidden(v, OldVersions')
      <4>1. v \in Contents \ memtables[Mutable] /\ v.key = k
        BY <3>1
      <4>2. PICK i \in DOMAIN frozen : /\ v \in memtables[frozen[i]]
                                       /\ Hidden(v, {w \in memtables[frozen[i]] : w.key = k})
        BY <2>2, <4>1
      <4>3. memtables[frozen[i]] \cap memtables[Mutable] = {}
        <5>1. frozen[i] \in Live /\ Mutable \in Live /\ frozen[i] # Mutable
          BY <1>1, <1>7 DEF Live, MemType
        <5> QED
          BY <1>1, <5>1 DEF LiveInv
      <4>4. memtables[frozen[i]] \subseteq Contents
        <5>1. frozen[i] \in DOMAIN memtables
          BY <1>1 DEF MemType
        <5> QED
          BY <1>1, <5>1 DEF VersionsInv
      <4>5. \A w \in Contents : w.lsn <= writes
        BY <1>1 DEF VersionsInv
      <4>6. {w \in memtables[frozen[i]] : w.key = k} \subseteq OldVersions'
        BY <3>1, <4>3, <4>4, <4>5
      <4> QED
        BY <4>2, <4>6 DEF Hidden
    <3> QED
      BY <1>5, <2>2, <3>2 DEF GetInv, Hidden
  <2> QED
    BY <1>6, <2>1, <2>2
<1>11. writes = Cardinality(Contents)
  BY <1>1 DEF VersionsInv
<1> QED
  BY <1>2, <1>3, <1>4, <1>5, <1>7, <1>9, <1>10, <1>11 DEF IInv, ReadInv

\* When a get ends, its memtable is freed unless it is live.
LEMMA FreedFact ==
    ASSUME MemType, GetReturn
    PROVE  /\ MemType' /\ Mutable' = Mutable /\ Live' = Live
           /\ \A t \in Live : memtables'[t] = memtables[t]
           /\ \A t \in DOMAIN memtables' : t \in DOMAIN memtables /\ memtables'[t] \in {memtables[t], {}}
<1>1. /\ frozen' = frozen /\ writes' = writes
      /\ memtables' = [t \in DOMAIN memtables |->
            IF t \in ToSet(frozen) \cup {Mutable, NoGet.mem} THEN memtables[t] ELSE {}]
  BY DEF GetReturn, Freed
<1>2. /\ memtables \in Seq(SUBSET Entry) /\ memtables # <<>> /\ DOMAIN memtables = 1 .. Mutable
      /\ Mutable = Len(memtables) /\ Mutable \in Nat \ {0}
      /\ frozen \in Seq(Nat)
      /\ \A i \in DOMAIN frozen : frozen[i] \in 1 .. Mutable - 1
  BY DEF MemType, Mutable
<1>3. /\ DOMAIN memtables' = 1 .. Mutable
      /\ \A t \in 1 .. Mutable : memtables'[t] \in {memtables[t], {}}
      /\ \A t \in 1 .. Mutable : t \in ToSet(frozen) \cup {Mutable} => memtables'[t] = memtables[t]
  BY <1>1, <1>2
<1>4. memtables' \in Seq(SUBSET Entry) /\ Len(memtables') = Mutable
  <2>1. \A t \in 1 .. Mutable : memtables'[t] \in SUBSET Entry
    <3>1. \A t \in 1 .. Mutable : memtables[t] \in SUBSET Entry
      BY <1>2
    <3> QED
      BY <1>3, <3>1
  <2>2. memtables' = [t \in 1 .. Mutable |-> memtables'[t]]
    BY <1>1, <1>2
  <2>3. memtables' \in [1 .. Mutable -> SUBSET Entry]
    BY <2>1, <2>2
  <2>4. Mutable \in Nat
    BY <1>2
  <2> QED
    BY <2>3, <2>4
<1>5. Mutable' = Mutable /\ memtables' # <<>>
  BY <1>2, <1>4 DEF Mutable
<1>6. Live' = Live
  BY <1>1, <1>5 DEF Live
<1>7. \A t \in Live : memtables'[t] = memtables[t]
  <2>1. ToSet(frozen) = {frozen[i] : i \in DOMAIN frozen}
    BY DEF ToSet
  <2>2. Mutable \in 1 .. Mutable /\ \A t \in 1 .. Mutable - 1 : t \in 1 .. Mutable
    BY <1>2
  <2>3. \A t \in Live : t \in 1 .. Mutable /\ t \in ToSet(frozen) \cup {Mutable}
    BY <1>2, <2>1, <2>2 DEF Live
  <2> QED
    BY <1>3, <2>3
<1>8. \A t \in DOMAIN memtables' : IsFiniteSet(memtables'[t])
  BY <1>2, <1>3, FS_EmptySet DEF MemType
<1>9. MemType'
  BY <1>1, <1>4, <1>5, <1>8 DEF MemType, Mutable
<1> QED
  BY <1>2, <1>3, <1>5, <1>6, <1>7, <1>9

\* The versions of k up to n, and that none of them is to be found.
Known(k, n)    == {v \in Contents : v.key = k /\ v.lsn <= n}
AbsentAt(k, n) == \A v \in Known(k, n) : Hidden(v, Known(k, n))

\* A get answers with a version of its key, or there was a moment of the get without one.
LEMMA AnswerFact ==
    ASSUME TreeInv, ReadInv, GetReturn
    PROVE  \/ IsVersion(answer', Contents, get.key)
           \/ /\ answer' = NoEntry
              /\ \E n \in get.seen .. Cardinality(Contents) : AbsentAt(get.key, n)
<1> DEFINE k == get.key
           m == memtables[get.mem]
<1>1. get # NoGet /\ answer' = IF MemGet(m, k) # NoEntry THEN MemGet(m, k) ELSE get.below
  BY DEF GetReturn
<1>2. k \in Keys /\ get.mem \in DOMAIN memtables
  <2>1. k \in Keys /\ get.mem # 0 /\ get.mem \in Nat /\ get.mem <= Len(memtables)
    BY <1>1 DEF ReadInv, GetType
  <2>2. Len(memtables) \in Nat /\ DOMAIN memtables = 1 .. Len(memtables)
    BY LenProperties DEF TreeInv, MemType
  <2> QED
    BY <2>1, <2>2
<1>3. \/ get.below \in Contents /\ get.below.key = k
      \/ get.below = NoEntry /\ \A v \in OldVersions : Hidden(v, OldVersions)
  BY <1>1 DEF ReadInv, GetInv
<1>4. /\ m \subseteq Contents /\ IsFiniteSet(m) /\ Unique(Contents) /\ Unique(m)
      /\ NoEntry \notin Contents
  BY <1>2, NoEntryFact DEF TreeInv, MemType, VersionsInv, Unique
<1>5. /\ get.seen \in Nat /\ writes \in Nat /\ get.seen <= writes /\ writes = Cardinality(Contents)
  BY ConstantFact DEF TreeInv, MemType, VersionsInv, ReadInv, GetType
<1>6. \A v \in Contents : v.lsn \in Nat /\ v.lsn <= writes
  BY <1>4 DEF TreeInv, VersionsInv, Unique, Entry
<1>7. \A v : v \in OldVersions <=> v \in Known(k, get.seen) /\ v \notin m
  BY DEF OldVersions, Known
<1> HIDE DEF m, k
<1>8. CASE IsNewest(MemGet(m, k), m, k) /\ ~ MemGet(m, k).del
  BY <1>1, <1>4, <1>8 DEF IsNewest, IsVersion, k
<1>9. CASE MemGet(m, k) = NoEntry /\ get.below \in Contents /\ get.below.key = k
  BY <1>1, <1>9 DEF IsVersion, k
<1>10. ASSUME MemGet(m, k) = NoEntry, get.below = NoEntry,
              \A v \in OldVersions : Hidden(v, OldVersions),
              \A e \in m : e.key # k
       PROVE  AbsentAt(k, get.seen)
  <2>1. \A v : v \in OldVersions <=> v \in Known(k, get.seen)
    BY <1>7, <1>10 DEF Known
  <2>2. OldVersions = Known(k, get.seen)
    BY <2>1
  <2> QED
    BY <1>10, <2>2 DEF AbsentAt
<1>11. ASSUME NEW e \in m, IsNewest(e, m, k), e.del, e.lsn <= get.seen,
              \A v \in OldVersions : Hidden(v, OldVersions)
       PROVE  AbsentAt(k, get.seen)
  <2>1. e \in Known(k, get.seen)
    BY <1>4, <1>11 DEF IsNewest, Known
  <2>2. ASSUME NEW v \in Known(k, get.seen) PROVE Hidden(v, Known(k, get.seen))
    <3>1. CASE v \in m
      <4>1. v.lsn <= e.lsn /\ v.key = k /\ e.key = k
        BY <1>11, <3>1 DEF IsNewest, Known
      <4>2. v.lsn = e.lsn \/ e.lsn > v.lsn
        BY <1>4, <1>6, <3>1, <4>1
      <4>3. CASE v.lsn = e.lsn
        BY <1>4, <1>11, <3>1, <4>3 DEF Unique, Hidden
      <4>4. CASE e.lsn > v.lsn
        BY <2>1, <4>1, <4>4 DEF Hidden
      <4> QED
        BY <4>2, <4>3, <4>4
    <3>2. CASE v \notin m
      <4>1. Hidden(v, OldVersions)
        BY <1>7, <1>11, <3>2
      <4> QED
        BY <1>7, <4>1 DEF Hidden
    <3> QED
      BY <3>1, <3>2
  <2> QED
    BY <2>2 DEF AbsentAt
<1>12. ASSUME NEW e \in m, IsNewest(e, m, k), e.del
       PROVE  AbsentAt(k, e.lsn)
  <2>1. e \in Known(k, e.lsn)
    BY <1>4, <1>6, <1>12 DEF IsNewest, Known
  <2>2. ASSUME NEW v \in Known(k, e.lsn) PROVE Hidden(v, Known(k, e.lsn))
    <3>1. v \in Contents /\ v.key = k /\ v.lsn <= e.lsn /\ e \in Contents /\ e.key = k
      BY <2>1 DEF Known
    <3>2. v.lsn = e.lsn \/ e.lsn > v.lsn
      BY <1>6, <3>1
    <3>3. CASE v.lsn = e.lsn
      BY <1>4, <1>12, <3>1, <3>3 DEF Unique, Hidden
    <3>4. CASE e.lsn > v.lsn
      BY <2>1, <3>1, <3>4 DEF Hidden
    <3> QED
      BY <3>2, <3>3, <3>4
  <2> QED
    BY <2>2 DEF AbsentAt
<1>13. CASE MemGet(m, k) = NoEntry /\ get.below = NoEntry
            /\ (\A v \in OldVersions : Hidden(v, OldVersions)) /\ \A e \in m : e.key # k
  <2>1. AbsentAt(k, get.seen) /\ answer' = NoEntry
    BY <1>1, <1>10, <1>13
  <2>2. get.seen \in get.seen .. Cardinality(Contents)
    BY <1>5
  <2> QED
    BY <2>1, <2>2 DEF k
<1>14. CASE MemGet(m, k) = NoEntry /\ get.below = NoEntry
            /\ (\A v \in OldVersions : Hidden(v, OldVersions)) /\ \E e \in m : IsNewest(e, m, k) /\ e.del
  <2>1. PICK e \in m : IsNewest(e, m, k) /\ e.del
    BY <1>14
  <2>2. answer' = NoEntry
    BY <1>1, <1>14
  <2>3. CASE e.lsn <= get.seen
    <3>1. AbsentAt(k, get.seen) /\ get.seen \in get.seen .. Cardinality(Contents)
      BY <1>5, <1>11, <1>14, <2>1, <2>3
    <3> QED
      BY <2>2, <3>1 DEF k
  <2>4. CASE ~ (e.lsn <= get.seen)
    <3>1. AbsentAt(k, e.lsn)
      BY <1>12, <2>1
    <3>2. e.lsn \in Nat /\ e.lsn <= writes
      BY <1>4, <1>6
    <3>3. e.lsn \in get.seen .. Cardinality(Contents)
      BY <1>5, <2>4, <3>2
    <3> QED
      BY <2>2, <3>1, <3>3 DEF k
  <2> QED
    BY <2>3, <2>4
<1>15. \/ MemGet(m, k) = NoEntry /\ \A e \in m : e.key # k
       \/ MemGet(m, k) = NoEntry /\ \E e \in m : IsNewest(e, m, k) /\ e.del
       \/ IsNewest(MemGet(m, k), m, k) /\ ~ MemGet(m, k).del
  BY <1>2, <1>4, MemGetFact DEF k
<1> QED
  BY <1>3, <1>8, <1>9, <1>13, <1>14, <1>15

\* GetReturn: the memtable is asked, answered, and freed.
LEMMA GetReturnStep ==
    ASSUME IInv, GetReturn
    PROVE  /\ IInv' /\ Contents' = Contents
           /\ get' = NoGet /\ get # NoGet /\ get.key # 0
<1>1. /\ TreeInv /\ MemType /\ LevelType /\ FilesInv /\ OneFileInv /\ LiveInv /\ VersionsInv
      /\ WorkInv /\ JobType /\ ReadInv /\ GetType
  BY DEF IInv, TreeInv, WorkInv, ReadInv
<1>2. /\ get' = NoGet /\ get # NoGet
      /\ frozen' = frozen /\ levels' = levels /\ writes' = writes
      /\ UNCHANGED <<levels, thread, job, mergeVars>>
  BY DEF GetReturn
<1>3. /\ MemType' /\ Mutable' = Mutable /\ Live' = Live
      /\ \A t \in Live : memtables'[t] = memtables[t]
      /\ \A t \in DOMAIN memtables' : t \in DOMAIN memtables /\ memtables'[t] \in {memtables[t], {}}
  BY <1>1, FreedFact
<1>4. Contents' = Contents /\ FileEntries' = FileEntries
  <2>1. \A x : IsLive(x)' <=> IsLive(x)
    BY <1>3 DEF IsLive
  <2>2. /\ \A x : IsInFile(x)' <=> IsInFile(x)
        /\ FileEntries' = FileEntries
    BY <1>2, SameFiles
  <2>3. \A x : x \in Contents' <=> x \in Contents
    BY <2>1, <2>2, WhereNow, WhereNext DEF Where
  <2> QED
    BY <2>2, <2>3
<1>5. LiveInv'
  <2>1. \A i \in DOMAIN frozen : frozen[i] \in Live
    BY DEF Live
  <2> QED
    BY <1>1, <1>2, <1>3, <1>4, <2>1 DEF LiveInv
<1>6. VersionsInv'
  BY <1>1, <1>2, <1>3, <1>4 DEF VersionsInv
<1>7. TreeInv'
  BY <1>1, <1>2, <1>3, <1>5, <1>6, SameFiles DEF TreeInv
<1>8. WorkInv'
  <2>1. JobType'
    BY <1>1, <1>2 DEF JobType, mergeVars
  <2> QED
    BY <1>1, <1>2, <2>1, SameWork DEF WorkInv
<1>9. answer' \in Entry \cup {NoEntry}
  <2>1. IsVersion(answer', Contents, get.key) \/ answer' = NoEntry
    BY <1>1, AnswerFact
  <2> QED
    BY <1>1, <2>1 DEF IsVersion, VersionsInv, Unique
<1>10. GetType'
  <2>1. writes' \in Nat /\ Len(memtables') \in Nat
    BY <1>3, ConstantFact DEF MemType
  <2> QED
    BY <1>2, <1>9, <2>1 DEF GetType, NoGet
<1>11. GetInv'
  BY <1>2 DEF GetInv
<1>12. get.key # 0
  BY <1>1, <1>2, SstableAssumption DEF GetType
<1> QED
  BY <1>2, <1>4, <1>7, <1>8, <1>10, <1>11, <1>12 DEF IInv, ReadInv
-----------------------------------------------------------------------------
(* The theorems. *)

\* Every step but a write leaves the contents, and every step the invariant.
LEMMA OtherStep ==
    ASSUME IInv, \/ FlushStart \/ FlushCommit \/ FlushFails
                 \/ CompactSelect \/ MergeNext \/ MergeEnd \/ CompactCommit \/ CompactFails
                 \/ UNCHANGED vars
    PROVE  IInv' /\ Contents' = Contents /\ UNCHANGED getVars
<1>1. CASE FlushStart \/ FlushFails
  <2>1. UNCHANGED <<treeVars, getVars>>
    BY <1>1 DEF FlushStart, FlushFails
  <2> QED
    BY <1>1, <2>1, FlushStartStep, SameTree
<1>2. CASE FlushCommit
  BY <1>2, FlushCommitStep DEF FlushCommit
<1>3. CASE CompactSelect
  BY <1>3, CompactSelectStep DEF CompactSelect
<1>4. CASE MergeNext
  BY <1>4, MergeNextStep DEF MergeNext
<1>5. CASE MergeEnd
  BY <1>5, MergeEndStep DEF MergeEnd
<1>6. CASE CompactCommit
  BY <1>6, CompactCommitStep DEF CompactCommit
<1>7. CASE CompactFails
  BY <1>7, CompactFailsStep DEF CompactFails
<1>8. CASE UNCHANGED vars
  <2>1. UNCHANGED <<treeVars, levels, frozen, thread, job, inputs, outputs, writer, mergeVars, getVars>>
    BY <1>8 DEF vars, treeVars, mergeVars
  <2>2. TreeInv' /\ ReadInv' /\ Contents' = Contents
    BY <2>1, SameTree, SameRead DEF IInv
  <2>3. JobType'
    BY <2>1 DEF IInv, WorkInv, JobType
  <2> QED
    BY <2>1, <2>2, <2>3, SameWork DEF IInv, WorkInv
<1> QED
  BY <1>1, <1>2, <1>3, <1>4, <1>5, <1>6, <1>7, <1>8

\* Every step keeps the invariant.
LEMMA StepInv == IInv /\ [Next]_vars => IInv'
<1> SUFFICES ASSUME IInv, [Next]_vars PROVE IInv'
  OBVIOUS
<1> QED
  BY WriteStep, GetLoadStep, GetReturnStep, OtherStep DEF Next

\* The invariant of the LSM tree.
THEOREM Invariant == Spec => []IInv
BY InitInv, StepInv, PTL DEF Spec

\* TypeOK: the memtables, the levels, the merge and the answers of the gets keep their
\* types, and no file is empty.
THEOREM TypeCorrect == Spec => []TypeOK
<1>1. ASSUME IInv PROVE TypeOK
  <2>1. MemType /\ LevelType /\ FilesInv /\ JobType /\ OutputsInv /\ MergeInv /\ GetType
    BY <1>1 DEF IInv, TreeInv, WorkInv, ReadInv
  <2>2. frozen \in Seq(1 .. Len(memtables) - 1)
    <3>1. frozen \in Seq(Nat) /\ \A i \in 1 .. Len(frozen) : frozen[i] \in 1 .. Len(memtables) - 1
      BY <2>1 DEF MemType
    <3> QED
      BY <3>1
  <2>3. DOMAIN inputs \subseteq Files /\ \A f \in DOMAIN inputs : inputs[f] \in Files
    <3>1. CASE thread = "Merge"
      <4>1. inputs \in [job.source \cup job.target -> Files] /\ job.source \cup job.target \subseteq Files
        BY <2>1, <3>1 DEF MergeInv, JobType
      <4> QED
        BY <4>1
    <3>2. CASE thread # "Merge"
      <4>1. inputs = <<>>
        BY <2>1, <3>2 DEF OutputsInv
      <4> QED
        BY <4>1
    <3> QED
      BY <3>1, <3>2
  <2>4. job.source \cup job.target \subseteq Files
    BY <2>1 DEF JobType
  <2>5. get.key \in Keys \cup {0} /\ get.seen \in 0 .. writes /\ get.mem \in 0 .. Len(memtables)
    <3>1. writes \in Nat /\ Len(memtables) \in Nat
      BY <2>1, ConstantFact DEF MemType
    <3> QED
      BY <2>1, <3>1 DEF GetType, NoGet
  <2> QED
    BY <2>1, <2>2, <2>3, <2>4, <2>5 DEF TypeOK, MemType, LevelType, FilesInv, JobType, GetType
<1> QED
  BY <1>1, Invariant, PTL

\* LevelsDisjoint: the merge, the cut into files and the selection of what overlaps keep
\* the files of L1 and below apart, in the order of the whole keys.
THEOREM LevelsStayDisjoint == Spec => []LevelsDisjoint
<1>1. ASSUME IInv PROVE LevelsDisjoint
  <2>1. FilesInv /\ LevelType
    BY <1>1 DEF IInv, TreeInv
  <2>2. ASSUME NEW l \in Levels \ {0}, NEW i \in 1 .. Len(levels[l]) - 1
        PROVE  Before(MaxKey(levels[l][i]), MinKey(levels[l][i + 1]))
    <3>1. levels[l] \in Seq(Files)
      BY <2>1 DEF LevelType
    <3>2. i \in 1 .. Len(levels[l]) /\ i + 1 \in 1 .. Len(levels[l]) /\ i < i + 1
      BY <3>1, LenProperties
    <3>3. i \in DOMAIN levels[l] /\ i + 1 \in DOMAIN levels[l]
      BY <3>1, <3>2, LenProperties
    <3> DEFINE f == levels[l][i]
               g == levels[l][i + 1]
    <3>4. f \in Seq(Entry) /\ Sorted(f) /\ f # <<>> /\ g \in Seq(Entry) /\ Sorted(g) /\ g # <<>>
      <4>1. f \in Files /\ g \in Files
        BY <3>1, <3>2
      <4> QED
        BY <2>1, <3>3, <4>1 DEF FilesInv, Files
    <3>5. AllBefore(f, g)
      BY <2>1, <3>2, <3>3 DEF FilesInv
    <3> HIDE DEF f, g
    <3>6. MaxKey(f) \in ToSet(f) /\ MinKey(g) \in ToSet(g)
      BY <3>4, SortedEnds
    <3>7. Before(MaxKey(f), MinKey(g))
      BY <3>5, <3>6 DEF AllBefore
    <3> QED
      BY <3>7 DEF f, g
  <2> QED
    BY <2>1, <2>2 DEF LevelsDisjoint, FilesInv
<1> QED
  BY <1>1, Invariant, PTL

\* SearchFindsNewest: the Bloom filter, the index and the scan of one block find the
\* newest version of a key that a file of the tree holds.
THEOREM SearchIsRight == Spec => []SearchFindsNewest
<1>1. ASSUME IInv PROVE SearchFindsNewest
  <2>1. \A l \in Levels : \A i \in DOMAIN levels[l] : Placed(levels[l][i])
    BY DEF Placed
  <2> QED
    BY <1>1, <2>1, PlacedSearch DEF SearchFindsNewest, IInv
<1> QED
  BY <1>1, Invariant, PTL

\* The abstract store counts its versions in the same way.
LEMMA SameCardinality ==
    ASSUME NEW S
    PROVE  Store!Cardinality(S) = Cardinality(S)
BY DEF Store!Cardinality, Cardinality

\* IsVersionStore: whatever is rotated, flushed, merged, cut or freed, and whichever step
\* fails, the tree loses and invents no version, and a get answers with a version of its
\* key, or with none if there was a moment without one.
THEOREM ImplementsVersionStore == Spec => IsVersionStore
<1> DEFINE mapped == [key |-> get.key, seen |-> get.seen]
<1>1. Init => Store!Init
  <2> SUFFICES ASSUME Init PROVE Store!Init
    OBVIOUS
  <2>1. levels = [l \in Levels |-> <<>>] /\ memtables = <<{}>> /\ frozen = <<>> /\ get = NoGet /\ answer = NoEntry
    BY DEF Init
  <2>2. \A l \in Levels : DOMAIN levels[l] = {}
    BY <2>1
  <2>3. FileEntries = {}
    BY <2>2 DEF FileEntries, LevelEntries
  <2>4. memtables[Mutable] = {} /\ DOMAIN frozen = {}
    BY <2>1 DEF Mutable
  <2>5. Contents = {}
    BY <2>3, <2>4 DEF Contents
  <2> QED
    BY <2>1, <2>5 DEF Store!Init, Store!Idle, Store!NoEntry, NoEntry, NoGet
<1>2. IInv /\ [Next]_vars => [Store!Next]_<<Contents, mapped, answer>>
  <2> SUFFICES ASSUME IInv, [Next]_vars
               PROVE  Store!Next \/ UNCHANGED <<Contents, mapped, answer>>
    OBVIOUS
  <2>1. CASE Write
    <3>1. UNCHANGED <<mapped, answer>>
      BY <2>1 DEF Write, getVars
    <3>2. \E k \in Keys, d \in BOOLEAN :
            Contents' = Contents \cup {[key |-> k, lsn |-> Cardinality(Contents) + 1, del |-> d]}
      BY <2>1, WriteStep
    <3>3. Store!Write
      BY <3>1, <3>2, SameCardinality DEF Store!Write
    <3> QED
      BY <3>3 DEF Store!Next
  <2>2. CASE GetLoad
    <3>1. PICK k \in Keys : /\ get = NoGet /\ answer' = NoEntry
                            /\ get'.key = k /\ get'.seen = Cardinality(Contents)
      BY <2>2, GetLoadStep
    <3>2. Contents' = Contents
      BY <2>2, GetLoadStep
    <3>3. Store!BeginGet
      BY <3>1, <3>2, SameCardinality DEF Store!BeginGet, Store!Idle, Store!NoEntry, NoEntry, NoGet
    <3> QED
      BY <3>3 DEF Store!Next
  <2>3. CASE GetReturn
    <3>1. Contents' = Contents /\ get' = NoGet /\ get.key # 0
      BY <2>3, GetReturnStep
    <3>2. \/ IsVersion(answer', Contents, get.key)
          \/ /\ answer' = NoEntry
             /\ \E n \in get.seen .. Cardinality(Contents) : AbsentAt(get.key, n)
      BY <2>3, AnswerFact DEF IInv
    <3>3. mapped # Store!Idle /\ mapped' = Store!Idle
      BY <3>1 DEF Store!Idle, NoGet
    <3>4. ASSUME NEW n \in get.seen .. Cardinality(Contents), AbsentAt(get.key, n)
          PROVE  Store!WasAbsent(get.key, get.seen)
      <4> DEFINE known == {v \in Contents : v.key = get.key /\ v.lsn <= n}
      <4>1. \A v \in known : v.del \/ \E w \in known : w.lsn > v.lsn
        BY <3>4 DEF AbsentAt, Known, Hidden
      <4> QED
        BY <4>1, SameCardinality DEF Store!WasAbsent
    <3>5. Store!EndGet
      <4>1. mapped.key = get.key /\ mapped.seen = get.seen
        OBVIOUS
      <4>2. \/ answer' \in {v \in Contents : v.key = mapped.key}
            \/ Store!WasAbsent(mapped.key, mapped.seen) /\ answer' = Store!NoEntry
        BY <3>2, <3>4, <4>1 DEF IsVersion, NoEntry, Store!NoEntry
      <4> QED
        BY <3>1, <3>3, <4>2 DEF Store!EndGet
    <3> QED
      BY <3>5 DEF Store!Next
  <2>4. CASE \/ FlushStart \/ FlushCommit \/ FlushFails
             \/ CompactSelect \/ MergeNext \/ MergeEnd \/ CompactCommit \/ CompactFails
             \/ UNCHANGED vars
    <3>1. Contents' = Contents /\ get' = get /\ answer' = answer
      BY <2>4, OtherStep DEF getVars
    <3> QED
      BY <3>1
  <2> QED
    BY <2>1, <2>2, <2>3, <2>4 DEF Next
<1> QED
  BY <1>1, <1>2, Invariant, PTL DEF Spec, IsVersionStore, Store!Spec
-----------------------------------------------------------------------------
(* How old the entries are. *)

Older(A, B) == \A a \in A, b \in B : a.lsn < b.lsn

\* The entries below L0.
LowerEntries == UNION {LevelEntries(l) : l \in Levels \ {0}}

\* What is below L0 is older than L0, the files are older than the memtables, and each
\* memtable is older than those frozen after it and the mutable one.
AgeInv ==
    /\ Older(LowerEntries, LevelEntries(0))
    /\ \A t \in Live : Older(FileEntries, memtables[t])
    /\ \A i, j \in DOMAIN frozen : i < j => Older(memtables[frozen[i]], memtables[frozen[j]])
    /\ \A i \in DOMAIN frozen : Older(memtables[frozen[i]], memtables[Mutable])

\* Where an entry of the levels is.
Placement ==
    /\ \A e, l : e \in LevelEntries(l) <=> \E i \in DOMAIN levels[l] : e \in ToSet(levels[l][i])
    /\ \A e : e \in LowerEntries <=> \E l \in Levels \ {0} : e \in LevelEntries(l)
    /\ \A e : e \in FileEntries <=> \E l \in Levels : e \in LevelEntries(l)

\* An entry is in a level iff one of its files has it.
LEMMA PlacementNow == Placement
<1>1. \A e, l : e \in LevelEntries(l) <=> \E i \in DOMAIN levels[l] : e \in ToSet(levels[l][i])
  BY DEF LevelEntries
<1>2. \A e : e \in LowerEntries <=> \E l \in Levels \ {0} : e \in LevelEntries(l)
  BY DEF LowerEntries
<1>3. \A e : e \in FileEntries <=> \E l \in Levels : e \in LevelEntries(l)
  BY DEF FileEntries
<1> QED
  BY <1>1, <1>2, <1>3 DEF Placement

\* The same after a step.
LEMMA PlacementNext == Placement'
BY PlacementNow, PTL

\* A step that changes neither levels nor live memtables keeps the ages.
LEMMA SameAge ==
    ASSUME AgeInv, levels' = levels, frozen' = frozen, Mutable' = Mutable,
           \A t \in Live : memtables'[t] = memtables[t]
    PROVE  AgeInv'
<1>1. Live' = Live
  BY DEF Live
<1>2. FileEntries' = FileEntries /\ LowerEntries' = LowerEntries /\ LevelEntries(0)' = LevelEntries(0)
  BY DEF FileEntries, LowerEntries, LevelEntries
<1>3. /\ \A i \in DOMAIN frozen : memtables'[frozen[i]] = memtables[frozen[i]]
      /\ memtables'[Mutable] = memtables[Mutable]
  BY DEF Live
<1> QED
  BY <1>1, <1>2, <1>3 DEF AgeInv

\* A write is newer than everything.
LEMMA WriteAge ==
    ASSUME IInv, AgeInv, Write
    PROVE  AgeInv'
<1>1. MemType /\ TreeInv /\ VersionsInv /\ LiveInv
  BY DEF IInv, TreeInv
<1>2. PICK k \in Keys, d \in BOOLEAN :
         /\ NewEntry(k, d) \in Entry /\ GrownBy(NewEntry(k, d))
         /\ NewEntry(k, d).lsn = writes + 1 /\ levels' = levels
  BY <1>1, WriteFact
<1> DEFINE e == NewEntry(k, d)
<1>3. e \in Entry /\ GrownBy(e) /\ e.lsn = writes + 1
  BY <1>2
<1> HIDE DEF e
<1>4. \A x \in Contents : x.lsn < e.lsn
  <2>1. \A x \in Contents : x.lsn \in Nat /\ x.lsn <= writes
    BY <1>1 DEF VersionsInv, Unique, Entry
  <2>2. writes \in Nat
    BY <1>1, ConstantFact DEF MemType
  <2> QED
    BY <1>3, <2>1, <2>2
<1>5. FileEntries' = FileEntries /\ LowerEntries' = LowerEntries /\ LevelEntries(0)' = LevelEntries(0)
  BY <1>2 DEF FileEntries, LowerEntries, LevelEntries
<1>6. /\ \A i \in DOMAIN frozen : i \in DOMAIN frozen' /\ frozen'[i] = frozen[i]
      /\ \A i \in DOMAIN frozen' : \/ i \in DOMAIN frozen
                                   \/ i = Len(frozen) + 1 /\ frozen'[i] = Mutable
      /\ Len(memtables') = Mutable => frozen' = frozen
      /\ Live' = Live \cup {Len(memtables')}
      /\ Live \subseteq 1 .. Mutable /\ Mutable \in Live /\ Mutable \in Nat
      /\ Len(memtables') \in {Mutable, Mutable + 1}
      /\ memtables'[Mutable] = memtables[Mutable] \cup {e}
      /\ \A t \in 1 .. Mutable - 1 : memtables'[t] = memtables[t]
      /\ Len(memtables') # Mutable => memtables'[Len(memtables')] = {}
  BY <1>1, <1>3, GrownFact
<1>7. Mutable' = Len(memtables')
  BY DEF Mutable
<1>8. /\ frozen \in Seq(Nat) /\ DOMAIN frozen = 1 .. Len(frozen) /\ Len(frozen) \in Nat
      /\ \A i \in DOMAIN frozen : frozen[i] \in 1 .. Mutable - 1 /\ frozen[i] \in Live
  BY <1>1 DEF MemType, Mutable, Live
<1>9. \A i \in DOMAIN frozen : memtables'[frozen[i]] = memtables[frozen[i]]
  BY <1>6, <1>8
<1>10. FileEntries \subseteq Contents /\ \A t \in Live : memtables[t] \subseteq Contents
  BY WhereNow DEF Where, IsLive
<1>11. \A t \in Live' : Older(FileEntries, memtables'[t])
  <2>1. \A t \in Live' : \/ t \in Live /\ (t = Mutable \/ memtables'[t] = memtables[t])
                         \/ memtables'[t] = {}
    <3>1. \A t \in 1 .. Mutable : t = Mutable \/ t \in 1 .. Mutable - 1
      BY <1>6
    <3> QED
      BY <1>6, <3>1
  <2> QED
    BY <1>4, <1>6, <1>10, <2>1 DEF AgeInv, Older
<1>12. ASSUME NEW i \in DOMAIN frozen', NEW j \in DOMAIN frozen', i < j
       PROVE  Older(memtables'[frozen'[i]], memtables'[frozen'[j]])
  <2>1. i \in DOMAIN frozen
    BY <1>6, <1>8, <1>12
  <2>2. CASE j \in DOMAIN frozen
    BY <1>6, <1>9, <1>12, <2>1, <2>2 DEF AgeInv
  <2>3. CASE frozen'[j] = Mutable
    <3>1. Older(memtables[frozen[i]], memtables[Mutable])
      BY <2>1 DEF AgeInv
    <3>2. \A x \in memtables[frozen[i]] : x.lsn < e.lsn
      BY <1>4, <1>8, <1>10, <2>1
    <3> QED
      BY <1>6, <1>9, <2>1, <2>3, <3>1, <3>2 DEF Older
  <2> QED
    BY <1>6, <2>2, <2>3
<1>13. ASSUME NEW i \in DOMAIN frozen'
       PROVE  Older(memtables'[frozen'[i]], memtables'[Mutable'])
  <2>1. CASE Len(memtables') = Mutable
    <3>1. i \in DOMAIN frozen /\ frozen'[i] = frozen[i]
      BY <1>6, <2>1
    <3>2. Older(memtables[frozen[i]], memtables[Mutable])
      BY <3>1 DEF AgeInv
    <3>3. \A x \in memtables[frozen[i]] : x.lsn < e.lsn
      BY <1>4, <1>8, <1>10, <3>1
    <3> QED
      BY <1>6, <1>7, <1>9, <2>1, <3>1, <3>2, <3>3 DEF Older
  <2>2. CASE Len(memtables') # Mutable
    BY <1>6, <1>7, <2>2 DEF Older
  <2> QED
    BY <2>1, <2>2
<1> QED
  BY <1>5, <1>11, <1>12, <1>13 DEF AgeInv

\* A flush moves the oldest memtables on top of L0.
LEMMA FlushAge ==
    ASSUME IInv, AgeInv, FlushCommit
    PROVE  AgeInv'
<1> DEFINE c == job.count
<1>1. MemType /\ TreeInv /\ JobType
  BY DEF IInv, TreeInv, WorkInv
<1>2. Flushed /\ 0 \in Levels
  BY <1>1, FlushLevels, ConstantFact
<1>3. /\ Mutable' = Mutable
      /\ \A t \in Live' : memtables'[t] = memtables[t]
      /\ \A t : t \in Live <=> t \in Live' \/ \E i \in 1 .. c : t = frozen[i]
      /\ \A i \in DOMAIN frozen' : c + i \in DOMAIN frozen /\ frozen'[i] = frozen[c + i]
      /\ 1 .. c \subseteq DOMAIN frozen
  BY <1>1, FlushMemory
<1>4. c \in Nat /\ DOMAIN frozen' \subseteq Nat \ {0}
  <2>1. frozen' \in Seq(Nat)
    BY <1>1, FlushMemory DEF MemType
  <2>2. DOMAIN frozen' = 1 .. Len(frozen')
    BY <2>1, LenProperties
  <2>3. \A i \in 1 .. Len(frozen') : i \in Nat \ {0}
    OBVIOUS
  <2> QED
    BY <1>1, <2>2, <2>3 DEF JobType
<1> HIDE DEF c
<1>5. \A x, l : l \in Levels \ {0} => (x \in LevelEntries(l)' <=> x \in LevelEntries(l))
  <2>1. \A l \in Levels \ {0} : \A i \in DOMAIN levels'[l] : i \in DOMAIN levels[l]
    BY <1>2 DEF Flushed
  <2>2. \A l \in Levels : \A i \in DOMAIN levels[l] : i \in DOMAIN levels'[l] /\ levels'[l][i] = levels[l][i]
    BY <1>2 DEF Flushed
  <2> QED
    BY <2>1, <2>2, PlacementNow, PlacementNext DEF Placement
<1>6. ASSUME NEW x, x \in LevelEntries(0)'
      PROVE  x \in LevelEntries(0) \/ \E j \in 1 .. c : x \in memtables[frozen[j]]
  <2>1. PICK i \in DOMAIN levels'[0] : x \in ToSet(levels'[0][i])
    BY <1>6, PlacementNext DEF Placement
  <2>2. CASE i \in DOMAIN levels[0]
    BY <1>2, <2>1, <2>2, PlacementNow DEF Flushed, Placement
  <2>3. CASE \E j \in 1 .. c : i = Len(levels[0]) + j
    BY <1>2, <2>1, <2>3 DEF Flushed, IsFlushed, c
  <2> QED
    BY <1>2, <2>2, <2>3 DEF Flushed, c
<1>7. \A x : x \in LowerEntries' <=> x \in LowerEntries
  BY <1>5, PlacementNow, PlacementNext DEF Placement
<1>8. \A x : x \in FileEntries' => x \in FileEntries \/ \E j \in 1 .. c : x \in memtables[frozen[j]]
  BY <1>2, <1>5, <1>6, PlacementNow, PlacementNext DEF Placement
<1>9. /\ \A j \in 1 .. c : frozen[j] \in Live
      /\ \A x \in LowerEntries : x \in FileEntries
  BY <1>3, PlacementNow DEF Placement
<1>10. Older(LowerEntries', LevelEntries(0)')
  BY <1>6, <1>7, <1>9 DEF AgeInv, Older
<1>11. \A i \in DOMAIN frozen' : \A j \in 1 .. c : j < c + i
  BY <1>4
<1>12. ASSUME NEW t \in Live', NEW j \in 1 .. c PROVE Older(memtables[frozen[j]], memtables[t])
  <2>1. t = Mutable \/ \E i \in DOMAIN frozen' : t = frozen'[i]
    BY <1>3 DEF Live
  <2>2. CASE t = Mutable
    BY <1>3, <2>2 DEF AgeInv
  <2>3. ASSUME NEW i \in DOMAIN frozen', t = frozen'[i] PROVE Older(memtables[frozen[j]], memtables[t])
    BY <1>3, <1>11, <2>3 DEF AgeInv
  <2> QED
    BY <2>1, <2>2, <2>3
<1>13. \A t \in Live' : Older(FileEntries', memtables'[t])
  BY <1>3, <1>8, <1>12 DEF AgeInv, Older
<1>14. \A i \in DOMAIN frozen' : frozen'[i] \in Live' /\ Mutable \in Live'
  BY <1>3 DEF Live
<1>15. \A i, j \in DOMAIN frozen' : i < j => c + i < c + j
  BY <1>4
<1>16. \A i, j \in DOMAIN frozen' : i < j => Older(memtables'[frozen'[i]], memtables'[frozen'[j]])
  BY <1>3, <1>14, <1>15 DEF AgeInv
<1>17. \A i \in DOMAIN frozen' : Older(memtables'[frozen'[i]], memtables'[Mutable'])
  BY <1>3, <1>14 DEF AgeInv
<1> QED
  BY <1>10, <1>13, <1>16, <1>17 DEF AgeInv

\* A compaction of L0 takes all of its files, one of a lower level none of them.
LEMMA CommitAge ==
    ASSUME IInv, AgeInv, CompactCommit
    PROVE  AgeInv'
<1> DEFINE l == job.level
<1>1. /\ TreeInv /\ JobType /\ SelectedInv /\ OutputsInv /\ CommitInv
  BY DEF IInv, WorkInv
<1>2. thread = "Commit" /\ memtables' = memtables /\ frozen' = frozen
  BY DEF CompactCommit
<1>3. PICK from : Committed(from)
  BY <1>1, CommittedFact
<1>4. \A x : x \in FileEntries' <=> x \in FileEntries
  <2>1. \A x : IsInFile(x)' <=> IsInFile(x)
    BY <1>1, <1>2, <1>3, CommittedContents
  <2> QED
    BY <2>1, WhereNow, WhereNext DEF Where
<1>5. Live' = Live /\ Mutable' = Mutable
  BY <1>2 DEF Live, Mutable
<1>6. l \in Levels /\ l + 1 \in Levels \ {0} /\ l # l + 1 /\ l \in Nat
  BY <1>1, ConstantFact DEF JobType
<1> HIDE DEF l
<1>7. Older(LowerEntries', LevelEntries(0)')
  <2>1. CASE l = 0
    <3>1. ToSet(levels'[0]) = ToSet(levels[0]) \ job.source /\ job.source = ToSet(levels[0])
      BY <1>1, <1>2, <1>3, <2>1 DEF Committed, SelectedInv, Source, l
    <3>2. \A i \in DOMAIN levels'[0] : levels'[0][i] \in ToSet(levels'[0])
      BY DEF ToSet
    <3>3. \A x : x \notin LevelEntries(0)'
      BY <3>1, <3>2, PlacementNext DEF Placement
    <3> QED
      BY <3>3 DEF Older
  <2>2. CASE l # 0
    <3>1. levels'[0] = levels[0]
      BY <1>3, <1>6, <2>2, ConstantFact DEF Committed, l
    <3>2. \A x : x \in LevelEntries(0)' => x \in LevelEntries(0)
      BY <3>1, PlacementNow, PlacementNext DEF Placement
    <3>3. \A f \in job.source \cup job.target : \A x \in ToSet(f) : x \in LowerEntries
      <4>1. \A f \in job.source \cup job.target : f \in ToSet(levels[l]) \cup ToSet(levels[l + 1])
        <5>1. l \in 0 .. MaxLevel - 1 /\ levels[l] # <<>> /\ job.source = Source(l)
          BY <1>1, <1>2 DEF JobType, SelectedInv, l
        <5>2. job.source \subseteq ToSet(levels[l])
          BY <1>1, <5>1, SelectionFact
        <5>3. job.target \subseteq ToSet(levels[l + 1])
          BY <1>1, <1>2 DEF SelectedInv, l
        <5> QED
          BY <5>2, <5>3
      <4>2. \A f \in ToSet(levels[l]) \cup ToSet(levels[l + 1]) : \E m \in Levels \ {0} :
              \E i \in DOMAIN levels[m] : f = levels[m][i]
        BY <1>6, <2>2 DEF ToSet
      <4> QED
        BY <4>1, <4>2, PlacementNow DEF Placement
    <3>4. ASSUME NEW x, x \in LowerEntries' PROVE x \in LowerEntries
      <4>1. PICK m \in Levels \ {0} : x \in LevelEntries(m)'
        BY <3>4, PlacementNext DEF Placement
      <4>2. PICK i \in DOMAIN levels'[m] : x \in ToSet(levels'[m][i])
        BY <4>1, PlacementNext DEF Placement
      <4>3. CASE \E p \in DOMAIN levels[m] : levels'[m][i] = levels[m][p]
        BY <4>2, <4>3, PlacementNow DEF Placement
      <4>4. CASE levels'[m][i] \in ToSet(outputs)
        <5>1. x \in Written
          BY <4>2, <4>4 DEF Written, ToSet
        <5>2. PICK f \in job.source \cup job.target : x \in ToSet(f)
          BY <1>1, <1>2, <5>1 DEF CommitInv, EntriesOf
        <5> QED
          BY <3>3, <5>2
      <4> QED
        BY <1>1, <1>2, <1>3, <4>3, <4>4, CommittedFiles
    <3> QED
      BY <3>2, <3>4 DEF AgeInv, Older
  <2> QED
    BY <2>1, <2>2
<1> QED
  BY <1>2, <1>4, <1>5, <1>7 DEF AgeInv, Older

\* The entries are in the order of their age at every moment.
LEMMA AgeInvariant == Spec => []AgeInv
<1>1. Init => AgeInv
  <2> SUFFICES ASSUME Init PROVE AgeInv
    OBVIOUS
  <2>1. levels = [l \in Levels |-> <<>>] /\ frozen = <<>>
    BY DEF Init
  <2>2. \A l \in Levels : DOMAIN levels[l] = {}
    BY <2>1
  <2>3. DOMAIN frozen = {}
    BY <2>1
  <2>4. \A x : x \notin FileEntries /\ x \notin LowerEntries
    BY <2>2, PlacementNow DEF Placement
  <2> QED
    BY <2>3, <2>4 DEF AgeInv, Older
<1>2. IInv /\ AgeInv /\ [Next]_vars => AgeInv'
  <2> SUFFICES ASSUME IInv, AgeInv, [Next]_vars PROVE AgeInv'
    OBVIOUS
  <2>1. CASE Write
    BY <2>1, WriteAge
  <2>2. CASE FlushCommit
    BY <2>2, FlushAge
  <2>3. CASE CompactCommit
    BY <2>3, CommitAge
  <2>4. CASE GetReturn
    <3>1. MemType /\ levels' = levels /\ frozen' = frozen
      BY <2>4 DEF GetReturn, IInv, TreeInv
    <3> QED
      BY <2>4, <3>1, FreedFact, SameAge
  <2>5. ASSUME UNCHANGED treeVars PROVE AgeInv'
    BY <2>5, SameAge DEF treeVars, Mutable
  <2>6. CASE FlushStart \/ FlushFails \/ CompactSelect \/ MergeNext \/ MergeEnd \/ CompactFails
             \/ GetLoad \/ UNCHANGED vars
    <3>1. UNCHANGED treeVars
      BY <2>6 DEF FlushStart, FlushFails, CompactSelect, MergeNext, MergeEnd, CompactFails, GetLoad, vars
    <3> QED
      BY <2>5, <3>1
  <2> QED
    BY <2>1, <2>2, <2>3, <2>4, <2>6 DEF Next
<1> QED
  BY <1>1, <1>2, Invariant, PTL DEF Spec
-----------------------------------------------------------------------------
(* When a get that runs alone finds the newest version. *)

\* The first lookup that hits is the one that counts.
LEMMA FirstHit ==
    ASSUME NEW found, DOMAIN found \subseteq Nat, NEW i \in DOMAIN found, found[i] # NoEntry,
           \A j \in DOMAIN found : j < i => found[j] = NoEntry
    PROVE  FirstFound(found) = found[i]
<1> DEFINE hits == {j \in DOMAIN found : found[j] # NoEntry}
<1>1. i \in hits /\ hits \subseteq Nat /\ hits # {}
  OBVIOUS
<1>2. FirstFound(found) = found[Min(hits)]
  BY <1>1 DEF FirstFound
<1> HIDE DEF hits
<1>3. Min(hits) \in hits /\ Min(hits) <= i
  BY <1>1, MinFact
<1>4. ~ (Min(hits) < i)
  BY <1>3 DEF hits
<1>5. Min(hits) = i
  <2>1. Min(hits) \in Nat /\ i \in Nat
    BY <1>1, <1>3
  <2> QED
    BY <1>3, <1>4, <2>1
<1> QED
  BY <1>2, <1>5

\* The mutable memtable is asked first.
LEMMA LookupFact ==
    ASSUME NEW k
    PROVE  Lookup(k) = IF MemGet(memtables[Mutable], k) # NoEntry
                       THEN MemGet(memtables[Mutable], k) ELSE Below(k)
<1> DEFINE hit == MemGet(memtables[Mutable], k)
           found == <<hit, Below(k)>>
<1>1. Lookup(k) = FirstFound(found)
  BY DEF Lookup
<1>2. DOMAIN found = {1, 2} /\ found[1] = hit /\ found[2] = Below(k)
  OBVIOUS
<1>3. DOMAIN found \subseteq Nat /\ \A j \in DOMAIN found : j < 2 => j = 1
  BY <1>2
<1> HIDE DEF found
<1>4. CASE hit # NoEntry
  <2>1. 1 \in DOMAIN found /\ found[1] # NoEntry /\ \A j \in DOMAIN found : ~ (j < 1)
    BY <1>2, <1>4
  <2> QED
    BY <1>1, <1>2, <1>3, <1>4, <2>1, FirstHit
<1>5. CASE hit = NoEntry /\ Below(k) # NoEntry
  <2>1. 2 \in DOMAIN found /\ found[2] # NoEntry /\ \A j \in DOMAIN found : j < 2 => found[j] = NoEntry
    BY <1>2, <1>3, <1>5
  <2> QED
    BY <1>1, <1>2, <1>3, <1>5, <2>1, FirstHit
<1>6. CASE hit = NoEntry /\ Below(k) = NoEntry
  <2>1. \A j \in DOMAIN found : found[j] = NoEntry
    BY <1>2, <1>6
  <2> QED
    BY <1>1, <1>3, <1>6, <2>1, FoundFact
<1> QED
  BY <1>4, <1>5, <1>6

\* What has at most one element has no two.
LEMMA AtMostOne ==
    ASSUME NEW S, IsFiniteSet(S), ~ (Cardinality(S) > 1), NEW a \in S, NEW b \in S
    PROVE  a = b
<1> SUFFICES ASSUME a # b PROVE FALSE
  OBVIOUS
<1> DEFINE R == S \ {a}
           T == R \ {b}
<1>1. IsFiniteSet(R) /\ Cardinality(R) = Cardinality(S) - 1
  BY FS_RemoveElement
<1>2. b \in R
  OBVIOUS
<1> HIDE DEF R
<1>3. IsFiniteSet(T) /\ Cardinality(T) = Cardinality(R) - 1
  BY <1>1, <1>2, FS_RemoveElement
<1> HIDE DEF T
<1>4. Cardinality(S) \in Nat /\ Cardinality(T) \in Nat
  BY <1>3, FS_CardinalityType
<1> QED
  BY <1>1, <1>3, <1>4

\* Newest is the newest version, or there is none.
LEMMA NewestIs ==
    ASSUME NEW S, IsFiniteSet(S), Unique(S), NEW k
    PROVE  \/ Newest(S, k) = NoEntry /\ \A e \in S : e.key # k
           \/ IsNewest(Newest(S, k), S, k)
<1>1. CASE \A e \in S : e.key # k
  BY <1>1 DEF Newest
<1>2. CASE \E e \in S : e.key = k
  <2>1. PICK e \in S : e.key = k /\ \A f \in S : f.key = k => f.lsn <= e.lsn /\ NotAfter(e, f)
    BY <1>2, NewestExists
  <2>2. IsNewest(e, S, k)
    BY <2>1 DEF IsNewest
  <2> QED
    BY <2>2, NewestFact
<1> QED
  BY <1>1, <1>2

\* The contents are the live memtables and the files, and are finite.
LEMMA MemoryFact ==
    ASSUME TreeInv
    PROVE  /\ \A x : x \in Memory <=> IsLive(x)
           /\ \A x : x \in Contents <=> (x \in Memory \/ x \in FileEntries)
           /\ IsFiniteSet(Contents) /\ Unique(Contents) /\ \A e \in Contents : e.lsn \in Nat
           /\ IsFiniteSet(Memory) /\ Unique(Memory)
           /\ \A t \in Live : t \in DOMAIN memtables /\ memtables[t] \subseteq Memory
           /\ \A t \in Live : IsFiniteSet(memtables[t]) /\ Unique(memtables[t])
<1>1. \A x : x \in Memory <=> IsLive(x)
  <2> SUFFICES ASSUME NEW x PROVE x \in Memory <=> IsLive(x)
    OBVIOUS
  <2> DEFINE F == {memtables[frozen[i]] : i \in DOMAIN frozen}
  <2>1. x \in UNION F <=> \E i \in DOMAIN frozen : x \in memtables[frozen[i]]
    OBVIOUS
  <2>2. Memory = memtables[Mutable] \cup UNION F
    BY DEF Memory
  <2> HIDE DEF F
  <2>3. IsLive(x) <=> \/ x \in memtables[Mutable]
                      \/ \E i \in DOMAIN frozen : x \in memtables[frozen[i]]
    BY DEF Live, IsLive
  <2> QED
    BY <2>1, <2>2, <2>3
<1>2. \A x : x \in Contents <=> (x \in Memory \/ x \in FileEntries)
  BY <1>1, WhereNow DEF Where
<1>3. IsFiniteSet(Contents) /\ Unique(Contents) /\ \A e \in Contents : e.lsn \in Nat
  BY DEF TreeInv, VersionsInv, Unique, Entry
<1>4. Memory \subseteq Contents
  BY <1>2
<1>5. IsFiniteSet(Memory) /\ Unique(Memory)
  BY <1>3, <1>4, FS_Subset DEF Unique
<1>6. \A t \in Live : t \in DOMAIN memtables /\ memtables[t] \subseteq Memory
  <2>1. /\ memtables \in Seq(SUBSET Entry) /\ memtables # <<>>
        /\ \A i \in DOMAIN frozen : frozen[i] \in 1 .. Len(memtables) - 1
    BY DEF TreeInv, MemType
  <2>2. DOMAIN memtables = 1 .. Len(memtables) /\ Len(memtables) \in Nat \ {0}
    BY <2>1, LenProperties, EmptySeq
  <2>3. \A t \in Live : t \in DOMAIN memtables
    BY <2>1, <2>2 DEF Live, Mutable
  <2> QED
    BY <1>1, <2>3 DEF IsLive
<1>7. \A t \in Live : IsFiniteSet(memtables[t]) /\ Unique(memtables[t])
  BY <1>5, <1>6 DEF TreeInv, MemType, Unique
<1> QED
  BY <1>1, <1>2, <1>3, <1>5, <1>6, <1>7

\* A put that is the newest version in memory is what its memtable answers.
LEMMA PutInMemory ==
    ASSUME TreeInv, NEW k \in Keys, NEW e, IsNewest(e, Memory, k), ~ e.del,
           NEW t \in Live, e \in memtables[t]
    PROVE  MemGet(memtables[t], k) = e /\ e # NoEntry
<1> DEFINE m == memtables[t]
<1>1. IsFiniteSet(m) /\ Unique(m) /\ m \subseteq Memory /\ e \in m
  BY MemoryFact
<1> HIDE DEF m
<1>2. e.key = k /\ IsNewest(e, m, k)
  BY <1>1 DEF IsNewest
<1>3. \A f : IsNewest(f, m, k) => f = e
  BY <1>1, <1>2, NewestFact
<1>4. e # NoEntry
  BY <1>1, NoEntryFact DEF Unique
<1>5. MemGet(m, k) = e
  BY <1>1, <1>2, <1>3, MemGetFact
<1> QED
  BY <1>4, <1>5 DEF m

\* A memtable without a version of the key answers nothing.
LEMMA NotInMemtable ==
    ASSUME NEW S, NEW k, \A x \in S : x.key # k
    PROVE  MemGet(S, k) = NoEntry
BY DEF MemGet

\* A get finds the put that is the newest version in memory.
LEMMA MemoryFirst ==
    ASSUME TreeInv, AgeInv, NEW k \in Keys, NEW e, IsNewest(e, Memory, k), ~ e.del
    PROVE  Lookup(k) = e
<1>1. e \in Memory /\ e.key = k /\ \A x \in Memory : x.key = k => ~ (e.lsn < x.lsn)
  <2>1. \A x \in Memory : x.lsn \in Nat
    BY MemoryFact
  <2> QED
    BY <2>1 DEF IsNewest
<1>2. PICK t \in Live : e \in memtables[t]
  BY <1>1, MemoryFact DEF IsLive
<1>3. MemGet(memtables[t], k) = e /\ e # NoEntry
  BY <1>2, PutInMemory
<1>4. \A u \in Live : Older(memtables[t], memtables[u]) => MemGet(memtables[u], k) = NoEntry
  <2> SUFFICES ASSUME NEW u \in Live, Older(memtables[t], memtables[u])
               PROVE  \A x \in memtables[u] : x.key # k
    BY NotInMemtable
  <2>1. memtables[u] \subseteq Memory
    BY MemoryFact
  <2> QED
    BY <1>1, <1>2, <2>1 DEF Older
<1>5. CASE t = Mutable
  BY <1>3, <1>5, LookupFact
<1>6. ASSUME NEW i \in DOMAIN frozen, t = frozen[i] PROVE Lookup(k) = e
  <2> DEFINE n == Len(frozen)
  <2>1. MemGet(memtables[Mutable], k) = NoEntry
    BY <1>4, <1>6 DEF Live, AgeInv
  <2>2. \A j \in DOMAIN frozen : i < j => MemGet(memtables[frozen[j]], k) = NoEntry
    BY <1>4, <1>6 DEF Live, AgeInv
  <2>3. PICK found : IsChain(found, k)
    BY BelowChain DEF TreeInv
  <2>4. n \in Nat /\ DOMAIN frozen = 1 .. n /\ Levels \subseteq Nat
    BY LenProperties, ConstantFact DEF TreeInv, MemType
  <2> HIDE DEF n
  <2>5. ASSUME NEW p \in DOMAIN found, p < n - i + 1 PROVE found[p] = NoEntry
    <3>1. CASE \E j \in DOMAIN frozen : p = n - j + 1
      <4>1. PICK j \in DOMAIN frozen : p = n - j + 1
        BY <3>1
      <4>2. i < j
        BY <2>4, <2>5, <4>1
      <4> QED
        BY <2>2, <2>3, <4>1, <4>2 DEF IsChain, n
    <3>2. CASE \E l \in Levels : p = n + l + 1
      BY <2>4, <2>5, <3>2
    <3> QED
      BY <2>3, <3>1, <3>2 DEF IsChain, n
  <2>6. n - i + 1 \in DOMAIN found /\ found[n - i + 1] = e
    BY <1>3, <1>6, <2>3 DEF IsChain, n
  <2>7. DOMAIN found \subseteq Nat /\ Below(k) = FirstFound(found)
    BY <2>3 DEF IsChain
  <2>8. FirstFound(found) = found[n - i + 1]
    <3> DEFINE p == n - i + 1
    <3>1. p \in DOMAIN found /\ found[p] # NoEntry /\ \A q \in DOMAIN found : q < p => found[q] = NoEntry
      BY <1>3, <2>5, <2>6
    <3> HIDE DEF p
    <3>2. FirstFound(found) = found[p]
      BY <2>7, <3>1, FirstHit
    <3> QED
      BY <3>2 DEF p
  <2>9. Below(k) = e
    BY <2>6, <2>7, <2>8
  <2> QED
    BY <2>1, <2>9, LookupFact
<1> QED
  BY <1>2, <1>5, <1>6 DEF Live

\* Which files of a level have a key.
LEMMA HoldersFact ==
    ASSUME TreeInv, NEW l \in Levels, NEW k
    PROVE  /\ HoldersIn(l, k) \subseteq DOMAIN levels[l] /\ DOMAIN levels[l] \subseteq Nat
           /\ IsFiniteSet(HoldersIn(l, k))
           /\ \A i \in DOMAIN levels[l] : \A e \in ToSet(levels[l][i]) :
                e.key = k => i \in HoldersIn(l, k)
<1>1. Len(levels[l]) \in Nat /\ DOMAIN levels[l] = 1 .. Len(levels[l])
  <2>1. levels[l] \in Seq(Files)
    BY DEF TreeInv, LevelType
  <2> QED
    BY <2>1, LenProperties
<1>2. HoldersIn(l, k) \subseteq DOMAIN levels[l]
  BY DEF HoldersIn
<1>3. IsFiniteSet(DOMAIN levels[l]) /\ DOMAIN levels[l] \subseteq Nat
  <2>1. IsFiniteSet(1 .. Len(levels[l]))
    BY <1>1, FS_Interval
  <2> QED
    BY <1>1, <2>1
<1>4. IsFiniteSet(HoldersIn(l, k))
  BY <1>2, <1>3, FS_Subset
<1>5. \A i \in DOMAIN levels[l] : \A e \in ToSet(levels[l][i]) : e.key = k => i \in HoldersIn(l, k)
  BY DEF HoldersIn
<1> QED
  BY <1>2, <1>3, <1>4, <1>5

\* A level without the key answers nothing.
LEMMA LevelMiss ==
    ASSUME TreeInv, NEW l \in Levels, NEW k \in Keys, HoldersIn(l, k) = {}
    PROVE  SearchLevel(l, k) = NoEntry
<1> DEFINE found == [i \in DOMAIN levels[l] |-> Search(levels[l][i], k)]
<1>1. \A i \in DOMAIN levels[l] : Search(levels[l][i], k) = NoEntry
  <2> SUFFICES ASSUME NEW i \in DOMAIN levels[l] PROVE Search(levels[l][i], k) = NoEntry
    OBVIOUS
  <2>1. Search(levels[l][i], k) = Newest(ToSet(levels[l][i]), k)
    BY PlacedSearch DEF Placed
  <2>2. \A e \in ToSet(levels[l][i]) : e.key # k
    BY HoldersFact
  <2> QED
    BY <2>1, <2>2 DEF Newest
<1>2. \A i \in DOMAIN found : found[i] = NoEntry
  BY <1>1
<1>3. DOMAIN found \subseteq Nat /\ SearchLevel(l, k) = FirstFound(found)
  BY HoldersFact DEF SearchLevel
<1> HIDE DEF found
<1> QED
  BY <1>2, <1>3, FoundFact

\* The first file with the key answers for its level, with its newest version.
LEMMA LevelHit ==
    ASSUME TreeInv, NEW l \in Levels, NEW k \in Keys, NEW i \in HoldersIn(l, k),
           \A j \in HoldersIn(l, k) : i <= j
    PROVE  IsNewest(SearchLevel(l, k), ToSet(levels[l][i]), k) /\ SearchLevel(l, k) # NoEntry
<1> DEFINE found == [j \in DOMAIN levels[l] |-> Search(levels[l][j], k)]
<1>1. DOMAIN levels[l] \subseteq Nat /\ i \in DOMAIN levels[l] /\ \E e \in ToSet(levels[l][i]) : e.key = k
  BY HoldersFact DEF HoldersIn
<1>2. ToSet(levels[l][i]) \subseteq Contents /\ Search(levels[l][i], k) = Newest(ToSet(levels[l][i]), k)
  BY <1>1, PlacedSearch, PlacedFact DEF Placed
<1>3. IsFiniteSet(ToSet(levels[l][i])) /\ Unique(ToSet(levels[l][i]))
  BY <1>2, MemoryFact, FS_Subset DEF Unique
<1>4. IsNewest(found[i], ToSet(levels[l][i]), k)
  BY <1>1, <1>2, <1>3, NewestIs
<1>5. found[i] # NoEntry
  BY <1>3, <1>4, NoEntryFact DEF IsNewest, Unique
<1>6. ASSUME NEW j \in DOMAIN found, j < i PROVE found[j] = NoEntry
  <2>1. j \notin HoldersIn(l, k) /\ j \in DOMAIN levels[l]
    <3>1. j \in Nat /\ i \in Nat /\ ~ (i <= j)
      BY <1>1, <1>6
    <3> QED
      BY <3>1
  <2>2. Search(levels[l][j], k) = Newest(ToSet(levels[l][j]), k)
    BY <2>1, PlacedSearch DEF Placed
  <2>3. \A e \in ToSet(levels[l][j]) : e.key # k
    BY <2>1 DEF HoldersIn
  <2> QED
    BY <2>2, <2>3 DEF Newest
<1>7. DOMAIN found \subseteq Nat /\ i \in DOMAIN found /\ SearchLevel(l, k) = FirstFound(found)
  BY <1>1 DEF SearchLevel
<1> HIDE DEF found
<1>8. SearchLevel(l, k) = found[i]
  BY <1>5, <1>6, <1>7, FirstHit
<1> QED
  BY <1>4, <1>5, <1>8

\* A get of a key that no memtable has is answered by the first level that has it.
LEMMA LevelFirst ==
    ASSUME TreeInv, NEW k \in Keys, \A x \in Memory : x.key # k,
           NEW l \in Levels, HoldersIn(l, k) # {},
           \A m \in Levels : m < l => HoldersIn(m, k) = {}
    PROVE  \E i \in HoldersIn(l, k) : /\ \A j \in HoldersIn(l, k) : i <= j
                                      /\ IsNewest(Lookup(k), ToSet(levels[l][i]), k)
<1> DEFINE n == Len(frozen)
<1>1. PICK i \in HoldersIn(l, k) : \A j \in HoldersIn(l, k) : i <= j
  <2>1. HoldersIn(l, k) \subseteq Nat
    BY HoldersFact
  <2> QED
    BY <2>1, LeastNumber
<1>2. IsNewest(SearchLevel(l, k), ToSet(levels[l][i]), k) /\ SearchLevel(l, k) # NoEntry
  BY <1>1, LevelHit
<1>3. \A t \in Live : MemGet(memtables[t], k) = NoEntry
  BY MemoryFact, NotInMemtable
<1>4. PICK found : IsChain(found, k)
  BY BelowChain DEF TreeInv
<1>5. n \in Nat /\ DOMAIN frozen = 1 .. n /\ Levels \subseteq Nat
  BY LenProperties, ConstantFact DEF TreeInv, MemType
<1> HIDE DEF n
<1>6. ASSUME NEW p \in DOMAIN found, p < n + l + 1 PROVE found[p] = NoEntry
  <2>1. CASE \E j \in DOMAIN frozen : p = n - j + 1
    BY <1>3, <1>4, <2>1 DEF IsChain, Live, n
  <2>2. ASSUME NEW m \in Levels, p = n + m + 1 PROVE found[p] = NoEntry
    <3>1. m < l
      BY <1>5, <1>6, <2>2
    <3> QED
      BY <1>4, <2>2, <3>1, LevelMiss DEF IsChain, n
  <2> QED
    BY <1>4, <2>1, <2>2 DEF IsChain, n
<1> DEFINE q == n + l + 1
<1>7. q \in DOMAIN found /\ found[q] = SearchLevel(l, k) /\ \A p \in DOMAIN found : p < q => found[p] = NoEntry
  BY <1>4, <1>6 DEF IsChain, n
<1>8. DOMAIN found \subseteq Nat /\ Below(k) = FirstFound(found)
  BY <1>4 DEF IsChain
<1> HIDE DEF q
<1>9. Below(k) = SearchLevel(l, k)
  BY <1>2, <1>7, <1>8, FirstHit
<1>10. Lookup(k) = SearchLevel(l, k)
  BY <1>3, <1>9, LookupFact DEF Live
<1> QED
  BY <1>1, <1>2, <1>10

\* A key that neither a memtable nor a file has is not found.
LEMMA FoundNowhere ==
    ASSUME TreeInv, NEW k \in Keys, \A x \in Memory : x.key # k,
           \A l \in Levels : HoldersIn(l, k) = {}
    PROVE  Lookup(k) = NoEntry
<1>1. \A t \in Live : MemGet(memtables[t], k) = NoEntry
  BY MemoryFact, NotInMemtable
<1>2. PICK found : IsChain(found, k)
  BY BelowChain DEF TreeInv
<1>3. \A p \in DOMAIN found : found[p] = NoEntry
  BY <1>1, <1>2, LevelMiss DEF IsChain, Live
<1>4. Below(k) = NoEntry
  BY <1>2, <1>3, FoundFact DEF IsChain
<1> QED
  BY <1>1, <1>4, LookupFact DEF Live

\* A key that only files have is found in its newest version if at most one file of L0 and
\* at most one deeper level has it.
LEMMA FilesFirst ==
    ASSUME TreeInv, AgeInv, NEW k \in Keys, \A x \in Memory : x.key # k,
           ~ (Cardinality(HoldersIn(0, k)) > 1),
           ~ (Cardinality({l \in Levels \ {0} : HoldersIn(l, k) # {}}) > 1)
    PROVE  Lookup(k) = Newest(Contents, k)
<1> DEFINE deep == {l \in Levels \ {0} : HoldersIn(l, k) # {}}
<1>1. 0 \in Levels /\ Levels \subseteq Nat /\ IsFiniteSet(Levels)
  BY ConstantFact, FS_Interval DEF Levels
<1>2. IsFiniteSet(deep)
  BY <1>1, FS_Subset
<1>3. \A l, m \in Levels \ {0} : HoldersIn(l, k) # {} /\ HoldersIn(m, k) # {} => l = m
  <2> SUFFICES ASSUME NEW l \in Levels \ {0}, NEW m \in Levels \ {0},
                      HoldersIn(l, k) # {}, HoldersIn(m, k) # {}
               PROVE  l = m
    OBVIOUS
  <2>1. l \in deep /\ m \in deep /\ ~ (Cardinality(deep) > 1)
    OBVIOUS
  <2> HIDE DEF deep
  <2> QED
    BY <1>2, <2>1, AtMostOne
<1> HIDE DEF deep
\* A version of the key is in a holder of one of the levels.
<1>4. ASSUME NEW x \in Contents, x.key = k
      PROVE  \E l \in Levels : \E i \in HoldersIn(l, k) : x \in ToSet(levels[l][i])
  <2>1. IsInFile(x)
    BY <1>4, MemoryFact, WhereNow DEF Where
  <2>2. PICK l \in Levels : \E i \in DOMAIN levels[l] : x \in ToSet(levels[l][i])
    BY <2>1 DEF IsInFile
  <2> QED
    BY <1>4, <2>2, HoldersFact
<1>5. \A l \in Levels : \A i \in HoldersIn(l, k) : ToSet(levels[l][i]) \subseteq Contents
  <2>1. \A l \in Levels : \A i \in HoldersIn(l, k) : Placed(levels[l][i])
    BY HoldersFact DEF Placed
  <2> QED
    BY <2>1, PlacedFact
<1>6. CASE HoldersIn(0, k) # {}
  <2>1. \A m \in Levels : ~ (m < 0)
    BY <1>1
  <2>2. PICK i \in HoldersIn(0, k) : IsNewest(Lookup(k), ToSet(levels[0][i]), k)
    BY <1>1, <1>6, <2>1, LevelFirst
  <2> DEFINE r == Lookup(k)
  <2>3. r \in Contents /\ r.key = k /\ r \in LevelEntries(0)
    <3>1. i \in DOMAIN levels[0] /\ r \in ToSet(levels[0][i]) /\ r.key = k
      BY <1>1, <2>2, HoldersFact DEF IsNewest
    <3> QED
      BY <1>1, <1>5, <3>1, PlacementNow DEF Placement
  <2>4. ASSUME NEW x \in Contents, x.key = k PROVE x.lsn <= r.lsn
    <3>1. PICK l \in Levels : \E j \in HoldersIn(l, k) : x \in ToSet(levels[l][j])
      BY <1>4, <2>4
    <3>2. PICK j \in HoldersIn(l, k) : x \in ToSet(levels[l][j])
      BY <3>1
    <3>3. CASE l = 0
      <4>1. j = i
        BY <1>1, <3>3, AtMostOne, HoldersFact
      <4> QED
        BY <2>2, <2>4, <3>2, <3>3, <4>1 DEF IsNewest
    <3>4. CASE l # 0
      <4>1. x \in LowerEntries
        BY <3>2, <3>4, HoldersFact, PlacementNow DEF Placement
      <4>2. x.lsn < r.lsn
        BY <2>3, <4>1 DEF AgeInv, Older
      <4>3. x.lsn \in Nat /\ r.lsn \in Nat
        BY <2>3, <2>4, MemoryFact
      <4> QED
        BY <4>2, <4>3
    <3> QED
      BY <3>3, <3>4
  <2>5. IsNewest(r, Contents, k)
    BY <2>3, <2>4 DEF IsNewest
  <2> QED
    BY <2>5, MemoryFact, NewestFact
<1>7. ASSUME HoldersIn(0, k) = {}, NEW l \in Levels \ {0}, HoldersIn(l, k) # {}
      PROVE  Lookup(k) = Newest(Contents, k)
  <2>1. \A m \in Levels : m < l => HoldersIn(m, k) = {}
    <3>1. \A m \in Levels : m < l => m # l
      BY <1>1
    <3> QED
      BY <1>3, <1>7, <3>1
  <2>2. PICK i \in HoldersIn(l, k) : /\ \A j \in HoldersIn(l, k) : i <= j
                                     /\ IsNewest(Lookup(k), ToSet(levels[l][i]), k)
    BY <1>7, <2>1, LevelFirst
  <2> DEFINE r == Lookup(k)
  <2>3. r \in Contents /\ r.key = k /\ r \in ToSet(levels[l][i]) /\ r.lsn \in Nat
    BY <1>5, <2>2, MemoryFact DEF IsNewest
  <2>4. ASSUME NEW x \in Contents, x.key = k PROVE x.lsn <= r.lsn
    <3>1. PICK m \in Levels : \E j \in HoldersIn(m, k) : x \in ToSet(levels[m][j])
      BY <1>4, <2>4
    <3>2. PICK j \in HoldersIn(l, k) : x \in ToSet(levels[l][j])
      BY <1>3, <1>7, <3>1
    <3>3. CASE j = i
      BY <2>2, <2>4, <3>2, <3>3 DEF IsNewest
    <3>4. CASE j # i
      <4>1. i < j /\ i \in DOMAIN levels[l] /\ j \in DOMAIN levels[l]
        <5>1. i \in DOMAIN levels[l] /\ j \in DOMAIN levels[l] /\ i <= j
          BY <2>2, <3>2, HoldersFact
        <5>2. i \in Nat /\ j \in Nat
          BY <5>1, HoldersFact
        <5> QED
          BY <3>4, <5>1, <5>2
      <4>2. AllBefore(levels[l][i], levels[l][j])
        BY <1>7, <4>1 DEF TreeInv, FilesInv
      <4>3. Before(r, x)
        BY <2>3, <3>2, <4>2 DEF AllBefore
      <4>4. r.key = k /\ k \in Nat
        BY <2>3, SstableAssumption
      <4>5. r.lsn > x.lsn
        BY <2>4, <4>3, <4>4 DEF Before
      <4>6. x.lsn \in Nat
        BY <2>4, MemoryFact
      <4> QED
        BY <2>3, <4>5, <4>6
    <3> QED
      BY <3>3, <3>4
  <2>5. IsNewest(r, Contents, k)
    BY <2>3, <2>4 DEF IsNewest
  <2> QED
    BY <2>5, MemoryFact, NewestFact
<1>8. CASE \A l \in Levels : HoldersIn(l, k) = {}
  <2>1. \A x \in Contents : x.key # k
    BY <1>4, <1>8
  <2>2. Newest(Contents, k) = NoEntry
    BY <2>1 DEF Newest
  <2> QED
    BY <1>8, <2>2, FoundNowhere
<1> QED
  BY <1>6, <1>7, <1>8

\* FreshUnlessShadowed: the search order of a get finds the newest version of a key, if a
\* memtable has it as a put, or no memtable has the key and neither L0 nor the levels below
\* have it twice.  It needs that a flush and a compaction never put what is newer below
\* what is older.
THEOREM FreshReads == Spec => []FreshUnlessShadowed
<1>1. ASSUME TreeInv, AgeInv PROVE FreshUnlessShadowed
  <2> SUFFICES ASSUME NEW k \in Keys
               PROVE  LET inMemory == Newest(Memory, k)
                          deep == {l \in Levels \ {0} : HoldersIn(l, k) # {}} IN
                      \/ inMemory # NoEntry /\ inMemory.del
                      \/ inMemory = NoEntry /\ (Cardinality(HoldersIn(0, k)) > 1 \/ Cardinality(deep) > 1)
                      \/ Lookup(k) = Newest(Contents, k)
    BY DEF FreshUnlessShadowed
  <2>1. \/ Newest(Memory, k) = NoEntry /\ \A x \in Memory : x.key # k
        \/ IsNewest(Newest(Memory, k), Memory, k)
    BY <1>1, MemoryFact, NewestIs
  <2>2. ASSUME IsNewest(Newest(Memory, k), Memory, k), ~ Newest(Memory, k).del
        PROVE  Lookup(k) = Newest(Contents, k)
    <3> DEFINE e == Newest(Memory, k)
    <3>1. Lookup(k) = e
      BY <1>1, <2>2, MemoryFirst
    <3>2. e \in Memory /\ e.key = k /\ \A x \in Memory : x.key = k => x.lsn <= e.lsn
      BY <2>2 DEF IsNewest
    <3> HIDE DEF e
    <3>3. PICK t \in Live : e \in memtables[t]
      BY <1>1, <3>2, MemoryFact DEF IsLive
    <3>4. \A x \in FileEntries : x.lsn < e.lsn
      BY <1>1, <3>3 DEF AgeInv, Older
    <3>5. \A x \in Contents : x.lsn \in Nat
      BY <1>1, MemoryFact
    <3>6. e \in Contents /\ \A x \in Contents : x \in Memory \/ x \in FileEntries
      BY <1>1, <3>2, MemoryFact
    <3>7. \A x \in Contents : x.key = k => x.lsn <= e.lsn
      BY <3>2, <3>4, <3>5, <3>6
    <3>8. IsNewest(e, Contents, k)
      BY <3>2, <3>6, <3>7 DEF IsNewest
    <3> QED
      BY <1>1, <3>1, <3>8, MemoryFact, NewestFact
  <2>3. ASSUME Newest(Memory, k) = NoEntry, \A x \in Memory : x.key # k,
               ~ (Cardinality(HoldersIn(0, k)) > 1),
               ~ (Cardinality({l \in Levels \ {0} : HoldersIn(l, k) # {}}) > 1)
        PROVE  Lookup(k) = Newest(Contents, k)
    BY <1>1, <2>3, FilesFirst
  <2>4. IsNewest(Newest(Memory, k), Memory, k) => Newest(Memory, k) # NoEntry
    BY <1>1, MemoryFact, NoEntryFact DEF IsNewest, Unique
  <2> QED
    BY <2>1, <2>2, <2>3, <2>4
<1>2. IInv => TreeInv
  BY DEF IInv
<1> QED
  BY <1>1, <1>2, Invariant, AgeInvariant, PTL
=============================================================================
