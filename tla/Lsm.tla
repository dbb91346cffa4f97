--------------------------------- MODULE Lsm ---------------------------------
(***************************************************************************)
(* The LSM tree of easy-lsm: memtables and levels of SSTables with their   *)
(* entries, how flush_memtables, compact_l0, compact_ln and                *)
(* execute_compaction (src/compact.rs) move the entries down, and how      *)
(* Db::get (src/lib.rs) looks for a key.                                   *)
(*                                                                         *)
(* A file is its sequence of entries (module Sstable), a level the         *)
(* sequence of its files.  The lists of the manifest and of db.current are *)
(* one here: that they can part, that file ids collide and that processes  *)
(* crash is the subject of module Storage.  LSNs are unique, as they are   *)
(* in one life of the process.                                             *)
(***************************************************************************)
EXTENDS Sstable

CONSTANTS
    MemLimit,      \* max_memtable_size, in entries
    FlushTrigger,  \* flush when so many memtables are frozen
    MaxLevel,      \* the last level, which only receives (MAX_LEVELS)
    LevelTrigger,  \* the size of each other level at which it is compacted, in entries
    TargetSize,    \* target_file_size, in entries
    IoErrors,      \* a subset of {"rotate", "flush", "compact"}
    MaxWrites      \* bound: writes

Levels == 0 .. MaxLevel

ASSUME LsmAssumption ==
    /\ {MemLimit, FlushTrigger, MaxLevel, TargetSize} \subseteq Nat \ {0}
    /\ LevelTrigger \in [0 .. MaxLevel - 1 -> Nat \ {0}]
    /\ IoErrors \subseteq {"rotate", "flush", "compact"}
    /\ MaxWrites \in Nat

VARIABLES
    memtables,  \* the entries of the memtables by number; the last is the mutable one
    frozen,     \* the numbers of the frozen memtables, oldest first
    levels,     \* the files of each level in their stored order
    writes,     \* writes so far, the last LSN
    thread,     \* what the compaction thread does
    job,        \* its selection: memtables of a flush, files of a compaction
    inputs,     \* what the SstableIterator of each file of the merge has left
    outputs,    \* the finished files of the merge
    writer,     \* the entries of the current SstableWriter; empty for None
    get,        \* the get that runs
    answer      \* the answer of the last get

mergeVars == <<inputs, outputs, writer>>
treeVars  == <<memtables, frozen, levels, writes>>
getVars   == <<get, answer>>
vars == <<treeVars, thread, job, mergeVars, getVars>>

NoJob == [count |-> 0, level |-> 0, source |-> {}, target |-> {}]
NoGet == [key |-> 0, seen |-> 0, mem |-> 0, below |-> NoEntry]

Files == Seq(Entry)

TypeOK ==
    /\ memtables \in Seq(SUBSET Entry) /\ memtables # <<>>
    /\ frozen \in Seq(1 .. Len(memtables) - 1)
    /\ levels \in [Levels -> Seq(Files)]
    /\ \A l \in Levels : \A i \in DOMAIN levels[l] : levels[l][i] # <<>>
    /\ writes \in 0 .. MaxWrites
    /\ thread \in {"Rest", "Flush", "Merge", "Commit"}
    /\ job.count \in 0 .. Len(frozen) /\ job.level \in 0 .. MaxLevel - 1
    /\ job.source \cup job.target \subseteq Files
    /\ DOMAIN inputs \subseteq Files /\ \A f \in DOMAIN inputs : inputs[f] \in Files
    /\ outputs \in Seq(Files) /\ writer \in Files
    /\ get.key \in Keys \cup {0} /\ get.seen \in 0 .. writes /\ get.mem \in 0 .. Len(memtables)
    /\ answer \in Entry \cup {NoEntry}

\* A new directory.
Init ==
    /\ memtables = <<{}>> /\ frozen = <<>>
    /\ levels = [l \in Levels |-> <<>>]
    /\ writes = 0
    /\ thread = "Rest" /\ job = NoJob
    /\ inputs = <<>> /\ outputs = <<>> /\ writer = <<>>
    /\ get = NoGet /\ answer = NoEntry
-----------------------------------------------------------------------------
(* Writes.  The write path inserts one group at a time (module WritePath). *)

Mutable == Len(memtables)

\* Mutant: the full memtable is frozen and stays the mutable one.
Write_keepsMutable ==
    \E k \in Keys, d \in BOOLEAN :
        LET e == [key |-> k, lsn |-> writes + 1, del |-> d] IN
        /\ writes < MaxWrites
        /\ writes' = writes + 1
        /\ memtables' = [memtables EXCEPT ![Mutable] = @ \cup {e}]
        /\ frozen' = IF Cardinality(memtables'[Mutable]) >= MemLimit
                     THEN Append(frozen, Mutable) ELSE frozen
        /\ UNCHANGED <<levels, thread, job, mergeVars, getVars>>

\* Memtable::put_batch, and Db::rotate_memtable when the memtable is full.
Write ==
    \E k \in Keys, d \in BOOLEAN :
        LET e == [key |-> k, lsn |-> writes + 1, del |-> d]
            grown == [memtables EXCEPT ![Mutable] = @ \cup {e}]
            full == Cardinality(grown[Mutable]) >= MemLimit IN
        /\ writes < MaxWrites
        /\ writes' = writes + 1
        /\ \/ full /\ memtables' = Append(grown, {}) /\ frozen' = Append(frozen, Mutable)
           \/ (full => "rotate" \in IoErrors) /\ memtables' = grown /\ UNCHANGED frozen
        /\ UNCHANGED <<levels, thread, job, mergeVars, getVars>>
-----------------------------------------------------------------------------
(* flush_memtables *)

\* A memtable is freed when neither db.current nor a get holds it.
Freed(inVersion, reader) ==
    [t \in DOMAIN memtables |->
        IF t \in ToSet(inVersion) \cup {Mutable, reader.mem} THEN memtables[t] ELSE {}]

FlushDue == Len(frozen) >= FlushTrigger

\* Phase 1: the memtables that are frozen now.
FlushStart ==
    /\ thread = "Rest" /\ FlushDue
    /\ thread' = "Flush" /\ job' = [NoJob EXCEPT !.count = Len(frozen)]
    /\ UNCHANGED <<treeVars, mergeVars, getVars>>

\* One file for each memtable, at the end of L0, in place of the oldest memtables.
FlushCommit ==
    /\ thread = "Flush"
    /\ levels' = [levels EXCEPT ![0] = @ \o [i \in 1 .. job.count |-> InOrder(memtables[frozen[i]])]]
    /\ frozen' = SubSeq(frozen, job.count + 1, Len(frozen))
    /\ memtables' = Freed(frozen', get)
    /\ thread' = "Rest" /\ job' = NoJob
    /\ UNCHANGED <<writes, mergeVars, getVars>>

FlushFails ==
    /\ thread = "Flush" /\ "flush" \in IoErrors
    /\ thread' = "Rest" /\ job' = NoJob
    /\ UNCHANGED <<treeVars, mergeVars, getVars>>
-----------------------------------------------------------------------------
(* compact_l0 and compact_ln *)

LevelEntries(l) == UNION {ToSet(levels[l][i]) : i \in DOMAIN levels[l]}

\* The sum of the sizes of the files: no entry is in two of them.
Size(l) == Cardinality(LevelEntries(l))
Due(l)  == Size(l) >= LevelTrigger[l]

\* compact_l0 takes every file, compact_ln the first one.
Source(l) == IF l = 0 THEN ToSet(levels[0]) ELSE {levels[l][1]}

\* Mutant: the bytes of the keys tell what overlaps, and touching does not.
Overlaps_strict(f, min, max) == MaxKey(f).key > min.key /\ MinKey(f).key < max.key

\* f.max_key >= min && f.min_key <= max, over whole keys.
Overlaps(f, min, max) == NotAfter(min, MaxKey(f)) /\ NotAfter(MinKey(f), max)

Smallest(S) == CHOOSE e \in S : \A f \in S : NotAfter(e, f)
Largest(S)  == CHOOSE e \in S : \A f \in S : NotAfter(f, e)

\* The selection under the manifest lock, and the opening of the iterators.  Flushes
\* come first, then the lowest level over its trigger.
CompactSelect ==
    \E l \in 0 .. MaxLevel - 1 :
        LET source == Source(l)
            min == Smallest({MinKey(f) : f \in source})
            max == Largest({MaxKey(f) : f \in source})
            target == {f \in ToSet(levels[l + 1]) : Overlaps(f, min, max)} IN
        /\ thread = "Rest" /\ ~ FlushDue
        /\ Due(l) /\ \A m \in 0 .. l - 1 : ~ Due(m)
        /\ thread' = "Merge"
        /\ job' = [count |-> 0, level |-> l, source |-> source, target |-> target]
        /\ inputs' = [f \in source \cup target |-> f] /\ outputs' = <<>> /\ writer' = <<>>
        /\ UNCHANGED <<treeVars, getVars>>
-----------------------------------------------------------------------------
(* execute_compaction *)

\* The iterators with a head in the heap.
Unread == {f \in DOMAIN inputs : inputs[f] # <<>>}

\* Mutant: only the newest version of a key is kept.
MergeNext_dropsVersions ==
    /\ thread = "Merge"
    /\ \E f \in Unread :
        LET e == Head(inputs[f])
            last == writer # <<>> /\ writer[Len(writer)].key = e.key IN
        /\ \A g \in Unread : NotAfter(e, Head(inputs[g]))
        /\ inputs' = [inputs EXCEPT ![f] = Tail(@)]
        /\ writer' = IF last THEN writer ELSE Append(writer, e)
        /\ UNCHANGED outputs
    /\ UNCHANGED <<treeVars, thread, job, getVars>>

\* MergeIterator::next pops the smallest head and advances its iterator; the entry goes
\* to the current writer, or to a new one if that has reached its target size.
MergeNext ==
    /\ thread = "Merge"
    /\ \E f \in Unread :
        LET e == Head(inputs[f])
            cut == writer # <<>> /\ CurrentSize(writer) >= TargetSize IN
        /\ \A g \in Unread : NotAfter(e, Head(inputs[g]))
        /\ inputs' = [inputs EXCEPT ![f] = Tail(@)]
        /\ outputs' = IF cut THEN Append(outputs, writer) ELSE outputs
        /\ writer' = IF cut THEN <<e>> ELSE Append(writer, e)
    /\ UNCHANGED <<treeVars, thread, job, getVars>>

\* The last file is finalized and the new files are opened.
MergeEnd ==
    /\ thread = "Merge" /\ Unread = {}
    /\ outputs' = Append(outputs, writer) /\ writer' = <<>> /\ inputs' = <<>>
    /\ thread' = "Commit"
    /\ UNCHANGED <<treeVars, job, getVars>>

\* Files without those of a selection, which the code knows by their ids.
Without(fs, gone) ==
    LET left == {i \in DOMAIN fs : fs[i] \notin gone}
        at == Ordered(left, {p \in left \X left : p[1] < p[2]}) IN
    [i \in DOMAIN at |-> fs[at[i]]]

\* Files by their first keys.
ByMinKey(S) == Ordered(S, {p \in S \X S : Before(MinKey(p[1]), MinKey(p[2]))})

\* The inputs leave their levels, the outputs come into the next one, sorted.
CompactCommit ==
    /\ thread = "Commit"
    /\ levels' = [levels EXCEPT
                    ![job.level] = Without(@, job.source),
                    ![job.level + 1] = ByMinKey((ToSet(@) \ job.target) \cup ToSet(outputs))]
    /\ thread' = "Rest" /\ job' = NoJob /\ outputs' = <<>>
    /\ UNCHANGED <<memtables, frozen, writes, inputs, writer, getVars>>

\* Any error: the files written so far are left to the garbage collection.
CompactFails ==
    /\ thread \in {"Merge", "Commit"} /\ "compact" \in IoErrors
    /\ thread' = "Rest" /\ job' = NoJob
    /\ inputs' = <<>> /\ outputs' = <<>> /\ writer' = <<>>
    /\ UNCHANGED <<treeVars, getVars>>
-----------------------------------------------------------------------------
(* Db::get *)

\* The first lookup that finds something.
FirstFound(found) ==
    LET hits == {i \in DOMAIN found : found[i] # NoEntry} IN
    IF hits = {} THEN NoEntry ELSE found[Min(hits)]

\* The files of a level, in their stored order.
SearchLevel(l, k) == FirstFound([i \in DOMAIN levels[l] |-> Search(levels[l][i], k)])

\* Mutant: the frozen memtables from the oldest to the newest.
Below_oldestFirst(k) ==
    FirstFound([i \in DOMAIN frozen |-> MemGet(memtables[frozen[i]], k)]
               \o [i \in 1 .. MaxLevel + 1 |-> SearchLevel(i - 1, k)])

\* What the frozen memtables, newest first, and then the files say.
Below(k) ==
    FirstFound([i \in DOMAIN frozen |-> MemGet(memtables[frozen[Len(frozen) - i + 1]], k)]
               \o [i \in 1 .. MaxLevel + 1 |-> SearchLevel(i - 1, k)])

\* current.load().  All but the mutable memtable of the loaded version is immutable, so
\* what it will say is settled here.
GetLoad ==
    \E k \in Keys :
        /\ get = NoGet
        /\ get' = [key |-> k, seen |-> writes, mem |-> Mutable, below |-> Below(k)]
        /\ answer' = NoEntry
        /\ UNCHANGED <<treeVars, thread, job, mergeVars>>

\* The memtable is asked while writers insert, and may be frozen by now.
GetReturn ==
    LET hit == MemGet(memtables[get.mem], get.key) IN
    /\ get # NoGet
    /\ answer' = IF hit # NoEntry THEN hit ELSE get.below
    /\ get' = NoGet
    /\ memtables' = Freed(frozen, NoGet)
    /\ UNCHANGED <<frozen, levels, writes, thread, job, mergeVars>>
-----------------------------------------------------------------------------
Next ==
    \/ Write
    \/ FlushStart \/ FlushCommit \/ FlushFails
    \/ CompactSelect \/ MergeNext \/ MergeEnd \/ CompactCommit \/ CompactFails
    \/ GetLoad \/ GetReturn

Spec == Init /\ [][Next]_vars
-----------------------------------------------------------------------------
(* Properties. *)

FileEntries == UNION {LevelEntries(l) : l \in Levels}

\* Everything a get of db.current can reach.
Contents ==
    memtables[Mutable] \cup (UNION {memtables[frozen[i]] : i \in DOMAIN frozen}) \cup FileEntries

\* The tree is a store of versions that loses none and invents none, whatever is
\* frozen, flushed, merged or cut, and a get that finds nothing is right.
Store == INSTANCE VersionStore
            WITH versions <- Contents, get <- [key |-> get.key, seen |-> get.seen]
IsVersionStore == Store!Spec

\* The files of L1 and below are sorted, and in a level each ends before the next
\* begins: the merge, the cut and the selection of the overlapping files keep
\* "NO overlapping key ranges" in the order of the whole keys.
LevelsDisjoint ==
    /\ \A l \in Levels : \A i \in DOMAIN levels[l] : Sorted(levels[l][i])
    /\ \A l \in Levels \ {0} : \A i \in 1 .. Len(levels[l]) - 1 :
         Before(MaxKey(levels[l][i]), MinKey(levels[l][i + 1]))

\* The Bloom filter, the index and the scan of one block find the newest version that a
\* file holds of a key, also when its versions span blocks.
SearchFindsNewest ==
    \A l \in Levels : \A i \in DOMAIN levels[l] : \A k \in Keys :
        Search(levels[l][i], k) = Newest(ToSet(levels[l][i]), k)

Memory == memtables[Mutable] \cup UNION {memtables[frozen[i]] : i \in DOMAIN frozen}

\* What a get that runs alone answers.
Lookup(k) == FirstFound(<<MemGet(memtables[Mutable], k), Below(k)>>)

HoldersIn(l, k) == {i \in DOMAIN levels[l] : \E e \in ToSet(levels[l][i]) : e.key = k}

\* The newest version is the one that a get finds if it is a put in a memtable, and also
\* if no memtable has the key, at most one file of L0 has it and at most one deeper
\* level, be it in several files.  In all other cases the search order can prefer an
\* older version: see ReadsNewest.
FreshUnlessShadowed ==
    \A k \in Keys :
        LET inMemory == Newest(Memory, k)
            deep == {l \in Levels \ {0} : HoldersIn(l, k) # {}} IN
        \/ inMemory # NoEntry /\ inMemory.del
        \/ inMemory = NoEntry /\ (Cardinality(HoldersIn(0, k)) > 1 \/ Cardinality(deep) > 1)
        \/ Lookup(k) = Newest(Contents, k)

\* A get reads the most up to date version of its key: a tombstone hides what is older,
\* L0 is searched from the newest file to the oldest, and what is newer is not compacted
\* into a deeper level than what is older.
ReadsNewest ==
    \A k \in Keys :
        LET newest == Newest(Contents, k) IN
        IF newest.del THEN Lookup(k).del ELSE Lookup(k) = newest
=============================================================================
