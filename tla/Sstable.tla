------------------------------- MODULE Sstable -------------------------------
(***************************************************************************)
(* The order of the keys of easy-lsm (src/data_stores/key.rs), one         *)
(* memtable (src/data_stores/memtable.rs), and one SSTable as its writer   *)
(* lays it out and as a get searches it (src/data_stores/sstable.rs,       *)
(* src/data_stores/bloom_filter.rs).                                       *)
(*                                                                         *)
(* The bytes of a key are a number, its value is a put or a tombstone; the *)
(* LSN tells the versions of a key apart.  Every entry has the same size,  *)
(* the unit of BlockSize.  A memtable is the set of its entries and a file *)
(* the sequence of its entries: BlockSize cuts it into blocks, whose first *)
(* and last keys are the index, and the bits of its keys are the Bloom     *)
(* filter.                                                                 *)
(***************************************************************************)
EXTENDS Naturals, Sequences, FiniteSets, FiniteSetsExt, SequencesExt

CONSTANTS
    Keys,       \* the keys, numbers in the order of their bytes; 0 is none
    BlockSize,  \* BLOCK_SIZE, in entries
    BloomBits   \* the bits that hash_kernel gives each key

ASSUME SstableAssumption ==
    /\ Keys \subseteq Nat \ {0}
    /\ BlockSize \in Nat \ {0}
    /\ BloomBits \in [Keys -> SUBSET Nat]

Entry == [key: Keys, lsn: Nat, del: BOOLEAN]

\* The result of a lookup that finds nothing.
NoEntry == [key |-> 0, lsn |-> 0, del |-> TRUE]

\* Ord for Key: bytes ascending, then LSN descending.
Before(a, b) == a.key < b.key \/ (a.key = b.key /\ a.lsn > b.lsn)

NotAfter(a, b) == a = b \/ Before(a, b)

Sorted(s) == \A i, j \in DOMAIN s : i < j => Before(s[i], s[j])

\* The elements of S in the order R, a set of pairs.
Ordered(S, R) ==
    CHOOSE s \in [1 .. Cardinality(S) -> S] :
        ToSet(s) = S /\ \A i, j \in DOMAIN s : i < j => <<s[i], s[j]>> \in R

\* The newest version of k in a set of entries.
Newest(S, k) ==
    LET versions == {e \in S : e.key = k} IN
    IF versions = {} THEN NoEntry
    ELSE CHOOSE e \in versions : \A f \in versions : f.lsn <= e.lsn
-----------------------------------------------------------------------------
(* Memtable *)

\* Memtable::get: the first entry of the range of k, and nothing for a tombstone.
MemGet(S, k) ==
    IF \E e \in S : e.key = k
    THEN LET first == CHOOSE e \in S : e.key = k /\ \A f \in S : f.key = k => NotAfter(e, f) IN
         IF first.del THEN NoEntry ELSE first
    ELSE NoEntry

\* The entries in the order of the skip list.
InOrder(S) == Ordered(S, {p \in S \X S : Before(p[1], p[2])})
-----------------------------------------------------------------------------
(* Sstable *)

\* The blocks of a file, and the first and the last entry of block b: a block is
\* flushed when it is full, the last one by finalize.
Blocks(s) == 1 .. (Len(s) + BlockSize - 1) \div BlockSize
BlockOf(s, b) == (b - 1) * BlockSize + 1 .. Min({b * BlockSize, Len(s)})
BlockMin(s, b) == s[(b - 1) * BlockSize + 1]
BlockMax(s, b) == s[Min({b * BlockSize, Len(s)})]

\* SstableWriter::current_size after the entries of s: the flushed blocks alone.
CurrentSize(s) == (Len(s) \div BlockSize) * BlockSize

MinKey(s) == s[1]
MaxKey(s) == s[Len(s)]

\* BloomFilter::check after a set for every entry.
BloomCheck(s, k) == BloomBits[k] \subseteq UNION {BloomBits[s[i].key] : i \in DOMAIN s}

\* search_block: a linear scan that stops at the first key that is not smaller.
SearchBlock(s, b, k) ==
    LET stop == {i \in BlockOf(s, b) : s[i].key >= k} IN
    IF stop # {} /\ s[Min(stop)].key = k THEN s[Min(stop)] ELSE NoEntry

\* Mutant: the last block that starts before the key.
Search_byMin(s, k) ==
    LET blocks == {b \in Blocks(s) : BlockMin(s, b).key <= k} IN
    IF ~ BloomCheck(s, k) \/ blocks = {} THEN NoEntry
    ELSE SearchBlock(s, Max(blocks), k)

\* Sstable::search.  (k, u64::MAX) precedes every version of k, so the partition
\* point of the index is the first block whose last entry has no smaller bytes.
Search(s, k) ==
    LET blocks == {b \in Blocks(s) : ~ (BlockMax(s, b).key < k)} IN
    IF ~ BloomCheck(s, k) \/ blocks = {} THEN NoEntry
    ELSE IF BlockMin(s, Min(blocks)).key > k THEN NoEntry
    ELSE SearchBlock(s, Min(blocks), k)
=============================================================================
