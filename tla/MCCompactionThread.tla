------------------------- MODULE MCCompactionThread -------------------------
(* Instances of CompactionThread for TLC. *)
EXTENDS CompactionThread

\* L0 is compacted at two memtables, L1 at three; L2 is the last level.
SmallTriggers == <<2, 3>>
=============================================================================
