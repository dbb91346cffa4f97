-------------------------------- MODULE MCLsm --------------------------------
(* Instances of Lsm for TLC. *)
EXTENDS Lsm

\* Key 1 sets the bits of key 2, so that the Bloom filter gives false positives.
SharedBits == [k \in Keys |-> IF k = 1 THEN {1, 2} ELSE {k}]

\* L0 is compacted with two entries, L1 with two; L2 receives.
SmallTriggers == [l \in 0 .. 1 |-> 2]
=============================================================================
