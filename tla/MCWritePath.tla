---------------------------- MODULE MCWritePath ----------------------------
(* Small instances of WritePath for TLC. *)
EXTENDS WritePath, TLC

\* Writers differ only in their names.  Used for safety only.
WriterSymmetry == Permutations(Writers)
=============================================================================
