------------------------------- MODULE MCWalLog -------------------------------
(* Instances of WalLog for TLC. *)
EXTENDS WalLog
=============================================================================
