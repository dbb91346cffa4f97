-------------------------- MODULE MCManifestUpdate --------------------------
(* Instances of ManifestUpdate for TLC. *)
EXTENDS ManifestUpdate
=============================================================================
