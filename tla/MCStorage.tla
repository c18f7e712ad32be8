----------------------------- MODULE MCStorage -----------------------------
(* Model-checking instance of StorageTarget. *)
EXTENDS StorageTarget
=============================================================================
