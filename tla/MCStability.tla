---------------------------- MODULE MCStability ----------------------------
(***************************************************************************)
(* Instances of VolumeStability for TLC: two volumes, one of them expected *)
(* to be read-only, and periods that differ from each other so that each   *)
(* of them is the one that decides.                                        *)
(***************************************************************************)
EXTENDS VolumeStability
=============================================================================
