---------------------------- MODULE MCAdmission ----------------------------
(***************************************************************************)
(* Instances of Admission for TLC.  A probe that lasts one tick of the     *)
(* clock is slow, one healthy tick of it is a window, and the clock runs   *)
(* long enough for the limit to reach its ceiling of 2, fall and grow      *)
(* again around a restart of HAProxy.                                      *)
(***************************************************************************)
EXTENDS Admission
=============================================================================
