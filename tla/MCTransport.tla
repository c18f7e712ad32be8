---------------------------- MODULE MCTransport ----------------------------
(* Model-checking instance of TransportGuardian: a CIFS and an SSHFS route. *)
EXTENDS TransportGuardian

CONSTANTS cifs, sshfs

TwoRoutes == <<cifs, sshfs>>
=============================================================================
