---------------------------- MODULE MCAuthClient ----------------------------
(* TLC instance of AuthClient; liveness is checked, so no symmetry is used. *)
EXTENDS AuthClient
=============================================================================
