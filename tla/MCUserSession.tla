---------------------------- MODULE MCUserSession ----------------------------
(* UserSession for TLC.                                                    *)
EXTENDS UserSession, TLC

Symmetry == Permutations(Thread)
=============================================================================
