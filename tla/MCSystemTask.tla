---------------------------- MODULE MCSystemTask ----------------------------
(* TLC instances of SystemTask.                                            *)
EXTENDS SystemTask, TLC

CONSTANTS r1, r2

\* Runners are interchangeable in the safety runs.
RunnerSymmetry == Permutations(Runners)
=============================================================================
