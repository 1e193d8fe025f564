---------------------------- MODULE MCSupervision ----------------------------
(* Supervision with small constants for TLC.                               *)
EXTENDS Supervision, TLC

CONSTANTS p1, p2, p3

\* Process ids are interchangeable.
ProcSymmetry == Permutations(Procs)
=============================================================================
