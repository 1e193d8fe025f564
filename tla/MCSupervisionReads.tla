-------------------------- MODULE MCSupervisionReads --------------------------
(* SupervisionReads with small constants for TLC.                          *)
EXTENDS SupervisionReads, TLC

CONSTANTS p1, p2, p3

\* Process ids are interchangeable.
ProcSymmetry == Permutations(Procs)
=============================================================================
