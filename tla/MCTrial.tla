------------------------------ MODULE MCTrial -------------------------------
(* Trial, and with it AuthIssues and JobQueue, with small constants for TLC.*)
EXTENDS Trial, TLC

CONSTANTS k1, k2

\* Each attachment in an account of its own.
OneEach == [k \in {k1, k2} |-> IF k = k1 THEN "x" ELSE "y"]
=============================================================================
