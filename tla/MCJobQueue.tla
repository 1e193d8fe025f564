----------------------------- MODULE MCJobQueue -----------------------------
(* JobQueue with small constants for TLC.  No symmetry: the properties of  *)
(* this configuration are temporal.                                        *)
EXTENDS JobQueue, TLC
=============================================================================
