--------------------------- MODULE MCSharedFolder ---------------------------
(* SharedFolder with small constants: two monitors of one user's two       *)
(* sessions or of two PCs, and one of the clocks ahead.                    *)
EXTENDS SharedFolder, TLC

CONSTANTS p1, p2

OneAhead == (p1 :> 0) @@ (p2 :> 1)
=============================================================================
