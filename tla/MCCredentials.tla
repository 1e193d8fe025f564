---------------------------- MODULE MCCredentials ---------------------------
(* Credentials with small constants for TLC.                               *)
EXTENDS Credentials, TLC

CONSTANTS d1, d2, t1, t2, tray, x, y

\* No alias: every address is a mailbox of its own.
OwnHomes == [a \in {x, y} |-> a]

BothOrNone == {{}, {x, y}}

\* The two dialogs, the scanner's and the worker's thread, and, being their
\* own mailboxes, the two addresses are alike.
Alike == {p @@ q @@ r : p \in Permutations({d1, d2}), q \in Permutations({t1, t2}),
                        r \in Permutations({x, y})}
=============================================================================
