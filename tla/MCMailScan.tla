----------------------------- MODULE MCMailScan -----------------------------
(* MailScan with small constants for TLC.                                  *)
EXTENDS MailScan, TLC

CONSTANTS x, y, m1

\* Two mailboxes; either may be typed as the account of the other.
TwoBoxes == (x :> x) @@ (y :> y)
=============================================================================
