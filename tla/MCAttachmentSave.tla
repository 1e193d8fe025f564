-------------------------- MODULE MCAttachmentSave --------------------------
(* AttachmentSave with small constants for TLC.                            *)
EXTENDS AttachmentSave, TLC

CONSTANTS k1, k2, c1, c2, c3

\* Every key has a content of its own.
OneEach == (k1 :> {c1}) @@ (k2 :> {c2})

\* Gmail may come back with a different content for the same attachment.
Changing == (k1 :> {c1, c2})

=============================================================================
