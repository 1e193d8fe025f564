------------------------ MODULE MCWindowsIntegration ------------------------
(* WindowsIntegration with small constants for TLC.                        *)
EXTENDS WindowsIntegration
=============================================================================
