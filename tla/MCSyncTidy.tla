----------------------------- MODULE MCSyncTidy -----------------------------
(* The tidy instance of Sync meets the hypotheses of MonitorProofs.        *)
EXTENDS MCSync

ASSUME OrderlyInstance == OrderlyProgram /\ NobodyEnds
==============================================================================
