------------------------ MODULE MCClaudeIntegration -------------------------
(* Model-checking instances of ClaudeIntegration.                            *)
EXTENDS ClaudeIntegration
=============================================================================
