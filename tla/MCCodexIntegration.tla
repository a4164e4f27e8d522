------------------------ MODULE MCCodexIntegration --------------------------
(* Model-checking instances of CodexIntegration.                             *)
EXTENDS CodexIntegration
=============================================================================
