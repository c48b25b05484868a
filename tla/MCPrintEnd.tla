----------------------------- MODULE MCPrintEnd -----------------------------
(* Model-checking instances of PrintEnd; the constants come from the .cfg.  *)
EXTENDS PrintEnd
=============================================================================
