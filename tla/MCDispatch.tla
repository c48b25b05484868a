------------------------------ MODULE MCDispatch ------------------------------
(* Model-checking instance of Dispatch.  The constants come from the .cfg   *)
(* files: q is a queued row, d a direct print.                             *)
EXTENDS Dispatch

=============================================================================
