------------------------- MODULE MCWorkflowSession -------------------------
(* The session for TLC.  Its constants are bounds on what the user does:    *)
(* the runs give them values, and the session needs no other definition.    *)
EXTENDS WorkflowSession
=============================================================================
