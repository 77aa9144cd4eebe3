--------------------------- MODULE MCWorkflowGraph ---------------------------
(* WorkflowGraph on one story.                                             *)
EXTENDS WorkflowGraph
=============================================================================
