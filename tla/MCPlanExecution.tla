--------------------------- MODULE MCPlanExecution ---------------------------
(***************************************************************************)
(* PlanExecution on plans of three to five nodes: a checkpoint before the  *)
(* mutations, as the compiler asks, and one between them; a node that may  *)
(* be skipped; a last one that applies a transaction to the workspace.     *)
(***************************************************************************)
EXTENDS PlanExecution
=============================================================================
