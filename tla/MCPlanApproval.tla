--------------------------- MODULE MCPlanApproval ---------------------------
(* Small instances of PlanApproval for TLC. *)
EXTENDS PlanApproval
=============================================================================
