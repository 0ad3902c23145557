------------------------- MODULE MCPlanConfirmation -------------------------
(* Two confirms of one run compete, each on the owner's instance or elsewhere. *)
EXTENDS PlanConfirmation

CONSTANTS r1, r2
=============================================================================
