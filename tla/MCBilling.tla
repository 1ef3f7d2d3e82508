----------------------------- MODULE MCBilling -----------------------------
(* Billing with one subscription of each provider and a plan for each.      *)
EXTENDS Billing

CONSTANTS st, rz

MCPlanOf == [s \in {st, rz} |-> IF s = st THEN "starter" ELSE "pro"]

=============================================================================
