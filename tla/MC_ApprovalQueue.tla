--------------------------- MODULE MC_ApprovalQueue ---------------------------
EXTENDS ApprovalQueue

(* Two verdict classes: the default dual_human route of a CRITICAL signal,  *)
(* and a route configured with no approvals, which still requires one.     *)
MCVerdict == {"low", "critical"}
MCRouteApprovals == [v \in MCVerdict |-> IF v = "critical" THEN 2 ELSE 0]
=============================================================================
