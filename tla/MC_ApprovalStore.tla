--------------------------- MODULE MC_ApprovalStore ---------------------------
EXTENDS ApprovalStore

MCVerdict == {"low", "critical"}
(* A route configured with no approvals still requires one. *)
MCRouteApprovals == [v \in MCVerdict |-> IF v = "critical" THEN 2 ELSE 0]
=============================================================================
