------------------------- MODULE MC_AuthorisedWorkflow -------------------------
EXTENDS AuthorisedWorkflow, TLC

MCVerdict == {"low", "critical"}
MCRouteApprovals == [v \in MCVerdict |-> IF v = "critical" THEN 2 ELSE 0]

(* chmod is escalated, with a peak severity that depends on the query.      *)
MCFused ==
  [d \in {"chmod"} |->
     {[route |-> "human", verdict |-> "low"], [route |-> "human", verdict |-> "critical"]}]

(* Calls and operators are interchangeable: nothing names one of them. *)
MCSymmetry == Permutations(Call) \cup Permutations(Approver)
=============================================================================
