------------------------- MODULE MC_EffectorBoundary -------------------------
EXTENDS EffectorBoundary, TLC

MCVerdict == {"low", "critical"}
MCRouteApprovals == [v \in MCVerdict |-> IF v = "critical" THEN 2 ELSE 0]

(* chmod is escalated when a user asks for it, with a peak severity that    *)
(* depends on the query, and blocked otherwise; ls is allowed.             *)
MCFused ==
  [d \in {"chmod", "ls"} |->
     IF d = "ls" THEN {[route |-> "allow", verdict |-> "low"]}
     ELSE {[route |-> "human", verdict |-> "low"], [route |-> "human", verdict |-> "critical"],
           [route |-> "block", verdict |-> "low"]}]

(* Calls and operators are interchangeable: nothing names one of them. *)
MCSymmetry == Permutations(Call) \cup Permutations(Approver)
=============================================================================
