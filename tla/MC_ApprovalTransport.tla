------------------------ MODULE MC_ApprovalTransport ------------------------
EXTENDS ApprovalTransport

MCVerdict == {"low", "critical"}
(* A route configured with no approvals still requires one. *)
MCRouteApprovals == [v \in MCVerdict |-> IF v = "critical" THEN 2 ELSE 0]

Sent(path, body, authorised) ==
  [path |-> path, body |-> body, authorised |-> authorised, op |-> NoOp]

MCRequests ==
  {[Sent("decide", "named", TRUE) EXCEPT !.op = o] : o \in {p \in Operation : p.kind # "ask"}}
  \cup {Sent("healthz", "named", FALSE), Sent("pending", "named", TRUE), Sent("decide", "named", FALSE),
        Sent("other", "named", TRUE), Sent("decide", "unsized", TRUE),
        Sent("decide", "not_json", TRUE), Sent("decide", "unnamed", TRUE)}
=============================================================================
