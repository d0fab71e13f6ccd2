---------------------------- MODULE OneTimePermit ----------------------------
(***************************************************************************)
(* What approvals/queue.py promises in its docstring, and no more: for each *)
(* action digest there is at most one unused approval; a permit uses it; an *)
(* approval may also be lost (expiry, a crash) and never comes back.        *)
(***************************************************************************)
EXTENDS Naturals

CONSTANT Digest

VARIABLES credit,   \* is there an unused approval for the digest?
          permits   \* permits given so far, per digest

Init == credit = [d \in Digest |-> FALSE] /\ permits = [d \in Digest |-> 0]

Earn(d) ==
  /\ ~credit[d]
  /\ credit' = [credit EXCEPT ![d] = TRUE]
  /\ UNCHANGED permits

Lose(d) ==
  /\ credit[d]
  /\ credit' = [credit EXCEPT ![d] = FALSE]
  /\ UNCHANGED permits

Spend(d) ==
  /\ credit[d]
  /\ credit' = [credit EXCEPT ![d] = FALSE]
  /\ permits' = [permits EXCEPT ![d] = @ + 1]

Next == \E d \in Digest : Earn(d) \/ Lose(d) \/ Spend(d)

Spec == Init /\ [][Next]_<<credit, permits>>
=============================================================================
