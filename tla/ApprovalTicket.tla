---------------------------- MODULE ApprovalTicket ----------------------------
(***************************************************************************)
(* What one approval ticket is and what each operation of the queue does   *)
(* to it: approvals/queue.py and approvals/policy.py.  No state here, so   *)
(* that the queue (ApprovalQueue) and the file-level store (ApprovalStore) *)
(* are built from the same steps.                                          *)
(***************************************************************************)
EXTENDS Integers, Sequences

CONSTANTS
  Approver,        \* operator identities (approver.strip() is non-blank)
  Verdict,         \* classes of escalated verdict: the peak firing severity
  RouteApprovals,  \* the policy's approvals for the route of each class
  TTL              \* ttl_seconds

ASSUME RouteAssumption == RouteApprovals \in [Verdict -> Int]
ASSUME TTLAssumption == TTL \in Nat

NoExpiry == -1

Terminal == {"denied", "consumed", "expired"}
Status == {"none", "pending", "approved"} \cup Terminal

(* "none" is the absence of the digest from the JSON object. *)
Ticket == [status : Status, approvers : Seq(Approver),
           required : Nat \ {0}, expires : Nat \cup {NoExpiry}]

NoTicket == [status |-> "none", approvers |-> <<>>, required |-> 1, expires |-> NoExpiry]

(* What an operator has said yes to, and when: not in the ticket, but what   *)
(* it is held against.                                                     *)
Consent == [who : Approver, at : Nat]

Live(t) == t.status \in {"pending", "approved"}

(* ApprovalPolicy.required_approvals: max(1, ...) of the route's number. *)
RequiredApprovals(v) == IF RouteApprovals[v] < 1 THEN 1 ELSE RouteApprovals[v]

-----------------------------------------------------------------------------
(* request_approval, one branch each. *)

IsExpired(t, now) == t.expires # NoExpiry /\ now > t.expires

NeedsRaise(t, need) == t.status # "none" /\ t.required < need

Raised(t, need) == IF NeedsRaise(t, need) THEN [t EXCEPT !.required = need] ELSE t

(* Mutant: an approved ticket permits although its requirement was raised.  *)
ConsumableUncounted(t, now) == t.status = "approved" /\ ~IsExpired(t, now)

(* Mutant: the expiry of an approved ticket is not looked at.               *)
ConsumableLate(t, now) == t.status = "approved" /\ Len(t.approvers) >= t.required

Consumable(t, now) ==
  /\ t.status = "approved"
  /\ Len(t.approvers) >= t.required
  /\ ~IsExpired(t, now)

Reopens(t, now) == t.status \in Terminal \cup {"none"} \/ IsExpired(t, now)

Opened(need) ==
  [status |-> "pending", approvers |-> <<>>, required |-> need, expires |-> NoExpiry]

Permits(t, need, now) == Consumable(Raised(t, need), now)

(* Mutant: reopening resets the status but keeps the old signatures.        *)
AfterRequestInheriting(t, need, now) ==
  LET r == Raised(t, need)
  IN  IF Consumable(r, now) THEN [r EXCEPT !.status = "consumed"]
      ELSE IF Reopens(r, now)
           THEN [r EXCEPT !.status = "pending", !.required = need, !.expires = NoExpiry]
           ELSE r

(* Mutant: a permit leaves the ticket approved.                             *)
AfterRequestUnspent(t, need, now) ==
  LET r == Raised(t, need)
  IN  IF ~Consumable(r, now) /\ Reopens(r, now) THEN Opened(need) ELSE r

AfterRequest(t, need, now) ==
  LET r == Raised(t, need)
  IN  IF Consumable(r, now) THEN [r EXCEPT !.status = "consumed"]
      ELSE IF Reopens(r, now) THEN Opened(need) ELSE r

-----------------------------------------------------------------------------
(* _decide *)

Signed(t, who) == \E i \in 1 .. Len(t.approvers) : t.approvers[i] = who

(* Mutant: an operator may sign twice.                                      *)
CanApproveAgain(t, who) == t.status = "pending"

CanApprove(t, who) == t.status = "pending" /\ ~Signed(t, who)

CanDeny(t) == t.status = "pending"

Approved(t, who, now) ==
  LET signers == Append(t.approvers, who)
      complete == Len(signers) >= t.required
  IN  [t EXCEPT !.approvers = signers,
                !.status = IF complete THEN "approved" ELSE "pending",
                !.expires = IF complete THEN now + TTL ELSE NoExpiry]

Denied(t) == [t EXCEPT !.status = "denied", !.expires = NoExpiry]
=============================================================================
