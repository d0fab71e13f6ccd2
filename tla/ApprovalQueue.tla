---------------------------- MODULE ApprovalQueue ----------------------------
(***************************************************************************)
(* The approval workflow of approvals/queue.py as the callers of one queue *)
(* see it: Governor threads ask, operators approve and deny, and the       *)
(* instance lock makes each operation one step.  The process may die inside *)
(* an operation.  ApprovalStore refines this module to loads and saves of  *)
(* the JSON file.                                                          *)
(*                                                                         *)
(* tickets is the file, now the clock, permits counts the True answers that *)
(* reached a caller.  consents is a history variable: what the operators   *)
(* themselves did, whatever the ticket says.  It holds the yes-votes for a *)
(* digest that no later denial, permit or reopening has used up.           *)
(***************************************************************************)
EXTENDS ApprovalTicket, FiniteSets

CONSTANTS
  Digest,      \* request digests
  MaxTime,     \* bound on the clock
  MaxPermits   \* bound on the permits counted per digest

ASSUME BoundsAssumption == MaxTime \in Nat /\ MaxPermits \in Nat
ASSUME OperatorsAssumption == IsFiniteSet(Approver)

VARIABLES tickets, now, permits, consents

vars == <<tickets, now, permits, consents>>

TypeOK ==
  /\ tickets \in [Digest -> Ticket]
  /\ now \in Nat
  /\ permits \in [Digest -> Nat]
  /\ consents \in [Digest -> SUBSET Consent]

Init ==
  /\ tickets = [d \in Digest |-> NoTicket]
  /\ now = 0
  /\ permits = [d \in Digest |-> 0]
  /\ consents = [d \in Digest |-> {}]

Tick == now < MaxTime /\ now' = now + 1 /\ UNCHANGED <<tickets, permits, consents>>

(* The yes-votes for d end with the ticket they were given to. *)
UsesUpConsents(d) == Reopens(tickets[d], now) \/ tickets'[d].status = "consumed"

(* request_approval, returning to its caller. *)
RequestApproval(d, v) ==
  LET need == RequiredApprovals(v)
  IN  /\ permits[d] < MaxPermits
      /\ tickets' = [tickets EXCEPT ![d] = AfterRequest(tickets[d], need, now)]
      /\ permits' = [permits EXCEPT ![d] =
                       IF Permits(tickets[d], need, now) THEN @ + 1 ELSE @]
      /\ consents' = [consents EXCEPT ![d] = IF UsesUpConsents(d) THEN {} ELSE @]
      /\ UNCHANGED now

(* request_approval cut short by a crash: between its two saves only the   *)
(* raised requirement is on disk; after the last one the ticket is spent   *)
(* and the answer lost.                                                    *)
RequestDies(d, v) ==
  LET need == RequiredApprovals(v)
  IN  /\ \/ /\ tickets' = [tickets EXCEPT ![d] = Raised(tickets[d], need)]
            /\ UNCHANGED consents
         \/ /\ tickets' = [tickets EXCEPT ![d] = AfterRequest(tickets[d], need, now)]
            /\ consents' = [consents EXCEPT ![d] = IF UsesUpConsents(d) THEN {} ELSE @]
      /\ UNCHANGED <<now, permits>>

Approve(d, who) ==
  /\ CanApprove(tickets[d], who)
  /\ tickets' = [tickets EXCEPT ![d] = Approved(tickets[d], who, now)]
  /\ consents' = [consents EXCEPT ![d] = @ \cup {[who |-> who, at |-> now]}]
  /\ UNCHANGED <<now, permits>>

Deny(d) ==
  /\ CanDeny(tickets[d])
  /\ tickets' = [tickets EXCEPT ![d] = Denied(tickets[d])]
  /\ consents' = [consents EXCEPT ![d] = {}]
  /\ UNCHANGED <<now, permits>>

Next ==
  \/ Tick
  \/ \E d \in Digest, v \in Verdict : RequestApproval(d, v) \/ RequestDies(d, v)
  \/ \E d \in Digest, who \in Approver : Approve(d, who)
  \/ \E d \in Digest : Deny(d)

Spec == Init /\ [][Next]_vars

-----------------------------------------------------------------------------
Consenters(d) == {c.who : c \in consents[d]}

(* Every name on a live ticket is a yes that its operator gave to this very *)
(* ticket: a ticket never inherits the signatures of the one it replaces,   *)
(* be that denied, used or expired.                                         *)
SignaturesAreConsents ==
  \A d \in Digest : Live(tickets[d]) =>
    \A i \in 1 .. Len(tickets[d].approvers) : tickets[d].approvers[i] \in Consenters(d)

(* No operator counts twice on one ticket, whatever the order of raises,    *)
(* approvals and crashes.                                                   *)
SignersDistinct ==
  \A d \in Digest : \A i, j \in 1 .. Len(tickets[d].approvers) :
    tickets[d].approvers[i] = tickets[d].approvers[j] => i = j

(* An approved ticket expires TTL after a yes it was given, not never and   *)
(* not later; a pending or denied one has no expiry.                        *)
ExpiryFromConsent ==
  \A d \in Digest :
    LET t == tickets[d]
    IN  /\ t.status = "approved" => \E c \in consents[d] : t.expires = c.at + TTL
        /\ t.expires # NoExpiry => t.status \in {"approved", "consumed"}

Grants(d, v) == RequestApproval(d, v) /\ permits'[d] # permits[d]

(* Dual control: a True answer reaches a caller only on the consents, to    *)
(* one ticket and used by no earlier permit, of as many different operators *)
(* as the verdict of this very call requires.                               *)
PermitEarned ==
  [][\A d \in Digest, v \in Verdict :
       Grants(d, v) => Cardinality(Consenters(d)) >= RequiredApprovals(v)]_vars

(* "Approvals expire": a permit follows the yes that completed it within    *)
(* TTL.                                                                     *)
PermitFresh ==
  [][\A d \in Digest, v \in Verdict :
       Grants(d, v) => \E c \in consents[d] : now - c.at <= TTL]_vars

(* The promise of the docstring: single-use permission tokens. *)
Promise == INSTANCE OneTimePermit
             WITH credit <- [d \in Digest |-> tickets[d].status = "approved"]

ImplementsOneTimePermit == Promise!Spec
=============================================================================
