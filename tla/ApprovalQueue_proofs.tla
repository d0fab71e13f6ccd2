------------------------- MODULE ApprovalQueue_proofs -------------------------
(***************************************************************************)
(* Proofs about the approval queue, for every set of digests, operators and *)
(* verdict classes, every routing of them and every TTL: the type invariant, *)
(* the inductive invariant, the properties of a permit, and that the queue  *)
(* implements the single-use promise.                                      *)
(***************************************************************************)
EXTENDS ApprovalQueue, ApprovalTicket_proofs, FiniteSetTheorems

LEMMA InitType == Init => TypeOK
BY NoTicketType DEF Init, TypeOK

LEMMA NextType == TypeOK /\ [Next]_vars => TypeOK'
<1> SUFFICES ASSUME TypeOK, [Next]_vars PROVE TypeOK'
  OBVIOUS
<1> USE DEF TypeOK
<1>1. CASE Tick
  BY <1>1 DEF Tick
<1>2. ASSUME NEW d \in Digest, NEW v \in Verdict, RequestApproval(d, v)
      PROVE  TypeOK'
  <2>1. AfterRequest(tickets[d], RequiredApprovals(v), now) \in Ticket
    BY AfterRequestType, RequiredType
  <2> QED BY <1>2, <2>1 DEF RequestApproval
<1>3. ASSUME NEW d \in Digest, NEW v \in Verdict, RequestDies(d, v)
      PROVE  TypeOK'
  <2>1. AfterRequest(tickets[d], RequiredApprovals(v), now) \in Ticket
    BY AfterRequestType, RequiredType
  <2>2. Raised(tickets[d], RequiredApprovals(v)) \in Ticket
    BY RaisedType, RequiredType
  <2> QED BY <1>3, <2>1, <2>2 DEF RequestDies
<1>4. ASSUME NEW d \in Digest, NEW who \in Approver, Approve(d, who)
      PROVE  TypeOK'
  <2>1. Approved(tickets[d], who, now) \in Ticket
    BY ApprovedType
  <2>2. [who |-> who, at |-> now] \in Consent
    BY DEF Consent
  <2> QED BY <1>4, <2>1, <2>2 DEF Approve
<1>5. ASSUME NEW d \in Digest, Deny(d)
      PROVE  TypeOK'
  <2>1. Denied(tickets[d]) \in Ticket
    BY DeniedType
  <2> QED BY <1>5, <2>1 DEF Deny
<1>6. CASE UNCHANGED vars
  BY <1>6 DEF vars
<1> QED BY <1>1, <1>2, <1>3, <1>4, <1>5, <1>6 DEF Next

(* Every reachable state of the queue is well typed.                       *)
THEOREM TypeCorrect == Spec => []TypeOK
BY InitType, NextType, PTL DEF Spec

-----------------------------------------------------------------------------
(* The inductive invariant: of each ticket with the consents given to it.  *)
IInv == TypeOK /\ \A d \in Digest : TicketInv(tickets[d], consents[d])

LEMMA InitIInv == Init => IInv
<1>1. TicketInv(NoTicket, {})
  <2>1. Len(<<>>) = 0 /\ 1 .. 0 = {}
    OBVIOUS
  <2> QED BY <2>1 DEF TicketInv, NoTicket, Live
<1> QED BY <1>1, InitType DEF Init, IInv

LEMMA NextIInv == IInv /\ [Next]_vars => IInv'
<1> SUFFICES ASSUME IInv, [Next]_vars PROVE IInv'
  OBVIOUS
<1>0. TypeOK /\ TypeOK'
  BY NextType DEF IInv
<1> DEFINE Inv(d) == TicketInv(tickets[d], consents[d])
<1>. SUFFICES ASSUME NEW d \in Digest PROVE Inv(d)'
  BY <1>0 DEF IInv
<1>t. /\ tickets[d] \in Ticket /\ now \in Nat /\ Inv(d)
      /\ tickets \in [Digest -> Ticket] /\ consents \in [Digest -> SUBSET Consent]
  BY <1>0 DEF IInv, TypeOK
<1>s. ASSUME tickets'[d] = tickets[d], consents'[d] = consents[d]
      PROVE  Inv(d)'
  BY <1>s, <1>t
<1>1. CASE Tick
  BY <1>1, <1>s DEF Tick
<1>2. ASSUME NEW e \in Digest, NEW v \in Verdict, RequestApproval(e, v)
      PROVE  Inv(d)'
  <2>1. CASE e # d
    BY <1>2, <1>s, <1>t, <2>1 DEF RequestApproval
  <2>2. CASE e = d
    <3>1. tickets'[d] = AfterRequest(tickets[d], RequiredApprovals(v), now)
      BY <1>2, <1>t, <2>2 DEF RequestApproval
    <3>2. consents'[d] = IF Reopens(tickets[d], now) \/ tickets'[d].status = "consumed"
                         THEN {} ELSE consents[d]
      BY <1>2, <1>t, <2>2 DEF RequestApproval, UsesUpConsents
    <3> QED BY <1>t, <3>1, <3>2, AfterRequestInv, RequiredType
  <2> QED BY <2>1, <2>2
<1>3. ASSUME NEW e \in Digest, NEW v \in Verdict, RequestDies(e, v)
      PROVE  Inv(d)'
  <2>1. CASE e # d
    BY <1>3, <1>s, <1>t, <2>1 DEF RequestDies
  <2>2. CASE e = d /\ tickets' = [tickets EXCEPT ![e] = Raised(tickets[e], RequiredApprovals(v))]
                   /\ UNCHANGED consents
    BY <1>t, <2>2, RaisedInv, RequiredType
  <2>3. CASE /\ e = d
             /\ tickets' = [tickets EXCEPT ![e] =
                              AfterRequest(tickets[e], RequiredApprovals(v), now)]
             /\ consents' = [consents EXCEPT ![e] = IF UsesUpConsents(e) THEN {} ELSE @]
    <3>1. tickets'[d] = AfterRequest(tickets[d], RequiredApprovals(v), now)
      BY <1>t, <2>3
    <3>2. consents'[d] = IF Reopens(tickets[d], now) \/ tickets'[d].status = "consumed"
                         THEN {} ELSE consents[d]
      BY <1>t, <2>3 DEF UsesUpConsents
    <3> QED BY <1>t, <3>1, <3>2, AfterRequestInv, RequiredType
  <2> QED BY <1>3, <2>1, <2>2, <2>3 DEF RequestDies
<1>4. ASSUME NEW e \in Digest, NEW who \in Approver, Approve(e, who)
      PROVE  Inv(d)'
  <2>1. CASE e # d
    BY <1>4, <1>s, <1>t, <2>1 DEF Approve
  <2>2. CASE e = d
    <3>1. /\ tickets'[d] = Approved(tickets[d], who, now)
          /\ consents'[d] = consents[d] \cup {[who |-> who, at |-> now]}
          /\ CanApprove(tickets[d], who)
      BY <1>4, <1>t, <2>2 DEF Approve
    <3> QED BY <1>t, <3>1, ApprovedInv
  <2> QED BY <2>1, <2>2
<1>5. ASSUME NEW e \in Digest, Deny(e)
      PROVE  Inv(d)'
  <2>1. CASE e # d
    BY <1>5, <1>s, <1>t, <2>1 DEF Deny
  <2>2. CASE e = d
    <3>1. tickets'[d] = Denied(tickets[d]) /\ consents'[d] = {}
      BY <1>5, <1>t, <2>2 DEF Deny
    <3> QED BY <1>t, <3>1, DeniedInv
  <2> QED BY <2>1, <2>2
<1>6. CASE UNCHANGED vars
  BY <1>6, <1>s DEF vars
<1> QED BY <1>1, <1>2, <1>3, <1>4, <1>5, <1>6 DEF Next

LEMMA Inductive == Spec => []IInv
BY InitIInv, NextIInv, PTL DEF Spec

(* The names on a live ticket are consents given to that very ticket.       *)
THEOREM Signatures == Spec => []SignaturesAreConsents
<1>1. IInv => SignaturesAreConsents
  BY DEF IInv, TicketInv, SignaturesAreConsents, Consenters
<1> QED BY <1>1, Inductive, PTL

(* No operator is counted twice on a ticket.                               *)
THEOREM Distinct == Spec => []SignersDistinct
<1>1. IInv => SignersDistinct
  BY DEF IInv, TicketInv, SignersDistinct
<1> QED BY <1>1, Inductive, PTL

(* An approved ticket expires TTL after a consent it was given.            *)
THEOREM Expiry == Spec => []ExpiryFromConsent
<1>1. IInv => ExpiryFromConsent
  BY DEF IInv, TicketInv, ExpiryFromConsent
<1> QED BY <1>1, Inductive, PTL

-----------------------------------------------------------------------------
LEMMA GrantPermits ==
  ASSUME IInv, NEW d \in Digest, NEW v \in Verdict, Grants(d, v)
  PROVE  /\ Cardinality(Consenters(d)) >= RequiredApprovals(v)
         /\ \E c \in consents[d] : now - c.at <= TTL
<1>1. /\ tickets[d] \in Ticket /\ now \in Nat /\ consents[d] \in SUBSET Consent
      /\ TicketInv(tickets[d], consents[d]) /\ RequiredApprovals(v) \in Nat \ {0}
  BY RequiredType DEF IInv, TypeOK
<1>2. Permits(tickets[d], RequiredApprovals(v), now)
  BY DEF Grants, RequestApproval, IInv, TypeOK
<1> QED BY <1>1, <1>2, PermitConsented, OperatorsAssumption DEF Consenters

(* Dual control: every permit rests on as many different operators' unused  *)
(* consents as its verdict requires.                                       *)
THEOREM DualControl == Spec => PermitEarned
<1>1. IInv => [\A d \in Digest, v \in Verdict :
                 Grants(d, v) => Cardinality(Consenters(d)) >= RequiredApprovals(v)]_vars
  BY GrantPermits
<1> QED BY <1>1, Inductive, PTL DEF PermitEarned

(* "Approvals expire": a permit follows a consent of its ticket within TTL. *)
THEOREM Fresh == Spec => PermitFresh
<1>1. IInv => [\A d \in Digest, v \in Verdict :
                 Grants(d, v) => \E c \in consents[d] : now - c.at <= TTL]_vars
  BY GrantPermits
<1> QED BY <1>1, Inductive, PTL DEF PermitFresh

-----------------------------------------------------------------------------
(* The queue implements the single-use promise.  The credit of a digest is  *)
(* an approved ticket; expiry, denial and crashes lose it, a permit spends *)
(* it.                                                                     *)
Credit == [d \in Digest |-> tickets[d].status = "approved"]

LEMMA SameStatusSameCredit ==
  ASSUME NEW d \in Digest, NEW t, TypeOK, tickets' = [tickets EXCEPT ![d] = t]
  PROVE  Credit' = [Credit EXCEPT ![d] = (t.status = "approved")]
BY DEF Credit, TypeOK

LEMMA RequestCredit ==
  ASSUME NEW d \in Digest, NEW need \in Nat \ {0}, TypeOK,
         tickets' = [tickets EXCEPT ![d] = AfterRequest(tickets[d], need, now)]
  PROVE  /\ Permits(tickets[d], need, now) =>
              Credit[d] /\ Credit' = [Credit EXCEPT ![d] = FALSE]
         /\ ~Permits(tickets[d], need, now) =>
              \/ Credit' = Credit
              \/ Credit[d] /\ Credit' = [Credit EXCEPT ![d] = FALSE]
<1> DEFINE t == tickets[d]
           r == Raised(t, need)
           a == AfterRequest(t, need, now)
<1>1. t \in Ticket /\ now \in Nat /\ Credit[d] = (t.status = "approved")
  BY DEF TypeOK, Credit
<1>2. r \in Ticket /\ r.status = t.status
  BY <1>1, RaisedType
<1>3. Credit' = [Credit EXCEPT ![d] = (a.status = "approved")]
  BY SameStatusSameCredit
<1>4. CASE Permits(t, need, now)
  <2>1. a.status = "consumed"
    BY <1>1, <1>2, <1>4, AfterRequestCases DEF Ticket
  <2>2. t.status = "approved"
    BY <1>2, <1>4 DEF Permits, Consumable
  <2> QED BY <1>1, <1>3, <1>4, <2>1, <2>2
<1>5. CASE ~Permits(t, need, now) /\ a = Opened(need)
  <2>1. a.status # "approved"
    BY <1>5 DEF Opened
  <2>2. Credit[d] \/ Credit' = Credit
    BY <1>1, <1>3, <2>1 DEF Credit
  <2> QED BY <1>3, <1>5, <2>1, <2>2
<1>6. CASE ~Permits(t, need, now) /\ a = r
  BY <1>1, <1>2, <1>3, <1>6 DEF Credit
<1> QED BY <1>1, <1>4, <1>5, <1>6, AfterRequestCases

Gain(d) == ~Credit[d] /\ Credit' = [Credit EXCEPT ![d] = TRUE]

Drop(d) == Credit[d] /\ Credit' = [Credit EXCEPT ![d] = FALSE]

CreditStep ==
  \/ Credit' = Credit /\ permits' = permits
  \/ \E d \in Digest : (Gain(d) \/ Drop(d)) /\ permits' = permits
  \/ \E d \in Digest : Drop(d) /\ permits' = [permits EXCEPT ![d] = @ + 1]

LEMMA StepImplements == TypeOK /\ [Next]_vars => CreditStep
<1> SUFFICES ASSUME TypeOK, [Next]_vars PROVE CreditStep
  OBVIOUS
<1>1. CASE Tick
  BY <1>1 DEF Tick, Credit, CreditStep
<1>2. ASSUME NEW d \in Digest, NEW v \in Verdict, RequestApproval(d, v)
      PROVE  CreditStep
  <2>1. tickets' = [tickets EXCEPT ![d] = AfterRequest(tickets[d], RequiredApprovals(v), now)]
    BY <1>2 DEF RequestApproval
  <2>2. CASE Permits(tickets[d], RequiredApprovals(v), now)
    <3>1. permits' = [permits EXCEPT ![d] = @ + 1]
      BY <1>2, <2>2 DEF RequestApproval
    <3>2. Drop(d)
      BY <2>1, <2>2, RequestCredit, RequiredType DEF Drop
    <3> QED BY <3>1, <3>2 DEF CreditStep
  <2>3. CASE ~Permits(tickets[d], RequiredApprovals(v), now)
    <3>1. permits' = permits
      BY <1>2, <2>3 DEF RequestApproval, TypeOK
    <3>2. Credit' = Credit \/ Drop(d)
      BY <2>1, <2>3, RequestCredit, RequiredType DEF Drop
    <3> QED BY <3>1, <3>2 DEF CreditStep
  <2> QED BY <2>2, <2>3
<1>3. ASSUME NEW d \in Digest, NEW v \in Verdict, RequestDies(d, v)
      PROVE  CreditStep
  <2>1. permits' = permits
    BY <1>3 DEF RequestDies
  <2>2. CASE tickets' = [tickets EXCEPT ![d] = Raised(tickets[d], RequiredApprovals(v))]
    <3>1. tickets[d] \in Ticket
      BY DEF TypeOK
    <3>2. Raised(tickets[d], RequiredApprovals(v)).status = tickets[d].status
      BY <3>1, RaisedType, RequiredType
    <3>3. Credit' = [Credit EXCEPT ![d] = (tickets[d].status = "approved")]
      BY <2>2, <3>2, SameStatusSameCredit
    <3>4. Credit' = Credit
      BY <3>3 DEF Credit
    <3> QED BY <2>1, <3>4 DEF CreditStep
  <2>3. CASE tickets' = [tickets EXCEPT ![d] =
                          AfterRequest(tickets[d], RequiredApprovals(v), now)]
    <3>1. Credit' = Credit \/ Drop(d)
      <4>1. \/ Credit[d] /\ Credit' = [Credit EXCEPT ![d] = FALSE]
            \/ Credit' = Credit
        BY <2>3, RequestCredit, RequiredType
      <4> QED BY <4>1 DEF Drop
    <3> QED BY <2>1, <3>1 DEF CreditStep
  <2> QED BY <1>3, <2>2, <2>3 DEF RequestDies
<1>4. ASSUME NEW d \in Digest, NEW who \in Approver, Approve(d, who)
      PROVE  CreditStep
  <2>1. ~Credit[d] /\ permits' = permits
    BY <1>4 DEF Approve, CanApprove, Credit
  <2>2. Credit' = [Credit EXCEPT ![d] =
                    (Approved(tickets[d], who, now).status = "approved")]
    BY <1>4, SameStatusSameCredit DEF Approve
  <2>3. Credit' = [Credit EXCEPT ![d] = TRUE] \/ Credit' = [Credit EXCEPT ![d] = FALSE]
    BY <2>2
  <2>4. [Credit EXCEPT ![d] = FALSE] = Credit
    BY <2>1 DEF Credit
  <2> QED BY <2>1, <2>3, <2>4 DEF CreditStep, Gain
<1>5. ASSUME NEW d \in Digest, Deny(d)
      PROVE  CreditStep
  <2>1. ~Credit[d] /\ permits' = permits
    BY <1>5 DEF Deny, CanDeny, Credit
  <2>2. Denied(tickets[d]).status = "denied"
    BY DeniedType DEF TypeOK
  <2>3. Credit' = [Credit EXCEPT ![d] = (Denied(tickets[d]).status = "approved")]
    BY <1>5, SameStatusSameCredit DEF Deny
  <2>4. Credit' = Credit
    BY <2>1, <2>2, <2>3 DEF Credit
  <2> QED BY <2>1, <2>4 DEF CreditStep
<1>6. CASE UNCHANGED vars
  BY <1>6 DEF vars, Credit, CreditStep
<1> QED BY <1>1, <1>2, <1>3, <1>4, <1>5, <1>6 DEF Next

(* Whatever the interleaving of asks, approvals, denials, expiries and      *)
(* crashes, the queue's answers are those of single-use tokens.            *)
THEOREM SingleUse == Spec => ImplementsOneTimePermit
<1>1. Init => Promise!Init
  <2>1. Init => \A d \in Digest : (tickets[d].status = "approved") = FALSE
    BY DEF Init, NoTicket
  <2>2. Init => permits = [d \in Digest |-> 0]
    BY DEF Init
  <2> QED BY <2>1, <2>2, Zenon DEF Promise!Init
<1>2. TypeOK /\ [Next]_vars =>
        [Promise!Next]_<<[d \in Digest |-> tickets[d].status = "approved"], permits>>
  BY StepImplements, Zenon
     DEF CreditStep, Gain, Drop, Credit, Promise!Next, Promise!Earn, Promise!Lose, Promise!Spend
<1> QED BY <1>1, <1>2, TypeCorrect, PTL DEF Spec, ImplementsOneTimePermit, Promise!Spec
=============================================================================
