----------------------- MODULE EffectorBoundary_proofs -----------------------
(***************************************************************************)
(* What holds at the boundary for any number of calls, digests, operators   *)
(* and fused verdicts: executions are audited, escalated ones are paid for *)
(* by approvals of as many operators as the verdict requires, and a halt   *)
(* stops the calls made after it; also when the authorised workflow uses    *)
(* the same queue, whose report is true.                                   *)
(***************************************************************************)
EXTENDS AuthorisedWorkflow, ApprovalTicket_proofs, FiniteSetTheorems

LEMMA RequestFields ==
  ASSUME NEW q \in Requests
  PROVE  /\ q.digest \in Digest
         /\ q.dry_run \in BOOLEAN
         /\ RequiredApprovals(q.fused.verdict) \in Nat \ {0}
<1>1. q.fused.verdict \in Verdict
  BY DEF Requests, Request, FusedVerdict
<1> QED BY <1>1, RequiredType DEF Requests, Request

LEMMA RecordType ==
  ASSUME NEW c \in Call, req[c] \in Requests, NEW ok \in BOOLEAN, NEW esc \in BOOLEAN
  PROVE  RecordOf(c, ok, esc) \in AuditRecord
BY RequestFields DEF RecordOf, AuditRecord

LEMMA AskTypes ==
  ASSUME TypeOK, NEW d \in Digest, NEW need \in Nat \ {0}, Ask(d, need)
  PROVE  tickets' \in [Digest -> Ticket] /\ consents' \in [Digest -> SUBSET Consent]
<1>1. tickets \in [Digest -> Ticket] /\ consents \in [Digest -> SUBSET Consent] /\ now \in Nat
  BY DEF TypeOK
<1>2. AfterRequest(tickets[d], need, now) \in Ticket
  BY <1>1, AfterRequestType
<1>3. tickets' \in [Digest -> Ticket]
  BY <1>1, <1>2 DEF Ask
<1>4. consents' = [consents EXCEPT ![d] = {}] \/ consents' = consents
  BY <1>1 DEF Ask
<1> QED BY <1>1, <1>3, <1>4

LEMMA TypeInit == Init => TypeOK
<1> SUFFICES ASSUME Init PROVE TypeOK
  OBVIOUS
<1>1. /\ halted \in BOOLEAN /\ now \in Nat /\ trail \in SUBSET AuditRecord
      /\ executed \subseteq Call /\ barred \subseteq Call /\ spent \subseteq Call
  BY DEF Init
<1>2. tickets \in [Digest -> Ticket] /\ granted \in [Digest -> Nat]
  BY NoTicketType DEF Init
<1>5. consents \in [Digest -> SUBSET Consent]
  BY DEF Init
<1>3. req \in [Call -> Requests \cup {NoRequest}] /\ permitted \in [Call -> BOOLEAN]
  BY DEF Init
<1>4. /\ pc \in [Call -> {"new", "check", "halting", "review", "audit", "dispatch", "done"}]
      /\ \A c \in Call : pc[c] = "new"
  BY DEF Init
<1> QED BY <1>1, <1>2, <1>3, <1>4, <1>5 DEF TypeOK

LEMMA TypeNext == TypeOK /\ [Next]_vars => TypeOK'
<1> SUFFICES ASSUME TypeOK, [Next]_vars PROVE TypeOK'
  OBVIOUS
<1> USE DEF TypeOK, world, Goto
<1>1. ASSUME NEW c \in Call, NEW q \in Requests, Submit(c, q)
      PROVE  TypeOK'
  BY <1>1 DEF Submit
<1>2. ASSUME NEW c \in Call, CheckHalt(c) \/ CheckHaltFails(c)
      PROVE  TypeOK'
  BY <1>2 DEF CheckHalt, CheckHaltFails
<1>3. ASSUME NEW c \in Call, Review(c)
      PROVE  TypeOK'
  <2>1. req[c] \in Requests
    BY <1>3 DEF Review
  <2>2. \/ Ask(req[c].digest, RequiredApprovals(req[c].fused.verdict))
        \/ UNCHANGED <<tickets, consents>>
    BY <1>3 DEF Review
  <2>3. tickets' \in [Digest -> Ticket] /\ consents' \in [Digest -> SUBSET Consent]
    BY <2>1, <2>2, RequestFields, AskTypes
  <2>4. permitted' \in [Call -> BOOLEAN]
    BY <1>3 DEF Review
  <2>5. /\ pc' = [pc EXCEPT ![c] = "audit"] /\ req' = req
        /\ spent' \subseteq Call
        /\ UNCHANGED <<halted, now, granted, trail, executed, barred>>
    BY <1>3 DEF Review
  <2> QED BY <2>1, <2>3, <2>4, <2>5
<1>4. ASSUME NEW c \in Call, AuditHalt(c)
      PROVE  TypeOK'
  BY <1>4, RecordType DEF AuditHalt
<1>5. ASSUME NEW c \in Call, pc[c] = "audit"
      PROVE  Decided(c) \in AuditRecord
  BY <1>5, RecordType DEF Decided
<1>6. ASSUME NEW c \in Call, Audit(c)
      PROVE  TypeOK'
  <2>1. trail' \in SUBSET AuditRecord
    BY <1>5, <1>6 DEF Audit
  <2> QED BY <1>6, <2>1 DEF Audit
<1>7. ASSUME NEW c \in Call, AuditFails(c)
      PROVE  TypeOK'
  <2>1. trail' \in SUBSET AuditRecord
    BY <1>5, <1>7, RecordType DEF AuditFails
  <2> QED BY <1>7, <2>1 DEF AuditFails
<1>8. ASSUME NEW c \in Call, Execute(c)
      PROVE  TypeOK'
  BY <1>8 DEF Execute
<1>9. CASE Crash
  BY <1>9 DEF Crash
<1>10. ASSUME NEW d \in Digest, NEW who \in Approver, Approve(d, who)
       PROVE  TypeOK'
  <2>1. Approved(tickets[d], who, now) \in Ticket
    BY ApprovedType
  <2>2. [who |-> who, at |-> now] \in Consent
    BY DEF Consent
  <2>3. tickets' \in [Digest -> Ticket] /\ consents' \in [Digest -> SUBSET Consent]
    BY <1>10, <2>1, <2>2 DEF Approve
  <2>4. granted' \in [Digest -> Nat]
    BY <1>10 DEF Approve
  <2>5. UNCHANGED <<halted, now, trail, pc, req, permitted, executed, barred, spent>>
    BY <1>10 DEF Approve
  <2> QED BY <2>3, <2>4, <2>5
<1>11. ASSUME NEW d \in Digest, Deny(d)
       PROVE  TypeOK'
  <2>1. Denied(tickets[d]) \in Ticket
    BY DeniedType
  <2> QED BY <1>11, <2>1 DEF Deny
<1>12. CASE Halt \/ Resume \/ Tick
  <2>1. /\ UNCHANGED <<tickets, granted, consents, trail, pc, req, permitted, executed, spent>>
        /\ halted' \in BOOLEAN
    BY <1>12 DEF Halt, Resume, Tick
  <2>2. now' \in Nat
    BY <1>12 DEF Halt, Resume, Tick
  <2>3. barred' \subseteq Call
    BY <1>12 DEF Halt, Resume, Tick
  <2> QED BY <2>1, <2>2, <2>3
<1>13. CASE UNCHANGED vars
  BY <1>13 DEF vars
<1>14. ASSUME NEW c \in Call, ReviewFails(c)
       PROVE  TypeOK'
  <2> DEFINE d == req[c].digest
             need == RequiredApprovals(req[c].fused.verdict)
  <2>1. req[c] \in Requests
    BY <1>14 DEF ReviewFails
  <2>2. d \in Digest /\ need \in Nat \ {0} /\ Raised(tickets[d], need) \in Ticket
    BY <2>1, RequestFields, RaisedType
  <2>5. \/ Ask(d, need)
        \/ /\ tickets' = [tickets EXCEPT ![d] = Raised(tickets[d], need)] \/ tickets' = tickets
           /\ consents' = consents
    BY <1>14 DEF ReviewFails
  <2>3. tickets' \in [Digest -> Ticket] /\ consents' \in [Digest -> SUBSET Consent]
    <3>1. CASE Ask(d, need)
      BY <2>2, <3>1, AskTypes
    <3>2. CASE ~Ask(d, need)
      <4> HIDE DEF d, need
      <4> QED BY <2>2, <2>5, <3>2
    <3> QED BY <3>1, <3>2
  <2>4. /\ pc' = [pc EXCEPT ![c] = "done"]
        /\ UNCHANGED <<halted, now, granted, trail, req, permitted, executed, barred, spent>>
    BY <1>14 DEF ReviewFails
  <2> QED BY <2>3, <2>4
<1> QED
  BY <1>1, <1>2, <1>3, <1>4, <1>6, <1>7, <1>8, <1>9, <1>10, <1>11, <1>12, <1>13, <1>14 DEF Next

THEOREM BoundaryTypeCorrect == Spec => []TypeOK
BY TypeInit, TypeNext, PTL DEF Spec

-----------------------------------------------------------------------------
Audited(c) == \E r \in trail : r.call = c /\ r.permitted /\ r.digest = req[c].digest

(* A call is cleared from the moment its record is on disk.                *)
AuditInv ==
  /\ \A c \in executed : pc[c] = "done" /\ Audited(c)
  /\ \A c \in Call : pc[c] = "dispatch" => Audited(c)

LEMMA AuditNext == TypeOK /\ AuditInv /\ [Next]_vars => AuditInv'
<1> SUFFICES ASSUME TypeOK, AuditInv, [Next]_vars PROVE AuditInv'
  OBVIOUS
<1> USE DEF TypeOK, AuditInv, Audited, world, Goto
<1>1. ASSUME NEW c \in Call, NEW q \in Requests, Submit(c, q)
      PROVE  AuditInv'
  BY <1>1 DEF Submit
<1>2. ASSUME NEW c \in Call, CheckHalt(c) \/ CheckHaltFails(c) \/ Review(c) \/ ReviewFails(c)
      PROVE  AuditInv'
  <2>1. /\ UNCHANGED <<trail, req, executed>> /\ pc[c] # "done"
        /\ pc' = [pc EXCEPT ![c] = pc'[c]] /\ pc'[c] # "dispatch"
    BY <1>2 DEF CheckHalt, CheckHaltFails, Review, ReviewFails
  <2> QED BY <2>1
<1>3. ASSUME NEW c \in Call, AuditHalt(c) \/ AuditFails(c)
      PROVE  AuditInv'
  <2>1. /\ UNCHANGED <<req, executed>> /\ pc' = [pc EXCEPT ![c] = "done"]
        /\ trail \subseteq trail'
    BY <1>3 DEF AuditHalt, AuditFails
  <2> QED BY <2>1
<1>4. ASSUME NEW c \in Call, Audit(c)
      PROVE  AuditInv'
  <2>1. /\ UNCHANGED <<req, executed>> /\ trail' = trail \cup {Decided(c)}
        /\ pc[c] = "audit"
        /\ pc' = [pc EXCEPT ![c] = IF permitted[c] /\ ~req[c].dry_run THEN "dispatch" ELSE "done"]
    BY <1>4 DEF Audit
  <2>2. permitted[c] => Audited(c)'
    <3>1. /\ Decided(c).call = c /\ Decided(c).permitted = permitted[c]
          /\ Decided(c).digest = req[c].digest
      BY DEF Decided, RecordOf
    <3>2. Decided(c) \in trail' /\ req' = req
      BY <2>1
    <3> HIDE DEF TypeOK, AuditInv
    <3> QED BY <3>1, <3>2, Zenon
  <2>3. pc'[c] = "dispatch" => permitted[c]
    BY <2>1
  <2>4. \A b \in Call : b # c => pc'[b] = pc[b]
    BY <2>1
  <2>5. \A b \in Call : Audited(b) => Audited(b)'
    BY <2>1
  <2>6. c \notin executed
    BY <2>1
  <2>7. \A b \in executed' : pc'[b] = "done" /\ Audited(b)'
    BY <2>1, <2>4, <2>5, <2>6
  <2>8. \A b \in Call : pc'[b] = "dispatch" => Audited(b)'
    BY <2>2, <2>3, <2>4, <2>5
  <2> QED BY <2>7, <2>8
<1>5. ASSUME NEW c \in Call, Execute(c)
      PROVE  AuditInv'
  BY <1>5 DEF Execute
<1>6. CASE Crash
  BY <1>6 DEF Crash
<1>7. CASE Halt \/ Resume \/ Tick \/ (\E d \in Digest : Deny(d))
           \/ (\E d \in Digest, who \in Approver : Approve(d, who)) \/ UNCHANGED vars
  <2>1. UNCHANGED <<trail, req, executed, pc>>
    BY <1>7 DEF Halt, Resume, Tick, Deny, Approve, vars
  <2> QED BY <2>1
<1> QED BY <1>1, <1>2, <1>3, <1>4, <1>5, <1>6, <1>7 DEF Next

(* Nothing runs before its permitted record is durable, whatever fails.     *)
THEOREM AuditFirst == Spec => []ExecutedIsAudited
<1>1. Init => AuditInv
  BY DEF Init, AuditInv
<1>2. AuditInv => ExecutedIsAudited
  BY DEF AuditInv, ExecutedIsAudited, Audited
<1> QED BY <1>1, <1>2, TypeInit, TypeNext, AuditNext, PTL DEF Spec

-----------------------------------------------------------------------------
(* A call made since the halt can only be turned away.                     *)
HaltInv ==
  /\ barred # {} => halted
  /\ \A c \in barred : pc[c] \in {"check", "halting", "done"}

LEMMA HaltNext == TypeOK /\ HaltInv /\ [Next]_vars => HaltInv'
<1> SUFFICES ASSUME TypeOK, HaltInv, [Next]_vars PROVE HaltInv'
  OBVIOUS
<1> USE DEF TypeOK, HaltInv, world, Goto
<1>1. ASSUME NEW c \in Call, NEW q \in Requests, Submit(c, q)
      PROVE  HaltInv'
  BY <1>1 DEF Submit
<1>2. ASSUME NEW c \in Call, CheckHalt(c) \/ CheckHaltFails(c)
      PROVE  HaltInv'
  BY <1>2 DEF CheckHalt, CheckHaltFails
<1>3. ASSUME NEW c \in Call, Review(c) \/ ReviewFails(c) \/ AuditHalt(c) \/ Audit(c)
                              \/ AuditFails(c) \/ Execute(c)
      PROVE  HaltInv'
  <2>1. UNCHANGED <<halted, barred>> /\ pc' = [pc EXCEPT ![c] = pc'[c]]
    BY <1>3 DEF Review, ReviewFails, AuditHalt, Audit, AuditFails, Execute
  <2>2. pc[c] \in {"review", "audit", "dispatch"} \/ pc'[c] = "done"
    BY <1>3 DEF Review, ReviewFails, AuditHalt, Audit, AuditFails, Execute
  <2> QED BY <2>1, <2>2
<1>4. CASE Crash
  BY <1>4 DEF Crash
<1>5. CASE Halt \/ Resume \/ Tick
  BY <1>5 DEF Halt, Resume, Tick
<1>6. CASE (\E d \in Digest : Deny(d))
           \/ (\E d \in Digest, who \in Approver : Approve(d, who)) \/ UNCHANGED vars
  <2>1. UNCHANGED <<halted, barred, pc>>
    BY <1>6 DEF Deny, Approve, vars
  <2> QED BY <2>1
<1> QED BY <1>1, <1>2, <1>3, <1>4, <1>5, <1>6 DEF Next

(* No call made after a persisted halt executes before a resume.            *)
THEOREM HaltEffective == Spec => HaltHolds
<1>1. Init => HaltInv
  BY DEF Init, HaltInv
<1>2. HaltInv /\ [Next]_vars => [\A c \in Call : Execute(c) => c \notin barred]_vars
  BY DEF HaltInv, Execute
<1> QED BY <1>1, <1>2, TypeInit, TypeNext, HaltNext, PTL DEF Spec, HaltHolds

-----------------------------------------------------------------------------
LEMMA AskStatus ==
  ASSUME NEW t \in Ticket, NEW need \in Nat \ {0}, NEW time \in Nat
  PROVE  /\ Permits(t, need, time) =>
              t.status = "approved" /\ AfterRequest(t, need, time).status = "consumed"
         /\ AfterRequest(t, need, time).status = "approved" => t.status = "approved"
<1>1. Raised(t, need) \in Ticket /\ Raised(t, need).status = t.status
  BY RaisedType
<1>2. [Raised(t, need) EXCEPT !.status = "consumed"].status = "consumed"
  BY <1>1 DEF Ticket
<1>3. Permits(t, need, time) => t.status = "approved"
  BY <1>1 DEF Permits, Consumable
<1>4. Opened(need).status = "pending"
  BY DEF Opened
<1> QED BY <1>1, <1>2, <1>3, <1>4, AfterRequestCases

Escalated(c) == req[c].fused.route = "human"

SpentOn(d) == {c \in spent : req[c].digest = d}

Unused(d) == IF tickets[d].status = "approved" THEN 1 ELSE 0

(* Every completed ticket pays for at most one call: the ticket is still    *)
(* approved, or one call spent it.  An escalated call that gets past its    *)
(* review is one that spent a ticket.                                      *)
PaidInv ==
  /\ \A c \in spent : pc[c] \in {"audit", "dispatch", "done"}
  /\ \A c \in Call : pc[c] = "audit" /\ permitted[c] /\ Escalated(c) => c \in spent
  /\ \A c \in Call : pc[c] = "dispatch" /\ Escalated(c) => c \in spent
  /\ \A c \in executed : pc[c] = "done" /\ (Escalated(c) => c \in spent)

(* The tickets of a digest pay for k runs more. *)
Covers(d, k) == Cardinality(SpentOn(d)) + Unused(d) + k <= granted[d]

Balanced == \A d \in Digest : Covers(d, 0)

LEMMA PaidNext == TypeOK /\ PaidInv /\ [Next]_vars => PaidInv'
<1> SUFFICES ASSUME TypeOK, PaidInv, [Next]_vars PROVE PaidInv'
  OBVIOUS
<1> USE DEF TypeOK, PaidInv, Escalated, world, Goto
<1>1. ASSUME NEW c \in Call, NEW q \in Requests, Submit(c, q)
      PROVE  PaidInv'
  BY <1>1 DEF Submit
<1>2. ASSUME NEW c \in Call, CheckHalt(c)
      PROVE  PaidInv'
  BY <1>2 DEF CheckHalt
<1>3. ASSUME NEW c \in Call, Review(c)
      PROVE  PaidInv'
  <2>1. /\ pc[c] = "review" /\ pc' = [pc EXCEPT ![c] = "audit"]
        /\ UNCHANGED <<req, executed>>
        /\ spent' \in {spent, spent \cup {c}}
        /\ \A b \in Call : b # c => permitted'[b] = permitted[b]
        /\ permitted'[c] /\ Escalated(c) => c \in spent'
    BY <1>3 DEF Review
  <2> QED BY <2>1
<1>4. ASSUME NEW c \in Call,
             CheckHaltFails(c) \/ ReviewFails(c) \/ AuditHalt(c) \/ AuditFails(c)
      PROVE  PaidInv'
  <2>1. pc' = [pc EXCEPT ![c] = "done"] /\ UNCHANGED <<req, executed, spent, permitted>>
    BY <1>4 DEF CheckHaltFails, ReviewFails, AuditHalt, AuditFails
  <2> QED BY <2>1
<1>5. ASSUME NEW c \in Call, Audit(c)
      PROVE  PaidInv'
  <2>1. /\ pc[c] = "audit" /\ UNCHANGED <<req, executed, spent, permitted>>
        /\ pc' = [pc EXCEPT ![c] = IF permitted[c] /\ ~req[c].dry_run THEN "dispatch" ELSE "done"]
    BY <1>5 DEF Audit
  <2> QED BY <2>1
<1>6. ASSUME NEW c \in Call, Execute(c)
      PROVE  PaidInv'
  BY <1>6 DEF Execute
<1>7. CASE Crash
  BY <1>7 DEF Crash
<1>8. CASE Halt \/ Resume \/ Tick \/ (\E d \in Digest : Deny(d))
           \/ (\E d \in Digest, who \in Approver : Approve(d, who)) \/ UNCHANGED vars
  <2>1. UNCHANGED <<pc, req, executed, spent, permitted>>
    BY <1>8 DEF Halt, Resume, Tick, Deny, Approve, vars
  <2> QED BY <2>1
<1> QED BY <1>1, <1>2, <1>3, <1>4, <1>5, <1>6, <1>7, <1>8 DEF Next

LEMMA SpentFinite ==
  ASSUME TypeOK, NEW d
  PROVE  IsFiniteSet(SpentOn(d)) /\ Cardinality(SpentOn(d)) \in Nat
<1>1. SpentOn(d) \subseteq Call
  BY DEF SpentOn, TypeOK
<1> QED BY <1>1, CallAssumption, FS_Subset, FS_CardinalityType

(* The balance only looks at what was spent, what is approved and what was *)
(* granted.                                                                *)
LEMMA BalanceKept ==
  ASSUME TypeOK, NEW d \in Digest, NEW k \in Nat, Covers(d, k),
         SpentOn(d)' = SpentOn(d), granted'[d] >= granted[d], granted'[d] \in Nat,
         tickets'[d].status = "approved" => \/ tickets[d].status = "approved"
                                            \/ granted'[d] > granted[d]
  PROVE  Covers(d, k)'
BY SpentFinite DEF Covers, Unused, TypeOK

LEMMA CoversNext ==
  ASSUME TypeOK, PaidInv, [Next]_vars, NEW d \in Digest, NEW k \in Nat, Covers(d, k)
  PROVE  Covers(d, k)'
<1> DEFINE Goal == Covers(d, k)'
<1>1. ASSUME NEW c \in Call, NEW q \in Requests, Submit(c, q)
      PROVE  Goal
  <2>1. c \notin spent /\ spent' = spent /\ \A b \in Call : b # c => req'[b] = req[b]
    BY <1>1 DEF Submit, PaidInv, TypeOK
  <2>2. SpentOn(d)' = SpentOn(d)
    BY <2>1 DEF SpentOn, TypeOK
  <2>3. UNCHANGED <<tickets, granted>>
    BY <1>1 DEF Submit, world
  <2> QED BY <2>2, <2>3, BalanceKept DEF TypeOK
<1>2. ASSUME NEW c \in Call, Review(c)
      PROVE  Goal
  <2> DEFINE e == req[c].digest
             need == RequiredApprovals(req[c].fused.verdict)
  <2>1. pc[c] = "review" /\ req[c] \in Requests /\ req' = req /\ granted' = granted
    BY <1>2 DEF Review, TypeOK
  <2>2. e \in Digest /\ need \in Nat \ {0} /\ tickets[e] \in Ticket /\ now \in Nat
    BY <2>1, RequestFields DEF TypeOK
  <2>3. \/ tickets' = tickets
        \/ tickets' = [tickets EXCEPT ![e] = AfterRequest(tickets[e], need, now)]
    BY <1>2 DEF Review, Ask
  <2>4. c \notin spent
    BY <2>1 DEF PaidInv
  <2>5. CASE spent' = spent
    <3>1. SpentOn(d)' = SpentOn(d)
      BY <2>1, <2>5 DEF SpentOn
    <3>2. tickets'[d].status = "approved" => tickets[d].status = "approved"
      <4>1. AfterRequest(tickets[e], need, now).status = "approved" => tickets[e].status = "approved"
        BY <2>2, AskStatus
      <4>2. tickets \in [Digest -> Ticket]
        BY DEF TypeOK
      <4> HIDE DEF e, need
      <4> QED BY <2>2, <2>3, <4>1, <4>2
    <3> QED BY <2>1, <3>1, <3>2, BalanceKept DEF TypeOK
  <2>6. CASE spent' # spent
    <3>1. /\ spent' = spent \cup {c} /\ Permits(tickets[e], need, now)
          /\ tickets' = [tickets EXCEPT ![e] = AfterRequest(tickets[e], need, now)]
      <4>1. spent' = spent \cup {c} /\ Permits(tickets[e], need, now) /\ Ask(e, need)
        BY <1>2, <2>6 DEF Review
      <4> QED BY <4>1 DEF Ask
    <3>2. CASE d = e
      <4>1. SpentOn(d)' = SpentOn(d) \cup {c} /\ c \notin SpentOn(d)
        BY <2>1, <2>4, <3>1, <3>2 DEF SpentOn
      <4>2. Cardinality(SpentOn(d)') = Cardinality(SpentOn(d)) + 1
        BY <4>1, SpentFinite, FS_AddElement
      <4>3. tickets[d].status = "approved" /\ tickets'[d].status = "consumed"
        BY <2>2, <3>1, <3>2, AskStatus DEF TypeOK
      <4>4. Unused(d) = 1 /\ Unused(d)' = 0
        BY <4>3 DEF Unused
      <4>5. Cardinality(SpentOn(d)) + Unused(d) + k <= granted[d]
        BY DEF Covers
      <4> QED BY <2>1, <4>2, <4>4, <4>5, SpentFinite DEF Covers
    <3>3. CASE d # e
      <4>1. SpentOn(d)' = SpentOn(d)
        BY <2>1, <3>1, <3>3 DEF SpentOn
      <4>2. tickets'[d] = tickets[d]
        BY <3>1, <3>3 DEF TypeOK
      <4> QED BY <2>1, <4>1, <4>2, BalanceKept DEF TypeOK
    <3> QED BY <3>2, <3>3
  <2> QED BY <2>5, <2>6
<1>3. ASSUME NEW b \in Digest, NEW who \in Approver, Approve(b, who)
      PROVE  Goal
  <2>1. UNCHANGED <<spent, req>>
    BY <1>3 DEF Approve
  <2>2. SpentOn(d)' = SpentOn(d)
    BY <2>1 DEF SpentOn
  <2>3. /\ granted' \in [Digest -> Nat] /\ granted'[d] >= granted[d]
        /\ tickets'[d].status = "approved" =>
             tickets[d].status = "approved" \/ granted'[d] > granted[d]
    <3>1. CASE b = d
      BY <1>3, <3>1 DEF Approve, TypeOK
    <3>2. CASE b # d
      BY <1>3, <3>2 DEF Approve, TypeOK
    <3> QED BY <3>1, <3>2
  <2> QED BY <2>2, <2>3, BalanceKept
<1>4. ASSUME NEW b \in Digest, Deny(b)
      PROVE  Goal
  <2>1. UNCHANGED <<spent, req, granted>>
    BY <1>4 DEF Deny
  <2>2. SpentOn(d)' = SpentOn(d)
    BY <2>1 DEF SpentOn
  <2>3. Denied(tickets[b]).status = "denied"
    BY DeniedType DEF TypeOK
  <2>4. tickets'[d].status = "approved" => tickets[d].status = "approved"
    BY <1>4, <2>3 DEF Deny, TypeOK
  <2> QED BY <2>1, <2>2, <2>4, BalanceKept DEF TypeOK
<1>5. ASSUME UNCHANGED <<spent, req, granted, tickets>>
      PROVE  Goal
  <2>1. SpentOn(d)' = SpentOn(d)
    BY <1>5 DEF SpentOn
  <2> QED BY <1>5, <2>1, BalanceKept DEF TypeOK
<1>6. ASSUME NEW c \in Call,
             \/ CheckHalt(c) \/ CheckHaltFails(c) \/ AuditHalt(c) \/ Audit(c)
             \/ AuditFails(c) \/ Execute(c)
      PROVE  UNCHANGED <<spent, req, granted, tickets>>
  BY <1>6 DEF CheckHalt, CheckHaltFails, AuditHalt, Audit, AuditFails, Execute, world
<1>7. CASE Crash \/ Halt \/ Resume \/ Tick \/ UNCHANGED vars
  <2>1. UNCHANGED <<spent, req, granted, tickets>>
    BY <1>7 DEF Crash, Halt, Resume, Tick, vars, world
  <2> QED BY <1>5, <2>1
<1>8. ASSUME NEW c \in Call, ReviewFails(c)
      PROVE  Goal
  <2> DEFINE e == req[c].digest
             need == RequiredApprovals(req[c].fused.verdict)
  <2>1. pc[c] = "review" /\ req[c] \in Requests /\ UNCHANGED <<spent, req, granted>>
    BY <1>8 DEF ReviewFails, TypeOK
  <2>2. e \in Digest /\ need \in Nat \ {0} /\ tickets[e] \in Ticket /\ now \in Nat
    BY <2>1, RequestFields DEF TypeOK
  <2>3. \/ tickets' = tickets
        \/ tickets' = [tickets EXCEPT ![e] = Raised(tickets[e], need)]
        \/ tickets' = [tickets EXCEPT ![e] = AfterRequest(tickets[e], need, now)]
    BY <1>8 DEF ReviewFails, Ask
  <2>4. SpentOn(d)' = SpentOn(d)
    BY <2>1 DEF SpentOn
  <2>5. tickets'[d].status = "approved" => tickets[d].status = "approved"
    <3>1. Raised(tickets[e], need).status = tickets[e].status
      BY <2>2, RaisedType
    <3>2. AfterRequest(tickets[e], need, now).status = "approved" => tickets[e].status = "approved"
      BY <2>2, AskStatus
    <3>3. CASE d = e
      <4> HIDE DEF e, need
      <4> QED BY <2>2, <2>3, <3>1, <3>2, <3>3 DEF TypeOK
    <3>4. CASE d # e
      <4> HIDE DEF e, need
      <4> QED BY <2>3, <3>4 DEF TypeOK
    <3> QED BY <3>3, <3>4
  <2> QED BY <2>1, <2>4, <2>5, BalanceKept DEF TypeOK
<1> QED BY <1>1, <1>2, <1>3, <1>4, <1>5, <1>6, <1>7, <1>8 DEF Next

LEMMA BalanceNext == TypeOK /\ PaidInv /\ Balanced /\ [Next]_vars => Balanced'
BY CoversNext DEF Balanced

LEMMA BalancePays == TypeOK /\ PaidInv /\ Balanced => ExecutionsPaid
<1> SUFFICES ASSUME TypeOK, PaidInv, Balanced, NEW d \in Digest
             PROVE  Cardinality({c \in executed : req[c].digest = d /\ req[c].fused.route = "human"})
                      <= granted[d]
  BY DEF ExecutionsPaid
<1> DEFINE escalated == {c \in executed : req[c].digest = d /\ req[c].fused.route = "human"}
<1>1. escalated \subseteq SpentOn(d)
  BY DEF PaidInv, SpentOn, Escalated
<1>2. Cardinality(escalated) \in Nat /\ Cardinality(escalated) <= Cardinality(SpentOn(d))
  BY <1>1, SpentFinite, FS_Subset, FS_CardinalityType
<1>3. Cardinality(SpentOn(d)) <= granted[d]
  BY SpentFinite DEF Balanced, Covers, Unused, TypeOK
<1>4. Cardinality(SpentOn(d)) \in Nat /\ granted[d] \in Nat
  BY SpentFinite DEF TypeOK
<1>5. Cardinality(escalated) <= granted[d]
  <2> HIDE DEF escalated
  <2> QED BY <1>2, <1>3, <1>4
<1> QED BY <1>5

(* Escalated executions of a digest never outnumber the tickets completed   *)
(* for it, however many calls share the digest.                            *)
THEOREM Paid == Spec => []ExecutionsPaid
<1>1. Init => PaidInv /\ Balanced
  <2> SUFFICES ASSUME Init PROVE PaidInv /\ Balanced
    OBVIOUS
  <2>1. PaidInv
    BY DEF Init, PaidInv
  <2>2. ASSUME NEW d \in Digest
        PROVE  Covers(d, 0)
    <3>1. tickets[d].status = "none" /\ granted[d] = 0
      BY DEF Init, NoTicket
    <3>2. SpentOn(d) = {}
      BY DEF Init, SpentOn
    <3>3. Cardinality(SpentOn(d)) = 0
      BY <3>2, FS_EmptySet
    <3>4. Unused(d) = 0
      BY <3>1 DEF Unused
    <3> QED BY <3>1, <3>3, <3>4 DEF Covers
  <2> QED BY <2>1, <2>2 DEF Balanced
<1> QED BY <1>1, TypeInit, TypeNext, PaidNext, BalanceNext, BalancePays, PTL DEF Spec

-----------------------------------------------------------------------------
(* The authorised workflow beside the calls of the boundary.  What it does   *)
(* to the files is what some call or operator may do, or a review of its    *)
(* own command.                                                            *)

LEMMA WorkflowSteps ==
  ASSUME Workflow
  PROVE  [Next]_vars \/ ReviewShell
<1>1. CASE Initial \/ \E run \in {"approved", "replay"} : Runs(run)
  BY <1>1 DEF Initial, Runs
<1>2. ASSUME NEW who \in Approver, ApproveOwn(who)
      PROVE  [Next]_vars
  <2>1. CASE CanApprove(tickets[Shell], who)
    <3>1. Approve(Shell, who)
      BY <1>2, <2>1 DEF ApproveOwn, Approve
    <3> QED BY <3>1, ShellAssumption DEF Next
  <2>2. CASE ~CanApprove(tickets[Shell], who)
    BY <1>2, <2>2 DEF ApproveOwn, vars, world
  <2> QED BY <2>1, <2>2
<1>3. CASE \/ WorkflowDies \/ InspectOpened
           \/ \E run \in {"approved", "replay"} : ExecuteShell(run) \/ Inspect(run)
  BY <1>3 DEF WorkflowDies, InspectOpened, ExecuteShell, Inspect
<1> QED BY <1>1, <1>2, <1>3 DEF Workflow

LEMMA NeedType ==
  ASSUME judged \in Fused[Shell]
  PROVE  Need \in Nat \ {0}
<1>1. judged.verdict \in Verdict
  BY FusedAssumption, ShellAssumption DEF FusedVerdict
<1> QED BY <1>1, RequiredType DEF Need

(* A review of the command keeps what the tickets cover; when it is a yes,  *)
(* they cover its run besides.                                             *)
LEMMA ReviewShellCovers ==
  ASSUME TypeOK, judged \in Fused[Shell], ReviewShell, NEW k \in Nat
  PROVE  /\ \A d \in Digest : Covers(d, k) => Covers(d, k)'
         /\ Yes /\ Covers(Shell, k) => Covers(Shell, k + 1)'
<1>1. /\ Need \in Nat \ {0} /\ Shell \in Digest /\ now \in Nat
      /\ tickets[Shell] \in Ticket /\ tickets \in [Digest -> Ticket]
      /\ granted \in [Digest -> Nat]
  BY NeedType, ShellAssumption DEF TypeOK
<1>2. UNCHANGED <<spent, req, granted>> /\ \A d : SpentOn(d)' = SpentOn(d)
  BY DEF ReviewShell, SpentOn
<1>3. \/ tickets' = tickets /\ ~Yes
      \/ tickets' = [tickets EXCEPT ![Shell] = AfterRequest(tickets[Shell], Need, now)]
  BY DEF ReviewShell, Yes, Ask
<1>4. /\ Permits(tickets[Shell], Need, now) =>
           /\ tickets[Shell].status = "approved"
           /\ AfterRequest(tickets[Shell], Need, now).status = "consumed"
      /\ AfterRequest(tickets[Shell], Need, now).status = "approved" =>
           tickets[Shell].status = "approved"
  BY <1>1, AskStatus
<1>5. ASSUME NEW d \in Digest, Covers(d, k)
      PROVE  Covers(d, k)'
  <2>1. tickets'[d].status = "approved" => tickets[d].status = "approved"
    <3>1. CASE d = Shell
      BY <1>1, <1>3, <1>4, <3>1
    <3>2. CASE d # Shell
      BY <1>1, <1>3, <3>2
    <3> QED BY <3>1, <3>2
  <2> QED BY <1>1, <1>2, <1>5, <2>1, BalanceKept
<1>6. ASSUME Yes, Covers(Shell, k)
      PROVE  Covers(Shell, k + 1)'
  <2>1. Permits(tickets[Shell], Need, now)
    BY <1>6 DEF Yes
  <2>2. Unused(Shell) = 1 /\ Unused(Shell)' = 0
    BY <1>1, <1>3, <1>4, <1>6, <2>1 DEF Unused
  <2>3. Cardinality(SpentOn(Shell)) \in Nat /\ granted[Shell] \in Nat
    BY <1>1, SpentFinite
  <2> QED BY <1>2, <1>6, <2>2, <2>3 DEF Covers
<1> QED BY <1>5, <1>6

(* Runs of the workflow that a ticket was used for. *)
Own == ran \cup (IF step = "execute approved" THEN {"approved"} ELSE {})
           \cup (IF step = "execute replay" THEN {"replay"} ELSE {})

Planned ==
  /\ judged \in Fused[Shell]
  /\ ran \subseteq {"approved", "replay"}
  /\ step \in {"initial", "opened", "approve", "approved", "execute approved"} => ran = {}
  /\ step \in {"after approved", "replay", "execute replay"} => ran \subseteq {"approved"}

SharedBalance == judged.route = "human" => Covers(Shell, Cardinality(Own))

WorkInv ==
  TypeOK /\ AuditInv /\ HaltInv /\ PaidInv /\ Balanced /\ Planned /\ SharedBalance

LEMMA RunsFinite ==
  ASSUME NEW S, S \subseteq {"approved", "replay"}
  PROVE  IsFiniteSet(S) /\ Cardinality(S) \in Nat
<1>1. IsFiniteSet({"approved"})
  BY FS_Singleton
<1>2. {"approved", "replay"} = {"approved"} \cup {"replay"}
  OBVIOUS
<1>3. IsFiniteSet({"approved", "replay"})
  BY <1>1, <1>2, FS_AddElement
<1> QED BY <1>3, FS_Subset, FS_CardinalityType

LEMMA OwnFinite ==
  ASSUME Planned
  PROVE  IsFiniteSet(Own) /\ Cardinality(Own) \in Nat
<1>1. Own \subseteq {"approved", "replay"}
  BY DEF Own, Planned
<1> QED BY <1>1, RunsFinite

LEMMA RunNames ==
  ASSUME NEW run \in {"approved", "replay"}
  PROVE  \/ /\ run = "approved"
            /\ Executing[run] = "execute approved" /\ After[run] = "after approved"
         \/ /\ run = "replay"
            /\ Executing[run] = "execute replay" /\ After[run] = "after replay"
<1>1. Executing["approved"] = "execute approved" /\ Executing["replay"] = "execute replay"
  BY DEF Executing
<1>2. After["approved"] = "after approved" /\ After["replay"] = "after replay"
  BY DEF After
<1> QED BY <1>1, <1>2

LEMMA PlannedNext ==
  ASSUME Planned, [WorkNext]_<<vars, workVars>>
  PROVE  Planned'
<1> USE DEF Planned
<1>1. ASSUME NEW run \in {"approved", "replay"}, Runs(run) \/ ExecuteShell(run) \/ Inspect(run)
      PROVE  Planned'
  BY <1>1, RunNames DEF Runs, ExecuteShell, Inspect
<1>2. CASE Initial \/ InspectOpened \/ (\E who \in Approver : ApproveOwn(who)) \/ WorkflowDies
  BY <1>2 DEF Initial, InspectOpened, ApproveOwn, WorkflowDies
<1>3. CASE Others \/ UNCHANGED <<vars, workVars>>
  BY <1>3 DEF Others, workVars
<1> QED BY <1>1, <1>2, <1>3 DEF WorkNext, Workflow

(* The boundary's own invariant is kept by the workflow. *)
LEMMA BoundaryKept ==
  ASSUME WorkInv, [WorkNext]_<<vars, workVars>>
  PROVE  (TypeOK /\ AuditInv /\ HaltInv /\ PaidInv /\ Balanced)'
<1>1. CASE [Next]_vars
  BY <1>1, TypeNext, AuditNext, HaltNext, PaidNext, BalanceNext DEF WorkInv
<1>2. CASE ReviewShell
  <2>1. /\ UNCHANGED <<halted, now, granted, trail, pc, req, permitted, executed, barred, spent>>
        /\ judged \in Fused[Shell]
    BY <1>2 DEF ReviewShell, WorkInv, Planned
  <2>2. tickets' \in [Digest -> Ticket] /\ consents' \in [Digest -> SUBSET Consent]
    <3>1. Ask(Shell, Need) \/ UNCHANGED <<tickets, consents>>
      BY <1>2 DEF ReviewShell
    <3> QED BY <2>1, <3>1, NeedType, ShellAssumption, AskTypes DEF WorkInv, TypeOK
  <2>3. TypeOK'
    BY <2>1, <2>2 DEF WorkInv, TypeOK
  <2>4. AuditInv' /\ HaltInv'
    BY <2>1 DEF WorkInv, AuditInv, Audited, HaltInv
  <2>5. PaidInv'
    BY <2>1 DEF WorkInv, PaidInv, Escalated
  <2>6. Balanced'
    BY <1>2, <2>1, ReviewShellCovers DEF WorkInv, Balanced
  <2> QED BY <2>3, <2>4, <2>5, <2>6
<1> QED BY <1>1, <1>2, WorkflowSteps DEF WorkNext, Others, vars

LEMMA SharedNext ==
  ASSUME WorkInv, [WorkNext]_<<vars, workVars>>
  PROVE  SharedBalance'
<1>0. TypeOK /\ PaidInv /\ Planned /\ judged \in Fused[Shell] /\ Shell \in Digest
  BY ShellAssumption DEF WorkInv, Planned
<1>a. judged' = judged
  BY DEF WorkNext, Workflow, Initial, InspectOpened, ApproveOwn, Runs, ExecuteShell, Inspect, WorkflowDies,
         Others, workVars
<1> SUFFICES ASSUME judged.route = "human"
             PROVE  Covers(Shell, Cardinality(Own))'
  BY <1>a DEF SharedBalance
<1>b. PICK k \in Nat : k = Cardinality(Own) /\ Covers(Shell, k)
  BY <1>0, OwnFinite DEF WorkInv, SharedBalance
<1>c. Planned' /\ IsFiniteSet(Own') /\ Cardinality(Own') \in Nat
  <2>1. Planned'
    BY <1>0, PlannedNext
  <2>2. Own' \subseteq {"approved", "replay"}
    BY <2>1 DEF Own, Planned
  <2> QED BY <2>1, <2>2, RunsFinite
<1>d. TypeOK'
  BY BoundaryKept
(* Fewer runs are covered as well. *)
<1>e. ASSUME Covers(Shell, k)', Own' \subseteq Own
      PROVE  Covers(Shell, Cardinality(Own))'
  <2>1. Cardinality(Own') <= k
    BY <1>0, <1>b, <1>e, OwnFinite, FS_Subset
  <2>2. Cardinality(SpentOn(Shell)') \in Nat /\ Unused(Shell)' \in Nat /\ granted'[Shell] \in Nat
    <3>1. SpentOn(Shell)' \subseteq Call
      BY <1>d DEF SpentOn, TypeOK
    <3>2. Cardinality(SpentOn(Shell)') \in Nat
      BY <3>1, CallAssumption, FS_Subset, FS_CardinalityType
    <3> QED BY <1>0, <1>d, <3>2 DEF Unused, TypeOK
  <2>3. Cardinality(SpentOn(Shell)') + Unused(Shell)' + k <= granted'[Shell]
    BY <1>e DEF Covers
  <2>4. Cardinality(SpentOn(Shell)') + Unused(Shell)' + Cardinality(Own') <= granted'[Shell]
    BY <1>b, <1>c, <2>1, <2>2, <2>3
  <2> QED BY <2>4 DEF Covers
<1>1. CASE \E run \in {"approved", "replay"} : Runs(run)
  <2>1. PICK run \in {"approved", "replay"} : Runs(run)
    BY <1>1
  <2>2. ReviewShell /\ step = run /\ ran' = ran
    BY <2>1 DEF Runs
  <2>3. CASE Yes
    <3>1. \/ run = "approved" /\ step' = "execute approved"
          \/ run = "replay" /\ step' = "execute replay"
      BY <2>1, <2>3, RunNames DEF Runs, Allowed
    <3>2. Own' = Own \cup {run} /\ run \notin Own
      BY <1>0, <2>2, <3>1 DEF Own, Planned
    <3>3. Cardinality(Own') = k + 1
      BY <1>0, <1>b, <3>2, OwnFinite, FS_AddElement
    <3>4. Covers(Shell, k + 1)'
      BY <1>0, <1>b, <2>2, <2>3, ReviewShellCovers
    <3>5. Cardinality(SpentOn(Shell)') + Unused(Shell)' + (k + 1) <= granted'[Shell]
      BY <3>4 DEF Covers
    <3>6. Cardinality(SpentOn(Shell)') + Unused(Shell)' + Cardinality(Own') <= granted'[Shell]
      BY <3>3, <3>5
    <3> QED BY <3>6 DEF Covers
  <2>4. CASE ~Yes
    <3>1. step' \in {"after approved", "after replay"}
      BY <2>1, <2>4, RunNames DEF Runs, Allowed
    <3>2. Own' \subseteq Own
      BY <2>2, <3>1 DEF Own
    <3>3. Covers(Shell, k)'
      BY <1>0, <1>b, <2>2, ReviewShellCovers
    <3> QED BY <1>e, <3>2, <3>3
  <2> QED BY <2>3, <2>4
<1>2. CASE Initial
  <2>1. ReviewShell /\ step' = "opened" /\ ran' = ran
    BY <1>2 DEF Initial
  <2>2. Own' \subseteq Own
    BY <2>1 DEF Own
  <2>3. Covers(Shell, k)'
    BY <1>0, <1>b, <2>1, ReviewShellCovers
  <2> QED BY <1>e, <2>2, <2>3
<1>3. ASSUME [Next]_vars, Own' \subseteq Own
      PROVE  Covers(Shell, Cardinality(Own))'
  BY <1>0, <1>3, <1>b, <1>e, CoversNext
<1>4. CASE Others \/ UNCHANGED <<vars, workVars>>
  <2>1. [Next]_vars /\ ran' = ran /\ step' = step
    BY <1>4 DEF Others, workVars
  <2>2. Own' \subseteq Own
    BY <2>1 DEF Own
  <2> QED BY <1>3, <2>1, <2>2
<1>5. CASE \/ WorkflowDies \/ InspectOpened
           \/ \E run \in {"approved", "replay"} : ExecuteShell(run) \/ Inspect(run)
  <2>1. UNCHANGED vars
    BY <1>5 DEF WorkflowDies, InspectOpened, ExecuteShell, Inspect
  <2>2. Own' \subseteq Own
    <3>1. ASSUME NEW run \in {"approved", "replay"}, ExecuteShell(run)
          PROVE  Own' \subseteq Own
      <4>1. /\ ran' = ran \cup {run} /\ step' \in {"after approved", "after replay"}
            /\ \/ run = "approved" /\ step = "execute approved"
               \/ run = "replay" /\ step = "execute replay"
        BY <3>1, RunNames DEF ExecuteShell
      <4> QED BY <4>1 DEF Own
    <3>2. ASSUME NEW run \in {"approved", "replay"}, Inspect(run)
          PROVE  Own' \subseteq Own
      BY <3>2 DEF Inspect, Own
    <3>3. CASE WorkflowDies \/ InspectOpened
      BY <3>3 DEF WorkflowDies, InspectOpened, Own
    <3> QED BY <1>5, <3>1, <3>2, <3>3
  <2> QED BY <1>3, <2>1, <2>2
<1>6. ASSUME NEW who \in Approver, ApproveOwn(who)
      PROVE  Covers(Shell, Cardinality(Own))'
  <2>1. [Next]_vars
    <3>1. CASE CanApprove(tickets[Shell], who)
      <4>1. Approve(Shell, who)
        BY <1>6, <3>1 DEF ApproveOwn, Approve
      <4> QED BY <1>0, <4>1 DEF Next
    <3>2. CASE ~CanApprove(tickets[Shell], who)
      BY <1>6, <3>2 DEF ApproveOwn, vars, world
    <3> QED BY <3>1, <3>2
  <2>2. ran' = ran /\ step' \in {"approved", "raised"}
    BY <1>6 DEF ApproveOwn
  <2>3. Own' \subseteq Own
    BY <2>2 DEF Own
  <2> QED BY <1>3, <2>1, <2>3
<1> QED BY <1>1, <1>2, <1>4, <1>5, <1>6 DEF WorkNext, Workflow

LEMMA BoundaryInit == Init => TypeOK /\ AuditInv /\ HaltInv /\ PaidInv /\ Balanced
<1> SUFFICES ASSUME Init PROVE TypeOK /\ AuditInv /\ HaltInv /\ PaidInv /\ Balanced
  OBVIOUS
<1>1. TypeOK
  BY TypeInit
<1>2. AuditInv /\ HaltInv /\ PaidInv
  BY DEF Init, AuditInv, HaltInv, PaidInv
<1>3. ASSUME NEW d \in Digest
      PROVE  Covers(d, 0)
  <2>1. tickets[d].status = "none" /\ granted[d] = 0
    BY DEF Init, NoTicket
  <2>2. Cardinality(SpentOn(d)) = 0 /\ Unused(d) = 0
    BY <2>1, FS_EmptySet DEF Init, SpentOn, Unused
  <2> QED BY <2>1, <2>2 DEF Covers
<1> QED BY <1>1, <1>2, <1>3 DEF Balanced

LEMMA WorkInvInit == WorkInit => WorkInv
<1> SUFFICES ASSUME WorkInit PROVE WorkInv
  OBVIOUS
<1>1. Init /\ ran = {} /\ step = "initial" /\ judged \in Fused[Shell]
  BY DEF WorkInit
<1>2. Own = {} /\ Cardinality(Own) = 0
  BY <1>1, FS_EmptySet DEF Own
<1>3. Covers(Shell, 0)
  BY <1>1, BoundaryInit, ShellAssumption DEF Balanced
<1> QED BY <1>1, <1>2, <1>3, BoundaryInit DEF WorkInv, Planned, SharedBalance

LEMMA WorkInvNext == WorkInv /\ [WorkNext]_<<vars, workVars>> => WorkInv'
BY BoundaryKept, PlannedNext, SharedNext DEF WorkInv

LEMMA WorkInvPays == WorkInv => SharedTicketPaid
<1> SUFFICES ASSUME WorkInv, judged.route = "human"
             PROVE  Cardinality(ran)
                      + Cardinality({c \in executed : req[c].digest = Shell
                                                      /\ req[c].fused.route = "human"})
                      <= granted[Shell]
  BY DEF SharedTicketPaid
<1> DEFINE theirs == {c \in executed : req[c].digest = Shell /\ req[c].fused.route = "human"}
<1>0. TypeOK /\ PaidInv /\ Planned /\ Shell \in Digest
  BY ShellAssumption DEF WorkInv
<1>1. theirs \subseteq SpentOn(Shell)
  BY <1>0 DEF PaidInv, SpentOn, Escalated
<1>2. Cardinality(theirs) \in Nat /\ Cardinality(theirs) <= Cardinality(SpentOn(Shell))
  BY <1>0, <1>1, SpentFinite, FS_Subset, FS_CardinalityType
<1>3. ran \subseteq Own
  BY DEF Own
<1>4. Cardinality(ran) \in Nat /\ Cardinality(ran) <= Cardinality(Own)
  BY <1>0, <1>3, OwnFinite, FS_Subset, FS_CardinalityType
<1>5. /\ Cardinality(SpentOn(Shell)) \in Nat /\ Unused(Shell) \in Nat
      /\ Cardinality(Own) \in Nat /\ granted[Shell] \in Nat
  BY <1>0, SpentFinite, OwnFinite DEF Unused, TypeOK
<1>6. Cardinality(SpentOn(Shell)) + Unused(Shell) + Cardinality(Own) <= granted[Shell]
  BY DEF WorkInv, SharedBalance, Covers
<1> HIDE DEF theirs
<1> QED BY <1>2, <1>4, <1>5, <1>6 DEF theirs

(* Whatever the workflow and the calls beside it do with one ticket, their  *)
(* runs together are paid for by completed tickets.                         *)
THEOREM WorkflowPaid == WorkSpec => []SharedTicketPaid
BY WorkInvInit, WorkInvNext, WorkInvPays, PTL DEF WorkSpec

(* The workflow, which keeps no audit log, takes nothing from the calls      *)
(* beside it that do: they run only after their record is durable ...       *)
THEOREM AuditFirstBesideWorkflow == WorkSpec => []ExecutedIsAudited
<1>1. WorkInv => ExecutedIsAudited
  BY DEF WorkInv, AuditInv, ExecutedIsAudited, Audited
<1> QED BY <1>1, WorkInvInit, WorkInvNext, PTL DEF WorkSpec

(* ... and not under a halt that was there before them.                      *)
THEOREM HaltBesideWorkflow == WorkSpec => HaltHolds
<1>1. WorkInv /\ [WorkNext]_<<vars, workVars>>
        => [\A c \in Call : Execute(c) => c \notin barred]_vars
  BY DEF WorkInv, HaltInv, Execute
<1> QED BY <1>1, WorkInvInit, WorkInvNext, PTL DEF WorkSpec, HaltHolds

-----------------------------------------------------------------------------
(* The report.  Nobody else uses the ticket, which was closed at the start, *)
(* one approval suffices, and the clock stands still.                       *)
Undisturbed == judged.route = "human" /\ Need = 1 /\ fresh /\ alone /\ now = 0

Listed == <<Shell, <<>>>> \in pending

(* Where the ticket, the runs and the list are then, at each statement. *)
Unfolds ==
  Undisturbed =>
    /\ step # "execute replay"
    /\ step \in {"opened", "approve", "after replay"} => tickets[Shell] = Opened(1)
    /\ step \in {"approve", "reported"} => Listed
    /\ step = "approved" => Permits(tickets[Shell], 1, 0)
    /\ step \in {"execute approved", "after approved", "replay"} =>
         tickets[Shell].status = "consumed"
    /\ step \in {"after approved", "replay", "after replay", "reported"} => ran = {"approved"}
    /\ step \in {"replay", "after replay", "reported"} => consumed = "consumed"

(* A first approval completes a fresh ticket that requires one. *)
LEMMA OneApprovalPermits ==
  ASSUME NEW who \in Approver
  PROVE  Permits(Approved(Opened(1), who, 0), 1, 0)
<1> DEFINE t == Approved(Opened(1), who, 0)
<1>1. Append(<<>>, who) = <<who>> /\ Len(<<who>>) = 1
  OBVIOUS
<1>2. /\ t.status = "approved" /\ t.approvers = <<who>> /\ t.required = 1 /\ t.expires = 0 + TTL
  BY <1>1 DEF Approved, Opened
<1>3. ~IsExpired(t, 0)
  BY <1>2, TTLAssumption DEF IsExpired
<1>4. Raised(t, 1) = t
  BY <1>2 DEF Raised, NeedsRaise
<1> HIDE DEF t
<1>5. Len(t.approvers) = 1
  BY <1>1, <1>2, Zenon
<1>6. Len(t.approvers) >= t.required
  BY <1>2, <1>5
<1>7. Permits(t, 1, 0)
  BY <1>2, <1>3, <1>4, <1>6, Zenon DEF Permits, Consumable
<1> QED BY <1>7 DEF t

(* A ticket that was closed, or is not there, permits nothing. *)
LEMMA ClosedPermitsNothing ==
  ASSUME NEW t \in Ticket, NEW need \in Nat \ {0}, NEW time \in Nat, Reopens(t, time)
  PROVE  AfterRequest(t, need, time) = Opened(need) /\ ~Permits(t, need, time)
<1>1. ~Permits(t, need, time)
  BY RaisedType DEF Permits, Consumable, Reopens, IsExpired, Terminal
<1> QED BY <1>1, AfterRequestCases

(* A ticket as it is opened is in the list of the pending ones. *)
LEMMA OpenedListed ==
  ASSUME Shell \in Digest, tickets[Shell] = Opened(1), pending' = Pending
  PROVE  Listed'
<1>1. tickets[Shell].status = "pending" /\ tickets[Shell].approvers = <<>>
  BY DEF Opened
<1>2. Shell \in {e \in Digest : tickets[e].status = "pending"}
  BY <1>1
<1>3. <<Shell, tickets[Shell].approvers>> \in Pending
  BY <1>2 DEF Pending
<1> QED BY <1>1, <1>3 DEF Listed

LEMMA UnfoldsNext ==
  ASSUME TypeOK, Planned, Unfolds, [WorkNext]_<<vars, workVars>>
  PROVE  Unfolds'
<1>0. /\ Shell \in Digest /\ judged \in Fused[Shell] /\ now \in Nat
      /\ tickets \in [Digest -> Ticket] /\ tickets[Shell] \in Ticket
  BY ShellAssumption DEF TypeOK, Planned
<1>a. judged' = judged /\ Need' = Need
  BY DEF WorkNext, Workflow, Initial, InspectOpened, ApproveOwn, Runs, ExecuteShell, Inspect, WorkflowDies,
         Others, workVars, Need
<1>1. CASE Initial
  <2> SUFFICES ASSUME Undisturbed' PROVE tickets'[Shell] = Opened(1)
    BY <1>1 DEF Initial, Unfolds
  <2>1. /\ judged.route = "human" /\ Need = 1 /\ now = 0 /\ Reopens(tickets[Shell], now)
        /\ tickets' = [tickets EXCEPT ![Shell] = AfterRequest(@, Need, now)]
    BY <1>1, <1>a DEF Initial, ReviewShell, Undisturbed, Ask
  <2>2. AfterRequest(tickets[Shell], 1, 0) = Opened(1)
    BY <1>0, <2>1, ClosedPermitsNothing
  <2> QED BY <1>0, <2>1, <2>2
<1>2. ASSUME NEW who \in Approver, ApproveOwn(who)
      PROVE  Unfolds'
  <2> SUFFICES ASSUME Undisturbed', step' = "approved"
               PROVE  Permits(tickets'[Shell], 1, 0)
    BY <1>2 DEF ApproveOwn, Unfolds
  <2>1. Undisturbed /\ step = "approve" /\ tickets[Shell] = Opened(1) /\ now = 0
    BY <1>2, <1>a DEF ApproveOwn, Undisturbed, Unfolds
  <2>2. tickets' = [tickets EXCEPT ![Shell] = Approved(@, who, now)]
    BY <1>2 DEF ApproveOwn
  <2>3. tickets'[Shell] = Approved(Opened(1), who, 0)
    BY <1>0, <2>1, <2>2
  <2> QED BY <2>3, OneApprovalPermits
<1>3. ASSUME NEW run \in {"approved", "replay"}, Runs(run)
      PROVE  Unfolds'
  <2> SUFFICES ASSUME Undisturbed' PROVE Unfolds'
    BY DEF Unfolds
  <2>1. /\ Undisturbed /\ step = run /\ now = 0 /\ Need = 1 /\ judged.route = "human"
        /\ tickets' = [tickets EXCEPT ![Shell] = AfterRequest(@, Need, now)]
        /\ ran' = ran /\ consumed' = consumed
        /\ step' = IF Yes THEN Executing[run] ELSE After[run]
    BY <1>3, <1>a DEF Runs, ReviewShell, Undisturbed, Allowed, Ask
  <2>2. tickets'[Shell] = AfterRequest(tickets[Shell], 1, 0)
    BY <1>0, <2>1
  <2>3. CASE run = "approved"
    <3>1. Permits(tickets[Shell], 1, 0)
      BY <2>1, <2>3 DEF Unfolds
    <3>2. tickets'[Shell].status = "consumed"
      BY <1>0, <2>2, <3>1, AskStatus
    <3>3. step' = "execute approved"
      BY <2>1, <2>3, <3>1, RunNames DEF Yes
    <3> QED BY <3>2, <3>3 DEF Unfolds
  <2>4. CASE run = "replay"
    <3>1. tickets[Shell].status = "consumed" /\ ran = {"approved"} /\ consumed = "consumed"
      BY <2>1, <2>4 DEF Unfolds
    <3>2. ~Permits(tickets[Shell], 1, 0)
      BY <1>0, <3>1, ClosedPermitsNothing DEF Reopens, Terminal
    <3>3. step' = "after replay"
      BY <2>1, <2>4, <3>2, RunNames DEF Yes
    <3>4. tickets'[Shell] = Opened(1)
      BY <1>0, <2>2, <3>1, ClosedPermitsNothing DEF Reopens, Terminal
    <3> QED BY <2>1, <3>1, <3>3, <3>4 DEF Unfolds
  <2> QED BY <2>3, <2>4
<1>4. ASSUME NEW run \in {"approved", "replay"}, ExecuteShell(run)
      PROVE  Unfolds'
  <2>1. /\ step = Executing[run] /\ step' = After[run] /\ ran' = ran \cup {run}
        /\ Undisturbed' = Undisturbed /\ tickets' = tickets
    BY <1>4, <1>a DEF ExecuteShell, Undisturbed, vars, world
  <2>2. Undisturbed => run = "approved"
    BY <2>1, RunNames DEF Unfolds
  <2>3. run = "approved" => ran = {} /\ step = "execute approved" /\ step' = "after approved"
    BY <2>1, RunNames DEF Planned
  <2> QED BY <2>1, <2>2, <2>3 DEF Unfolds
<1>5. ASSUME NEW run \in {"approved", "replay"}, Inspect(run)
      PROVE  Unfolds'
  <2>1. /\ step = After[run] /\ step' = IF run = "approved" THEN "replay" ELSE "reported"
        /\ consumed' = IF run = "approved" THEN tickets[Shell].status ELSE consumed
        /\ ran' = ran /\ Undisturbed' = Undisturbed /\ tickets' = tickets
        /\ run = "approved" \/ pending' = Pending
    BY <1>5, <1>a DEF Inspect, Undisturbed, vars, world
  <2>2. Undisturbed /\ run = "replay" => Listed'
    BY <1>0, <2>1, RunNames, OpenedListed DEF Unfolds
  <2> QED BY <2>1, <2>2, RunNames DEF Unfolds
<1>9. CASE InspectOpened
  <2>1. /\ step = "opened" /\ step' = "approve" /\ pending' = Pending
        /\ Undisturbed' = Undisturbed /\ tickets' = tickets
    BY <1>9, <1>a DEF InspectOpened, Undisturbed, vars, world
  <2>2. Undisturbed => tickets[Shell] = Opened(1) /\ Listed'
    BY <1>0, <2>1, OpenedListed DEF Unfolds
  <2> QED BY <2>1, <2>2 DEF Unfolds
<1>6. CASE WorkflowDies
  BY <1>6 DEF WorkflowDies, Unfolds
<1>7. CASE Others
  <2> SUFFICES ASSUME Undisturbed' PROVE Unfolds'
    BY DEF Unfolds
  <2>1. /\ step' = step /\ ran' = ran /\ consumed' = consumed /\ fresh' = fresh
        /\ Listed' = Listed
        /\ alone /\ (Ended \/ tickets'[Shell] = tickets[Shell])
    BY <1>7 DEF Others, Undisturbed, Listed
  <2>2. now' = now \/ now' = now + 1
    BY <1>7 DEF Others, Next, Submit, CheckHalt, CheckHaltFails, Review, ReviewFails, AuditHalt,
                Audit, AuditFails, Execute, Crash, Approve, Deny, Halt, Resume, Tick, world
  <2>3. Undisturbed
    BY <1>0, <1>a, <2>1, <2>2 DEF Undisturbed
  <2>4. CASE tickets'[Shell] = tickets[Shell]
    BY <2>1, <2>3, <2>4 DEF Unfolds
  <2>5. CASE Ended
    BY <2>1, <2>3, <2>5 DEF Unfolds, Ended
  <2> QED BY <2>1, <2>4, <2>5
<1>8. CASE UNCHANGED <<vars, workVars>>
  BY <1>8, <1>a DEF Unfolds, Undisturbed, Listed, vars, world, workVars
<1> QED BY <1>1, <1>2, <1>3, <1>4, <1>5, <1>6, <1>7, <1>8, <1>9 DEF WorkNext, Workflow

(* What the workflow reports is what happened: on a ticket of its own, the   *)
(* approval pays for the first run, which uses it up, and the replay runs    *)
(* nothing and leaves a fresh ticket pending (authorised_execution.py:12).  *)
THEOREM ReportIsTrue == WorkSpec => []ReportHolds
<1>1. WorkInit => Unfolds
  BY DEF WorkInit, Unfolds
<1>2. WorkInv /\ Unfolds /\ [WorkNext]_<<vars, workVars>> => Unfolds'
  BY UnfoldsNext DEF WorkInv
<1>3. Unfolds => ReportHolds
  BY DEF Unfolds, Undisturbed, Listed, ReportHolds
<1> QED BY <1>1, <1>2, <1>3, WorkInvInit, WorkInvNext, PTL DEF WorkSpec

-----------------------------------------------------------------------------
(* Dual control.  Each ticket and the consents given to it stay related as   *)
(* ApprovalTicket_proofs says, whoever asks, approves or denies.            *)
ConsentInv == \A d \in Digest : TicketInv(tickets[d], consents[d])

LEMMA AskConsent ==
  ASSUME TypeOK, ConsentInv, NEW d \in Digest, NEW need \in Nat \ {0}, Ask(d, need)
  PROVE  ConsentInv'
<1>1. tickets \in [Digest -> Ticket] /\ consents \in [Digest -> SUBSET Consent] /\ now \in Nat
  BY DEF TypeOK
<1>2. TicketInv(tickets[d], consents[d])
  BY DEF ConsentInv
<1>3. TicketInv(AfterRequest(tickets[d], need, now),
                IF Reopens(tickets[d], now) \/ AfterRequest(tickets[d], need, now).status = "consumed"
                THEN {} ELSE consents[d])
  BY <1>1, <1>2, AfterRequestInv
<1>4. /\ tickets'[d] = AfterRequest(tickets[d], need, now)
      /\ consents'[d] = IF Reopens(tickets[d], now)
                           \/ AfterRequest(tickets[d], need, now).status = "consumed"
                        THEN {} ELSE consents[d]
  BY <1>1 DEF Ask
<1>5. \A b \in Digest : b # d => tickets'[b] = tickets[b] /\ consents'[b] = consents[b]
  BY <1>1 DEF Ask
<1>6. TicketInv(tickets'[d], consents'[d])
  BY <1>3, <1>4
<1> QED BY <1>5, <1>6 DEF ConsentInv

LEMMA ConsentNext ==
  ASSUME TypeOK, ConsentInv, [Next]_vars
  PROVE  ConsentInv'
<1>0. tickets \in [Digest -> Ticket] /\ consents \in [Digest -> SUBSET Consent] /\ now \in Nat
  BY DEF TypeOK
<1>1. ASSUME NEW c \in Call, Review(c) \/ ReviewFails(c)
      PROVE  ConsentInv'
  <2> DEFINE d == req[c].digest
             need == RequiredApprovals(req[c].fused.verdict)
  <2>1. req[c] \in Requests
    BY <1>1 DEF Review, ReviewFails, TypeOK
  <2>2. d \in Digest /\ need \in Nat \ {0}
    BY <2>1, RequestFields
  <2>3. \/ Ask(d, need)
        \/ UNCHANGED <<tickets, consents>>
        \/ tickets' = [tickets EXCEPT ![d] = Raised(@, need)] /\ UNCHANGED consents
    BY <1>1 DEF Review, ReviewFails
  <2>4. ASSUME tickets' = [tickets EXCEPT ![d] = Raised(@, need)], UNCHANGED consents
        PROVE  ConsentInv'
    <3>1. TicketInv(Raised(tickets[d], need), consents[d])
      BY <1>0, <2>2, RaisedInv DEF ConsentInv
    <3> HIDE DEF d, need
    <3> QED BY <1>0, <2>2, <2>4, <3>1 DEF ConsentInv
  <2>5. CASE UNCHANGED <<tickets, consents>>
    BY <2>5 DEF ConsentInv
  <2> QED BY <2>2, <2>3, <2>4, <2>5, AskConsent
<1>2. ASSUME NEW d \in Digest, NEW who \in Approver, Approve(d, who)
      PROVE  ConsentInv'
  <2>1. CanApprove(tickets[d], who) /\ TicketInv(tickets[d], consents[d])
    BY <1>2 DEF Approve, ConsentInv
  <2>2. TicketInv(Approved(tickets[d], who, now), consents[d] \cup {[who |-> who, at |-> now]})
    BY <1>0, <2>1, ApprovedInv
  <2>3. /\ tickets' = [tickets EXCEPT ![d] = Approved(tickets[d], who, now)]
        /\ consents' = [consents EXCEPT ![d] = consents[d] \cup {[who |-> who, at |-> now]}]
    BY <1>2 DEF Approve
  <2> QED BY <1>0, <2>2, <2>3 DEF ConsentInv
<1>3. ASSUME NEW d \in Digest, Deny(d)
      PROVE  ConsentInv'
  <2>1. TicketInv(Denied(tickets[d]), {})
    BY <1>0, DeniedInv DEF ConsentInv
  <2>2. /\ tickets' = [tickets EXCEPT ![d] = Denied(tickets[d])]
        /\ consents' = [consents EXCEPT ![d] = {}]
    BY <1>3 DEF Deny
  <2> QED BY <1>0, <2>1, <2>2 DEF ConsentInv
<1>4. ASSUME UNCHANGED <<tickets, consents>>
      PROVE  ConsentInv'
  BY <1>4 DEF ConsentInv
<1>5. ASSUME NEW c \in Call,
             \/ \E q \in Requests : Submit(c, q)
             \/ CheckHalt(c) \/ CheckHaltFails(c) \/ AuditHalt(c) \/ Audit(c)
             \/ AuditFails(c) \/ Execute(c)
      PROVE  UNCHANGED <<tickets, consents>>
  BY <1>5 DEF Submit, CheckHalt, CheckHaltFails, AuditHalt, Audit, AuditFails, Execute, world
<1>6. CASE Crash \/ Halt \/ Resume \/ Tick \/ UNCHANGED vars
  <2>1. UNCHANGED <<tickets, consents>>
    BY <1>6 DEF Crash, Halt, Resume, Tick, vars, world
  <2> QED BY <1>4, <2>1
<1> QED BY <1>1, <1>2, <1>3, <1>4, <1>5, <1>6 DEF Next

LEMMA ConsentInit == Init => ConsentInv
<1> SUFFICES ASSUME Init, NEW d \in Digest PROVE TicketInv(tickets[d], consents[d])
  BY DEF ConsentInv
<1>1. tickets[d] = NoTicket
  BY DEF Init
<1>2. Len(<<>>) = 0 /\ 1 .. 0 = {}
  OBVIOUS
<1> QED BY <1>1, <1>2 DEF NoTicket, TicketInv, Live

LEMMA WorkConsentNext ==
  ASSUME WorkInv, ConsentInv, [WorkNext]_<<vars, workVars>>
  PROVE  ConsentInv'
<1>1. TypeOK /\ judged \in Fused[Shell]
  BY DEF WorkInv, Planned
<1>2. CASE ReviewShell
  <2>1. Ask(Shell, Need) \/ UNCHANGED <<tickets, consents>>
    BY <1>2 DEF ReviewShell
  <2>2. CASE UNCHANGED <<tickets, consents>>
    BY <2>2 DEF ConsentInv
  <2> QED BY <1>1, <2>1, <2>2, NeedType, ShellAssumption, AskConsent
<1>3. CASE [Next]_vars
  BY <1>1, <1>3, ConsentNext
<1> QED BY <1>2, <1>3, WorkflowSteps DEF WorkNext, Others, vars

(* A permit on a ticket rests on the consents that it has then. *)
LEMMA ConsentsBehindPermit ==
  ASSUME TypeOK, ConsentInv, NEW d \in Digest, NEW v \in Verdict,
         Permits(tickets[d], RequiredApprovals(v), now)
  PROVE  ConsentedTo(d, v)
<1>1. /\ tickets[d] \in Ticket /\ consents[d] \in SUBSET Consent /\ now \in Nat
      /\ TicketInv(tickets[d], consents[d]) /\ RequiredApprovals(v) \in Nat \ {0}
  BY RequiredType DEF TypeOK, ConsentInv
<1> QED BY <1>1, ApproverAssumption, PermitConsented DEF ConsentedTo, Consenters

(* Only an escalated review that the queue permits adds to the calls that    *)
(* used a ticket.                                                          *)
LEMMA SpentByPermit ==
  ASSUME TypeOK, [Next]_vars, NEW c \in spent' \ spent
  PROVE  /\ req[c] \in Requests
         /\ Permits(tickets[req[c].digest], RequiredApprovals(req[c].fused.verdict), now)
<1>1. PICK b \in Call : Review(b)
  BY DEF Next, Submit, CheckHalt, CheckHaltFails, ReviewFails, AuditHalt, Audit, AuditFails, Execute, Crash,
         Approve, Deny, Halt, Resume, Tick, vars
<1>2. /\ spent' = spent \cup {b} /\ pc[b] = "review"
      /\ Permits(tickets[req[b].digest], RequiredApprovals(req[b].fused.verdict), now)
  BY <1>1 DEF Review
<1>3. c = b
  BY <1>2
<1> QED BY <1>2, <1>3 DEF TypeOK

(* Whoever uses the ticket: no escalated action runs, or is let through, but *)
(* on the consents of as many different operators as its verdict requires,  *)
(* given to this very ticket, one of them within TTL.                       *)
THEOREM DualControlAtBoundary == WorkSpec => EscalationsConsented
<1> DEFINE Step == /\ \A c \in spent' \ spent : ConsentedTo(req[c].digest, req[c].fused.verdict)
                   /\ \A run \in {"approved", "replay"} :
                        Runs(run) /\ step' = Executing[run] /\ judged.route = "human"
                          => ConsentedTo(Shell, judged.verdict)
<1>1. ASSUME WorkInv, ConsentInv, [WorkNext]_<<vars, workVars>>
      PROVE  Step
  <2>1. TypeOK /\ judged \in Fused[Shell]
    BY <1>1 DEF WorkInv, Planned
  <2>2. ASSUME NEW c \in spent' \ spent
        PROVE  ConsentedTo(req[c].digest, req[c].fused.verdict)
    <3>1. [Next]_vars
      <4>1. ~ReviewShell
        BY DEF ReviewShell
      <4> QED BY <1>1, <4>1, WorkflowSteps DEF WorkNext, Others, vars
    <3>2. /\ req[c] \in Requests
          /\ Permits(tickets[req[c].digest], RequiredApprovals(req[c].fused.verdict), now)
      BY <2>1, <3>1, SpentByPermit
    <3>3. req[c].digest \in Digest /\ req[c].fused.verdict \in Verdict
      BY <3>2 DEF Requests, Request, FusedVerdict
    <3> QED BY <1>1, <2>1, <3>2, <3>3, ConsentsBehindPermit
  <2>3. ASSUME NEW run \in {"approved", "replay"},
               Runs(run), step' = Executing[run], judged.route = "human"
        PROVE  ConsentedTo(Shell, judged.verdict)
    <3>1. Yes
      BY <2>3, RunNames DEF Runs, Allowed
    <3>2. judged.verdict \in Verdict
      BY <2>1, FusedAssumption, ShellAssumption DEF FusedVerdict
    <3>3. Permits(tickets[Shell], RequiredApprovals(judged.verdict), now)
      BY <3>1 DEF Yes, Need
    <3> QED BY <1>1, <2>1, <3>2, <3>3, ShellAssumption, ConsentsBehindPermit
  <2> QED BY <2>2, <2>3
<1>2. WorkInit => WorkInv /\ ConsentInv
  BY WorkInvInit, ConsentInit DEF WorkInit
<1>3. WorkInv /\ ConsentInv /\ [WorkNext]_<<vars, workVars>> => WorkInv' /\ ConsentInv'
  BY WorkInvNext, WorkConsentNext
<1>4. WorkInv /\ ConsentInv /\ [WorkNext]_<<vars, workVars>> => [Step]_<<vars, workVars>>
  BY <1>1
<1> QED BY <1>2, <1>3, <1>4, PTL DEF WorkSpec, EscalationsConsented
=============================================================================
