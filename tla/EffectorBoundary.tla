--------------------------- MODULE EffectorBoundary ---------------------------
(***************************************************************************)
(* One tool call through the boundary: ToolReviewMiddleware.run (the SDK    *)
(* and director-class-guard) and GovernedEffector.run, around              *)
(* Governor.review.  A call reads the halt switch, has its request judged, *)
(* asks the approval queue when the verdict needs a human, writes its audit *)
(* record and only then runs the executor.  Calls run in threads of one    *)
(* process, which may die; operators approve, deny, halt and resume        *)
(* meanwhile.  The queue is one instance on its file, so an ask is one     *)
(* step (ApprovalStore); the audit append returns or raises (AuditChain).  *)
(***************************************************************************)
EXTENDS ApprovalTicket, FiniteSets

CONSTANTS
  Call,      \* calls of run, each made once
  Digest,    \* request digests
  Fused,     \* what the ensemble may make of a request with each digest
  MaxTime    \* bound on the clock

(* A digest leaves out provenance, query and metadata: requests that share  *)
(* one may be fused differently.                                           *)
FusedVerdict == [route : {"allow", "human", "block"}, verdict : Verdict]

ASSUME FusedAssumption == Fused \in [Digest -> SUBSET FusedVerdict]
ASSUME CallAssumption == IsFiniteSet(Call)
ASSUME ApproverAssumption == IsFiniteSet(Approver)

Request == [digest : Digest, fused : FusedVerdict, dry_run : BOOLEAN]

NoRequest == [digest |-> "none"]

Requests == {q \in Request : q.fused \in Fused[q.digest]}

AuditRecord == [call : Call, digest : Digest, permitted : BOOLEAN, escalated : BOOLEAN]

VARIABLES
  halted,     \* the halt-state file
  tickets,    \* the approval queue's file
  now,        \* the clock
  trail,      \* audit records on disk
  pc,         \* how far each call is
  req,        \* its request
  permitted,  \* Decision.permitted, once reviewed
  executed,   \* history: calls whose executor was started
  granted,    \* history: tickets per digest that reached "approved"
  barred,     \* history: calls made since the halt in force was persisted
  spent,      \* history: calls whose ask consumed a ticket
  consents    \* history, as in ApprovalQueue: the yes-votes for each ticket

world == <<halted, tickets, now, granted, consents>>

vars == <<world, trail, pc, req, permitted, executed, barred, spent>>

TypeOK ==
  /\ halted \in BOOLEAN
  /\ tickets \in [Digest -> Ticket]
  /\ now \in Nat
  /\ trail \in SUBSET AuditRecord
  /\ pc \in [Call -> {"new", "check", "halting", "review", "audit", "dispatch", "done"}]
  /\ req \in [Call -> Requests \cup {NoRequest}]
  /\ \A c \in Call : pc[c] \notin {"new", "done"} => req[c] \in Requests
  /\ permitted \in [Call -> BOOLEAN]
  /\ executed \subseteq Call /\ barred \subseteq Call /\ spent \subseteq Call
  /\ granted \in [Digest -> Nat]
  /\ consents \in [Digest -> SUBSET Consent]

Init ==
  /\ halted = FALSE
  /\ tickets = [d \in Digest |-> NoTicket]
  /\ now = 0
  /\ trail = {}
  /\ pc = [c \in Call |-> "new"]
  /\ req = [c \in Call |-> NoRequest]
  /\ permitted = [c \in Call |-> FALSE]
  /\ executed = {} /\ barred = {} /\ spent = {}
  /\ granted = [d \in Digest |-> 0]
  /\ consents = [d \in Digest |-> {}]

Goto(c, next) == pc' = [pc EXCEPT ![c] = next]

Submit(c, q) ==
  /\ pc[c] = "new"
  /\ req' = [req EXCEPT ![c] = q]
  /\ barred' = IF halted THEN barred \cup {c} ELSE barred
  /\ Goto(c, "check")
  /\ UNCHANGED <<world, trail, permitted, executed, spent>>

(* Mutant: a call whose action is already approved skips the halt switch.   *)
CheckHaltUnapproved(c) ==
  /\ pc[c] = "check"
  /\ Goto(c, IF halted /\ tickets[req[c].digest].status # "approved"
             THEN "halting" ELSE "review")
  /\ UNCHANGED <<world, trail, req, permitted, executed, barred, spent>>

(* _halt_decision: one read of the state file. *)
CheckHalt(c) ==
  /\ pc[c] = "check"
  /\ Goto(c, IF halted THEN "halting" ELSE "review")
  /\ UNCHANGED <<world, trail, req, permitted, executed, barred, spent>>

(* The state file cannot be read or is no halt state: run raises. *)
CheckHaltFails(c) ==
  /\ pc[c] = "check"
  /\ Goto(c, "done")
  /\ UNCHANGED <<world, trail, req, permitted, executed, barred, spent>>

(* request_approval: the yes-votes end with the ticket they were given to.  *)
Ask(d, need) ==
  /\ tickets' = [tickets EXCEPT ![d] = AfterRequest(@, need, now)]
  /\ consents' = [consents EXCEPT ![d] =
                    IF Reopens(tickets[d], now) \/ tickets'[d].status = "consumed"
                    THEN {} ELSE @]

(* Governor.review up to its verdict on the request. *)
Review(c) ==
  LET d == req[c].digest
      need == RequiredApprovals(req[c].fused.verdict)
      escalated == req[c].fused.route = "human"
      yes == escalated /\ Permits(tickets[d], need, now)
  IN  /\ pc[c] = "review"
      /\ permitted' = [permitted EXCEPT ![c] = yes \/ req[c].fused.route = "allow"]
      /\ IF escalated THEN Ask(d, need) ELSE UNCHANGED <<tickets, consents>>
      /\ spent' = IF yes THEN spent \cup {c} ELSE spent
      /\ Goto(c, "audit")
      /\ UNCHANGED <<halted, now, granted, trail, req, executed, barred>>

(* review raises and the call ends without a decision: a detector did, or   *)
(* the queue could not load, or save, its file.  The ticket is as it was, or *)
(* as one of the two saves of the ask left it.                             *)
ReviewFails(c) ==
  LET d == req[c].digest
      need == RequiredApprovals(req[c].fused.verdict)
  IN  /\ pc[c] = "review"
      /\ \/ UNCHANGED <<tickets, consents>>
         \/ /\ req[c].fused.route = "human"
            /\ \/ /\ tickets' = [tickets EXCEPT ![d] = Raised(@, need)]
                  /\ UNCHANGED consents
               \/ Ask(d, need)
      /\ Goto(c, "done")
      /\ UNCHANGED <<halted, now, granted, trail, req, permitted, executed, barred, spent>>

RecordOf(c, ok, escalated) ==
  [call |-> c, digest |-> req[c].digest, permitted |-> ok, escalated |-> escalated]

(* The audit record of a call stopped by the halt switch. *)
AuditHalt(c) ==
  /\ pc[c] = "halting"
  /\ trail' = trail \cup {RecordOf(c, FALSE, FALSE)}
  /\ Goto(c, "done")
  /\ UNCHANGED <<world, req, permitted, executed, barred, spent>>

Decided(c) == RecordOf(c, permitted[c], req[c].fused.route = "human")

(* The record is durable when the sink returns; nothing runs before. *)
Audit(c) ==
  /\ pc[c] = "audit"
  /\ trail' = trail \cup {Decided(c)}
  /\ Goto(c, IF permitted[c] /\ ~req[c].dry_run THEN "dispatch" ELSE "done")
  /\ UNCHANGED <<world, req, permitted, executed, barred, spent>>

(* Mutant: a failing audit sink does not stop a permitted call.             *)
AuditFailsOpen(c) ==
  /\ pc[c] \in {"audit", "halting"}
  /\ UNCHANGED trail
  /\ Goto(c, IF pc[c] = "audit" /\ permitted[c] /\ ~req[c].dry_run THEN "dispatch" ELSE "done")
  /\ UNCHANGED <<world, req, permitted, executed, barred, spent>>

(* The sink raises, and so does run.  The record may be in the log or not.  *)
AuditFails(c) ==
  /\ pc[c] \in {"audit", "halting"}
  /\ \/ UNCHANGED trail
     \/ trail' = trail \cup {IF pc[c] = "audit" THEN Decided(c) ELSE RecordOf(c, FALSE, FALSE)}
  /\ Goto(c, "done")
  /\ UNCHANGED <<world, req, permitted, executed, barred, spent>>

(* The executor starts; what it then does, or raises, is its own affair.    *)
Execute(c) ==
  /\ pc[c] = "dispatch"
  /\ executed' = executed \cup {c}
  /\ Goto(c, "done")
  /\ UNCHANGED <<world, trail, req, permitted, barred, spent>>

(* The process dies with every call in flight; the files stay. *)
Crash ==
  /\ \E c \in Call : pc[c] \notin {"new", "done"}
  /\ pc' = [c \in Call |-> IF pc[c] = "new" THEN "new" ELSE "done"]
  /\ UNCHANGED <<world, trail, req, permitted, executed, barred, spent>>

Approve(d, who) ==
  /\ CanApprove(tickets[d], who)
  /\ tickets' = [tickets EXCEPT ![d] = Approved(@, who, now)]
  /\ granted' = [granted EXCEPT ![d] =
                  IF tickets'[d].status = "approved" THEN @ + 1 ELSE @]
  /\ consents' = [consents EXCEPT ![d] = @ \cup {[who |-> who, at |-> now]}]
  /\ UNCHANGED <<halted, now, trail, pc, req, permitted, executed, barred, spent>>

Deny(d) ==
  /\ CanDeny(tickets[d])
  /\ tickets' = [tickets EXCEPT ![d] = Denied(@)]
  /\ consents' = [consents EXCEPT ![d] = {}]
  /\ UNCHANGED <<halted, now, granted, trail, pc, req, permitted, executed, barred, spent>>

Halt ==
  /\ ~halted
  /\ halted' = TRUE
  /\ UNCHANGED <<tickets, now, granted, consents, trail, pc, req, permitted, executed, barred, spent>>

Resume ==
  /\ halted
  /\ halted' = FALSE
  /\ barred' = {}
  /\ UNCHANGED <<tickets, now, granted, consents, trail, pc, req, permitted, executed, spent>>

Tick ==
  /\ now < MaxTime
  /\ now' = now + 1
  /\ UNCHANGED <<halted, tickets, granted, consents, trail, pc, req, permitted, executed, barred, spent>>

Next ==
  \/ \E c \in Call, q \in Requests : Submit(c, q)
  \/ \E c \in Call :
       \/ CheckHalt(c) \/ CheckHaltFails(c) \/ Review(c) \/ ReviewFails(c)
       \/ AuditHalt(c) \/ Audit(c) \/ AuditFails(c) \/ Execute(c)
  \/ Crash
  \/ \E d \in Digest, who \in Approver : Approve(d, who)
  \/ \E d \in Digest : Deny(d)
  \/ Halt \/ Resume \/ Tick

Spec == Init /\ [][Next]_vars

-----------------------------------------------------------------------------
(* "Each entry must be on disk before the decision it records is allowed to *)
(* take effect" (durability.py:78): every execution has its own permitted   *)
(* record in the trail, also when the sink raises or the process dies.      *)
ExecutedIsAudited ==
  \A c \in executed : \E r \in trail : r.call = c /\ r.permitted /\ r.digest = req[c].digest

(* However many calls share a digest and however they interleave, escalated *)
(* calls run at most once for each ticket the operators completed.          *)
ExecutionsPaid ==
  \A d \in Digest :
    Cardinality({c \in executed : req[c].digest = d /\ req[c].fused.route = "human"})
      <= granted[d]

Consenters(d) == {c.who : c \in consents[d]}

(* The ticket of d has the yes of as many different operators as a verdict   *)
(* requires, and one that is no older than TTL.                            *)
ConsentedTo(d, verdict) ==
  /\ Cardinality(Consenters(d)) >= RequiredApprovals(verdict)
  /\ \E c \in consents[d] : now - c.at <= TTL

(* A call made after a halt was persisted does not execute until resumed.   *)
HaltHolds == [][\A c \in Call : Execute(c) => c \notin barred]_vars

(* guard.py:124, "once a human approves that digest out of band, a single   *)
(* later run with --execute is permitted exactly once": only a run with     *)
(* --execute uses an approval up.  A dry run does too.                     *)
ApprovalKeptForExecution == \A c \in spent : ~req[c].dry_run
=============================================================================
