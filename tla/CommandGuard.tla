----------------------------- MODULE CommandGuard -----------------------------
(***************************************************************************)
(* director-class-guard (cli/guard.py) on a live policy ledger: a run       *)
(* resolves the posture from the ledger once (policy/runtime_posture.py),   *)
(* has its command judged under it and goes through the middleware          *)
(* (EffectorBoundary), while operators propose, approve, deny and roll back *)
(* postures (PolicyGovernance) and approve or deny the ticket.  All runs    *)
(* are given one command: a ticket names the command, not the posture it    *)
(* was escalated under.  Halts and expiry are left to EffectorBoundary, and *)
(* processes that overlap on the approval file to ApprovalStore.           *)
(***************************************************************************)
EXTENDS PolicyGovernance

CONSTANTS
  Run,       \* processes of the guard
  Profile,   \* the profile of each posture
  Row,       \* the corpus row that recorded the command's signals
  Options,   \* what a run may be started with
  TTL, MaxTime   \* EffectorBoundary's

X == INSTANCE PolicyExposure

Option == [live : Posture \cup {NoPosture}, required : BOOLEAN, execute : BOOLEAN]

ASSUME ProfileAssumption == DOMAIN Profile = Posture /\ \A p \in Posture : X!Valid(Profile[p])
ASSUME ContentAddressed ==
  \A p, q \in Posture : X!DriftEvents(Profile[p], Profile[q]) = {} => p = q
ASSUME OptionsAssumption == Options \subseteq Option
(* signal_from_mapping: a severity that is no name of one does not load.    *)
ASSUME RowAssumption ==
  \A i \in DOMAIN Row.signals :
    X!Field(Row.signals[i], "severity", "MEDIUM") \in DOMAIN X!Severity
ASSUME ExpiryAssumption == TTL \in Nat

TheCommand == "command"

Severities == 0 .. 4

Case == X!CaseFromMapping(Row)

(* FusionPolicy() when the ledger has no head. *)
ProfileOf(posture) == IF posture = "default" THEN X!DefaultProfile ELSE Profile[posture]

Decision(posture) == X!Decision(ProfileOf(posture), Case.signals, Case.provenance)

(* The peak severity of verdict.firing: of the objectors, when it is allowed. *)
PeakSeverity(posture) ==
  X!Max({0} \cup {Case.signals[i].severity : i \in {j \in DOMAIN Case.signals :
                    /\ Case.signals[j].plane = "action"
                    /\ Case.signals[j].score >= ProfileOf(posture).threshold["action"]}})

(* ApprovalPolicy: two operators for a CRITICAL verdict, one for any other. *)
RequiredOperators == [s \in Severities |-> IF s = X!Severity.CRITICAL THEN 2 ELSE 1]

Route(verdict) ==
  IF ~verdict.allow THEN "block" ELSE IF verdict.requires_human THEN "human" ELSE "allow"

Judged(posture) == [route |-> Route(Decision(posture)), verdict |-> PeakSeverity(posture)]

-----------------------------------------------------------------------------
VARIABLES
  resolved,  \* what each run made of the ledger
  option,    \* how it was started
  heads,     \* history: heads of the lineage since it started
  halted, tickets, now, granted,                        \* as in EffectorBoundary
  trail, stage, req, permitted, executed, barred, spent, consents

B == INSTANCE EffectorBoundary WITH
       Call <- Run, Digest <- {TheCommand}, pc <- stage, Approver <- Operator,
       Verdict <- Severities, RouteApprovals <- RequiredOperators,
       Fused <- [d \in {TheCommand} |-> {Judged(p) : p \in Posture \cup {"default"}}]

world == <<halted, tickets, now, granted, consents>>
boundaryVars == <<world, trail, stage, req, permitted, executed, barred, spent>>
runVars == <<resolved, option, heads>>

GuardInit ==
  /\ Init
  /\ B!Init
  /\ resolved = [r \in Run |-> NoPosture]
  /\ option = [r \in Run |-> [live |-> NoPosture, required |-> FALSE, execute |-> FALSE]]
  /\ heads = [r \in Run |-> {}]

(* run_guard up to the middleware: an unreadable ledger raises, a missing or *)
(* drifted posture is refused without a review.                            *)
Start(r, o) ==
  LET posture == RuntimePosture(ledger, o.live, o.required)
  IN  /\ stage[r] = "new"
      /\ resolved' = [resolved EXCEPT ![r] = posture]
      /\ option' = [option EXCEPT ![r] = o]
      /\ heads' = [heads EXCEPT ![r] = {HeadPosture(lineage)}]
      /\ IF posture = "blocked"
         THEN /\ B!Goto(r, IF Readable(ledger) THEN "refused" ELSE "done")
              /\ UNCHANGED <<world, trail, req, permitted, executed, barred, spent>>
         ELSE B!Submit(r, [digest |-> TheCommand, fused |-> Judged(posture), dry_run |-> ~o.execute])
      /\ UNCHANGED vars

(* runtime_posture_block_event: the refusal is recorded, or the sink raises. *)
Refuse(r) ==
  /\ stage[r] = "refused"
  /\ B!Goto(r, "done")
  /\ trail' \in {trail, trail \cup {[call |-> r, digest |-> TheCommand, permitted |-> FALSE,
                                     escalated |-> FALSE]}}
  /\ UNCHANGED <<world, req, permitted, executed, barred, spent, vars, runVars>>

(* The middleware's part of a run: no --halt-state, the default, is no halt. *)
Middleware(r) ==
  /\ \/ B!CheckHalt(r) \/ B!Review(r) \/ B!ReviewFails(r) \/ B!Audit(r)
     \/ B!AuditFails(r) \/ B!Execute(r)
  /\ UNCHANGED <<vars, runVars>>

(* The process is killed. *)
Dies(r) ==
  /\ stage[r] \notin {"new", "done"}
  /\ B!Goto(r, "done")
  /\ UNCHANGED <<world, trail, req, permitted, executed, barred, spent, vars, runVars>>

OperatorStep ==
  /\ \/ \E who \in Operator : B!Approve(TheCommand, who)
     \/ B!Deny(TheCommand)
  /\ UNCHANGED <<vars, runVars>>

(* A command on the ledger; a save moves the head under the runs. *)
LedgerStep ==
  /\ Next
  /\ heads' = [r \in Run |-> IF stage[r] \in {"new", "done"} THEN heads[r]
                            ELSE heads[r] \cup {HeadPosture(lineage')}]
  /\ UNCHANGED <<boundaryVars, resolved, option>>

GuardNext ==
  \/ \E r \in Run, o \in Options : Start(r, o)
  \/ \E r \in Run : Refuse(r) \/ Middleware(r) \/ Dies(r)
  \/ OperatorStep
  \/ LedgerStep

guardVars == <<vars, boundaryVars, runVars>>

GuardSpec == GuardInit /\ [][GuardNext]_guardVars

-----------------------------------------------------------------------------
(* What executes was judged under a posture that governed at some moment of *)
(* its run: under an approved head, or under the defaults while there was   *)
(* none; never under an older head, nor beside a live profile that drifted. *)
GovernedByApproved ==
  \A r \in executed :
    /\ resolved[r] \in Posture => resolved[r] \in heads[r]
    /\ resolved[r] = "default" => NoPosture \in heads[r] /\ ~option[r].required
    /\ option[r].live # NoPosture =>
         X!DriftEvents(Profile[option[r].live], ProfileOf(resolved[r])) = {}

(* "An operator needs to see what the candidate posture would actually      *)
(* decide" (exposure.py:13), for a case without capability facts: what runs *)
(* unasked was foretold as allowed, and what runs on a ticket as escalated; *)
(* what was foretold as allowed is permitted; and what runs unasked without *)
(* having been reported as changed against some posture is also routed so   *)
(* under that one.                                                         *)
ExposureForetells ==
  /\ \A r \in executed, baseline \in Posture :
       LET report == X!Expose(Profile[baseline], ProfileOf(resolved[r]), <<Case>>)
       IN  /\ report[1].candidate = (IF r \in spent THEN "escalate" ELSE "allow")
           /\ r \notin spent /\ X!Changed(report) = {} => Judged(baseline).route = "allow"
  /\ \A r \in Run :
       stage[r] = "audit" /\ X!Replay(ProfileOf(resolved[r]), Case) = "allow" => permitted[r]

(* The posture that governs the run decides how many operators must have    *)
(* signed, whichever posture the ticket was opened and signed under.        *)
SignedForPosture ==
  [][\A r \in spent' \ spent :
       Len(tickets[TheCommand].approvers) >= RequiredOperators[PeakSeverity(resolved[r])]]_guardVars
=============================================================================
