-------------------------- MODULE AuthorisedWorkflow --------------------------
(***************************************************************************)
(* run_authorised_shell_workflow (workflows/authorised_execution.py): one   *)
(* program reviews a command without running it, approves its ticket, runs  *)
(* it and tries to run it again.  Its effector is a ShellEffectorAdapter    *)
(* (effectors/shell.py) without halt switch and audit sink.  Calls of the   *)
(* boundary and operators use the same approval queue meanwhile.           *)
(***************************************************************************)
EXTENDS EffectorBoundary

CONSTANT Shell   \* the digest of the command

ASSUME ShellAssumption == Shell \in Digest

VARIABLES
  step,       \* the statement the workflow is at
  judged,     \* what its ensemble makes of the command, every time
  ran,        \* the runs whose executor was started
  consumed,   \* consumed_status
  pending,    \* what queue.pending() last returned
  fresh,      \* history: the ticket was closed, or not there, at the start
  alone       \* history: nobody else has changed the ticket since

workVars == <<step, judged, ran, consumed, pending, fresh, alone>>

WorkInit ==
  /\ Init
  /\ step = "initial"
  /\ judged \in Fused[Shell]
  /\ ran = {} /\ consumed = "none" /\ pending = {}
  /\ fresh = TRUE /\ alone = TRUE

Need == RequiredApprovals(judged.verdict)

Yes == judged.route = "human" /\ Permits(tickets[Shell], Need, now)

(* Governor.review, without a sink. *)
ReviewShell ==
  /\ IF judged.route = "human" THEN Ask(Shell, Need) ELSE UNCHANGED <<tickets, consents>>
  /\ UNCHANGED <<halted, now, granted, trail, pc, req, permitted, executed, barred, spent>>

Allowed == judged.route = "allow" \/ Yes

(* run_command(dry_run=True) *)
Initial ==
  /\ step = "initial"
  /\ ReviewShell
  /\ step' = "opened"
  /\ fresh' = Reopens(tickets[Shell], now)
  /\ alone' = TRUE
  /\ UNCHANGED <<judged, ran, consumed, pending>>

(* queue.pending(): of each ticket its digest and signatures.               *)
Pending == {<<d, tickets[d].approvers>> : d \in {e \in Digest : tickets[e].status = "pending"}}

InspectOpened ==
  /\ step = "opened"
  /\ pending' = Pending
  /\ step' = "approve"
  /\ UNCHANGED <<vars, judged, ran, consumed, fresh, alone>>

(* queue.approve raises when no ticket is pending, or it is signed already. *)
ApproveOwn(who) ==
  /\ step = "approve"
  /\ IF CanApprove(tickets[Shell], who)
     THEN /\ tickets' = [tickets EXCEPT ![Shell] = Approved(@, who, now)]
          /\ granted' = [granted EXCEPT ![Shell] =
                          IF tickets'[Shell].status = "approved" THEN @ + 1 ELSE @]
          /\ consents' = [consents EXCEPT ![Shell] = @ \cup {[who |-> who, at |-> now]}]
          /\ step' = "approved"
          /\ UNCHANGED pending
     ELSE UNCHANGED <<tickets, granted, consents>> /\ step' = "raised" /\ pending' = {}
  /\ UNCHANGED <<halted, now, trail, pc, req, permitted, executed, barred, spent>>
  /\ UNCHANGED <<judged, ran, consumed, fresh, alone>>

(* The two runs for real: of the approved command, and of its replay. *)
Executing == [approved |-> "execute approved", replay |-> "execute replay"]
After == [approved |-> "after approved", replay |-> "after replay"]

(* Mutant: the adapter runs what it was told to run for real.               *)
RunsUnpermitted(run) ==
  /\ step = run
  /\ ReviewShell
  /\ step' = Executing[run]
  /\ UNCHANGED <<judged, ran, consumed, pending, fresh, alone>>

(* run_command(dry_run=False), up to the executor. *)
Runs(run) ==
  /\ step = run
  /\ ReviewShell
  /\ step' = IF Allowed THEN Executing[run] ELSE After[run]
  /\ UNCHANGED <<judged, ran, consumed, pending, fresh, alone>>

ExecuteShell(run) ==
  /\ step = Executing[run]
  /\ ran' = ran \cup {run}
  /\ step' = After[run]
  /\ UNCHANGED <<vars, judged, consumed, pending, fresh, alone>>

(* queue.get after the first run; the report, with what is pending, after the *)
(* second.                                                                 *)
Inspect(run) ==
  /\ step = After[run]
  /\ consumed' = IF run = "approved" THEN tickets[Shell].status ELSE consumed
  /\ pending' = IF run = "approved" THEN pending ELSE Pending
  /\ step' = IF run = "approved" THEN "replay" ELSE "reported"
  /\ UNCHANGED <<vars, judged, ran, fresh, alone>>

Ended == step \in {"reported", "raised"}

(* Without a report what it would have said is lost. *)
WorkflowDies ==
  /\ ~Ended
  /\ step' = "raised"
  /\ consumed' = "none" /\ pending' = {}
  /\ UNCHANGED <<vars, judged, ran, fresh, alone>>

Workflow ==
  \/ Initial \/ InspectOpened
  \/ \E who \in Approver : ApproveOwn(who)
  \/ \E run \in {"approved", "replay"} : Runs(run) \/ ExecuteShell(run) \/ Inspect(run)
  \/ WorkflowDies

(* What the calls of the boundary and the operators do meanwhile. *)
Others ==
  /\ Next
  /\ alone' = (alone /\ (Ended \/ tickets'[Shell] = tickets[Shell]))
  /\ UNCHANGED <<step, judged, ran, consumed, pending, fresh>>

WorkNext == Workflow \/ Others

WorkSpec == WorkInit /\ [][WorkNext]_<<vars, workVars>>

-----------------------------------------------------------------------------
(* "The first review opens a pending approval and does not execute, the     *)
(* named approval permits one non-dry-run execution, and a replay is routed *)
(* back to review with a fresh pending ticket"                              *)
(* (authorised_execution.py:12), when nobody else uses the ticket, one      *)
(* approval suffices and it does not expire on the way.                    *)
ReportHolds ==
  judged.route = "human" /\ Need = 1 /\ fresh /\ alone /\ now = 0 =>
    /\ step \in {"approve", "reported"} => <<Shell, <<>>>> \in pending
    /\ step = "reported" => ran = {"approved"} /\ consumed = "consumed"

(* Dual control, for the calls and for the workflow: an escalated action is  *)
(* let through only on the consents, to one ticket and used by nothing      *)
(* before, of as many different operators as its own verdict requires       *)
(* (approvals/queue.py:9), whoever else asks, approves or denies meanwhile  *)
(* and whatever the ticket was opened and signed for.                       *)
EscalationsConsented ==
  [][/\ \A c \in spent' \ spent : ConsentedTo(req[c].digest, req[c].fused.verdict)
     /\ \A run \in {"approved", "replay"} :
          Runs(run) /\ step' = Executing[run] /\ judged.route = "human"
            => ConsentedTo(Shell, judged.verdict)]_<<vars, workVars>>

(* With others on the same ticket, the workflow's runs and theirs together  *)
(* are never more than the tickets that operators, the workflow's approver  *)
(* among them, completed.                                                  *)
SharedTicketPaid ==
  judged.route = "human" =>
    Cardinality(ran)
      + Cardinality({c \in executed : req[c].digest = Shell /\ req[c].fused.route = "human"})
      <= granted[Shell]
=============================================================================
