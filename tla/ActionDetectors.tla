---------------------------- MODULE ActionDetectors ----------------------------
(***************************************************************************)
(* The detectors of the action plane that look at the text of an action and *)
(* at where it came from.  A text is the set of the word classes that the   *)
(* shared lexicon (action/_lexicon.py) and the detectors' own expressions   *)
(* find in it; a text that is not blank has the class "text".               *)
(***************************************************************************)
EXTENDS Signals

(* Mutant: a read that untrusted content asked for raises nothing.          *)
OriginTaintOfWrites(request) ==
  IF "mutating" \in request.action /\ request.provenance \in UntrustedOrigins
  THEN Raise("origin_taint", 85, Severity.HIGH) ELSE Silence

(* OriginTaintDetector.evaluate *)
OriginTaint(request) ==
  IF request.action = {} \/ request.provenance \notin UntrustedOrigins THEN Silence
  ELSE IF "mutating" \in request.action THEN Raise("origin_taint", 85, Severity.HIGH)
  ELSE Raise("origin_taint", 60, Severity.MEDIUM)

BlastWeight == [irreversible |-> 40, system_target |-> 25, production |-> 20, breadth |-> 15]

BlastRisk(action) ==
  LET weight(class) == IF class \in action THEN BlastWeight[class] ELSE 0
  IN  weight("irreversible") + weight("system_target") + weight("production") + weight("breadth")

(* BlastRadiusDetector.evaluate, on the action without what it only prints: *)
(* irreversible, and reaching a system target or production.                *)
BlastRadiusSignal(request) ==
  LET action == request.action \ request.printed
      risk == BlastRisk(action)
  IN  IF "irreversible" \in action /\ action \cap {"system_target", "production"} # {}
      THEN Raise("blast_radius", risk, IF risk >= 80 THEN Severity.CRITICAL ELSE Severity.HIGH)
      ELSE Silence

-----------------------------------------------------------------------------
(* ReversibilityDetector: irreversible mutations come with evidence of how  *)
(* to undo them.  The evidence is the set of its keys that hold something.  *)

RawArtifacts ==
  {"diff", "raw_diff", "dry_run_output", "command_output", "stdout", "stderr", "output"}

IrreversibleSeverity(action) ==
  IF "root_delete" \in action THEN Severity.CRITICAL
  ELSE IF action \cap {"sql_mutation", "infra_destroy"} # {}
  THEN IF "drop_database" \in action THEN Severity.CRITICAL ELSE Severity.HIGH
  ELSE IF "recursive_rm" \in action THEN Severity.HIGH ELSE Severity.INFO

Unbacked(severity, type) ==
  Raise(type, IF severity = Severity.CRITICAL THEN 97 ELSE 90, severity)

Reversibility(request) ==
  LET evidence == request.evidence
      severity == IrreversibleSeverity(request.action)
  IN  IF request.action = {} THEN Silence
      ELSE FirstOf(
             << <<evidence \cap RawArtifacts # {},
                  Unbacked(Severity.HIGH, "raw_reversibility_artifact")>>,
                <<severity = Severity.INFO, Silence>>,
                <<~({"snapshot_id", "rollback_command", "transaction_id"} \subseteq evidence),
                  Unbacked(severity, "missing_reversibility")>>,
                <<evidence \cap {"dry_run_digest", "diff_digest"} = {},
                  Unbacked(Severity.HIGH, "missing_reversibility")>> >>)

-----------------------------------------------------------------------------
(* What the task asked for.                                                *)

(* IntentConsistencyDetector: a change under a task that only reads.        *)
IntentConsistency(request) ==
  IF /\ "mutating" \in request.action
     /\ "mutating_task" \notin request.query
     /\ "read_only_task" \in request.query
  THEN IF "irreversible" \in request.action
       THEN Raise("intent_mismatch", 80, Severity.HIGH)
       ELSE Raise("intent_mismatch", 60, Severity.MEDIUM)
  ELSE Silence

(* _timeline_from_request: metadata, or the request's own fields.           *)
Timeline(request) ==
  IF request.timeline # <<>> THEN request.timeline[1]
  ELSE [user_intent |-> request.query, proposed_action |-> request.action,
        action_source |-> request.provenance, retrieved_content |-> request.context,
        intermediate_plan |-> {}]

(* CausalTakeoverDetector: untrusted content carries the change that is     *)
(* proposed.  A text that contains the action word for word has the class   *)
(* "action".                                                               *)
CausalTakeover(request) ==
  LET timeline == Timeline(request)
      action == IF timeline.proposed_action = {} THEN request.action ELSE timeline.proposed_action
      intent == IF timeline.user_intent = {} THEN request.query ELSE timeline.user_intent
      source == IF timeline.action_source = Blank THEN request.provenance
                ELSE timeline.action_source
      carriers == timeline.retrieved_content \cup timeline.intermediate_plan
  IN  IF /\ "mutating" \in action
         /\ "mutating_task" \notin intent
         /\ source \in UntrustedOrigins
         /\ carriers \cap {"action", "mutating"} # {}
      THEN IF "catastrophic" \in action /\ source \in {"retrieved", "tool_output", "web"}
           THEN Raise("causal_takeover", 94, Severity.CRITICAL)
           ELSE Raise("causal_takeover", 86, Severity.HIGH)
      ELSE Silence

(* SemanticActionSupportDetector, at its threshold of 0.6.  divergence is   *)
(* the scorer's answer.                                                    *)
SemanticActionSupport(request) ==
  IF /\ request.query # {}
     /\ "mutating" \in request.action
     /\ request.divergence >= 60
  THEN Raise("action_not_supported", request.divergence,
             IF "irreversible" \in request.action /\ "mutating_task" \notin request.query
             THEN Severity.HIGH ELSE Severity.MEDIUM)
  ELSE Silence
=============================================================================
