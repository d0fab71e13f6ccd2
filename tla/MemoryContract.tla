---------------------------- MODULE MemoryContract ----------------------------
(***************************************************************************)
(* Memory writes and recalls: the contract under which stored text may      *)
(* influence later actions (action/memory.py), and the Remanentia MCP tools *)
(* that write, label and read memory (action/remanentia.py).  Texts are     *)
(* sets of word classes, as in ActionDetectors.                            *)
(***************************************************************************)
EXTENDS Signals

(* The digest of a contract is a function of its terms, so all that matters *)
(* of the digest it carries is whether it is that one.                     *)
Signed(contract) == [contract EXCEPT !.digest = "of_terms"]

(* A mapping that is empty, or no contract at all. *)
NoContract ==
  [tenant |-> Blank, expires_at |-> 0, tier |-> Blank, contexts |-> {}, digest |-> Blank]

TrustedTiers == {"trusted", "curated", "operator"}

(* Mutant: a contract that has expired still admits.                        *)
AdmitsExpired(contract, context) ==
  /\ contract.tenant = context.tenant
  /\ context.retrieval_context \in contract.contexts
  /\ contract.tier \in TrustedTiers

(* The terms admit this retrieval. *)
Admits(contract, context) ==
  /\ contract.tenant = context.tenant
  /\ ~(contract.expires_at # 0 /\ context.now # 0 /\ context.now > contract.expires_at)
  /\ context.retrieval_context \in contract.contexts
  /\ contract.tier \in TrustedTiers

IsValidFor(contract, context) == contract.digest = "of_terms" /\ Admits(contract, context)

StaleSchema(context) ==
  /\ Blank \notin {context.cached_schema, context.live_schema}
  /\ context.cached_schema # context.live_schema
  /\ "schema_words" \in context.plan.retrieved_context

(* A plan or retrieved text turns a goal that only reads into a change.     *)
PlanDrift(context, request) ==
  LET plan == context.plan
      proposed == IF plan.proposed_next_action = {} THEN request.action
                  ELSE plan.proposed_next_action
      goal == IF plan.user_goal = {} THEN request.query ELSE plan.user_goal
  IN  /\ "mutating" \in proposed
      /\ "mutating_task" \notin goal
      /\ "read_only_goal" \in goal
      /\ (plan.current_plan \cup plan.retrieved_context) \cap {"mutating", "action"} # {}

Threat(type) == Raise(type, 88, Severity.HIGH)

(* MemoryThreatDetector.evaluate *)
MemorySignal(context, request) ==
  LET carried == context.memory_text \cup context.plan.retrieved_context
  IN  FirstOf(<< <<~IsValidFor(context.contract, context), Threat("memory_poisoning")>>,
                 <<context.memory_source \in UntrustedOrigins, Threat("memory_poisoning")>>,
                 <<StaleSchema(context), Threat("stale_tool_schema")>>,
                 <<"persistent" \in context.memory_text,
                   Threat("persistent_instruction_injection")>>,
                 <<{"delayed", "mutating"} \subseteq carried,
                   Threat("delayed_malicious_objective")>>,
                 <<PlanDrift(context, request), Threat("task_plan_drift")>> >>)

(* A request without memory metadata is not about memory. *)
MemoryThreat(request) ==
  IF request.memory = <<>> THEN Silence ELSE MemorySignal(request.memory[1], request)

-----------------------------------------------------------------------------
(* Remanentia.                                                             *)

(* A name is normalised before it is looked up: trimmed, lower case, with   *)
(* underscores.                                                            *)
WriteTools ==
  {"remanentia_remember", "remanentia_consolidate", "remember", "store", "consolidate"}
LabelTools ==
  {"remanentia_recall_feedback", "remanentia_recall_correctness", "recall_feedback",
   "recall_correctness"}
RecallTools == {"remanentia_recall", "remanentia_graph", "recall", "search", "graph"}

PrefixedTools ==
  {"remanentia_remember", "remanentia_consolidate", "remanentia_recall_feedback",
   "remanentia_recall_correctness", "remanentia_recall", "remanentia_graph"}

IsRemanentiaCall(call) ==
  "remanentia" \in {call.server, call.identity_name} \/ call.tool \in PrefixedTools

FirstPresent(values, default) ==
  LET present == {i \in DOMAIN values : values[i] # Blank}
  IN  IF present = {} THEN default ELSE values[Min(present)]

(* _memory_context_from_request: explicit metadata, or the arguments of the *)
(* call with defaults.                                                     *)
MemoryContext(request, call) ==
  IF request.remanentia # <<>> THEN request.remanentia[1]
  ELSE LET args == call.args
       IN  [tenant |-> FirstPresent(<<args.tenant>>, request.tenant),
            retrieval_context |->
              FirstPresent(<<args.retrieval_context, args.project, args.type>>, "remanentia"),
            now |-> args.now,
            contract |-> args.contract,
            plan |-> IF args.plan # <<>> THEN args.plan[1]
                     ELSE [user_goal |-> request.query, current_plan |-> request.context,
                           retrieved_context |-> args.retrieved_context,
                           proposed_next_action |-> request.action],
            cached_schema |-> args.cached_schema,
            live_schema |-> args.live_schema,
            memory_text |-> args.content,
            memory_source |-> FirstPresent(<<args.memory_source>>, call.provenance)]

(* _evaluate_memory_write: the context travels as as_metadata, which signs  *)
(* the contract it holds, if it holds one.                                 *)
MemoryWriteSignal(request, call) ==
  LET context == MemoryContext(request, call)
      contract == context.contract
  IN  MemorySignal([context EXCEPT
        !.contract = IF contract = NoContract THEN NoContract ELSE Signed(contract)], request)

HighImpactWrite(call) ==
  \/ call.tool \in {"remanentia_consolidate", "consolidate"}
  \/ call.args.scope \in
       {"global", "identity", "system", "fleet", "tenant", "org", "organization"}
  \/ call.args.type \in
       {"policy", "approval", "identity", "credential", "safety", "security", "trigger"}
  \/ call.args.trigger # Blank
  \/ "high_impact" \in call.args.content

HighImpactLabel(call) ==
  "false" \in {call.args.was_correct, call.args.was_used} \/ call.args.query # Blank

MutationApproval == Raise("remanentia_memory_mutation_approval", 42, Severity.HIGH)

(* RemanentiaMemoryGovernanceDetector.evaluate.  What a recall says is the  *)
(* response, or else the action.                                           *)
Remanentia(request) ==
  IF request.call = <<>> \/ ~IsRemanentiaCall(request.call[1]) THEN Silence
  ELSE LET call == request.call[1]
           says == IF request.response = {} THEN request.action ELSE request.response
       IN  CASE call.tool \in WriteTools ->
                  LET write == MemoryWriteSignal(request, call)
                  IN  FirstOf(<< <<write # Silence, write>>,
                                 <<HighImpactWrite(call), MutationApproval>> >>)
             [] call.tool \in LabelTools ->
                  IF HighImpactLabel(call) THEN MutationApproval ELSE Silence
             [] call.tool \in RecallTools ->
                  IF "secret" \in says THEN Raise("memory_secret_leakage", 95, Severity.HIGH)
                  ELSE Silence
             [] OTHER -> Silence
=============================================================================
