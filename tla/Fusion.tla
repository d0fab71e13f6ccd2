-------------------------------- MODULE Fusion --------------------------------
(***************************************************************************)
(* fuse (core/fusion.py): the signals of the detectors that have run, on    *)
(* three planes, resolved into one verdict.  Scores are weighted scores     *)
(* (score times calibration) in parts of Unit.                             *)
(***************************************************************************)
EXTENDS Signals

CONSTANTS
  Plane,              \* the plane of each detector
  Unit,               \* a weighted score of 1.0
  threshold, margin   \* the policy's, per plane: action_block_threshold for "action"

Planes == {"content", "integrity", "action"}

ASSUME UnitAssumption == Unit \in Nat \ {0}
ASSUME PolicyAssumption == threshold \in [Planes -> Nat] /\ margin \in [Planes -> Nat]

(* evaluate returned None: the detector has nothing to say. *)
NoSignal == [score |-> -1]

Verdict == [allow : BOOLEAN, requires_human : BOOLEAN]

(* taint_signal_types: an injected, exfiltrating or structurally tainted    *)
(* action.                                                                 *)
TaintTypes ==
  {"origin_taint", "mcp_tool_call", "exfiltration", "causal_takeover", "mcp_remote_auth",
   "capability_context_missing", "capability_missing", "capability_origin_denied",
   "mcp_underpopulated_registration", "mcp_unsigned_registration",
   "mcp_registration_signature_mismatch", "mcp_schema_drift", "mcp_lookalike_tool",
   "mcp_transport_mismatch", "mcp_argument_schema_violation",
   "browser_prompt_injection", "browser_malicious_iframe", "browser_popup_hijack",
   "browser_clipboard_exfiltration", "browser_unsafe_download",
   "browser_cross_site_task_drift",
   "memory_poisoning", "stale_tool_schema", "persistent_instruction_injection",
   "delayed_malicious_objective", "task_plan_drift", "memory_secret_leakage"}

(* never_soften_signal_types: a catastrophic class of action.               *)
NeverSoftenTypes ==
  {"availability_loss", "bucket_deletion", "datastore_drop", "datastore_flush",
   "destructive_command", "disk_overwrite", "filesystem_format", "fork_bomb",
   "history_rewrite", "infra_teardown", "process_kill", "privilege_escalation",
   "sql_drop", "sql_truncate"}

(* What fusion makes of a signal's type. *)
KindOf(signal_type) ==
  CASE signal_type \in TaintTypes -> "taint"
    [] signal_type \in NeverSoftenTypes -> "never_soften"
    [] OTHER -> "plain"

(* The three kinds of signal types. *)
Kind == {"plain", "taint", "never_soften"}

-----------------------------------------------------------------------------
(* fuse.  ran is the set of detectors that have run, rep their reports.    *)

Signals(ran, rep, plane) == {d \in ran : Plane[d] = plane /\ rep[d] # NoSignal}

(* _noisy_or multiplies what each of the signals leaves.                    *)
Product(factor) == FoldFunction(LAMBDA x, y : x * y, 1, factor)

(* A weighted score of 1.0 of each signal: the scale of their noisy-or.     *)
Scale(S) == Product([d \in S |-> Unit])

(* 1 - risk of the noisy-or, in parts of Scale(S). *)
Missed(S, rep) == Product([d \in S |-> Unit - rep[d].score])

(* Mutant: the risk of a plane is the mean of its scores. *)
RiskMean(S, rep) ==
  (FoldSet(LAMBDA d, sum : sum + rep[d].score, 0, S) * Scale(S)) \div Cardinality(S)

(* content_risk, in parts of Unit * Scale(S). *)
Risk(S, rep) == Unit * (Scale(S) - Missed(S, rep))

Parts(S, part) == part * Scale(S)

Near(risk, limit, band) == band > 0 /\ risk >= limit - band /\ risk <= limit + band

PlaneBlocks(ran, rep, plane) ==
  LET S == Signals(ran, rep, plane)
  IN  S # {} /\ Risk(S, rep) >= Parts(S, threshold[plane])

PlaneBorderline(ran, rep, plane) ==
  LET S == Signals(ran, rep, plane)
  IN  /\ S # {}
      /\ ~PlaneBlocks(ran, rep, plane)
      /\ Near(Risk(S, rep), Parts(S, threshold[plane]), Parts(S, margin[plane]))

Objectors(ran, rep) ==
  {d \in Signals(ran, rep, "action") : rep[d].score >= threshold["action"]}

(* Without an objector, a borderline highest score: the highest score is    *)
(* the one nearest to the threshold from below.                            *)
ActionBorderline(ran, rep) ==
  /\ Objectors(ran, rep) = {}
  /\ \E d \in Signals(ran, rep, "action") :
       Near(rep[d].score, threshold["action"], margin["action"])

(* Mutant: one plain objector is enough to soften. *)
SoftenedByAny(ran, rep, provenance) ==
  provenance = "user" /\ \E d \in Objectors(ran, rep) : rep[d].kind = "plain"

(* user_authorised_destructive *)
Softened(ran, rep, provenance) ==
  provenance = "user" /\ \A d \in Objectors(ran, rep) : rep[d].kind = "plain"

ActionBlocks(ran, rep, provenance) ==
  Objectors(ran, rep) # {} /\ ~Softened(ran, rep, provenance)

(* A blocked CRITICAL action asks for a human too, unless never softened.  *)
CriticalBlock(ran, rep) ==
  /\ \E d \in Objectors(ran, rep) : rep[d].severity >= Severity.CRITICAL
  /\ \A d \in Objectors(ran, rep) : rep[d].kind # "never_soften"

Fuse(ran, rep, provenance) ==
  [allow |->
     /\ ~PlaneBlocks(ran, rep, "content")
     /\ ~PlaneBlocks(ran, rep, "integrity")
     /\ ~ActionBlocks(ran, rep, provenance),
   requires_human |->
     \/ PlaneBorderline(ran, rep, "content")
     \/ PlaneBorderline(ran, rep, "integrity")
     \/ ActionBorderline(ran, rep)
     \/ Objectors(ran, rep) # {} /\ Softened(ran, rep, provenance)
     \/ ActionBlocks(ran, rep, provenance) /\ CriticalBlock(ran, rep)]
=============================================================================
