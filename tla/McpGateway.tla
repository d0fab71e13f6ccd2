------------------------------ MODULE McpGateway ------------------------------
(***************************************************************************)
(* MCPGateway (gateway/mcp.py): what a gateway built from registrations and *)
(* from the approved head of the policy ledger makes of a tool call and of  *)
(* a tool's response.  The detectors that read text (destructive commands,  *)
(* blast radius, memory, injection, PII) answer as the request says; the    *)
(* others are computed.  All run in tier 0, so that none is ever skipped.   *)
(***************************************************************************)
EXTENDS McpRegistry, CapabilityPolicy, ActionDetectors

CONSTANTS
  Postures,   \* the heads of the ledger, in order: thresholds, margins, capability profile
  Grants      \* capability_grants

CallDetectors ==
  {"mcp_call", "mcp_remote_auth", "remanentia_memory_governance", "destructive_command",
   "blast_radius", "origin_taint", "capability_policy"}

ResponseDetectors ==
  {"remanentia_memory_governance", "destructive_command", "blast_radius", "injection_prompt",
   "pii_content"}

GatewayPlane ==
  [d \in CallDetectors \cup ResponseDetectors |->
     CASE d = "injection_prompt" -> "integrity"
       [] d = "pii_content" -> "content"
       [] OTHER -> "action"]

F(posture) ==
  INSTANCE Fusion WITH Plane <- GatewayPlane, Unit <- 100,
                       threshold <- posture.threshold, margin <- posture.margin

(* FusionPolicy(): the thresholds 0.5, 0.5 and 0.3, all with margin 0.15.   *)
DefaultPosture ==
  [threshold |-> [content |-> 50, integrity |-> 50, action |-> 30],
   margin |-> [content |-> 15, integrity |-> 15, action |-> 15],
   profile |-> "deny_all_actions"]

(* active_fusion_policy: the approved head, or the defaults without one.    *)
ActivePosture(head) == IF head = 0 THEN DefaultPosture ELSE Postures[head]

(* CapabilityPolicyDetector, which is there only under an approved head.    *)
CapabilityAnswer(q, head) ==
  IF head = 0 THEN Silence
  ELSE CapabilitySignal(Compile(Postures[head].profile, Grants), q.capability)

(* What the text detectors answer on the request. *)
TextAnswer(q, d) == IF d \in DOMAIN q.answers THEN q.answers[d] ELSE Silence

CallAnswer(q, d, gateway, config) ==
  CASE d = "mcp_call" -> InspectorSignal(q.call, gateway.pinned, config.dynamic, config.signed)
    [] d = "mcp_remote_auth" -> RemoteAuthSignal(q.call)
    [] d = "origin_taint" -> OriginTaint([action |-> q.action, provenance |-> q.provenance])
    [] d = "capability_policy" -> CapabilityAnswer(q, gateway.head)
    [] OTHER -> TextAnswer(q, d)

Report(posture, signal) ==
  IF signal = Silence THEN F(posture)!NoSignal
  ELSE [score |-> signal.score, severity |-> signal.severity,
        kind |-> F(posture)!KindOf(signal.type)]

(* Governor.review without an approval hook: an escalated verdict stays     *)
(* blocked.                                                                *)
Permits(verdict) == verdict.allow /\ ~verdict.requires_human

(* MCPGateway.review *)
PermitsCall(q, gateway, config) ==
  LET posture == ActivePosture(gateway.head)
      reports == [d \in CallDetectors |->
                    Report(posture, CallAnswer(q, d, gateway, config))]
  IN  Permits(F(posture)!Fuse(CallDetectors, reports, q.provenance))

(* MCPGateway.review_response: the response governor knows no posture, and  *)
(* a response has no provenance.                                           *)
PermitsResponse(q) ==
  LET reports == [d \in ResponseDetectors |-> Report(DefaultPosture, TextAnswer(q, d))]
  IN  Permits(F(DefaultPosture)!Fuse(ResponseDetectors, reports, Blank))
=============================================================================
