------------------------------ MODULE McpRegistry ------------------------------
(***************************************************************************)
(* What the action plane makes of one MCP tool call: the trust registry     *)
(* (action/mcp_registry.py), the structural scan of its arguments          *)
(* (action/mcp_inspector.py) and the remote-authentication detector        *)
(* (gateway/mcp.py).                                                       *)
(*                                                                         *)
(* An argument is a record of its name, the provenance given for it, its    *)
(* value, and the traits that the lexicon finds in its key and value.      *)
(***************************************************************************)
EXTENDS McpDiscovery

CONSTANTS
  Skeleton,         \* _normalise_name: the letters of each tool name, confusables folded
  MutatingTools,    \* tool names with a state-changing verb
  ReadVerbTools,    \* tool names with a verb of _READ_VERBS
  Violates(_, _)    \* whether arguments violate an argument schema (ArgumentSchema)

(* Equal, or one letter differs, or two neighbours are swapped, or one has  *)
(* one letter more.                                                        *)
EditDistanceAtMostOne(left, right) ==
  IF Len(left) = Len(right)
  THEN LET D == {i \in DOMAIN left : left[i] # right[i]}
       IN  \/ Cardinality(D) <= 1
           \/ \E i \in D : /\ D = {i, i + 1}
                           /\ left[i] = right[i + 1]
                           /\ left[i + 1] = right[i]
  ELSE LET shorter == IF Len(left) < Len(right) THEN left ELSE right
           longer == IF Len(left) < Len(right) THEN right ELSE left
           common == Max({n \in 0 .. Len(shorter) : \A i \in 1 .. n : shorter[i] = longer[i]})
       IN  /\ Len(longer) = Len(shorter) + 1
           /\ \A i \in common + 1 .. Len(shorter) : shorter[i] = longer[i + 1]

-----------------------------------------------------------------------------
(* MCPTrustRegistry.  The registrations are those the gateway was built     *)
(* with; dynamic and signed are the service's two flags.                   *)

(* _lookalike: over the registered tools of every server.                   *)
Lookalike(call, registrations) ==
  \E r \in Pinned(registrations) : EditDistanceAtMostOne(Skeleton[r.tool], Skeleton[call.tool])

(* population_issues: too empty to enforce. *)
Underpopulated(r) ==
  \/ r.server = Blank
  \/ r.tool = Blank
  \/ r.identity = NoIdentity
  \/ r.schema = NoSchema
  \/ r.arguments = NoArguments

(* call_transport: the tool schema's, else the identity's. *)
CallTransport(call) ==
  Lower(IF call.schema.transport # Blank THEN call.schema.transport ELSE call.identity.transport)

(* fingerprint_for: the manifest with what the call says of itself. *)
CallFingerprint(call, r) ==
  <<call.server, call.tool, call.identity, call.schema, call.arguments, r.transports>>

Trust(type) == Raise(type, 90, Severity.HIGH)

Registered(call, registrations) == {r \in Pinned(registrations) : Key(r) = Key(call)}

(* Mutant: a registered tool is trusted whatever the call says of it.       *)
RegistrySignalUndrifted(call, registrations, dynamic, signed) ==
  IF Registered(call, registrations) # {} THEN Silence
  ELSE FirstOf(<< <<Lookalike(call, registrations), Trust("mcp_lookalike_tool")>>,
                  <<~dynamic, Trust("mcp_unknown_tool")>> >>)

(* MCPTrustRegistry.evaluate *)
RegistrySignal(call, registrations, dynamic, signed) ==
  LET known == Registered(call, registrations)
      r == CHOOSE r \in known : TRUE
  IN  IF known = {}
      THEN FirstOf(<< <<Lookalike(call, registrations), Trust("mcp_lookalike_tool")>>,
                      <<~dynamic, Trust("mcp_unknown_tool")>> >>)
      ELSE FirstOf(
             << <<Underpopulated(r), Trust("mcp_underpopulated_registration")>>,
                <<signed /\ r.signature = Blank, Trust("mcp_unsigned_registration")>>,
                <<r.signature \notin {Blank, "valid"}, Trust("mcp_registration_signature_mismatch")>>,
                <<r.transports # {} /\ CallTransport(call) \notin r.transports \cup {Blank},
                  Trust("mcp_transport_mismatch")>>,
                <<CallFingerprint(call, r) # Fingerprint(r), Trust("mcp_schema_drift")>>,
                <<Violates(call.args, r.arguments), Trust("mcp_argument_schema_violation")>> >>)

-----------------------------------------------------------------------------
(* The structural scan.                                                    *)

(* provenance_of, is_tainted: an argument without a provenance of its own   *)
(* has the call's.                                                         *)
Tainted(call, a) ==
  (IF a.provenance # Blank THEN a.provenance ELSE call.provenance) \in UntrustedOrigins

TaintDrives(call, a) ==
  Tainted(call, a) /\ (call.tool \in MutatingTools \/ "mutating" \in a.traits)

(* A tool that reads, and does not write, is pointed at a system path, or   *)
(* is handed something that writes.                                        *)
Reads(call) == call.tool \in ReadVerbTools \ MutatingTools

Findings(call) ==
  {f \in {<<85, Severity.HIGH>>, <<70, Severity.HIGH>>, <<60, Severity.MEDIUM>>} :
     CASE f[1] = 85 ->
            \/ \E a \in call.args : TaintDrives(call, a)
            \/ \E a, b \in call.args : "destination" \in a.traits /\ "secret" \in b.traits
       [] f[1] = 70 -> Reads(call) /\ \E a \in call.args : "system_target" \in a.traits
       [] f[1] = 60 ->
            \E a \in call.args :
              \/ Tainted(call, a) /\ ~TaintDrives(call, a)
              \/ /\ Reads(call)
                 /\ "system_target" \notin a.traits
                 /\ a.traits \cap {"mutating", "irreversible"} # {}
              \/ "traversal" \in a.traits}

(* The finding of highest severity and, of these, of highest score.  The    *)
(* Rust scan's answer is used only when it is the same.                    *)
StructuralSignal(call) ==
  LET found == Findings(call)
      top == CHOOSE f \in found :
               \A g \in found : g[2] < f[2] \/ (g[2] = f[2] /\ g[1] <= f[1])
  IN  IF found = {} THEN Silence ELSE Raise("mcp_tool_call", top[1], top[2])

(* MCPCallInspector.evaluate: the registry's answer comes first.            *)
InspectorSignal(call, registrations, dynamic, signed) ==
  LET registry == RegistrySignal(call, registrations, dynamic, signed)
  IN  IF registry # Silence THEN registry ELSE StructuralSignal(call)

(* _MCPRemoteAuthDetector.evaluate *)
RemoteAuthSignal(call) ==
  IF RemoteAuthFindings(CallTransport(call), call.identity, call.auth) = {} THEN Silence
  ELSE Raise("mcp_remote_auth", 90, Severity.HIGH)
=============================================================================
