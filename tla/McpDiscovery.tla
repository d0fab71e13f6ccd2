----------------------------- MODULE McpDiscovery -----------------------------
(***************************************************************************)
(* Review of a tools/list envelope before its tools are trusted            *)
(* (gateway/mcp.py and gateway/mcp_discovery_rules.py): what a descriptor   *)
(* may not say, how it must authenticate, and how it must agree with the    *)
(* registrations pinned before.                                            *)
(*                                                                         *)
(* A text is the set of the phrases it contains, each in the form it is     *)
(* written in.                                                            *)
(***************************************************************************)
EXTENDS Signals

CONSTANTS
  Normalised,   \* normalise_tool_name: the collision key of each tool name
  ReadTools,    \* tool names with a read verb (_READ_TOOL)
  NoArguments   \* an empty argument schema

(* transport.strip().lower() *)
Lower(transport) == IF transport = "HTTPS " THEN "https" ELSE transport

RemoteTransports == {"http", "https", "sse", "websocket"}

Transports == RemoteTransports \cup {"stdio"}

TrustedProvenance == {"tls_verified", "pinned_certificate", "mtls", "loopback"}

(* server_identity: who the server is and, possibly, its transport.         *)
NoIdentity == [id |-> Blank, transport |-> Blank]

(* What else the mapping holds is text like any other.                      *)
NoAuth == [presented |-> Blank, expected |-> Blank, identity |-> NoIdentity,
           provenance |-> Blank, authenticated |-> FALSE, text |-> {}]

(* Audience and provenance of a remote server, bound to the identity it     *)
(* shows in the descriptor or in the call.                                 *)
RemoteAuthFindings(transport, identity, auth) ==
  IF transport \notin RemoteTransports THEN {}
  ELSE IF auth = NoAuth THEN {"remote_auth_missing"}
  ELSE {f \in {"remote_audience_mismatch", "remote_identity_missing", "remote_identity_mismatch",
               "remote_transport_unverified", "remote_auth_not_authenticated"} :
          CASE f = "remote_audience_mismatch" ->
                 auth.presented = Blank \/ auth.presented # auth.expected
            [] f = "remote_identity_missing" -> auth.identity = NoIdentity
            [] f = "remote_identity_mismatch" -> auth.identity \notin {NoIdentity, identity}
            [] f = "remote_transport_unverified" -> auth.provenance \notin TrustedProvenance
            [] f = "remote_auth_not_authenticated" -> ~auth.authenticated}

-----------------------------------------------------------------------------
(* descriptor_poisoning_findings.                                          *)

(* The forms that _text_variants undoes: as written, NFKC-normalised,       *)
(* without zero-width characters, rot13 of that, and base64 tokens of up to *)
(* 4096 bytes that hold plain or rot13 text.                               *)
Readable == {"plain", "nfkc", "zero_width", "rot13", "base64", "rot13_in_base64"}

Says(text, topics) == \E p \in text : p.topic \in topics /\ p.form \in Readable

(* The four expressions overlap: "always use" and "prefer this tool" are    *)
(* both poisoning and preference.                                          *)
Poisoning == {"injection", "preference"}
Preference == {"preference", "priority"}

(* Everything a descriptor says: description, instructions, the schemas     *)
(* with their defaults, the hidden metadata and the remote authentication.  *)
DiscoveryText(d) == d.text \cup d.defaults \cup d.hidden \cup d.auth.text

OutOfScope(d) == d.tool \in ReadTools /\ "mutating" \in d.params

PoisoningFindings(d) ==
  {f \in {"discovery_poisoning", "parameter_name_poisoning", "schema_default_poisoning",
          "hidden_metadata_poisoning", "preference_manipulation", "false_error_escalation",
          "tool_transfer", "out_of_scope_parameter"} :
     CASE f = "discovery_poisoning" -> Says(DiscoveryText(d), Poisoning)
       [] f = "parameter_name_poisoning" -> "poison" \in d.params
       [] f = "schema_default_poisoning" -> Says(d.defaults, Poisoning)
       [] f = "hidden_metadata_poisoning" -> Says(d.hidden, Poisoning \cup Preference)
       [] f = "preference_manipulation" -> Says(DiscoveryText(d), Preference)
       [] f = "false_error_escalation" -> Says(DiscoveryText(d), {"on_error_run"})
       [] f = "tool_transfer" -> Says(DiscoveryText(d), {"call_another"})
       [] f = "out_of_scope_parameter" -> OutOfScope(d)}

-----------------------------------------------------------------------------
NoSchema == [text |-> {}, defaults |-> {}, params |-> {}, transport |-> Blank]

(* The signed manifest: all of the descriptor but the hidden metadata and   *)
(* the remote authentication.                                              *)
Registration(d) ==
  [server |-> d.server, tool |-> d.tool, identity |-> d.identity,
   schema |-> [text |-> d.text, defaults |-> d.defaults, params |-> d.params,
               transport |-> d.transport],
   arguments |-> d.arguments, transports |-> {Lower(d.transport)}, signature |-> "valid"]

Key(r) == <<r.server, r.tool>>

(* The fingerprint is a digest of the manifest: equal for equal manifests. *)
Fingerprint(r) == <<r.server, r.tool, r.identity, r.schema, r.arguments, r.transports>>

(* A dictionary of registrations by key: of two with one key the later one  *)
(* stays.                                                                  *)
Pinned(registrations) ==
  {registrations[i] : i \in {j \in DOMAIN registrations :
     \A k \in DOMAIN registrations : Key(registrations[k]) = Key(registrations[j]) => k <= j}}

(* Mutant: a tool that is known already is not compared again.              *)
PinFindingsByKey(descriptors, pinned) ==
  IF \E r \in pinned : \A i \in DOMAIN descriptors : Key(descriptors[i]) # Key(r)
  THEN {"tofu_pin_missing"} ELSE {}

(* Trust on first use: what was pinned for the server comes back, all of it *)
(* and unchanged.                                                          *)
PinFindings(descriptors, pinned) ==
  {f \in {"tofu_pin_mismatch", "tofu_pin_missing"} :
     CASE f = "tofu_pin_mismatch" ->
            \E i \in DOMAIN descriptors, r \in pinned :
              /\ Key(descriptors[i]) = Key(r)
              /\ Fingerprint(Registration(descriptors[i])) # Fingerprint(r)
       [] f = "tofu_pin_missing" ->
            \E r \in pinned : \A i \in DOMAIN descriptors : Key(descriptors[i]) # Key(r)}

EnvelopeFindings(server, descriptors) ==
  LET D == {descriptors[i] : i \in DOMAIN descriptors}
  IN  {f \in {"missing_server", "empty_discovery", "server_mismatch", "missing_tool",
              "unsupported_transport", "duplicate_tool_descriptor", "tool_name_collision"} :
         CASE f = "missing_server" -> server = Blank
           [] f = "empty_discovery" -> D = {}
           [] f = "server_mismatch" -> \E d \in D : d.server # server
           [] f = "missing_tool" -> \E d \in D : d.tool = Blank
           [] f = "unsupported_transport" -> \E d \in D : Lower(d.transport) \notin Transports
           [] f = "duplicate_tool_descriptor" ->
                \E i, j \in DOMAIN descriptors : i < j /\ Key(descriptors[i]) = Key(descriptors[j])
           [] f = "tool_name_collision" ->
                \E d, e \in D : /\ d.server = e.server /\ d.tool # e.tool
                                /\ Normalised[d.tool] = Normalised[e.tool]}

(* review_discovery: an envelope with no finding is permitted.  semantic    *)
(* says whether an injection or PII detector answers on a descriptor.      *)
DiscoveryFindings(server, descriptors, registrations) ==
  LET D == {descriptors[i] : i \in DOMAIN descriptors}
  IN  EnvelopeFindings(server, descriptors)
      \cup PinFindings(descriptors, {r \in Pinned(registrations) : r.server = server})
      \cup UNION {PoisoningFindings(d) : d \in D}
      \cup UNION {RemoteAuthFindings(Lower(d.transport), d.identity, d.auth) : d \in D}
      \cup (IF \E d \in D : d.semantic THEN {"semantic"} ELSE {})
=============================================================================
