---------------------------- MODULE MC_McpService ----------------------------
EXTENDS McpService, ArgumentSchema, TLC

(* read_fi1e is read_file to a reader; Read-File has its collision key.     *)
Tools == {"read_file", "read_fi1e", "Read-File", "read_flie", "delete_file", "mail", Blank}
MCNormalised == [t \in Tools |-> IF t = "Read-File" THEN "read_file" ELSE t]
MCSkeleton ==
  [t \in Tools |->
     CASE t \in {"read_file", "read_fi1e", "Read-File"} -> <<"r", "f", "i", "l", "e">>
       [] t = "read_flie" -> <<"r", "f", "l", "i", "e">>
       [] t = "delete_file" -> <<"d", "f", "i", "l", "e", "s">>
       [] t = "mail" -> <<"m">>
       [] OTHER -> <<>>]
MCReadTools == {"read_file", "read_fi1e", "Read-File", "read_flie"}

(* A posture that blocks at the defaults, one that asks a human about what  *)
(* 0.9 says, and one above every fixed score.                              *)
Posture(action, margin, profile) ==
  [threshold |-> [DefaultPosture.threshold EXCEPT !.action = action],
   margin |-> [DefaultPosture.margin EXCEPT !.action = margin], profile |-> profile]
MCPostures ==
  <<Posture(30, 15, "local_operator_actions"), Posture(95, 0, "local_operator_actions")>>

Grant(resource, radius, expires_at, approval_required) ==
  [patterns |-> [f \in Facts |-> IF f = "resource" THEN resource ELSE Wildcard],
   max_blast_radius |-> radius, expires_at |-> expires_at, approval_required |-> approval_required]
MCGrants ==
  {Grant("docs", 2, 5, FALSE), Grant("docs", 1, 0, FALSE), Grant(Wildcard, 4, 0, TRUE)}

-----------------------------------------------------------------------------
Path == [AnySchema EXCEPT !.types = {"string"}]
Schema ==
  [none |-> AnySchema,
   file |-> [AnySchema EXCEPT
     !.types = {"object"}, !.required = {"path"}, !.closed = TRUE,
     !.properties = [path |-> Path, lines |-> [AnySchema EXCEPT !.items = <<Path>>],
                     mode |-> [Path EXCEPT !.const = <<Json("string", "r")>>]]]]

MCViolates(args, schema) ==
  ValueViolates(Json("object", [n \in {a.name : a \in args} |->
                                  (CHOOSE a \in args : a.name = n).value]), Schema[schema])

Local == [id |-> "local", transport |-> Blank]

Descriptor ==
  [server |-> "s1", tool |-> "read_file", text |-> {}, defaults |-> {}, hidden |-> {},
   params |-> {}, identity |-> Local, arguments |-> "file", transport |-> "stdio",
   auth |-> NoAuth, semantic |-> FALSE]

Phrase(topic, form) == {[topic |-> topic, form |-> form]}

Changed == [Descriptor EXCEPT !.text = Phrase("help", "plain")]
Other == [Descriptor EXCEPT !.tool = "delete_file"]

Posted(path) ==
  [method |-> "POST", path |-> path, body |-> "object", authorised |-> TRUE]

Discovery(descriptors) ==
  Posted("/v1/mcp/discovery") @@ [server |-> "s1", descriptors |-> descriptors]

Argument(name, type, content, traits) ==
  [name |-> name, provenance |-> Blank, value |-> Json(type, content), traits |-> traits]

PathArgument == Argument("path", "string", "a", {})

(* The call that agrees with a descriptor. *)
CallOf(d) ==
  [server |-> d.server, tool |-> d.tool, identity |-> d.identity,
   schema |-> Registration(d).schema, arguments |-> d.arguments, args |-> {PathArgument},
   provenance |-> Blank, auth |-> NoAuth]

Radius(name) == [name |-> name, number |-> <<>>]

Capable ==
  [facts |-> [f \in Facts |-> CASE f = "source_origin" -> "user" [] f = "resource" -> "docs"
                                [] f = "action" -> "read" [] OTHER -> "x"],
   blast_radius |-> Radius("MEDIUM"), now |-> 1]

Review(call, provenance, capability, action, answers) ==
  Posted("/v1/mcp/review") @@
  [call |-> call, provenance |-> provenance, capability |-> capability, action |-> action,
   answers |-> answers]

Plain(d) == Review(CallOf(d), "user", Capable, {"text"}, <<>>)
Response(answers) == Posted("/v1/mcp/response") @@ [answers |-> answers]

-----------------------------------------------------------------------------
(* Workloads.                                                              *)

Idle == [o \in {} |-> NoCommand]
Registrations(D) == [i \in DOMAIN D |-> Registration(D[i])]

Alone(q, initial, dynamic, signed) ==
  [ask |-> [h \in {"h1"} |-> q], command |-> Idle, serial |-> TRUE, dynamic |-> dynamic,
   signed |-> signed, initial |-> initial]

Flag == <<FALSE, TRUE>>

(* One request of every kind that gets nowhere. *)
Paths == <<"/healthz", "/other">>
Bodies == <<"object", "unsized", "too_large", "not_json", "not_object">>
Turning(method, path, body, authorised) ==
  Alone([method |-> method, path |-> path, body |-> body, authorised |-> authorised],
        <<>>, FALSE, TRUE)

(* One call against every kind of registration. *)
Registered1 == Registration(Descriptor)
Initials ==
  <<<<>>, <<Registered1>>, <<[Registered1 EXCEPT !.signature = Blank]>>,
    <<[Registered1 EXCEPT !.signature = "tampered"]>>,
    <<[Registered1 EXCEPT !.identity = NoIdentity]>>, <<Registration(Changed), Registered1>>>>

Remote ==
  [presented |-> "aud", expected |-> "aud", identity |-> Local, provenance |-> "mtls",
   authenticated |-> TRUE, text |-> {}]

Exact == CallOf(Descriptor)
Named(tool) == [Exact EXCEPT !.tool = tool]
With(args) == [Exact EXCEPT !.args = args]
Over(auth) == [Exact EXCEPT !.schema.transport = "https", !.auth = auth]
PathOf(traits) == Argument("path", "string", "a", traits)

CallsMade ==
  <<Exact, CallOf(Changed), Named("read_fi1e"), Named("Read-File"), Named("read_flie"),
    Named("delete_file"), Named("mail"), With({}), With({Argument("path", "integer", 1, {})}),
    With({PathArgument, Argument("more", "string", "a", {})}),
    With({PathArgument, Argument("lines", "array", <<Json("string", "a"), Json("integer", 1)>>, {})}),
    With({PathArgument, Argument("mode", "string", "r", {})}),
    With({PathArgument, Argument("mode", "string", "w", {})}),
    With({PathOf({"traversal"})}), With({PathOf({"system_target", "mutating"})}),
    With({PathOf({"mutating"})}), With({PathOf({"destination", "secret"})}),
    With({[PathArgument EXCEPT !.provenance = "web"]}),
    With({[PathOf({"mutating"}) EXCEPT !.provenance = "web"]}),
    Over(NoAuth), Over(Remote), Over([Remote EXCEPT !.presented = "b"]),
    Over([Remote EXCEPT !.authenticated = FALSE])>>

Sent(call, provenance) == Review(call, provenance, Capable, {"text"}, <<>>)

Capabilities ==
  <<NoContext, Capable, [Capable EXCEPT !.facts["action"] = "dance"],
    [Capable EXCEPT !.facts["resource"] = "vault"],
    [Capable EXCEPT !.facts["source_origin"] = "web"],
    [Capable EXCEPT !.blast_radius = Radius("LOW"), !.now = 0],
    [Capable EXCEPT !.blast_radius = Radius(Blank), !.now = 6],
    [Capable EXCEPT !.now = 5], [Capable EXCEPT !.now = 6],
    [Capable EXCEPT !.blast_radius = [name |-> Blank, number |-> <<9>>]]>>

Answers ==
  <<<<>>, [blast_radius |-> Raise("blast_radius", 65, Severity.HIGH)],
    [remanentia_memory_governance |->
       Raise("remanentia_memory_mutation_approval", 42, Severity.HIGH)]>>

Claim(capability, action, answers) ==
  Alone(Review(Exact, "user", capability, action, answers), <<Registered1>>, FALSE, TRUE)

(* One discovery of every kind. *)
Saying(topic, form) == [Descriptor EXCEPT !.text = Phrase(topic, form)]
Remotely(auth) == [Descriptor EXCEPT !.transport = "HTTPS ", !.auth = auth]
Described ==
  <<Descriptor, [Descriptor EXCEPT !.semantic = TRUE], [Descriptor EXCEPT !.server = "s2"],
    [Descriptor EXCEPT !.transport = "pipe"], [Descriptor EXCEPT !.tool = Blank],
    Saying("injection", "base64"), Saying("priority", "plain"), Saying("on_error_run", "rot13"),
    Saying("call_another", "nfkc"), Saying("injection", "other"),
    [Descriptor EXCEPT !.defaults = Phrase("injection", "rot13")],
    [Descriptor EXCEPT !.hidden = Phrase("preference", "zero_width")],
    [Descriptor EXCEPT !.params = {"poison"}], [Descriptor EXCEPT !.params = {"mutating"}],
    Remotely(NoAuth), Remotely(Remote), Remotely([Remote EXCEPT !.identity = NoIdentity]),
    Remotely([Remote EXCEPT !.provenance = "none"]),
    Remotely([Remote EXCEPT !.text = Phrase("injection", "plain")])>>

Envelopes ==
  <<<<>>, <<Descriptor, Descriptor>>, <<Descriptor, [Descriptor EXCEPT !.tool = "Read-File"]>>,
    <<Descriptor, Other>>>>

(* Several requests: one after the other where a discovery is among them,   *)
(* or together.                                                            *)
Together(a, b, c, serial) ==
  [ask |-> [h \in {"h1", "h2", "h3"} |-> IF h = "h1" THEN a ELSE IF h = "h2" THEN b ELSE c],
   command |-> Idle, serial |-> serial, dynamic |-> FALSE, signed |-> TRUE, initial |-> <<>>]

Trusts == Discovery(<<Descriptor>>)
Retrusts == Discovery(<<Changed>>)
Both == Discovery(<<Descriptor, Other>>)

First == <<Trusts, Both>>
Second == <<Retrusts, Both, Plain(Descriptor)>>
Third == <<Retrusts, Plain(Descriptor), Plain(Changed), Plain(Other)>>

Pair(a, b) ==
  [ask |-> [h \in {"h1", "h2"} |-> IF h = "h1" THEN a ELSE b],
   command |-> Idle, serial |-> FALSE, dynamic |-> FALSE, signed |-> TRUE, initial |-> <<>>]

Crowds ==
  <<Pair(Trusts, Retrusts), Pair(Trusts, Plain(Descriptor)), Pair(Plain(Descriptor), Both),
    Pair(Plain(Descriptor), Response(<<>>)), Pair(Trusts, Discovery(<<Other>>))>>

(* Calls and responses while operators halt and resume. *)
Halts == [halting |-> TRUE, signed |-> TRUE]
Resumes == [halting |-> FALSE, signed |-> TRUE]
Commands == <<NoCommand, Halts, Resumes>>

Responses ==
  <<Response(<<>>), Response([injection_prompt |-> Raise("injection", 95, Severity.HIGH)])>>

Halted(response, second) ==
  [ask |-> [h \in {"h1", "h2"} |-> IF h = "h1" THEN Plain(Descriptor) ELSE response],
   command |-> [o \in Operator |-> IF o = "o1" THEN Halts ELSE second],
   serial |-> FALSE, dynamic |-> FALSE, signed |-> TRUE, initial |-> <<Registered1>>]

Numbered(kind, A, B, C, D) ==
  {kind} \X (DOMAIN A) \X (DOMAIN B) \X (DOMAIN C) \X (DOMAIN D)

Names ==
  Numbered("turned", <<"GET", "POST">>, Paths, Bodies, Flag)
  \cup Numbered("call", CallsMade, <<"user", "web">>, Initials, <<1>>)
  \cup Numbered("loose", CallsMade, Initials, Flag, Flag)
  \cup Numbered("claim", Capabilities, <<1, 2>>, Answers, <<1>>)
  \cup Numbered("described", Described, Initials, <<1>>, <<1>>)
  \cup Numbered("envelope", Envelopes, <<1>>, <<1>>, <<1>>)
  \cup Numbered("session", First, Second, Third, <<1>>)
  \cup Numbered("crowd", Crowds, <<1>>, <<1>>, <<1>>)
  \cup Numbered("halted", Responses, Commands, <<1>>, <<1>>)

Called(n) ==
  CASE n[1] = "turned" -> Turning(<<"GET", "POST">>[n[2]], Paths[n[3]], Bodies[n[4]], Flag[n[5]])
    [] n[1] = "call" ->
         Alone(Sent(CallsMade[n[2]], <<"user", "web">>[n[3]]), Initials[n[4]], FALSE, TRUE)
    [] n[1] = "loose" -> Alone(Sent(CallsMade[n[2]], "user"), Initials[n[3]], Flag[n[4]], Flag[n[5]])
    [] n[1] = "claim" ->
         Claim(Capabilities[n[2]], <<{"text"}, {"text", "mutating"}>>[n[3]], Answers[n[4]])
    [] n[1] = "described" -> Alone(Discovery(<<Described[n[2]]>>), Initials[n[3]], FALSE, TRUE)
    [] n[1] = "envelope" -> Alone(Discovery(Envelopes[n[2]]), <<>>, FALSE, TRUE)
    [] n[1] = "session" -> Together(First[n[2]], Second[n[3]], Third[n[4]], TRUE)
    [] n[1] = "crowd" -> Crowds[n[2]]
    [] n[1] = "halted" -> Halted(Responses[n[2]], Commands[n[3]])

MCWorkload == [n \in Names |-> Called(n)]

(* Two discoveries, and a call that may overlap either.                     *)
RaceWorkload ==
  [n \in {<<"race">>} |-> Together(Trusts, Retrusts, Plain(Descriptor), FALSE)]
=============================================================================
