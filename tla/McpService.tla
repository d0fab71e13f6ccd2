------------------------------ MODULE McpService ------------------------------
(***************************************************************************)
(* The MCP gateway service (gateway/mcp_service.py, gateway/mcp_cli.py):    *)
(* every request runs in a thread of its own, and the threads share the     *)
(* tuple of trusted registrations and the gateway that was built last.      *)
(* Between any two reads or writes of these, of the policy ledger and of    *)
(* the halt file, other threads run.                                       *)
(***************************************************************************)
EXTENDS McpGateway, HaltSwitch

CONSTANTS
  Handler,      \* threads, one for each request
  Workload      \* by name: what the requests ask, how the service is configured, ...

VARIABLES
  session,        \* the name of the workload
  registrations,  \* _registrations: the trusted tools
  gateway,        \* _gateway: the registrations and the head it was built from
  head,           \* the approved head of the ledger, by its version
  pc, local,      \* of each handler: how far it is, and what it has read
  status,         \* the HTTP status it answered, 0 if none
  vetted, acked,  \* history: registrations ever trusted, and those answered 200
  floor, oldest,  \* history: the head when the request arrived, and when the
                  \* oldest request then in flight had arrived
  barred,         \* history: the service has been halted since the request arrived
  judged          \* history: the gateway a request was judged by

service == <<registrations, gateway, local, status, vetted, acked, judged>>
vars == <<session, service, head, pc, floor, oldest, barred, haltVars>>

(* [ask, command, serial, dynamic, signed, initial] *)
workload == Workload[session]

Ask(h) == workload.ask[h]

Nothing == [pinned |-> <<>>, head |-> 0]

Init ==
  /\ session \in DOMAIN Workload
  /\ command = workload.command
  /\ HaltInit
  /\ registrations = workload.initial
  /\ head \in 0 .. Len(Postures)
  /\ gateway = [pinned |-> registrations, head |-> head]
  /\ pc = [h \in Handler |-> "idle"]
  /\ local = [h \in Handler |-> Nothing]
  /\ status = [h \in Handler |-> 0]
  /\ vetted = {registrations[i] : i \in DOMAIN registrations}
  /\ acked = Pinned(registrations)
  /\ floor = [h \in Handler |-> 0]
  /\ oldest = [h \in Handler |-> 0]
  /\ barred = [h \in Handler |-> FALSE]
  /\ judged = [h \in Handler |-> Nothing]

InFlight == {h \in Handler : pc[h] \notin {"idle", "ended"}}

IsDiscovery(h) == Ask(h).path = "/v1/mcp/discovery"

(* do_GET, do_POST and handle, up to the endpoint: the status of a request  *)
(* that gets no further, or 0.  No body is read before its length is.       *)
Turned(q) ==
  IF q.method = "GET"
  THEN IF q.path = "/healthz" THEN 200 ELSE IF ~q.authorised THEN 401 ELSE 405
  ELSE CASE q.body \in {"unsized", "too_large"} -> 413
         [] q.body \in {"not_json", "not_object"} -> 400
         [] OTHER -> IF ~q.authorised THEN 401
                     ELSE IF q.path \in {"/v1/mcp/discovery", "/v1/mcp/review", "/v1/mcp/response"}
                     THEN 0 ELSE 404

IsSequence(s) == s \in Seq({s[i] : i \in DOMAIN s})

(* The tools trusted at the start, and those a discovery lists, are in      *)
(* sequence: a later registration of a tool replaces an earlier one.  Who   *)
(* is told to give a command is an operator.                               *)
ASSUME WorkloadAssumption ==
  \A n \in DOMAIN Workload :
    /\ IsSequence(Workload[n].initial)
    /\ Workload[n].command \in [DOMAIN Workload[n].command -> Command]
    /\ DOMAIN Workload[n].command \subseteq Operator
    /\ \A h \in DOMAIN Workload[n].ask :
         Turned(Workload[n].ask[h]) = 0 /\ Workload[n].ask[h].path = "/v1/mcp/discovery"
           => IsSequence(Workload[n].ask[h].descriptors)

ASSUME PosturesAssumption == Len(Postures) \in Nat

Goes(h, from, to) == pc[h] = from /\ pc' = [pc EXCEPT ![h] = to]

Ends(h, answer) == status' = [status EXCEPT ![h] = answer]

Unwatched == UNCHANGED <<session, head, floor, oldest, barred, haltVars>>

(* A workload may leave threads without a request.  Where it says so, a     *)
(* discovery shares the service with no other request.                     *)
MayArrive(h) ==
  /\ h \in DOMAIN workload.ask
  /\ workload.serial => InFlight = {} \/ ~(\E p \in InFlight \cup {h} : IsDiscovery(p))

Arrive(h) ==
  /\ MayArrive(h)
  /\ Goes(h, "idle", IF Turned(Ask(h)) # 0 THEN "ended"
                     ELSE IF IsDiscovery(h) THEN "reviewing" ELSE "checking")
  /\ Ends(h, Turned(Ask(h)))
  /\ floor' = [floor EXCEPT ![h] = head]
  /\ oldest' = [oldest EXCEPT ![h] = Min({head} \cup {floor[p] : p \in InFlight})]
  /\ barred' = [barred EXCEPT ![h] = halt.halted]
  /\ UNCHANGED <<session, head, registrations, gateway, local, vetted, acked, judged, haltVars>>

-----------------------------------------------------------------------------
(* Discovery.                                                              *)

(* _gateway.review_discovery *)
ReviewDiscovery(h) ==
  LET q == Ask(h)
      clean == DiscoveryFindings(q.server, q.descriptors, gateway.pinned) = {}
  IN  /\ Goes(h, "reviewing", IF clean THEN "trusting" ELSE "ended")
      /\ Ends(h, IF clean THEN 0 ELSE 403)
      /\ UNCHANGED <<registrations, gateway, local, vetted, acked, judged>>
      /\ Unwatched

(* The right-hand side of the assignment to _registrations is read ... *)
ReadRegistrations(h) ==
  /\ Goes(h, "trusting", "appending")
  /\ local' = [local EXCEPT ![h].pinned = registrations]
  /\ UNCHANGED <<registrations, gateway, status, vetted, acked, judged>>
  /\ Unwatched

New(h) == [i \in DOMAIN Ask(h).descriptors |-> Registration(Ask(h).descriptors[i])]

(* Mutant: the gateway is rebuilt from the registrations read before. *)
AppendRegistrationsUnread(h) ==
  /\ Goes(h, "appending", "loading")
  /\ registrations' = local[h].pinned \o New(h)
  /\ vetted' = vetted \cup {New(h)[i] : i \in DOMAIN New(h)}
  /\ UNCHANGED <<gateway, local, status, acked, judged>>
  /\ Unwatched

(* ... and the assignment is done. *)
AppendRegistrations(h) ==
  /\ Goes(h, "appending", "collecting")
  /\ registrations' = local[h].pinned \o New(h)
  /\ vetted' = vetted \cup {New(h)[i] : i \in DOMAIN New(h)}
  /\ UNCHANGED <<gateway, local, status, acked, judged>>
  /\ Unwatched

-----------------------------------------------------------------------------
(* Calls and responses.                                                    *)

(* Mutant: responses pass while the service is halted. *)
CheckHaltOfCalls(h) ==
  LET stops == halt.halted /\ Ask(h).path = "/v1/mcp/review"
  IN  /\ Goes(h, "checking", IF stops THEN "ended" ELSE "collecting")
      /\ Ends(h, IF stops THEN 403 ELSE 0)
      /\ UNCHANGED <<registrations, gateway, local, vetted, acked, judged>>
      /\ Unwatched

(* _halt_response *)
CheckHalt(h) ==
  /\ Goes(h, "checking", IF halt.halted THEN "ended" ELSE "collecting")
  /\ Ends(h, IF halt.halted THEN 403 ELSE 0)
  /\ UNCHANGED <<registrations, gateway, local, vetted, acked, judged>>
  /\ Unwatched

(* _gateway.review or _gateway.review_response, with the gateway as it is   *)
(* now.                                                                    *)
Judge(h) ==
  LET q == Ask(h)
      permitted == IF q.path = "/v1/mcp/review" THEN PermitsCall(q, gateway, workload)
                   ELSE PermitsResponse(q)
  IN  /\ Goes(h, "judging", "ended")
      /\ Ends(h, IF permitted THEN 200 ELSE 403)
      /\ judged' = [judged EXCEPT ![h] = gateway]
      /\ UNCHANGED <<registrations, gateway, local, vetted, acked>>
      /\ Unwatched

-----------------------------------------------------------------------------
(* _build_gateway, with the policy ledger of the command line.              *)

Collect(h) ==
  /\ Goes(h, "collecting", "loading")
  /\ local' = [local EXCEPT ![h].pinned = registrations]
  /\ UNCHANGED <<registrations, gateway, status, vetted, acked, judged>>
  /\ Unwatched

(* Mutant: the head is read once, when the service starts. *)
LoadPolicyOnce(h) ==
  /\ Goes(h, "loading", "storing")
  /\ local' = [local EXCEPT ![h].head = gateway.head]
  /\ UNCHANGED <<registrations, gateway, status, vetted, acked, judged>>
  /\ Unwatched

LoadPolicy(h) ==
  /\ Goes(h, "loading", "storing")
  /\ local' = [local EXCEPT ![h].head = head]
  /\ UNCHANGED <<registrations, gateway, status, vetted, acked, judged>>
  /\ Unwatched

(* The ledger cannot be read: the thread ends, and the client gets no       *)
(* answer.  What a discovery has appended stays.                           *)
LoadFails(h) ==
  /\ Goes(h, "loading", "ended")
  /\ UNCHANGED service
  /\ Unwatched

Store(h) ==
  /\ Goes(h, "storing", IF IsDiscovery(h) THEN "ended" ELSE "judging")
  /\ gateway' = local[h]
  /\ Ends(h, IF IsDiscovery(h) THEN 200 ELSE 0)
  /\ acked' = IF IsDiscovery(h) THEN acked \cup {New(h)[i] : i \in DOMAIN New(h)} ELSE acked
  /\ UNCHANGED <<registrations, local, vetted, judged>>
  /\ Unwatched

Step(h) ==
  \/ ReviewDiscovery(h) \/ ReadRegistrations(h) \/ AppendRegistrations(h)
  \/ CheckHalt(h) \/ Judge(h)
  \/ Collect(h) \/ LoadPolicy(h) \/ LoadFails(h) \/ Store(h)

-----------------------------------------------------------------------------
(* A reviewer approves a posture, in a process of its own. *)
ApprovePosture ==
  /\ head < Len(Postures)
  /\ head' = head + 1
  /\ UNCHANGED <<session, service, pc, floor, oldest, barred, haltVars>>

(* An operator's command. *)
HaltOrResume ==
  /\ HaltNext
  /\ barred' = [h \in Handler |-> barred[h] /\ halt'.halted]
  /\ UNCHANGED <<session, service, head, pc, floor, oldest>>

Next == (\E h \in Handler : Arrive(h) \/ Step(h)) \/ ApprovePosture \/ HaltOrResume

(* A thread that has taken a call goes on to read the halt file.  No more    *)
(* is assumed: nothing bounds the time a detector takes, and clients and     *)
(* operators need not act.                                                  *)
Spec == Init /\ [][Next]_vars /\ \A h \in Handler : WF_vars(CheckHalt(h))

-----------------------------------------------------------------------------
TypeOK ==
  /\ HaltTypeOK
  /\ session \in DOMAIN Workload
  /\ head \in 0 .. Len(Postures) /\ gateway.head \in 0 .. Len(Postures)
  /\ pc \in [Handler -> {"idle", "reviewing", "trusting", "appending", "checking", "collecting",
                         "loading", "storing", "judging", "ended"}]
  /\ status \in [Handler -> {0, 200, 400, 401, 403, 404, 405, 413}]
  /\ acked \subseteq vetted
  /\ floor \in [Handler -> 0 .. Len(Postures)] /\ oldest \in [Handler -> 0 .. Len(Postures)]
  /\ barred \in [Handler -> BOOLEAN]

(* "Later rediscovery for an already pinned server/tool must match the      *)
(* original" (README.md:121): no two registrations of one tool that the     *)
(* service has acknowledged differ.  Two discoveries, or a review that      *)
(* stores its older gateway last, break it (mcp_service.py:196, 259).      *)
FirstTrust == \A r, s \in acked : Key(r) = Key(s) => Fingerprint(r) = Fingerprint(s)

(* Requests that do not overlap keep the first trust.                       *)
TrustStays == workload.serial => FirstTrust

(* Without overlap, every tool acknowledged is pinned in the gateway that   *)
(* serves the next request (mcp_service.py:197).                            *)
PinsServed ==
  workload.serial /\ InFlight = {} =>
    \A r \in acked : \E i \in DOMAIN gateway.pinned : Fingerprint(gateway.pinned[i]) = Fingerprint(r)

Allowed(h, path) == pc[h] = "ended" /\ status[h] = 200 /\ Ask(h).method = "POST" /\ Ask(h).path = path

(* The posture lets a detector's 0.9 object. *)
Objecting(h) == ActivePosture(judged[h].head).threshold["action"] <= 90

(* A permitted call is exactly a tool that was trusted once, with arguments *)
(* its schema allows, however discoveries and reviews interleave, unless    *)
(* dynamic discovery lets unknown tools through (mcp_registry.py:382).      *)
CallsMatchVetted ==
  \A h \in Handler : Allowed(h, "/v1/mcp/review") /\ Objecting(h) =>
    \/ \E r \in vetted :
         /\ Key(r) = Key(Ask(h).call)
         /\ CallFingerprint(Ask(h).call, r) = Fingerprint(r)
         /\ r.signature = "valid" \/ (~workload.signed /\ r.signature = Blank)
         /\ ~Violates(Ask(h).call.args, r.arguments)
    \/ workload.dynamic /\ Registered(Ask(h).call, judged[h].pinned) = {}

(* Under an approved posture, a permitted call has a grant that is in force *)
(* for what it touches, and no grant for it asks for an approval, whoever   *)
(* the call is from (capability.py:184).                                   *)
PermittedCallIsGranted ==
  \A h \in Handler : Allowed(h, "/v1/mcp/review") /\ Objecting(h) /\ judged[h].head # 0 =>
    LET context == Ask(h).capability
        matching == {g \in Grants : GrantMatches(g, context)}
    IN  matching # {} /\ \A g \in matching : ~g.approval_required

(* A call is judged by a posture at least as new as the head was when the   *)
(* oldest request in flight at its arrival had arrived: a slower thread can *)
(* put back an older gateway, but no older than that (mcp_service.py:259).  *)
PolicyLag ==
  \A h \in Handler :
    pc[h] = "ended" /\ Ask(h).path = "/v1/mcp/review" /\ status[h] = 200 =>
      judged[h].head >= oldest[h]

(* A call or response that comes while the service is halted is in the end  *)
(* refused, unless the service resumes first: it is never left without an   *)
(* answer, and no answer permits it (mcp_service.py:208, 236).             *)
HaltStops ==
  \A h \in Handler :
    pc[h] = "checking" /\ barred[h] ~> status[h] = 403 \/ ~barred[h]
=============================================================================
