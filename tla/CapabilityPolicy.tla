--------------------------- MODULE CapabilityPolicy ---------------------------
(***************************************************************************)
(* Grants and origin rules over the facts of an action                      *)
(* (policy/capability.py, policy/capability_profiles.py).  A pattern is a   *)
(* value or Wildcard, and a context that lacks a fact has Blank for it.          *)
(***************************************************************************)
EXTENDS Signals

BlastRadius == [LOW |-> 1, MEDIUM |-> 2, HIGH |-> 3, CRITICAL |-> 4]

(* _blast_radius of a JSON value: a name, a number, or anything else.  A    *)
(* number out of range is the widest radius, any other unknown the least.   *)
BlastRadiusOf(raw) ==
  CASE raw.name \in DOMAIN BlastRadius -> BlastRadius[raw.name]
    [] raw.number # <<>> -> IF raw.number[1] \in 1 .. 4 THEN raw.number[1] ELSE BlastRadius.CRITICAL
    [] OTHER -> BlastRadius.LOW

OriginFacts == {"source_origin", "tool", "resource", "action"}

Facts == OriginFacts \cup {"subject", "tenant", "session"}

Wildcard == "*"

Matches(patterns, context) ==
  \A f \in DOMAIN patterns : patterns[f] \in {Wildcard, context.facts[f]}

(* An expiry of 0 never expires, and a context without a time is never late. *)
Expired(grant, now) == grant.expires_at # 0 /\ now # 0 /\ now > grant.expires_at

GrantMatches(grant, context) ==
  /\ ~Expired(grant, context.now)
  /\ Matches(grant.patterns, context)
  /\ BlastRadiusOf(context.blast_radius) <= grant.max_blast_radius

(* Mutant: one matching grant that needs no approval is enough. *)
NeedsApprovalAll(policy, context) ==
  \A g \in policy.grants : GrantMatches(g, context) => g.approval_required

NeedsApproval(policy, context) ==
  \E g \in policy.grants : GrantMatches(g, context) /\ g.approval_required

(* Context that is absent is the empty mapping: it misses every fact.       *)
NoContext == [facts |-> [f \in Facts |-> Blank], blast_radius |-> [name |-> Blank, number |-> <<>>], now |-> 0]

Denied(type) == Raise(type, 90, Severity.HIGH)

(* CapabilityPolicy.evaluate and its detector: the first objection that it  *)
(* names.                                                                  *)
CapabilitySignal(policy, context) ==
  FirstOf(<< <<\E f \in Facts : context.facts[f] = Blank, Denied("capability_context_missing")>>,
             <<policy.origin_rules # {} /\ \A r \in policy.origin_rules : ~Matches(r, context),
               Denied("capability_origin_denied")>>,
             <<\A g \in policy.grants : ~GrantMatches(g, context), Denied("capability_missing")>>,
             <<NeedsApproval(policy, context), Denied("capability_approval_required")>> >>)

-----------------------------------------------------------------------------
(* Built-in profiles.                                                      *)

OriginRule(origin, action) ==
  [source_origin |-> origin, tool |-> Wildcard, resource |-> Wildcard, action |-> action]

UserActions ==
  {"execute", "read", "write", "delete", "query", "deploy", "scale", "send", "browse", "call",
   "request"}

OriginRules(profile) ==
  IF profile = "deny_all_actions" THEN {OriginRule("__deny_all__", Wildcard)}
  ELSE {OriginRule("user", action) : action \in UserActions}

(* CapabilitySurfaceProfile.compile: no profile brings grants of its own.   *)
Compile(profile, grants) == [grants |-> grants, origin_rules |-> OriginRules(profile)]
=============================================================================
