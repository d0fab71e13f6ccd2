---------------------------- MODULE PolicyExposure ----------------------------
(***************************************************************************)
(* What a posture decides, without running anything: profiles and their     *)
(* differences (policy/profile.py, revision.py, drift.py), the corpus of    *)
(* recorded requests (corpus.py) and the replay of a corpus under two       *)
(* postures (exposure.py).                                                 *)
(*                                                                         *)
(* A profile has its scores in hundredths; Unset is a margin left to the    *)
(* shared uncertainty_margin.  A JSON object is a function on its keys.     *)
(***************************************************************************)
EXTENDS CapabilityPolicy, TLC

Unset == -1

PlaneNames == {"content", "integrity", "action"}

(* Profile.__post_init__: no other profile exists. *)
Valid(profile) ==
  /\ \A p \in PlaneNames :
       profile.threshold[p] \in 0 .. 100 /\ profile.margin[p] \in 0 .. 100 \cup {Unset}
  /\ profile.uncertainty_margin \in 0 .. 100

DefaultProfile ==
  [threshold |-> [content |-> 50, integrity |-> 50, action |-> 30],
   margin |-> [p \in PlaneNames |-> Unset], uncertainty_margin |-> 15,
   capability_profile |-> "deny_all_actions"]

Margin(profile, plane) ==
  IF profile.margin[plane] = Unset THEN profile.uncertainty_margin ELSE profile.margin[plane]

(* to_fusion_policy, over the signals of one request: signal i stands for   *)
(* its detector.                                                           *)
F(profile, signals) ==
  INSTANCE Fusion WITH
    Plane <- [i \in DOMAIN signals |-> signals[i].plane], Unit <- 100,
    threshold <- profile.threshold, margin <- [p \in PlaneNames |-> Margin(profile, p)]

Decision(profile, signals, provenance) ==
  LET reports == [i \in DOMAIN signals |->
                    [score |-> signals[i].score, severity |-> signals[i].severity,
                     kind |-> F(profile, signals)!KindOf(signals[i].type)]]
  IN  F(profile, signals)!Fuse(DOMAIN signals, reports, provenance)

-----------------------------------------------------------------------------
(* Revisions and drift. *)

(* diff_profiles *)
Changes(old, new) == {f \in DOMAIN old : old[f] # new[f]}

(* PolicyDriftMonitor.check: the events it returns, which its sink gets too. *)
DriftEvents(approved, live) ==
  IF Changes(approved, live) = {} THEN {}
  ELSE {[approved |-> approved, live |-> live, changes |-> Changes(approved, live)]}

-----------------------------------------------------------------------------
(* The corpus. *)

Field(data, key, default) == IF key \in DOMAIN data THEN data[key] ELSE default

SignalFromMapping(data) ==
  [plane |-> data.plane, score |-> data.score, type |-> data.signal_type,
   severity |-> Severity[Field(data, "severity", "MEDIUM")]]

(* A pattern that is left out matches everything, an expiry never comes.    *)
GrantFromMapping(data) ==
  [patterns |-> [f \in Facts |-> Field(data, f, Wildcard)],
   max_blast_radius |-> BlastRadius[Field(data, "max_blast_radius", "LOW")],
   expires_at |-> Field(data, "expires_at", 0),
   approval_required |-> Field(data, "approval_required", FALSE)]

CaseFromMapping(data) ==
  [label |-> data.label,
   signals |-> [i \in DOMAIN data.signals |-> SignalFromMapping(data.signals[i])],
   provenance |-> Field(data, "provenance", Blank),
   context |-> Field(data, "capability_context", NoContext),
   grants |-> {GrantFromMapping(g) : g \in Field(data, "capability_grants", {})}]

-----------------------------------------------------------------------------
(* The replay. *)

(* Mutant: the allow flag is looked at before the human.                    *)
OutcomeAllowFirst(verdict) ==
  IF verdict.allow THEN "allow"
  ELSE IF verdict.requires_human THEN "escalate" ELSE "block"

Outcome(verdict) ==
  IF verdict.requires_human THEN "escalate" ELSE IF verdict.allow THEN "allow" ELSE "block"

(* _signals_for: without capability facts the case is replayed as recorded. *)
SignalsFor(profile, case) ==
  LET answer == CapabilitySignal(Compile(profile.capability_profile, case.grants), case.context)
  IN  IF case.context = NoContext \/ answer = Silence THEN case.signals
      ELSE Append(case.signals, [plane |-> "action"] @@ answer)

Replay(profile, case) ==
  Outcome(Decision(profile, SignalsFor(profile, case), case.provenance))

OutcomeChange(baseline, candidate, case) ==
  [label |-> case.label, baseline |-> Replay(baseline, case),
   candidate |-> Replay(candidate, case)]

Expose(baseline, candidate, cases) ==
  [i \in DOMAIN cases |-> OutcomeChange(baseline, candidate, cases[i])]

(* ExposureReport.changed, by the place of the outcome in the report.        *)
Changed(report) == {i \in DOMAIN report : report[i].baseline # report[i].candidate}
=============================================================================
