------------------------------- MODULE Ensemble -------------------------------
(***************************************************************************)
(* One evaluation by ParallelEnsembleScorer (core/ensemble.py): detectors   *)
(* run tier by tier, cheap first; the cascade stops early once the action  *)
(* plane is settled; fuse (core/fusion.py) resolves the collected signals  *)
(* into one verdict.                                                       *)
(*                                                                         *)
(* What each detector would report on this request is chosen in Init and   *)
(* known to the model, not to the code: the verdict can be compared with   *)
(* the one that all tiers would have given.                                *)
(***************************************************************************)
EXTENDS Fusion

CONSTANTS
  Detector,           \* the configured detectors
  Tier,               \* their tier, a natural number
  Score, Severities   \* the weighted scores and severities that occur

ASSUME DetectorAssumption ==
  IsFiniteSet(Detector) /\ Detector # {} /\ Tier \in [Detector -> Nat] /\ Plane \in [Detector -> Planes]
ASSUME ScoreAssumption == Score \subseteq 0 .. Unit /\ Severities \subseteq 0 .. 4

Tiers == {Tier[d] : d \in Detector}

Signal == [score : Score, severity : Severities, kind : Kind]

(* Fusion looks at severity and signal type on the action plane only.       *)
ScoreSignal == [score : Score]

NoVerdict == [allow |-> FALSE]

-----------------------------------------------------------------------------
VARIABLES
  report,      \* what each detector reports on this request
  provenance,  \* the request's action_provenance: "user" or any other
  cascade,     \* the constructor's flag
  ran,         \* detectors that have run
  verdict,     \* what evaluate returned
  phase

vars == <<report, provenance, cascade, ran, verdict, phase>>

ActionDetectors == {d \in Detector : Plane[d] = "action"}

TypeOK ==
  /\ \A d \in Detector :
       report[d] \in (IF d \in ActionDetectors THEN Signal ELSE ScoreSignal) \cup {NoSignal}
  /\ provenance \in {"user", "other"}
  /\ cascade \in BOOLEAN
  /\ ran \subseteq Detector
  /\ verdict \in Verdict \cup {NoVerdict}
  /\ phase \in {"running", "returned", "raised"}
  /\ phase = "returned" => verdict \in Verdict

Init ==
  /\ \E action \in [ActionDetectors -> Signal \cup {NoSignal}],
        other \in [Detector \ ActionDetectors -> ScoreSignal \cup {NoSignal}] :
       report = [d \in Detector |-> IF d \in ActionDetectors THEN action[d] ELSE other[d]]
  /\ provenance \in {"user", "other"}
  /\ cascade \in BOOLEAN
  /\ ran = {}
  /\ verdict = NoVerdict
  /\ phase = "running"

(* Mutant: a tier that raises no objection settles the verdict too. *)
SettledBySilence(done, rep) == Objectors(done, rep) = {}

(* _settled_block *)
Settled(done, rep) ==
  \E d \in Signals(done, rep, "action") :
    rep[d].severity >= Severity.HIGH /\ rep[d].score >= threshold["action"]

(* The detectors of the lowest tier left run in the thread pool; then the   *)
(* loop goes on, or the verdict is fused and returned.                     *)
RunTier ==
  /\ phase = "running"
  /\ \E t \in Tiers :
       /\ \A d \in Detector : Tier[d] < t <=> d \in ran
       /\ ran' = ran \cup {d \in Detector : Tier[d] = t}
       /\ IF (cascade /\ Settled(ran', report)) \/ ran' = Detector
          THEN verdict' = Fuse(ran', report, provenance) /\ phase' = "returned"
          ELSE UNCHANGED <<verdict, phase>>
  /\ UNCHANGED <<report, provenance, cascade>>

(* A detector raises: evaluate raises, and the action gets no verdict.      *)
DetectorRaises ==
  /\ phase = "running"
  /\ phase' = "raised"
  /\ UNCHANGED <<report, provenance, cascade, ran, verdict>>

Next == RunTier \/ DetectorRaises

Spec == Init /\ [][Next]_vars

-----------------------------------------------------------------------------
Full == Fuse(Detector, report, provenance)

Silent(v) == v.allow /\ ~v.requires_human

(* What the Governor makes of a verdict. *)
Rank(v) == IF ~v.allow THEN 0 ELSE IF v.requires_human THEN 1 ELSE 2

(* "Silence from a cheap tier is not consent" (ensemble.py:28): what is     *)
(* permitted without a human, all tiers together would have permitted       *)
(* without a human.                                                        *)
SilentPermitSound == phase = "returned" /\ Silent(verdict) => Silent(Full)

(* Stopping early never blocks what the full ensemble would have let pass.  *)
BlockStands == phase = "returned" /\ ~verdict.allow => ~Full.allow

(* One more report never makes the verdict more permissive.                 *)
EvidenceMonotone ==
  phase = "returned" =>
    \A d \in {e \in ran : report[e] # NoSignal} :
      Rank(verdict) <= Rank(Fuse(ran \ {d}, report, provenance))

(* "The runner never allows early ... allowing always requires the          *)
(* configured tiers to have run" (ensemble.py:27).  A confident objection   *)
(* to a user's own action stops the cascade, and fuse then allows it, to be *)
(* approved by a human.                                                    *)
AllowNeedsAllTiers == phase = "returned" /\ verdict.allow => ran = Detector
=============================================================================
