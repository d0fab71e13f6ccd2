----------------------------- MODULE ActionReview -----------------------------
(***************************************************************************)
(* One request through the detectors of the three planes and the ensemble:    *)
(* what each detector reports is computed from the request, and the run     *)
(* then goes on as in Ensemble.  For the detectors in Free, whose answers   *)
(* come from patterns or models, any answer is possible: a request of which *)
(* nothing is known leaves their reports open.                             *)
(***************************************************************************)
EXTENDS Ensemble, ActionDetectors, MemoryContract, BrowserAction, ContentDetectors,
        DestructiveCommand

CONSTANTS
  Requests,               \* requests of which everything is known
  Free,                   \* detectors whose answers are open for all others
  FreeScore, FreeSeverity \* their scores and severities

ASSUME FreeAssumption ==
  Free \subseteq Detector /\ FreeScore \subseteq Score /\ FreeSeverity \subseteq Severities

(* A request has three texts, stored text in it two times that are numbers  *)
(* (_integer, memory.py:324), and a command only layers and idioms that     *)
(* there are.  What a scorer and a tracer say of it is a share              *)
(* (semantic_action_support.py:49) and a count.                            *)
ASSUME RequestAssumption ==
  \A q \in Requests :
    /\ DOMAIN q.texts = {"query", "context", "response"}
    /\ q.divergence \in 0 .. 100
    /\ q.claims.total \in Nat /\ q.claims.uncited \in 0 .. q.claims.total
    /\ q.command # <<>> =>
         LET command == q.command[1]
         IN  /\ command.layers \in Seq(CommandLayer \cup {"compressed"})
             /\ Layered(command.layers)
             /\ UNION {s.idioms : s \in Range(command.segments)} \subseteq Range(Rules)
    /\ q.memory # <<>> => q.memory[1].now \in Int /\ q.memory[1].contract.expires_at \in Int

VARIABLE request    \* the request, if it is known

reviewVars == <<vars, request>>

NoRequest == [action |-> "unknown"]

(* Detector.evaluate, by name. *)
Answer(d) ==
  CASE d = "origin_taint" -> OriginTaint(request)
    [] d = "blast_radius" -> BlastRadiusSignal(request)
    [] d = "reversibility" -> Reversibility(request)
    [] d = "intent_consistency" -> IntentConsistency(request)
    [] d = "causal_takeover" -> CausalTakeover(request)
    [] d = "semantic_action_support" -> SemanticActionSupport(request)
    [] d = "memory_threat" -> MemoryThreat(request)
    [] d = "remanentia_memory_governance" -> Remanentia(request)
    [] d = "browser_action" -> Browser(request)
    [] d = "destructive_command" -> Destructive(request)
    [] d = "injection_prompt" -> InjectionPrompt(request.texts, {"query", "context", "response"})
    [] d = "pii_content" -> PIIContent(request.texts)
    [] d = "citation_coverage" -> CitationCoverage(request.claims)
    [] OTHER -> Silence

(* A detector's signal as fusion reads it. *)
Reported(d, signal) ==
  IF signal = Silence THEN NoSignal
  ELSE IF Plane[d] # "action" THEN [score |-> signal.score]
  ELSE [score |-> signal.score, severity |-> signal.severity, kind |-> KindOf(signal.type)]

ReviewInit ==
  /\ \/ /\ request \in Requests
        /\ provenance = IF request.provenance = "user" THEN "user" ELSE "other"
        /\ report = [d \in Detector |-> Reported(d, Answer(d))]
     \/ /\ request = NoRequest
        /\ provenance \in {"user", "other"}
        /\ \E action \in [Free \cap ActionDetectors ->
                            [score : FreeScore, severity : FreeSeverity, kind : Kind]
                              \cup {NoSignal}],
              other \in [Free \ ActionDetectors -> [score : FreeScore] \cup {NoSignal}] :
             report = [d \in Detector |->
                         IF d \in DOMAIN action THEN action[d]
                         ELSE IF d \in DOMAIN other THEN other[d] ELSE NoSignal]
  /\ cascade \in BOOLEAN
  /\ ran = {}
  /\ verdict = NoVerdict
  /\ phase = "running"

ReviewNext == Next /\ UNCHANGED request

ReviewSpec == ReviewInit /\ [][ReviewNext]_reviewVars

-----------------------------------------------------------------------------
(* Each disguise alone, letters spread out or widened over the others, and  *)
(* rot13 within base64.                                                    *)
Disguises ==
  LET inner == {<<>>, <<"rot13">>, <<"base64">>, <<"base64", "rot13">>}
      outer == {<<>>, <<"wide">>, <<"zero_width">>, <<"wide", "zero_width">>}
  IN  {o \o i : o \in outer, i \in inner}

Known == phase = "returned" /\ request # NoRequest

(* An action that comes from untrusted content is blocked, also when it     *)
(* only reads, and also when other detectors would have a human asked: a    *)
(* taint is not softened, and nobody is asked to wave it through            *)
(* (origin_taint.py, fusion.py:74).                                        *)
TaintNeverAllowed ==
  Known /\ request.action # {} /\ request.provenance \in UntrustedOrigins => ~verdict.allow

(* What a page steers an action to is blocked even where the user asked for *)
(* the action and the site is one that asks for approval: of several risks  *)
(* the detector must not report the one that a user origin softens          *)
(* (browser.py:219).                                                       *)
PageNeverSteers ==
  Known /\ request.browser # <<>> =>
    LET browser == request.browser[1]
        crosses == CrossOrigin(browser.page_origin, browser.target)
    IN  \/ "injection" \in browser.hidden_text
        \/ "hijack" \in browser.visible_text
        \/ crosses /\ (browser.form_fields # {} \/ browser.clipboard # Blank)
        => ~verdict.allow

(* Stored text influences no action unless its contract is signed, names    *)
(* the tenant that acts, has not expired, admits this retrieval and is of a *)
(* trusted tier (memory.py:102), and the text is not from an untrusted      *)
(* source (memory.py:260), whatever else is said in favour of the action.   *)
MemoryUnderContract ==
  Known /\ request.memory # <<>> /\ verdict.allow =>
    LET context == request.memory[1]
        contract == context.contract
    IN  /\ contract.digest = "of_terms"
        /\ contract.tenant = context.tenant
        /\ contract.expires_at = 0 \/ context.now = 0 \/ context.now <= contract.expires_at
        /\ context.retrieval_context \in contract.contexts
        /\ contract.tier \in {"trusted", "curated", "operator"}
        /\ context.memory_source \notin UntrustedOrigins

(* An instruction that takes over is refused wherever it stands, also under *)
(* one layer of disguise, or two of those that combine (defaults.py:152).   *)
InstructionsSeenThrough ==
  /\ Known
  /\ \E p \in UNION {request.texts[f] : f \in DOMAIN request.texts} :
       p.says = "instruction" /\ p.layers \in Disguises
  => ~verdict.allow

(* A command that destroys, under at most as many layers as are peeled,     *)
(* never runs unasked, nor at all if all it does is of the classes that no  *)
(* approval softens (_normalize.py:18, fusion.py:114).                      *)
CommandsSeenThrough ==
  Known /\ request.command # <<>> =>
    LET command == request.command[1]
        idioms == UNION {s.idioms : s \in Range(command.segments)}
        removes == RmSeverity(command.segments) # 0
    IN  (idioms # {} \/ removes) /\ ~PrintOnly(command) /\ Len(command.layers) <= MaxDepth
          => /\ ~Silent(verdict)
             /\ (\A i \in idioms : i[1] \in NeverSoftenTypes \cup TaintTypes) => ~verdict.allow

(* No disguise helps, in a text or in a command (defaults.py:152,           *)
(* _normalize.py:18).                                                      *)
DisguisesSeenThrough == InstructionsSeenThrough /\ CommandsSeenThrough

(* "remanentia_remember writes require a signed memory contract"            *)
(* (README.md:221).  The detector signs the contract that comes with the    *)
(* call before it checks the signature.                                    *)
RemembersSigned ==
  Known /\ request.call # <<>> /\ request.call[1].tool = "remanentia_remember" /\ Silent(verdict)
    => request.call[1].args.contract.digest = "of_terms"
=============================================================================
