# director-class-ai in TLA+

Formal models of `director-class-ai`: the human-approval queue and its operator
service, the audit log and its exporter, the path of one tool call from the halt
switch to its executor, the detectors with their cascade and fusion, the policy
ledger with the guard that obeys it, and the MCP gateway. TLC checks the models
on small instances; TLAPS proves the properties that matter most for every value
of the constants.

Paths below are relative to `src/director_class_ai/` unless they name a file of
the repository's root.

## 1. The system

A host program (an SDK user, `director-class-guard`, an MCP gateway) wants to run
an action. Detectors report signals about the request; fusion turns them into a
verdict; the governor turns the verdict into a decision, asking a human where the
verdict says so; the decision is written to a hash-chained log; only then does
the action run. Around it are an out-of-band halt switch, an operator-facing
approval transport, and a reviewed ledger of policy postures.

```
   operators ── approve CLI / HTTP transport ──> approval queue (JSON file)
                                                       ^ ask, consume
 request -> halt switch -> ensemble -> fusion -> governor -> audit sink -> executor
            (state file)   (tiers,      ^          |         (log, head,     |
                            threads)    |          |          signature,     └ exporter, verifier
                              policy posture       |          anchor)
                              (ledger file)        +-> decision to the caller
                                    ^
              policy CLI: propose, approve, deny, roll back; exposure replay

 MCP client -> gateway service (threads) -> halt switch -> trusted registrations,
               capability grants, call detectors -> fusion -> 200 or a refusal
```

| Component | State it keeps | Operations | What is hard |
|---|---|---|---|
| Approval queue `approvals/queue.py`, `approvals/policy.py` | a JSON object: digest -> ticket (status, approvers, required, expires) | `request_approval` (raise, consume, reopen), `approve`, `deny`, `pending` | instances share a file under a lock per instance; crash between its two saves; raise after a first signature; reopening; expiry |
| Durable writes `core/durability.py` | none | `atomic_write_text`, `durable_append_line` | a rename happens or not; an append may be cut |
| Approval transport `approvals/transport.py`, `cli/approve.py` | operator keys | pending, approve, deny, webhook | the webhook hangs or fails after the save; the operator repeats |
| Audit chain `audit/chain.py` | log, `.head`, `.head.sig`, anchor log, cached head | append (four files), `verify_chain` | an append interrupted at any file; two sinks on one log; a verifier that runs meanwhile |
| Audit export `audit/sinks.py`, `audit/export_cli.py` | none | verify, read again, format | appended between the two reads |
| Governor and boundary `core/governor.py`, `sdk/middleware.py`, `effectors/*` | in-memory trail | review, run | threads with the same digest; sink or queue raises; dry runs; halt read once |
| Authorised workflow `workflows/authorised_execution.py` | a report | review, approve, run, replay | other callers use its ticket |
| Ensemble and fusion `core/ensemble.py`, `core/fusion.py` | none across calls | tiers of detectors in a pool, early stop, fuse | stopping early must agree with not stopping; a detector raises; borderline arithmetic |
| Detectors `action/*`, `detectors/*` | none | request -> signal | which of several risks is reported; disguises; what a user origin softens |
| Policy ledger `policy/{history,review,governance,store,revision,runtime_posture,drift}.py`, `cli/policy.py` | JSON file: lineage and proposals | propose, approve, deny, rollback, load, save | rewritten in place; commands race; base compared by content address |
| Command guard `cli/guard.py` | none of its own | one command: posture, halt, review, run | a ledger that does not load, or moves during the run |
| Profiles, exposure, corpus `policy/{profile,exposure,corpus}.py` | none | validate, replay offline | the replay must foretell what the guard does |
| Capability policy `policy/capability*.py` | none | match a context against grants | order of checks; expiry; missing facts |
| Halt sidecar `sidecar/*` | state file: halted, generation | halt, resume, snapshot | unlocked read-modify-write |
| MCP gateway `gateway/*` | registrations, gateway object | discovery, review, response, refresh, in HTTP threads | two discoveries at once; a refresh that stores an older gateway |
| MCP registry and inspector `action/mcp_registry.py`, `action/mcp_inspector.py` | trusted manifests | evaluate a call | order of checks, drift, look-alike names |
| Memory, browser, Remanentia contracts `action/{memory,browser,remanentia}.py` | none | evaluate a request | a contract signed by its own checker |
| Meta classifier `core/meta_classifier.py` | weights | fit, predict | floating point |
| Evidence, federation `evidence/*`, `federation/*` | none | digests of static data | - |
| Rust helpers (`src/lib.rs` of the root) | none | copies of Python functions | callers compare both |

What makes each of them correct:

- **Approval queue.** A permit rests on the fresh consents of as many different
  operators as the verdict requires, given to this very ticket; each completed
  ticket permits once; neither crashes nor reopening change that.
- **Approval transport.** Its threads do to the queue what the queue promises; a
  repeated yes is told so; a webhook holds nobody else up.
- **Audit chain and export.** A decision takes effect only after its record is durable; the
  log chains whatever failed before; edits, truncation and replays are noticed; a log is
  exported as verified or refused for a reason.
- **Boundary and workflow.** Nothing runs without a permitted, durable record; escalated
  executions never outnumber completed approvals; a halt in force stops every
  call made under it.
- **Ensemble and detectors.** Stopping early may save work but not change what is permitted
  silently, nor block what would have been let through; a taint, a page, or stored text
  without a signed and current contract of its tenant gets nowhere, whatever else speaks for the action.
- **Policy ledger and guard.** Every head was reviewed by a second person; the lineage has
  no fork; nothing is lost from it; a guard that cannot read it blocks; what runs was
  judged by a posture that governed while it ran.
- **Gateway.** A tool keeps the manifest first trusted; a permitted call is a tool once
  trusted and granted; no request is judged by an arbitrarily old policy.
- **Halt sidecar.** A halted service answers, and refuses; generations number the writes.

## 2. Modules

State machines, each with its own file of properties at its end:

| Module | Models | State -> code | Actions -> code |
|---|---|---|---|
| `OneTimePermit` | what the queue's docstring promises | an unused approval per digest, permits so far | `Earn`, `Lose`, `Spend` |
| `ApprovalQueue` | the queue as callers of one instance see it | `tickets` the file; `permits` True answers delivered; `consents` history | `RequestApproval`, `RequestDies` (crash in it), `Approve`, `Deny`, `Tick` |
| `ApprovalStore` | the queue at its file | `file`, and per instance `pc`, `op`, `copy` | `Load`, `SaveRaise`, `Ask`, `AskUnanswered`, `Approve`, `Deny`, `Crash` |
| `ApprovalTransport` | the operators' HTTP service, on `ApprovalStore` | `web`, `request`, `answer` of each thread; `holder` of the queue's lock | `Receive`, `Take` (the lock), `Decide`, `Publish`, `PublishFails` (webhook), `Finish`, `GovernorStep`, `Dies` |
| `AuditChain` | sink, its four files, verifier | `log`, `head`, `sig`, `anchor`, `cached` | `Begin`, `AppendEntry`, `WriteHead`, `WriteSignature`, `WriteAnchor`, `Abort`, `Restart` |
| `AuditExport` | the exporter beside the sink | `reader`: the file it is at and what it saw | `VerifyLines`, `VerifyHead`, `ReadClaimed`, `VerifySignature`, `VerifyAnchor`, `ExportEntries`, `ExportAgain` |
| `EffectorBoundary` | calls of `run` in threads, with the queue, the trail and the halt file | `pc` where a call is; `tickets`, `trail`, `halted` the files; `consents` history | `Submit`, `CheckHalt`, `CheckHaltFails` (the file cannot be read), `Review`, `ReviewFails`, `AuditHalt`, `Audit`, `AuditFails`, `Execute`, `Crash`, `Approve`, `Deny`, `Halt`, `Resume`, `Tick` |
| `AuthorisedWorkflow` | `run_authorised_shell_workflow` among such calls | `step` of the workflow; `ran`, `consumed`, `pending` its report | `Initial`, `InspectOpened`, `ApproveOwn`, `Runs`, `ExecuteShell`, `Inspect`, `WorkflowDies`, `Others` |
| `Ensemble` | `ParallelEnsembleScorer.evaluate` | `ran` detectors, `verdict` | `RunTier`, `DetectorRaises` |
| `ActionReview` | a request through fifteen detectors and the ensemble | `request` | those of `Ensemble`, with each report computed from the request |
| `PolicyGovernance` | the ledger file and `director-class-policy` commands | `ledger` the file, `draft` a command's copy | `Propose`, `Rollback`, `Approve`, `Deny`, `Truncate`, `Write`, `Crash` |
| `CommandGuard` | guard runs on a live ledger, through the boundary | `resolved` posture and `option` of a run; `heads` history | `Start`, `Refuse`, `Middleware`, `Dies`, `OperatorStep`, `LedgerStep` |
| `HaltSwitch` | the halt file and the commands on it | `halt` the file; per operator `op`, `prior` | `LoadHalt`, `WriteHalt`, `WriteHaltFails` |
| `McpService` | the gateway's handler threads | `registrations`, `gateway`, the ledger's `head`; per handler `pc`, `local`, `status` | `Arrive`, `ReviewDiscovery`, `ReadRegistrations`, `AppendRegistrations`, `CheckHalt`, `Judge`, `Collect`, `LoadPolicy`, `LoadFails`, `Store`, `ApprovePosture`, `HaltOrResume` |

Functions of the request, as operators without state:

| Module | Models |
|---|---|
| `ApprovalTicket` | the branches of `request_approval` and `_decide` on one ticket: `AfterRequest`, `Approved`, `Denied` |
| `Fusion` | `fuse`: noisy-or per plane (a product over the plane's signals, in integers on the scale `Scale`), thresholds, margins, the softening of a user's own action |
| `Signals` | signals and severities, the shared lexicon, the layers of disguise that are peeled off a text |
| `ActionDetectors` | origin taint, blast radius, reversibility, intent consistency, causal takeover, semantic support |
| `DestructiveCommand` | segments of a command line, their idioms and targets, expansion under disguise, which one is reported |
| `MemoryContract`, `BrowserAction`, `ContentDetectors` | memory contracts and Remanentia calls; what a page asks; injection, personal data, citations |
| `CapabilityPolicy` | grants, origin rules, expiry, the order of the checks |
| `PolicyExposure` | validation of profiles, their comparison, the replay of recorded cases under two postures |
| `McpDiscovery`, `McpRegistry`, `ArgumentSchema` | findings on a descriptor; the registry's checks of a call in order; JSON schemas of arguments |
| `McpGateway` | what a built gateway makes of a call and of a response |

`MC_*` are instances for TLC, `*_proofs` hold the theorems.

How they compose. `ApprovalTicket` holds the steps of a ticket, and every module with an
approval file is built from it. `ApprovalTransport` runs `ApprovalStore`, which implements
`ApprovalQueue` (by `tickets <- file`), which implements `OneTimePermit` (by
`credit <- status = "approved"`). This is what allows `EffectorBoundary` to take an
ask as one step. In the same way it takes an audit append as one step that
returns or raises, which is what `AuditChain` shows of it (`Durable`), and the
ensemble's verdict as any element of `Fused[digest]`, a set, because a digest leaves
provenance and query out and the same digest may be fused differently.
`AuthorisedWorkflow` extends the boundary; `CommandGuard` extends the ledger and
instantiates the boundary, `PolicyExposure` and through it `Fusion`, so that the verdict of a run is
computed from the posture it resolved. `ActionReview` puts all the detector modules under `Ensemble`.
`McpService` joins `McpGateway` (registry, capabilities, detectors, fusion) and `HaltSwitch`.

What the data is abstracted to. A digest, an operator, a posture or a record is a
model value; hashes are the sequence they cover and signatures the head they
sign, so both are collision-free and unforgeable (an assumption on
SHA-256 and HMAC); in the boundary a severity class stands for the verdict, because the approval
policy looks at nothing else of it; scores are integers, in parts of `Unit`; a profile is its content
address. A text is the set of phrases it has: the topic each speaks of, which stands for the regular
expression that would match it, and the form it is written in (plain, base64, rot13, look-alike letters,
...); a command line is a sequence of segments with an idiom and a target. A name of a
tool keeps what the registry compares, its collision key and the skeleton of its letters. `ArgumentSchema` is the one
module with a RECURSIVE operator (JSON values nest); only `MC_McpService` reaches it, through the
constant `Violates`, so that the service's own modules can be proved about.

History variables record what happened and no guard reads them: `consents`, `granted`,
`barred`, `spent`, `executed`, `acked`, `fresh`, `alone`, `heads`, `vetted`, `floor`, `oldest`, `judged`,
`writes`, `raced`, and the field `reviewer` of the ledger. A definition whose comment starts with "Mutant:" is not part of the
model. It is the definition after it with a plausible mistake in it (a dropped guard, a missing
reset, a swapped order); PROJECT.json says which property finds it.

## 3. What the runs check

| Run | Instance | Shows |
|---|---|---|
| `approval_queue` | 2 digests, 2 operators, routes needing 0 (floored to 1) and 2 approvals, TTL 1, clock to 3, 2 permits | `SignaturesAreConsents`, `PermitEarned` (dual control), `PermitFresh`, and the refinement `ImplementsOneTimePermit` |
| `approval_store` | the operators' service: 2 threads, 1 queue instance, 1 digest, 2 operators, TTL 0, clock to 1, 1 permit; every decision and one request of each refused kind | `ImplementsQueue`: loads, saves, crashes, threads and a failing webhook implement the queue; `RepeatTold`; `WebhookNeverBlocks` (liveness) |
| `approval_store_race` | two instances, one digest | **violates** `NeverTwice`: one approval, two permits |
| `audit_chain` | one sink with key and anchor, 4 records, an exporter beside it | `Durable`, `ChainContinues`, `ReturnVerifies` (after failures anywhere), `TamperEvident`, `ReplayEvident`; `ExportSound`, `RefusedForCause`: what a verifier that reads file after file exports or refuses while the sink goes on |
| `audit_chain_fork` | two sinks, no key, 3 records | **violates** `ChainContinues` |
| `boundary` | the workflow and 2 calls on its digest, 2 operators, verdicts needing 1 and 2 approvals, TTL 0, clock to 1 | `ExecutedIsAudited`, `HaltHolds`; `ReportHolds` (what the workflow's docstring promises when left alone: a pending ticket without signatures before the approval and after the replay, and only the approved run executed, on a ticket that it consumed), `SharedTicketPaid` (what remains true when it is not); `EscalationsConsented`: dual control where the action runs |
| `boundary_dryrun` | 2 calls, 2 digests | **violates** `ApprovalKeptForExecution`: a dry run uses an approval up |
| `ensemble` | 15 detectors on 2 tiers and 3 planes, the default thresholds and margin, scores in hundredths. Ten are computed from the request; five answer freely among 3 scores and 3 severities, and for the families of known requests all are computed | `SilentPermitSound`, `BlockStands`, `EvidenceMonotone`; `TaintNeverAllowed`, `PageNeverSteers`, `MemoryUnderContract`, `DisguisesSeenThrough` |
| `memory_resigned` | the same requests | **violates** `RemembersSigned` |
| `policy` | guard runs on a live ledger: 2 postures and the defaults, 2 operators, 1 ledger command at a time, 3 revisions, 2 runs of one command, with and without a live profile that has to agree | `TwoIdentities`, `LineageChains`, `FailsClosed`, `AppendOnly`; `GovernedByApproved`, `SignedForPosture`, `ExposureForetells` |
| `gateway` | up to 3 handlers, 2 operators of the halt switch, 2 postures; one workload per initial state (below) | `TrustStays`, `PinsServed` (requests one at a time), `CallsMatchVetted`, `PermittedCallIsGranted`, `PolicyLag`, `GenerationsCount` (any overlap), `HaltStops` (liveness) |
| `gateway_race` | 2 discoveries and a call, all at once | **violates** `FirstTrust` |

Why the bounds are enough to be interesting. Two operators and a route of two is
the least dual control, and the least in which one operator could be counted
twice. A TTL of 1 with a clock to 3 has fresh, last-moment and expired tickets and
time to reopen and approve again; a TTL of 0 with a clock to 1 has the last moment and expiry. Two
permits per digest are needed to see one approval used twice. Two threads of the operators' service are one
that hangs in the webhook and one that must not wait for it. Four audit records leave room for an append that fails,
the recovery after it and one entry beyond, so that a head can lag by one
and by two, and for an entry that arrives between any two reads of the exporter. Two calls besides the
workflow's two runs are a pair that races and a third that could use what they left. In
`ensemble` the free scores are below the action threshold but inside its band, above it, and above every
threshold; with noisy-or two reports of the lowest cross a threshold that neither does alone. The families of
known requests (`MC_ActionReview`) vary commands and their disguises, texts, origins and targets, timelines of
causal takeover, evidence for a claim, memory contracts and retrievals, Remanentia calls, and browser pages,
each around the values at which the code decides differently. Three
revisions allow a head to move away and come back; the two postures need one and two operators for the same
command. Each family of the gateway's workloads asks one thing: `turned` are requests that get
nowhere, `call` and `loose` every call against every kind of registration (with signatures required
and without, dynamic discovery on and off), `claim` every capability context, `described` and `envelope` every
finding on a descriptor, `session` three requests in a row, `crowd` two at once while
postures are approved, `halted` two while operators halt and resume. MaxTime, MaxPermits,
MaxRecords, MaxRevisions, the commands an operator gives (one) and the length of `Postures` are the only bounds on
behaviours; each is a guard of the action that counts.

Deadlock. `AuditExport`, `AuthorisedWorkflow`, `ActionReview`, `CommandGuard` and `McpService` stop
when their bounded work is done (every record written or the log damaged; every call
made; a verdict returned; a ledger damaged, which only an operator outside the system can repair; every request
answered), so deadlock is not checked there. The approval modules never stop, and it is checked.

Symmetry is used where nothing names an element and only safety is checked: calls and operators of the
boundary, operators and runs of the guard.

Fairness is assumed where the code's scheduling gives it and a liveness property needs it, nowhere else.

- `McpService`: weak fairness of `CheckHalt`, that is, a handler thread with a request goes on to look at
  the halt file. `ThreadingHTTPServer` gives every request a thread, and nothing before the check waits for another
  thread. What follows the check needs no fairness for `HaltStops`, because a halted service
  refuses there.
- `ApprovalTransport`: weak fairness of the steps of a thread that has the queue's lock, strong fairness of
  taking it (a lock released again and again is handed out in the end to each who waits). Nothing is
  assumed of the webhook: it may hang for ever, which is what `WebhookNeverBlocks` is about. The
  process may die, after which no promise holds.
- That a pending ticket or a stale proposal is ever decided rests on people; no fairness is stated for them.

## 4. Where code and documentation disagree

Each of these is a run that TLC finds violated, listed in PROJECT.json with the quoted line.

1. *Never twice* (`approvals/queue.py:15-17`). The lock is per instance; two guard
   runs that load the approved ticket before either saves it both get a permit.
2. *Chain continuity* (`audit/chain.py:190`). The head is cached per sink and nothing
   locks the log; two processes on the default path fork it.
3. *A later run with `--execute`* (`cli/guard.py:124-127`). Any later review of
   the action consumes the approval, a dry run too.
4. *Remembering requires a signed contract* (`README.md:220-222` of the root). The detector signs the contract that
   comes with the call before it checks the signature (`action/remanentia.py:180`).
5. *First trust* (`README.md:121-122` of the root). Two discoveries of one tool in two threads are both acknowledged, with
   different manifests (`gateway/mcp_service.py:196`).

Met while modelling, and without a run of their own:

- *Never allows early* (`core/ensemble.py:27-29`). A confident objection that fusion softens for a user's own
  action ends the cascade with `allow` and a human's approval. What does hold is `SilentPermitSound` (nothing is
  permitted early without a human) and the theorem `EarlyAllowNeedsUser`.
- *Never applied against a head that moved* (`policy/review.py:16-18`). The base is a content address, which a
  rollback brings back: a proposal is stale while the head is elsewhere, and no longer when it returned.
- Profiles are said to refuse to run without a sink or an approval queue (`policy/profile.py:11-13`);
  `Profile.require_runtime` is called nowhere in the source.
- Two appends in a row that both stop before the head is written leave an honest log reported as truncated
  (`audit/chain.py:407-418`), until the next append that succeeds. `RefusedForCause` allows it.
- The effector of the authorised workflow has neither halt switch nor audit sink.
- The guard ignores the capability profile of the posture; the exposure replay of a case with capability facts uses it.
  `ExposureForetells` is therefore about cases without them. The replay also calls `escalate` a CRITICAL block
  that the governor blocks outright.
- An escalation that is only borderline has no firing signal, so that a CRITICAL borderline command asks for one approval, not two.
- The destructive-command detector reports only the first of the worst severity: a segment of a class a user's origin
  softens can stand in for one of a class it does not (`CommandsSeenThrough`, the half of `DisguisesSeenThrough` about commands, says so in its last part).
- A posture with a threshold above 0.9 lets through what the MCP registry objects to, whose scores are 0.9 at least.
  `CallsMatchVetted` and `PermittedCallIsGranted` are about postures that do not (`Objecting`); the second of the two
  postures of `gateway` is one that does.

## 5. What is proved

All proofs are for any sets and any numbers, bounds on behaviours included.
The assumptions are the named ASSUMEs of the modules (types of constants, finite
sets of operators, calls and detectors, what a loader has validated or a request is by construction: the severities of a recorded
case, `RowAssumption`; the texts, claims, divergence and command line of a request and the times of its contract, `RequestAssumption`; who gives the
halt commands and the sequences of registrations, `WorkloadAssumption`) and, where said, one more in the theorem itself.

| Module | Theorems |
|---|---|
| `ApprovalTicket_proofs` | lemmas on one ticket: the types, the invariant `TicketInv` and what a permit says of the consents |
| `ApprovalQueue_proofs` | `TypeCorrect`, `Signatures`, `Distinct`, `Expiry`, `DualControl`, `Fresh`, `SingleUse` |
| `ApprovalTransport_proofs` | `StoreTypeCorrect`, `TransportRunsStore`; with `SingleInstance`: `SingleInstanceImplementsQueue`, `TransportImplementsQueue`, `RepeatIsTold`, `WebhookHoldsNoLock` |
| `EffectorBoundary_proofs` | `BoundaryTypeCorrect`, `AuditFirst`, `HaltEffective`, `Paid`; with the workflow beside the calls: `WorkflowPaid`, `AuditFirstBesideWorkflow`, `HaltBesideWorkflow`, `ReportIsTrue`, `DualControlAtBoundary` |
| `AuditExport_proofs` | `AuditTypeCorrect`, `NothingAcknowledgedLost`, `ExporterOnlyReads` for any number of sinks; with `OneSink`: `AppendsContinueChain`, `ReturnedLogVerifies`, `EditsAreSeen`, `ReplaysAreSeen`, `ExportsAreSound`, `RefusalsHaveACause` |
| `Ensemble_proofs` | `EnsembleTypeCorrect`, `SilentPermit`, `EarlyAllowNeedsUser`, `EarlyBlockStands`, `MoreEvidenceNeverPermits`; of every request: `ReviewsSound`, `ReviewIsEvaluation`; of known requests, with hypotheses on the wiring (below): `TaintedActionsBlocked`, `PagesNeverSteer`, `MemoryNeedsContract`, `InstructionsRefused`, `DisguisesRefused` |
| `CommandGuard_proofs` | `PolicyTypeCorrect`, `LedgersStaySound`, `Reviewed`, `Lineage`, `GuardKeepsPolicy`, `TicketCoversPosture` for racing commands, and with `PlainRow`: `ExposureHolds`; with `SingleSession`: `LineageKept`, `GuardFailsClosed`, `HeadGoverns` |
| `McpService_proofs` | `ServiceTypeCorrect`, `GenerationsNumberWrites`, `PostureLagBounded`, `HaltedCallsRefused`, `PermittedCallsAreVetted`, `PermittedCallsAreGranted`; where discoveries overlap nothing: `FirstTrustStays`, `AcknowledgedArePinned` |

The arguments.

- *Queue.* `TicketInv(t, c)` says of a ticket `t` and the consents `c` given to it what the
  invariants say, conjoined so that they are inductive, and `IInv` says it of every ticket: a permit counts
  signatures, so dual control needs that they are distinct and that each is a
  consent; freshness needs the expiry of the ticket to come from one. `DualControl` counts them:
  distinct names on the ticket inject into the set of consenters
  (`Cardinality`). `SingleUse` shows that each step earns, loses or spends one
  digest's credit, or stutters.
- *Store.* `CopyIsFile`: while an operation runs its copy is the file. It needs
  the single instance, and everything else follows: then a load is a stutter,
  and each save is the queue's step. With two instances it is false, which is the race of finding 1.
- *Transport.* Every step of a thread or a Governor is a step of the store or leaves it alone
  (`WaitingAsks`: a thread that waits for the lock brings an approval or a denial, the operations of a caller), so the service implements what the store
  implements. `RepeatIsTold` needs two facts more: `DecidesOwn`, the deciding thread holds the lock
  and the instance runs its request; and `ConsentsSigned`, whoever has consented to the live ticket has signed it. `WebhookHoldsNoLock` is what safety can say of
  `WebhookNeverBlocks`: an operation under way is a Governor's or the deciding thread's (`LockIsAtWork`), so that a thread in the
  webhook has nothing that another waits for.
- *Boundary.* `AuditInv`: a call about to execute has its record. `HaltInv`: a call made since
  the halt is at or before the check. `PaidInv` and `Balanced`: for each
  digest, calls that spent a ticket, plus one if a ticket is approved and
  unspent, never exceed the tickets completed; and an escalated call past its review spent one.
- *Workflow.* Each of its steps is a step of the boundary or a review of its own command, so the boundary's
  invariants carry over. `Covers(d, k)` is `Balanced` with `k` runs more to pay for; `SharedBalance` takes
  for `k` the workflow's runs that a ticket was used for, and every run executed is among them. `ReportIsTrue` needs
  to know where the ticket is at each statement of an undisturbed workflow (`Unfolds`): opened and listed as pending
  without a signature, approved, consumed by the approved run, and opened anew by the replay, which has nothing to use.
- *Dual control at the boundary.* The boundary records consents as the queue does, and its steps do to a ticket what the lemmas of
  `ApprovalTicket_proofs` are about, so `ConsentInv`, `TicketInv` of every ticket, is kept by calls, operators, the workflow and the clock.
  `PermitConsented` turns a permit into as many different consenters as the verdict of *this* call requires, one of them within TTL.
  What it adds to the queue's `DualControl` is the pairing: the step of the boundary, or of the workflow, that lets an
  escalated action through is the one at which that permit is given, whichever calls with another verdict share the ticket.
- *Audit chain.* `AuditInv`: no line but the last is open, and what a sink has in hand is of the records asked for. `KeptInv`: what
  is acknowledged, or vouched for by a head, a signature or an anchor, is a whole entry somewhere in the log; it needs no more,
  and holds for sinks that race. The rest is about `OneSink`. `Linked`: the log is one chain, and an idle sink's cached head, the
  entry it is about to write and the one it has just written are those that the log has. An append that fails may leave a cut
  line, after which nothing is claimed (`Undamaged`), and a line that reads was written whole (`WholeStep`); one that fails
  later drops the cached head, so that the next append reads it from the disk. `VouchInv` says what the three
  sidecars hold at each step of an append, `AnchorInv` that the anchor's last head is its latest. Then
  `EditsAreSeen` follows from the hash being the sequence it covers: two logs that verify against one head agree up to it.
- *Export.* `FollowInv`: what the reader has seen is a chain and the beginning of the log as it is now, if the log has no
  cut line. `AckedInv`: the head covers every record acknowledged; hence a log at rest whose entries have been
  acknowledged has the head the verifier asks for.
- *Ensemble.* `Returned`: what a run returns is the fusion of what has run, and it
  stopped early only with a confident objector. Then an early permit without a human is
  impossible: a confident objector either blocks or asks.
- *Noisy-or.* That a product over a set does not depend on the order in which its factors are taken is what induction over
  data would give. Here it is proved by well-founded induction on cardinalities: a smallest set for which two
  orders differ would have a smaller one (`MultipliesSame`, `MultipliesTake`). From `ProductFacts` it follows that a signal more never lowers a
  plane's risk relative to its scale (`NoisyOrGrows`), so a plane that reaches its threshold goes on to (`ReachesSuperset`), and
  `EarlyBlockStands` and `MoreEvidenceNeverPermits` compare verdicts part by part. The borderline band is the delicate one: a report
  more may push a risk out of it only upwards, into a block (`BorderlineMore`).
- *Reviews.* `Heard`: the reports of a known request are the detectors' answers, and the first tier is heard before anything is
  returned. A taint among the objectors is never softened (`TaintBlocks`), and of a list of checks that return
  early one no later than the first known to hold answers (`EarlierAnswers`). The hypotheses are what the code wires: `Objects(d, x)`, the detector is on the action
  plane and the threshold at most its score `x`, and `FirstTier`, it has the least tier (`tier = 0` in each of the three classes).
  `MemoryNeedsContract` has as its conclusion the contract's conditions one by one: digest (what the code signs with), tenant, expiry, context, tier, and a
  source that may be remembered from.
  `TaintedActionsBlocked` does without the second: a cascade that stops before origin taint is heard has stopped on a confident objector, and
  only a user's own action is softened. `InstructionsRefused` needs no more than its score 0.95 on its plane: one
  signal at the threshold makes the noisy-or reach it (`OneSignalBlocks`).
- *Disguised commands.* A form of a command is what is left of its layers, a suffix of them (`From`). Of `n` layers there are at most
  `n + 1` forms, so with no more layers than rounds the cap on forms never bites (`FormsFit`), and each round takes the outermost layer off
  (`RoundExpands`): after the rounds the bare command is among the forms. Then some segment is reported, and `Objects` says
  that the report weighs. Nothing is claimed of a command with more layers than rounds; and the forms that a
  concrete string may have besides those of its layers, which in the code count towards the cap of 64, are not in the model.
- *Bounded answers.* The noisy-or is only monotone if no score exceeds the whole, so the ensemble's theorems rest on reports that are `Weighed`.
  `AnswersBounded` shows it of the fifteen detectors: for every request in `Requests`, `Answer(d)` is silence or has a score within
  0 .. 100 and one of the severities. Hence `ReviewsSound` assumes of the instance no more than `Unit >= 100` (scores are hundredths at least),
  and `ReviewIsEvaluation` that the ensemble's scores and severities include these: then all that is proved of `Ensemble`
  holds of reviews (in the code a score is within [0, 1], `core/signal.py:134`).
- *Ledger.* `Sound` of every ledger on file and in drafts: chained, reviewed by another
  operator, no empty change, and proposals bound to the head they name. It is kept by
  each command alone, hence by any race. `InStep` adds, for one command at a
  time, that the ledger on file is the last one saved and that a draft extends it.
- *Guard.* Every step of a guard run leaves the ledger alone (`GuardKeepsPolicy`). `GuardInv` says of each run under way that its
  request carries the verdict of the posture it resolved, that once reviewed it is permitted because nobody has to be
  asked or because it spent a ticket, and, for `SingleSession` only, that the posture governs: with commands that race a
  guard may resolve a head that another command then overwrites. `ExposureHolds` then compares the replay of the case
  with the guard's own decision; `PlainRow` is the case without capability facts that the property is about.
- *Halt file.* `HaltFileInv`: a command that has loaded the file will write a generation no larger than the writes so far plus
  one, and the file's own if nobody overlaps it.
- *Halted gateway.* `BarredInv`: while a halt that a request has met is in force the request is before the check or answered, and
  not with 200. This is the safety half of `HaltStops`; that it *is* answered needs fairness.
- *Gateway.* `floor` of a request is the head when it arrived, `oldest` the least floor in flight then. `HeadsInv`: no floor is
  above the head; `oldest` of a request in flight is at most the floor of every request in flight with it; the head a request has
  loaded and is about to store is at least its own floor; and the gateway of a request about to be judged is at least as new as its
  `oldest`. The last conjunct is the point: a slow thread may put back an older
  gateway, but one no older than its own arrival, which everyone in flight with it has counted. That the
  least floor exists is by well-founded induction on the naturals.
- *Trust.* `TrustInv`: an acknowledged registration *stands* in the service's registrations and in its gateway, that is, the
  last entry for its tool has its fingerprint. A clean review makes what a discovery is about to append agree with what
  stands (`CleanAgrees`) and name each tool once, so the append changes nothing that stands. It holds from the read to the
  append because nothing else runs meanwhile, and also when the discovery dies between its append and its refresh: what it
  appended was never acknowledged.
- *Permitted calls.* `VettedInv`: every registration in the service, in a gateway or in a handler's copy has been vetted, and a
  call answered 200 is one that the gateway it was judged by permits (`PermitsCall`). An objection of 0.9 on the action plane
  bars the permit whatever else is reported (`ObjectionBars`), so the registry and, under an approved posture, the capability policy
  had none. No bound on overlaps is needed.

`OneSink`, `SingleInstance` and `SingleSession` say that a process has its file to itself, which the code relies on and
does not enforce: the sink caches the head (`audit/chain.py:184`), the queue's lock is
its instance's, the ledger's file is rewritten in place. Findings 1 and 2 show what becomes of the properties without them.

Every safety and action property of every passing run is stated by a theorem. Only model-checked: the two liveness properties,
`HaltStops` and `WebhookNeverBlocks`, of which the theorems have the safety halves; and what the detectors without a theorem of their own
report (blast radius, reversibility, takeover, personal data, citations), of which only the bounds are proved.

Out of reach of the prover: liveness under fairness, ENABLED, induction over data, and anything in a module that
reaches a RECURSIVE operator, which here is `MC_McpService` alone.

## 6. Assumptions to know of

- One queue instance per file in `EffectorBoundary` and in the refinements; one sink per log in
  `audit_chain`; one policy command at a time in `policy`; discoveries that overlap nothing in
  `TrustStays` and `PinsServed`. Each is an assumption about deployment
  that the code does not enforce; findings 1, 2 and 5 and the hazards say what happens without it.
- A renamed file is the old or the new one, an fsynced append is durable; nothing else
  about the file system.
- The clock does not go backwards.
- A crash takes the process and its threads; a call that died is not resumed.
- Each HTTP service has one key that its operators share (`approvals/transport.py:198`; the gateway asks for one only if
  it is configured, `gateway/mcp_service.py:146`). The models keep whether a request is authorised. Who approves is the name in
  the body (`approvals/transport.py:222`): distinct consents are consents under distinct names, and that two names are two
  people is taken on trust here as it is in the code.
- In `EffectorBoundary` each element of `Call` is one call; the executor's own effects and exceptions are its own affair.
- `CommandGuard` is the guard without `--halt-state`, and nothing expires in it: halts and expiry are checked in `boundary`.
- A regular expression recognises the topics and idioms its name says; whether the patterns are complete is
  outside these models. An idiom hidden behind another of at least its severity is not reported.
- Operator commands on the halt file overlap one another and the gateway's handlers; each operator gives one.

## 7. Not modelled

- The detectors that ask a model or a learned scorer: any answer, in `ensemble` and in the gateway. The meta
  classifier: logistic regression in floating point, with no control.
- Fusion's `plane_risk`, `firing` and rationale; the fitting of calibrators. Floating-point rounding: a risk
  of 0.35 with threshold 0.5 and margin 0.15 falls outside the band in floating point, inside it in the model.
- Evidence packages, federation, positioning: digests of static descriptions. The checks under `tools/` of the root: about the
  repository's documents. Neither has state that outlives a call.
- The Rust helpers: parity copies, compared by their callers.
- File formats of profiles and corpora, command-line parsing, HTTP routing beyond the order of its refusals,
  SIEM and audit event formats, and the texts of findings.
- That a stale policy proposal is ever denied, so that its posture can be proposed again (`policy/review.py:155`): up to people.

## 8. Plan

Done: approvals (ticket, queue, store, transport), audit (chain, export), boundary and workflow, ensemble with
fifteen detectors, ledger with guard and exposure, halt switch, MCP gateway. What is left, in this order:

1. Theorems: what fusion does to a request of several detectors beyond those about known requests; an abstract
   trail that `AuditChain` implements and the boundary's `Audit` appends to.
2. Ledger commands that race (two sessions in `policy`): which of `AppendOnly` and `FailsClosed` fails, and how
   the guard sees it.
3. Guard runs that overlap on the approval file, by putting `ApprovalStore` under `CommandGuard`.
4. Expiry and halts in `CommandGuard`, once its state is small enough.
