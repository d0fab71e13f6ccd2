------------------------- MODULE CommandGuard_proofs -------------------------
(***************************************************************************)
(* Runs of the guard and commands on the policy ledger.  For any number of  *)
(* sessions on the ledger file: TwoIdentities, LineageChains, and what a    *)
(* run makes of its posture (SignedForPosture, ExposureForetells).  For     *)
(* commands that run one at a time, which the code leaves to the operators: *)
(* AppendOnly, FailsClosed and GovernedByApproved.                          *)
(***************************************************************************)
EXTENDS CommandGuard, TLAPS

(* What each command makes of a ledger is a ledger. *)
LEMMA HeadType ==
  ASSUME NEW h \in Seq(Revision)
  PROVE  HeadPosture(h) \in Posture \cup {NoPosture}
<1>1. CASE h = <<>>
  BY <1>1 DEF HeadPosture
<1>2. CASE h # <<>>
  <2>1. h[Len(h)] \in Revision
    BY <1>2
  <2> QED BY <1>2, <2>1 DEF HeadPosture, Revision
<1> QED BY <1>1, <1>2

LEMMA ProposedType ==
  ASSUME NEW l \in Ledger, NEW p \in Posture, NEW who \in Operator
  PROVE  Proposed(l, p, who) \in Ledger
<1>1. HeadPosture(l.history) \in Posture \cup {NoPosture}
  BY HeadType DEF Ledger
<1>2. [status |-> "pending", parent |-> HeadPosture(l.history), author |-> who] \in Proposal
  BY <1>1 DEF Proposal
<1> QED BY <1>2 DEF Proposed, Ledger

LEMMA PendingType ==
  ASSUME NEW l \in Ledger, NEW p \in Posture, Pending(l, p)
  PROVE  l.proposals[p] \in Proposal
BY DEF Pending, Ledger, NoProposal

LEMMA ApprovedType ==
  ASSUME NEW l \in Ledger, NEW p \in Posture, NEW who \in Operator, Pending(l, p)
  PROVE  Approved(l, p, who) \in Ledger
<1>1. l.proposals[p] \in Proposal
  BY PendingType
<1>2. [l.proposals[p] EXCEPT !.status = "approved"] \in Proposal
  BY <1>1 DEF Proposal
<1>3. [posture |-> p, parent |-> l.proposals[p].parent,
       author |-> l.proposals[p].author, reviewer |-> who] \in Revision
  BY <1>1 DEF Proposal, Revision
<1>4. [l.proposals EXCEPT ![p].status = "approved"] \in [Posture -> Proposal \cup {NoProposal}]
  BY <1>2 DEF Ledger
<1>5. l.history \in Seq(Revision)
  BY DEF Ledger
<1> QED BY <1>3, <1>4, <1>5 DEF Approved, Ledger

LEMMA DeniedType ==
  ASSUME NEW l \in Ledger, NEW p \in Posture, Pending(l, p)
  PROVE  Denied(l, p) \in Ledger
<1>1. l.proposals[p] \in Proposal
  BY PendingType
<1>2. [l.proposals[p] EXCEPT !.status = "denied"] \in Proposal
  BY <1>1 DEF Proposal
<1> QED BY <1>2 DEF Denied, Ledger

LEMMA EmptyType == EmptyLedger \in Ledger
BY DEF EmptyLedger, Ledger

LEMMA DamagedIsNone ==
  ASSUME NEW l \in Ledger
  PROVE  l # Damaged
<1>1. DOMAIN l = {"history", "proposals"}
  BY DEF Ledger
<1>2. DOMAIN Damaged = {"damaged"}
  BY DEF Damaged
<1>3. "damaged" \notin {"history", "proposals"}
  OBVIOUS
<1> QED BY <1>1, <1>2, <1>3

-----------------------------------------------------------------------------
(* Files, copies and history have their types. *)
THEOREM PolicyTypeCorrect == Spec => []TypeOK
<1>1. Init => TypeOK
  BY EmptyType DEF Init, TypeOK
<1>2. TypeOK /\ [Next]_vars => TypeOK'
  <2> SUFFICES ASSUME TypeOK, [Next]_vars PROVE TypeOK'
    OBVIOUS
  <2>1. ASSUME NEW s \in Session, NEW l \in Ledger, Command(s, l)
        PROVE  TypeOK'
    BY <2>1 DEF Command, TypeOK
  <2>2. Readable(ledger) => ledger \in Ledger
    BY DEF Readable, TypeOK
  <2>3. ASSUME NEW s \in Session, NEW p \in Posture, NEW who \in Operator,
               Propose(s, p, who) \/ Rollback(s, p, who)
        PROVE  TypeOK'
    <3>1. Proposed(ledger, p, who) \in Ledger
      BY <2>2, <2>3, ProposedType DEF Propose, Rollback
    <3> QED BY <2>1, <2>3, <3>1 DEF Propose, Rollback
  <2>4. ASSUME NEW s \in Session, NEW p \in Posture, NEW who \in Operator, Approve(s, p, who)
        PROVE  TypeOK'
    <3>1. Approved(ledger, p, who) \in Ledger
      BY <2>2, <2>4, ApprovedType DEF Approve, CanApprove
    <3> QED BY <2>1, <2>4, <3>1 DEF Approve
  <2>5. ASSUME NEW s \in Session, NEW p \in Posture, Deny(s, p)
        PROVE  TypeOK'
    <3>1. Denied(ledger, p) \in Ledger
      BY <2>2, <2>5, DeniedType DEF Deny
    <3> QED BY <2>1, <2>5, <3>1 DEF Deny
  <2>6. ASSUME NEW s \in Session, Truncate(s)
        PROVE  TypeOK'
    BY <2>6 DEF Truncate, TypeOK
  <2>7. ASSUME NEW s \in Session, Write(s)
        PROVE  TypeOK'
    <3>1. draft[s] \in Ledger /\ draft[s].history \in Seq(Revision)
      BY DEF TypeOK, Ledger
    <3> QED BY <2>7, <3>1, EmptyType DEF Write, TypeOK
  <2>8. ASSUME NEW s \in Session, Crash(s)
        PROVE  TypeOK'
    BY <2>8, EmptyType DEF Crash, TypeOK
  <2>9. CASE UNCHANGED vars
    BY <2>9 DEF vars, TypeOK
  <2> QED BY <2>3, <2>4, <2>5, <2>6, <2>7, <2>8, <2>9 DEF Next
<1> QED BY <1>1, <1>2, PTL DEF Spec

-----------------------------------------------------------------------------
(* What holds of every ledger in play, on disk or in a session.  The last  *)
(* part is why approval cannot commit a posture onto itself: proposals are  *)
(* opened against another head, and committed only on that head.           *)
Sound(l) ==
  /\ Chains(l.history)
  /\ \A i \in 2 .. Len(l.history) : l.history[i].posture # l.history[i - 1].posture
  /\ \A i \in 1 .. Len(l.history) : l.history[i].reviewer # l.history[i].author
  /\ \A p \in Posture : Pending(l, p) => l.proposals[p].parent # p

LedgersSound ==
  /\ ledger # Damaged => Sound(ledger)
  /\ \A s \in Session : Sound(draft[s])

LEMMA EmptySound == Sound(EmptyLedger)
BY DEF Sound, EmptyLedger, Chains, Pending, NoProposal

LEMMA ProposedSound ==
  ASSUME NEW l \in Ledger, Sound(l), NEW p \in Posture, NEW who \in Operator, CanPropose(l, p)
  PROVE  Sound(Proposed(l, p, who))
<1> DEFINE m == Proposed(l, p, who)
<1>1. m.history = l.history
  BY DEF Proposed, Ledger
<1>2. ASSUME NEW q \in Posture, Pending(m, q)
      PROVE  m.proposals[q].parent # q
  <2>1. CASE q = p
    BY <2>1 DEF Proposed, Ledger, CanPropose
  <2>2. CASE q # p
    BY <1>2, <2>2 DEF Proposed, Ledger, Pending, Sound
  <2> QED BY <2>1, <2>2
<1> QED BY <1>1, <1>2 DEF Sound

LEMMA ApprovedSound ==
  ASSUME NEW l \in Ledger, Sound(l), NEW p \in Posture, NEW who \in Operator,
         CanApprove(l, p, who)
  PROVE  Sound(Approved(l, p, who))
<1> DEFINE m == Approved(l, p, who)
           n == Len(l.history)
           rev == [posture |-> p, parent |-> l.proposals[p].parent,
                   author |-> l.proposals[p].author, reviewer |-> who]
<1>1. l.history \in Seq(Revision) /\ n \in Nat
  BY DEF Ledger
<1>2. m.history = Append(l.history, rev)
  BY DEF Approved
<1>3. /\ Len(m.history) = n + 1
      /\ m.history[n + 1] = rev
      /\ \A i \in 1 .. n : m.history[i] = l.history[i]
  BY <1>1, <1>2
<1>4. rev.parent = HeadPosture(l.history) /\ rev.reviewer # rev.author /\ rev.parent # rev.posture
  BY DEF CanApprove, Sound
<1>5. HeadPosture(l.history) = IF n = 0 THEN NoPosture ELSE l.history[n].posture
  BY <1>1 DEF HeadPosture
<1>6. Chains(m.history)
  <2> SUFFICES ASSUME NEW i \in 1 .. n + 1
               PROVE  m.history[i].parent = IF i = 1 THEN NoPosture ELSE m.history[i - 1].posture
    BY <1>3 DEF Chains
  <2>1. CASE i \in 1 .. n
    <3>1. l.history[i].parent = IF i = 1 THEN NoPosture ELSE l.history[i - 1].posture
      BY <2>1 DEF Sound, Chains
    <3>2. i # 1 => i - 1 \in 1 .. n
      BY <1>1, <2>1
    <3> QED BY <1>3, <2>1, <3>1, <3>2
  <2>2. CASE i = n + 1
    <3>1. n # 0 => n \in 1 .. n
      BY <1>1
    <3>2. i - 1 = n /\ (i = 1 <=> n = 0)
      BY <1>1, <2>2
    <3>3. m.history[i].parent = HeadPosture(l.history)
      BY <1>3, <1>4, <2>2
    <3> QED BY <1>3, <1>5, <3>1, <3>2, <3>3
  <2> QED BY <1>1, <2>1, <2>2
<1>7. ASSUME NEW i \in 2 .. Len(m.history)
      PROVE  m.history[i].posture # m.history[i - 1].posture
  <2>1. CASE i \in 2 .. n
    <3>1. i \in 1 .. n /\ i - 1 \in 1 .. n
      BY <1>1, <2>1
    <3> QED BY <1>3, <2>1, <3>1 DEF Sound
  <2>2. CASE i = n + 1
    <3>1. n \in 1 .. n /\ n # 0 /\ i - 1 = n
      BY <1>1, <1>3, <1>7, <2>2
    <3>2. m.history[n].posture = rev.parent
      BY <1>3, <1>4, <1>5, <3>1
    <3> QED BY <1>3, <1>4, <2>2, <3>1, <3>2
  <2> QED BY <1>1, <1>3, <1>7, <2>1, <2>2
<1>8. ASSUME NEW i \in 1 .. Len(m.history)
      PROVE  m.history[i].reviewer # m.history[i].author
  <2>1. CASE i \in 1 .. n
    BY <1>3, <2>1 DEF Sound
  <2>2. CASE i = n + 1
    BY <1>3, <1>4, <2>2
  <2> QED BY <1>1, <1>3, <1>8, <2>1, <2>2
<1>9. ASSUME NEW q \in Posture, Pending(m, q)
      PROVE  m.proposals[q].parent # q
  <2>1. l.proposals[p] \in Proposal
    BY PendingType DEF CanApprove
  <2>2. m.proposals[p].status = "approved"
    BY <2>1 DEF Approved, Proposal, Ledger
  <2>3. q # p
    BY <1>9, <2>2 DEF Pending
  <2> QED BY <1>9, <2>3 DEF Approved, Ledger, Pending, Sound
<1> QED BY <1>6, <1>7, <1>8, <1>9 DEF Sound

LEMMA DeniedSound ==
  ASSUME NEW l \in Ledger, Sound(l), NEW p \in Posture, Pending(l, p)
  PROVE  Sound(Denied(l, p))
<1> DEFINE m == Denied(l, p)
<1>1. m.history = l.history
  BY DEF Denied, Ledger
<1>2. ASSUME NEW q \in Posture, Pending(m, q)
      PROVE  m.proposals[q].parent # q
  <2>1. l.proposals[p] \in Proposal
    BY PendingType
  <2>2. m.proposals[p].status = "denied"
    BY <2>1 DEF Denied, Proposal, Ledger
  <2>3. q # p
    BY <1>2, <2>2 DEF Pending
  <2> QED BY <1>2, <2>3 DEF Denied, Ledger, Pending, Sound
<1> QED BY <1>1, <1>2 DEF Sound

(* A command keeps every ledger sound, if what it makes is a sound ledger.  *)
LEMMA CommandSound ==
  ASSUME TypeOK, LedgersSound, NEW s \in Session, NEW l, Sound(l), Command(s, l)
  PROVE  LedgersSound'
<1>1. ledger' = ledger
  BY DEF Command
<1>2. ASSUME NEW t \in Session
      PROVE  Sound(draft'[t])
  BY DEF Command, TypeOK, LedgersSound
<1>3. ledger' # Damaged => Sound(ledger')
  BY <1>1 DEF LedgersSound
<1> QED BY <1>2, <1>3 DEF LedgersSound

THEOREM LedgersStaySound == Spec => []LedgersSound
<1>1. Init => LedgersSound
  BY EmptySound DEF Init, LedgersSound
<1>2. TypeOK /\ LedgersSound /\ [Next]_vars => LedgersSound'
  <2> SUFFICES ASSUME TypeOK, LedgersSound, [Next]_vars PROVE LedgersSound'
    OBVIOUS
  <2>1. Readable(ledger) => ledger \in Ledger /\ Sound(ledger)
    BY DEF Readable, TypeOK, LedgersSound
  <2>2. ASSUME NEW s \in Session, NEW p \in Posture, NEW who \in Operator,
               Propose(s, p, who) \/ Rollback(s, p, who)
        PROVE  LedgersSound'
    <3>1. Sound(Proposed(ledger, p, who))
      BY <2>1, <2>2, ProposedSound DEF Propose, Rollback, CanProposeRollback
    <3> QED BY <2>2, <3>1, CommandSound DEF Propose, Rollback
  <2>3. ASSUME NEW s \in Session, NEW p \in Posture, NEW who \in Operator, Approve(s, p, who)
        PROVE  LedgersSound'
    <3>1. Sound(Approved(ledger, p, who))
      BY <2>1, <2>3, ApprovedSound DEF Approve
    <3> QED BY <2>3, <3>1, CommandSound DEF Approve
  <2>4. ASSUME NEW s \in Session, NEW p \in Posture, Deny(s, p)
        PROVE  LedgersSound'
    <3>1. Sound(Denied(ledger, p))
      BY <2>1, <2>4, DeniedSound DEF Deny
    <3> QED BY <2>4, <3>1, CommandSound DEF Deny
  <2>5. ASSUME NEW s \in Session, Truncate(s)
        PROVE  LedgersSound'
    BY <2>5 DEF Truncate, LedgersSound, Sound, Chains, Pending
  <2>6. ASSUME NEW s \in Session, Write(s)
        PROVE  LedgersSound'
    BY <2>6, EmptySound DEF Write, LedgersSound, TypeOK, Sound, Chains, Pending
  <2>7. ASSUME NEW s \in Session, Crash(s)
        PROVE  LedgersSound'
    BY <2>7, EmptySound DEF Crash, LedgersSound, TypeOK, Sound, Chains, Pending
  <2>8. CASE UNCHANGED vars
    BY <2>8 DEF vars, LedgersSound, Sound, Chains, Pending
  <2> QED BY <2>2, <2>3, <2>4, <2>5, <2>6, <2>7, <2>8 DEF Next
<1> QED BY <1>1, <1>2, PolicyTypeCorrect, PTL DEF Spec

(* Each revision on the ledger file was approved by someone other than its  *)
(* author, whatever the sessions that raced for the file.                  *)
THEOREM Reviewed == Spec => []TwoIdentities
<1>1. LedgersSound => TwoIdentities
  BY DEF LedgersSound, Sound, TwoIdentities, OnRecord
<1> QED BY <1>1, LedgersStaySound, PTL

(* The file never holds a lineage with a fork, a gap or an empty change.    *)
THEOREM Lineage == Spec => []LineageChains
<1>1. LedgersSound => LineageChains
  BY DEF LedgersSound, Sound, LineageChains, OnRecord, Chains
<1> QED BY <1>1, LedgersStaySound, PTL

-----------------------------------------------------------------------------
(* One command at a time. *)
SingleSession == \A s, t \in Session : s = t

(* Between commands the file is damaged or holds the last lineage saved;    *)
(* during one it does so until it is truncated, and the draft extends it.   *)
InStep ==
  /\ ledger # Damaged => ledger.history = lineage
  /\ \A s \in Session :
       /\ pc[s] = "loaded" => ledger # Damaged
       /\ pc[s] = "writing" => ledger = Damaged
       /\ pc[s] # "idle" => Extends(draft[s].history, lineage)

LEMMA ExtendsSame ==
  ASSUME NEW h \in Seq(Revision)
  PROVE  Extends(h, h)
BY DEF Extends

LEMMA ApprovedExtends ==
  ASSUME NEW l \in Ledger, NEW p, NEW who
  PROVE  Extends(Approved(l, p, who).history, l.history)
<1> DEFINE rev == [posture |-> p, parent |-> l.proposals[p].parent,
                   author |-> l.proposals[p].author, reviewer |-> who]
<1>1. l.history \in Seq(Revision)
  BY DEF Ledger
<1>2. Approved(l, p, who).history = Append(l.history, rev)
  BY DEF Approved
<1>3. ASSUME NEW h \in Seq(Revision), NEW r
      PROVE  Extends(Append(h, r), h)
  BY DEF Extends
<1> QED BY <1>1, <1>2, <1>3

(* A command that starts when the file is readable, and makes a ledger that *)
(* extends it, keeps InStep.                                               *)
LEMMA CommandInStep ==
  ASSUME SingleSession, TypeOK, InStep, NEW s \in Session, NEW l,
         ledger # Damaged, Extends(l.history, ledger.history), Command(s, l)
  PROVE  InStep'
<1>1. /\ ledger' = ledger /\ lineage' = lineage
      /\ pc' = [pc EXCEPT ![s] = "loaded"]
      /\ draft' = [draft EXCEPT ![s] = l]
  BY DEF Command
<1>2. pc'[s] = "loaded" /\ draft'[s] = l
  BY <1>1 DEF TypeOK
<1>3. \A t \in Session : t = s
  BY DEF SingleSession
<1> QED BY <1>1, <1>2, <1>3 DEF InStep

LEMMA InStepStep == SingleSession /\ TypeOK /\ InStep /\ [Next]_vars => InStep'
<1> SUFFICES ASSUME SingleSession, TypeOK, InStep, [Next]_vars PROVE InStep'
  OBVIOUS
<1>1. Readable(ledger) => ledger # Damaged /\ ledger \in Ledger /\ ledger.history \in Seq(Revision)
  BY DEF Readable, TypeOK, Ledger
<1>2. ASSUME NEW s \in Session, NEW p \in Posture, NEW who \in Operator,
             Propose(s, p, who) \/ Rollback(s, p, who)
      PROVE  InStep'
  <2>1. Proposed(ledger, p, who).history = ledger.history
    BY <1>1, <1>2 DEF Proposed, Propose, Rollback, Ledger
  <2> QED BY <1>1, <1>2, <2>1, ExtendsSame, CommandInStep DEF Propose, Rollback
<1>3. ASSUME NEW s \in Session, NEW p \in Posture, NEW who \in Operator, Approve(s, p, who)
      PROVE  InStep'
  BY <1>1, <1>3, ApprovedExtends, CommandInStep DEF Approve
<1>4. ASSUME NEW s \in Session, NEW p \in Posture, Deny(s, p)
      PROVE  InStep'
  <2>1. Denied(ledger, p).history = ledger.history
    BY <1>1, <1>4 DEF Denied, Deny, Ledger
  <2> QED BY <1>1, <1>4, <2>1, ExtendsSame, CommandInStep DEF Deny
<1>5. ASSUME NEW s \in Session, Truncate(s)
      PROVE  InStep'
  <2>1. \A t \in Session : t = s
    BY DEF SingleSession
  <2> QED BY <1>5, <2>1 DEF Truncate, TypeOK, InStep
<1>6. ASSUME NEW s \in Session, Write(s)
      PROVE  InStep'
  <2>1. \A t \in Session : t = s
    BY DEF SingleSession
  <2>2. pc'[s] = "idle"
    BY <1>6 DEF Write, TypeOK
  <2>3. ledger' = draft[s] /\ lineage' = draft[s].history /\ ledger' # Damaged
    BY <1>6, DamagedIsNone DEF Write, TypeOK
  <2> QED BY <2>1, <2>2, <2>3 DEF InStep
<1>7. ASSUME NEW s \in Session, Crash(s)
      PROVE  InStep'
  <2>1. \A t \in Session : t = s
    BY DEF SingleSession
  <2>2. pc'[s] = "idle" /\ lineage' = lineage
    BY <1>7 DEF Crash, TypeOK
  <2>3. ledger' # Damaged => ledger' = ledger
    BY <1>7 DEF Crash
  <2> QED BY <2>1, <2>2, <2>3 DEF InStep
<1>8. CASE UNCHANGED vars
  BY <1>8 DEF vars, InStep
<1> QED BY <1>2, <1>3, <1>4, <1>5, <1>6, <1>7, <1>8 DEF Next

LEMMA StaysInStep == ASSUME SingleSession PROVE Spec => []InStep
<1>1. Init => InStep
  BY DEF Init, InStep, EmptyLedger
<1> QED BY <1>1, InStepStep, PolicyTypeCorrect, SingleSession, PTL DEF Spec

(* When commands run one at a time, no save loses a revision, cut short or  *)
(* not: the next ledger saved whole extends the last one.                  *)
THEOREM LineageKept == ASSUME SingleSession PROVE Spec => AppendOnly
<1>1. TypeOK /\ InStep /\ [Next]_vars => [Extends(lineage', lineage)]_vars
  <2> SUFFICES ASSUME TypeOK, InStep, [Next]_vars PROVE Extends(lineage', lineage)
    OBVIOUS
  <2>1. ASSUME NEW s \in Session, Write(s)
        PROVE  Extends(lineage', lineage)
    BY <2>1 DEF Write, InStep
  <2>2. CASE lineage' = lineage
    BY <2>2, ExtendsSame DEF TypeOK
  <2> QED BY <2>1, <2>2 DEF Next, Propose, Rollback, Approve, Deny, Command, Truncate, Crash, vars
<1> QED BY <1>1, StaysInStep, PolicyTypeCorrect, PTL DEF Spec, AppendOnly

(* When commands run one at a time, a guard enforces the last head saved,   *)
(* or the defaults if there is none, or blocks.                            *)
THEOREM GuardFailsClosed == ASSUME SingleSession PROVE Spec => []FailsClosed
<1>1. TypeOK /\ InStep => FailsClosed
  <2> SUFFICES ASSUME TypeOK, InStep, NEW live \in Posture \cup {NoPosture}, NEW required \in BOOLEAN
               PROVE  LET e == RuntimePosture(ledger, live, required)
                      IN  /\ e = "default" => lineage = <<>> /\ ~required /\ live = NoPosture
                          /\ e \in Posture => e = HeadPosture(lineage) /\ live \in {NoPosture, e}
    BY DEF FailsClosed
  <2>1. CASE ~Readable(ledger)
    BY <2>1, PostureAssumption DEF RuntimePosture
  <2>2. CASE Readable(ledger) /\ ledger.history = <<>>
    <3>1. lineage = <<>>
      BY <2>2 DEF Readable, InStep
    <3> QED BY <2>2, <3>1, PostureAssumption DEF RuntimePosture
  <2>3. CASE Readable(ledger) /\ ledger.history # <<>>
    <3>1. lineage = ledger.history
      BY <2>3 DEF Readable, InStep
    <3>2. HeadPosture(lineage) \in Posture
      <4>1. lineage \in Seq(Revision) /\ lineage # <<>>
        BY <2>3, <3>1 DEF TypeOK
      <4>2. lineage[Len(lineage)] \in Revision
        BY <4>1
      <4> QED BY <4>1, <4>2 DEF HeadPosture, Revision
    <3> QED BY <2>3, <3>1, <3>2, PostureAssumption DEF RuntimePosture
  <2> QED BY <2>1, <2>2, <2>3
<1> QED BY <1>1, StaysInStep, PolicyTypeCorrect, PTL

-----------------------------------------------------------------------------
(* A guard's run on the ledger. *)

Stages == {"new", "refused", "check", "halting", "review", "audit", "dispatch", "done"}

Enforced == Posture \cup {"default"}

Asked == [digest : {TheCommand}, fused : {Judged(p) : p \in Enforced}, dry_run : BOOLEAN]

RunTypes ==
  /\ stage \in [Run -> Stages]
  /\ resolved \in [Run -> Enforced \cup {NoPosture, "blocked"}]
  /\ option \in [Run -> [live : Posture \cup {NoPosture}, required : BOOLEAN, execute : BOOLEAN]]
  /\ heads \in [Run -> SUBSET (Posture \cup {NoPosture})]
  /\ req \in [Run -> Asked \cup {B!NoRequest}]
  /\ permitted \in [Run -> BOOLEAN]
  /\ executed \subseteq Run /\ spent \subseteq Run
  /\ now \in Nat
  /\ tickets \in [{TheCommand} -> B!Ticket]

Governed(r) ==
  /\ resolved[r] \in Posture => resolved[r] \in heads[r]
  /\ resolved[r] = "default" => NoPosture \in heads[r] /\ ~option[r].required
  /\ option[r].live # NoPosture =>
       X!DriftEvents(Profile[option[r].live], ProfileOf(resolved[r])) = {}

UnderWay(r) == stage[r] \in {"check", "halting", "review", "audit", "dispatch"} \/ r \in executed

Reviewing(r) == stage[r] \in {"audit", "dispatch"} \/ r \in executed

(* A run under way is judged under one posture, which governs it when policy *)
(* commands run one at a time; once reviewed it is permitted because nobody *)
(* has to be asked, or on a ticket.                                        *)
RunSound(r) ==
  /\ stage[r] \in {"new", "refused", "check", "halting", "review"} => r \notin executed /\ r \notin spent
  /\ r \in executed => stage[r] = "done"
  /\ stage[r] = "dispatch" \/ r \in executed => permitted[r]
  /\ UnderWay(r) =>
       /\ resolved[r] \in Enforced
       /\ req[r] \in Asked /\ req[r].fused = Judged(resolved[r])
       /\ SingleSession => Governed(r)
  /\ r \in spent => req[r].fused.route = "human"
  /\ Reviewing(r) => (permitted[r] <=> req[r].fused.route = "allow" \/ r \in spent)

GuardInv == RunTypes /\ \A r \in Run : RunSound(r)

(* The severity a verdict is routed by is one of the five. *)
LEMMA PeakType ==
  ASSUME NEW posture
  PROVE  PeakSeverity(posture) \in Severities
<1> DEFINE Peaks == {0} \cup {Case.signals[i].severity : i \in {j \in DOMAIN Case.signals :
                    /\ Case.signals[j].plane = "action"
                    /\ Case.signals[j].score >= ProfileOf(posture).threshold["action"]}}
<1>1. ASSUME NEW i \in DOMAIN Case.signals
      PROVE  Case.signals[i].severity \in 0 .. 4
  <2>1. /\ i \in DOMAIN Row.signals
        /\ Case.signals[i].severity = X!Severity[X!Field(Row.signals[i], "severity", "MEDIUM")]
    BY DEF Case, X!CaseFromMapping, X!SignalFromMapping
  <2>2. ASSUME NEW name \in DOMAIN X!Severity
        PROVE  X!Severity[name] \in 0 .. 4
    BY DEF X!Severity
  <2> QED BY <2>1, <2>2, RowAssumption
<1>2. Peaks \subseteq 0 .. 4 /\ 0 \in Peaks
  BY <1>1
<1> HIDE DEF Peaks
<1>3. \E x \in Peaks : \A y \in Peaks : x >= y
  BY <1>2
<1>4. X!Max(Peaks) \in Peaks
  BY <1>3 DEF X!Max
<1> QED BY <1>2, <1>4 DEF PeakSeverity, Peaks, Severities

LEMMA JudgedAsked ==
  ASSUME NEW q \in Asked
  PROVE  /\ q.digest = TheCommand
         /\ q.fused.route \in {"allow", "human", "block"}
         /\ q.fused.verdict \in Severities
         /\ B!RequiredApprovals(q.fused.verdict) = RequiredOperators[q.fused.verdict]
         /\ B!RequiredApprovals(q.fused.verdict) \in Nat \ {0}
<1>1. PICK p \in Enforced : q.fused = Judged(p)
  BY DEF Asked
<1>2. q.fused.route = Route(Decision(p)) /\ q.fused.verdict = PeakSeverity(p)
  BY <1>1 DEF Judged
<1>3. q.fused.route \in {"allow", "human", "block"}
  BY <1>2 DEF Route
<1>4. ASSUME NEW v \in Severities
      PROVE  B!RequiredApprovals(v) = RequiredOperators[v] /\ RequiredOperators[v] \in Nat \ {0}
  BY DEF B!RequiredApprovals, RequiredOperators
<1>5. q.fused.verdict \in Severities
  BY <1>2, PeakType
<1> QED BY <1>3, <1>4, <1>5 DEF Asked

(* The ticket of the command keeps its type, and permits once it carries as *)
(* many approvals as the asker needs.                                      *)
LEMMA AskedTicket ==
  ASSUME NEW t \in B!Ticket, NEW need \in Nat \ {0}, NEW time \in Nat
  PROVE  /\ B!Raised(t, need) \in B!Ticket
         /\ B!AfterRequest(t, need, time) \in B!Ticket
         /\ B!Permits(t, need, time) => Len(t.approvers) >= need
<1> DEFINE u == B!Raised(t, need)
<1>1. /\ u \in B!Ticket
      /\ u.status = t.status /\ u.approvers = t.approvers
      /\ t.status # "none" => u.required >= need
  BY DEF B!Raised, B!NeedsRaise, B!Ticket
<1>2. [u EXCEPT !.status = "consumed"] \in B!Ticket
  BY <1>1 DEF B!Ticket, B!Status, B!Terminal
<1>3. <<>> \in Seq(Operator)
  OBVIOUS
<1>4. B!Opened(need) \in B!Ticket
  BY <1>3 DEF B!Opened, B!Ticket, B!Status, B!Terminal, B!NoExpiry
<1>5. B!AfterRequest(t, need, time) \in B!Ticket
  BY <1>1, <1>2, <1>4 DEF B!AfterRequest
<1>6. ASSUME B!Permits(t, need, time)
      PROVE  Len(t.approvers) >= need
  <2>1. u.status = "approved" /\ Len(u.approvers) >= u.required
    BY <1>6 DEF B!Permits, B!Consumable
  <2>2. u.required \in Nat /\ Len(t.approvers) \in Nat
    BY <1>1 DEF B!Ticket
  <2> QED BY <1>1, <2>1, <2>2
<1> QED BY <1>1, <1>5, <1>6

LEMMA SignedTicket ==
  ASSUME NEW t \in B!Ticket, NEW who \in Operator, NEW time \in Nat
  PROVE  B!Approved(t, who, time) \in B!Ticket
<1>1. Append(t.approvers, who) \in Seq(Operator)
  BY DEF B!Ticket
<1>2. time + TTL \in Nat
  BY ExpiryAssumption
<1> QED BY <1>1, <1>2 DEF B!Approved, B!Ticket, B!Status, B!NoExpiry

-----------------------------------------------------------------------------
(* The guard's runs leave the ledger alone. *)
LEMMA LedgerSteps == [GuardNext]_guardVars => [Next]_vars
<1> SUFFICES ASSUME [GuardNext]_guardVars PROVE [Next]_vars
  OBVIOUS
<1>1. ASSUME NEW r \in Run, NEW o \in Options, Start(r, o)
      PROVE  UNCHANGED vars
  BY <1>1 DEF Start
<1>2. ASSUME NEW r \in Run, Refuse(r) \/ Middleware(r) \/ Dies(r)
      PROVE  UNCHANGED vars
  BY <1>2 DEF Refuse, Middleware, Dies
<1>3. CASE OperatorStep
  BY <1>3 DEF OperatorStep
<1>4. CASE LedgerStep
  BY <1>4 DEF LedgerStep
<1>5. CASE UNCHANGED guardVars
  BY <1>5 DEF guardVars
<1> QED BY <1>1, <1>2, <1>3, <1>4, <1>5 DEF GuardNext

(* What is proved of the policy commands holds with runs of the guard among *)
(* them.                                                                   *)
THEOREM GuardKeepsPolicy == GuardSpec => Spec
<1>1. GuardInit => Init
  BY DEF GuardInit
<1> QED BY <1>1, LedgerSteps, PTL DEF GuardSpec, Spec

-----------------------------------------------------------------------------
(* The posture a run starts under. *)
LEMMA ResolvedGoverns ==
  ASSUME TypeOK, NEW live \in Posture \cup {NoPosture}, NEW required \in BOOLEAN,
         NEW posture, posture = RuntimePosture(ledger, live, required), posture # "blocked"
  PROVE  /\ posture \in Enforced
         /\ FailsClosed =>
              /\ posture \in Posture => posture = HeadPosture(lineage)
              /\ posture = "default" => NoPosture = HeadPosture(lineage) /\ ~required
              /\ live # NoPosture => X!DriftEvents(Profile[live], ProfileOf(posture)) = {}
<1>1. posture \in Enforced
  <2>1. CASE ledger.history = <<>>
    BY <2>1 DEF RuntimePosture, Enforced
  <2>2. CASE Readable(ledger) /\ ledger.history # <<>>
    <3>1. ledger.history \in Seq(Revision)
      BY <2>2 DEF Readable, TypeOK, Ledger
    <3>2. ledger.history[Len(ledger.history)] \in Revision
      BY <2>2, <3>1
    <3>3. HeadPosture(ledger.history) \in Posture
      BY <2>2, <3>2 DEF HeadPosture, Revision
    <3> QED BY <2>2, <3>3 DEF RuntimePosture, Enforced
  <2>3. Readable(ledger)
    BY DEF RuntimePosture
  <2> QED BY <2>1, <2>2, <2>3
<1>2. FailsClosed =>
        /\ posture = "default" => lineage = <<>> /\ ~required /\ live = NoPosture
        /\ posture \in Posture => posture = HeadPosture(lineage) /\ live \in {NoPosture, posture}
  BY DEF FailsClosed
<1>3. ASSUME FailsClosed, live # NoPosture
      PROVE  X!DriftEvents(Profile[live], ProfileOf(posture)) = {}
  <2>1. posture = live /\ posture \in Posture
    BY <1>1, <1>2, <1>3 DEF Enforced
  <2>2. ProfileOf(posture) = Profile[live]
    BY <2>1, PostureAssumption DEF ProfileOf
  <2> QED BY <2>2 DEF X!DriftEvents, X!Changes
<1> QED BY <1>1, <1>2, <1>3 DEF HeadPosture

-----------------------------------------------------------------------------
(* GuardInv is inductive. *)

(* What a step does to a run it is not about: at most the head moves on.    *)
Apart(r) ==
  /\ heads[r] \subseteq heads'[r]
  /\ stage'[r] = stage[r] /\ resolved'[r] = resolved[r] /\ option'[r] = option[r]
  /\ req'[r] = req[r] /\ permitted'[r] = permitted[r]
  /\ r \in executed' <=> r \in executed
  /\ r \in spent' <=> r \in spent

LEMMA ApartSound ==
  ASSUME NEW r \in Run, RunSound(r), Apart(r)
  PROVE  RunSound(r)'
<1>1. UnderWay(r)' <=> UnderWay(r)
  BY DEF Apart, UnderWay
<1>2. Reviewing(r)' <=> Reviewing(r)
  BY DEF Apart, Reviewing
<1>3. Governed(r) => Governed(r)'
  BY DEF Apart, Governed
<1> QED BY <1>1, <1>2, <1>3 DEF RunSound, Apart

LEMMA GuardInitially == GuardInit => GuardInv
<1> SUFFICES ASSUME GuardInit PROVE GuardInv
  OBVIOUS
<1>1. B!Init /\ heads = [r \in Run |-> {}]
      /\ resolved = [r \in Run |-> NoPosture]
      /\ option = [r \in Run |-> [live |-> NoPosture, required |-> FALSE, execute |-> FALSE]]
  BY DEF GuardInit
<1>2. B!NoTicket \in B!Ticket
  BY DEF B!NoTicket, B!Ticket, B!Status, B!Terminal, B!NoExpiry
<1>3. RunTypes
  BY <1>1, <1>2 DEF RunTypes, B!Init, Stages
<1>4. \A r \in Run : stage[r] = "new" /\ r \notin executed /\ r \notin spent
  BY <1>1 DEF B!Init
<1> QED BY <1>3, <1>4 DEF GuardInv, RunSound, UnderWay, Reviewing

(* Without two sessions at a time a run can rely on FailsClosed.            *)
Closed == SingleSession => FailsClosed

LEMMA GuardCloses == GuardSpec => []Closed
<1>1. CASE SingleSession
  <2>1. FailsClosed => Closed
    BY DEF Closed
  <2> QED BY <1>1, <2>1, GuardFailsClosed, GuardKeepsPolicy, PTL
<1>2. CASE ~SingleSession
  <2>1. Closed
    BY <1>2 DEF Closed
  <2> QED BY <2>1, PTL
<1> QED BY <1>1, <1>2

LEMMA StartSound ==
  ASSUME TypeOK, Closed, GuardInv, NEW r \in Run, NEW o \in Options, Start(r, o)
  PROVE  GuardInv'
<1> DEFINE posture == RuntimePosture(ledger, o.live, o.required)
           q == [digest |-> TheCommand, fused |-> Judged(posture), dry_run |-> ~o.execute]
<1>1. o \in [live : Posture \cup {NoPosture}, required : BOOLEAN, execute : BOOLEAN]
  BY OptionsAssumption DEF Option
<1>2. RunTypes /\ RunSound(r) /\ stage[r] = "new"
  BY DEF GuardInv, Start
<1>3. HeadPosture(lineage) \in Posture \cup {NoPosture}
  BY HeadType DEF TypeOK
<1>4. /\ resolved' = [resolved EXCEPT ![r] = posture]
      /\ option' = [option EXCEPT ![r] = o]
      /\ heads' = [heads EXCEPT ![r] = {HeadPosture(lineage)}]
      /\ UNCHANGED <<permitted, executed, spent, now, tickets>>
  BY DEF Start, B!Submit, B!world, world
<1>5. r \notin executed /\ r \notin spent
  BY <1>2 DEF RunSound
<1>6. ASSUME NEW s \in Run, s # r
      PROVE  RunSound(s)'
  <2>1. Apart(s)
    BY <1>2, <1>4, <1>6 DEF Apart, RunTypes, Start, B!Submit, B!Goto
  <2> QED BY <2>1, ApartSound DEF GuardInv
<1>7. CASE posture = "blocked"
  <2>1. stage' = [stage EXCEPT ![r] = IF Readable(ledger) THEN "refused" ELSE "done"] /\ req' = req
    BY <1>7 DEF Start, B!Goto
  <2>2. RunTypes'
    BY <1>1, <1>2, <1>3, <1>4, <1>7, <2>1 DEF RunTypes, Stages
  <2>3. stage'[r] \in {"refused", "done"}
    BY <1>2, <2>1 DEF RunTypes
  <2>4. RunSound(r)'
    BY <1>4, <1>5, <2>3 DEF RunSound, UnderWay, Reviewing
  <2> QED BY <1>6, <2>2, <2>4 DEF GuardInv
<1>8. CASE posture # "blocked"
  <2>1. stage' = [stage EXCEPT ![r] = "check"] /\ req' = [req EXCEPT ![r] = q]
    BY <1>8 DEF Start, B!Submit, B!Goto
  <2>2. /\ posture \in Enforced
        /\ FailsClosed =>
             /\ posture \in Posture => posture = HeadPosture(lineage)
             /\ posture = "default" => NoPosture = HeadPosture(lineage) /\ ~o.required
             /\ o.live # NoPosture => X!DriftEvents(Profile[o.live], ProfileOf(posture)) = {}
    BY <1>1, <1>8, ResolvedGoverns
  <2> HIDE DEF posture
  <2>3. q \in Asked
    BY <1>1, <2>2 DEF Asked
  <2>4. RunTypes'
    BY <1>1, <1>2, <1>3, <1>4, <2>1, <2>2, <2>3 DEF RunTypes, Stages
  <2>5. /\ stage'[r] = "check" /\ req'[r] = q /\ resolved'[r] = posture
        /\ option'[r] = o /\ heads'[r] = {HeadPosture(lineage)}
    BY <1>2, <1>4, <2>1 DEF RunTypes
  <2>6. SingleSession => Governed(r)'
    BY <2>2, <2>5 DEF Governed, Closed
  <2>7. RunSound(r)'
    BY <1>4, <1>5, <2>2, <2>3, <2>5, <2>6 DEF RunSound, UnderWay, Reviewing
  <2> QED BY <1>6, <2>4, <2>7 DEF GuardInv
<1> QED BY <1>7, <1>8

(* A run that ends without executing. *)
LEMMA EndsSound ==
  ASSUME GuardInv, NEW r \in Run, stage[r] # "new", r \in executed => stage[r] = "done",
         stage' = [stage EXCEPT ![r] = "done"],
         UNCHANGED <<resolved, option, heads, req, permitted, executed, spent, now>>,
         tickets' \in [{TheCommand} -> B!Ticket]
  PROVE  GuardInv'
<1>1. RunTypes'
  BY DEF GuardInv, RunTypes, Stages
<1>2. ASSUME NEW s \in Run, s # r
      PROVE  RunSound(s)'
  <2>1. Apart(s)
    BY <1>2 DEF GuardInv, RunTypes, Apart
  <2> QED BY <2>1, ApartSound DEF GuardInv
<1>3. stage'[r] = "done"
  BY DEF GuardInv, RunTypes
<1>4. RunSound(r)'
  BY <1>3 DEF GuardInv, RunSound, UnderWay, Reviewing, Governed
<1> QED BY <1>1, <1>2, <1>4 DEF GuardInv

LEMMA CheckHaltSound ==
  ASSUME GuardInv, NEW r \in Run, B!CheckHalt(r), UNCHANGED <<vars, runVars>>
  PROVE  GuardInv'
<1>1. /\ stage[r] = "check" /\ RunSound(r) /\ RunTypes
      /\ UNCHANGED <<resolved, option, heads, req, permitted, executed, spent, now, tickets>>
  BY DEF B!CheckHalt, B!world, GuardInv, runVars
<1>2. PICK next \in {"halting", "review"} : stage' = [stage EXCEPT ![r] = next]
  BY DEF B!CheckHalt, B!Goto
<1>3. RunTypes'
  BY <1>1, <1>2 DEF RunTypes, Stages
<1>4. ASSUME NEW s \in Run, s # r
      PROVE  RunSound(s)'
  <2>1. Apart(s)
    BY <1>1, <1>2, <1>4 DEF RunTypes, Apart
  <2> QED BY <2>1, ApartSound DEF GuardInv
<1>5. stage'[r] \in {"halting", "review"}
  BY <1>1, <1>2 DEF RunTypes
<1>6. RunSound(r)'
  BY <1>1, <1>5 DEF RunSound, UnderWay, Reviewing, Governed
<1> QED BY <1>3, <1>4, <1>6 DEF GuardInv

LEMMA ReviewSound ==
  ASSUME GuardInv, NEW r \in Run, B!Review(r), UNCHANGED <<vars, runVars>>
  PROVE  GuardInv'
<1> DEFINE need == B!RequiredApprovals(req[r].fused.verdict)
           yes == req[r].fused.route = "human" /\ B!Permits(tickets[req[r].digest], need, now)
<1>1. /\ stage[r] = "review" /\ RunSound(r) /\ RunTypes
      /\ UNCHANGED <<resolved, option, heads, req, executed, now>>
  BY DEF B!Review, GuardInv, runVars
<1>2. req[r] \in Asked /\ (SingleSession => Governed(r)) /\ resolved[r] \in Enforced /\ req[r].fused = Judged(resolved[r])
  BY <1>1 DEF RunSound, UnderWay
<1>3. /\ req[r].digest = TheCommand /\ need \in Nat \ {0}
  BY <1>2, JudgedAsked
<1>4. /\ permitted' = [permitted EXCEPT ![r] = yes \/ req[r].fused.route = "allow"]
      /\ spent' = IF yes THEN spent \cup {r} ELSE spent
      /\ stage' = [stage EXCEPT ![r] = "audit"]
      /\ tickets' = IF req[r].fused.route = "human"
                    THEN [tickets EXCEPT ![req[r].digest] = B!AfterRequest(@, need, now)] ELSE tickets
  BY DEF B!Review, B!Goto, B!Ask
<1>5. tickets' \in [{TheCommand} -> B!Ticket]
  <2>1. tickets[TheCommand] \in B!Ticket /\ now \in Nat
    BY <1>1 DEF RunTypes
  <2>2. B!AfterRequest(tickets[TheCommand], need, now) \in B!Ticket
    BY <1>3, <2>1, AskedTicket
  <2> QED BY <1>1, <1>3, <1>4, <2>2 DEF RunTypes
<1> HIDE DEF yes, need
<1>6. RunTypes'
  <2>1. permitted' \in [Run -> BOOLEAN]
    <3>1. (yes \/ req[r].fused.route = "allow") \in BOOLEAN
      BY DEF yes
    <3> QED BY <1>1, <1>4, <3>1 DEF RunTypes
  <2>2. spent' \subseteq Run /\ stage' \in [Run -> Stages]
    BY <1>1, <1>4 DEF RunTypes, Stages
  <2> QED BY <1>1, <1>5, <2>1, <2>2 DEF RunTypes
<1>7. ASSUME NEW s \in Run, s # r
      PROVE  RunSound(s)'
  <2>1. s \in spent' <=> s \in spent
    BY <1>4, <1>7
  <2>2. Apart(s)
    BY <1>1, <1>4, <1>7, <2>1 DEF RunTypes, Apart
  <2> QED BY <2>2, ApartSound DEF GuardInv
<1>8. stage'[r] = "audit" /\ r \notin executed' /\ r \notin spent
  BY <1>1, <1>4 DEF RunTypes, RunSound
<1>9. permitted'[r] <=> (yes \/ req[r].fused.route = "allow")
  BY <1>1, <1>4 DEF RunTypes
<1>10. r \in spent' <=> yes
  BY <1>4, <1>8
<1>11. yes => req[r].fused.route = "human"
  BY DEF yes
<1>12. (SingleSession => Governed(r)') /\ resolved'[r] \in Enforced
  BY <1>1, <1>2 DEF Governed
<1>13. /\ r \in spent' => req'[r].fused.route = "human"
       /\ permitted'[r] <=> req'[r].fused.route = "allow" \/ r \in spent'
  BY <1>1, <1>9, <1>10, <1>11
<1>14. req'[r] \in Asked /\ req'[r].fused = Judged(resolved'[r])
  BY <1>1, <1>2
<1>15. RunSound(r)'
  BY <1>8, <1>12, <1>13, <1>14 DEF RunSound
<1> QED BY <1>6, <1>7, <1>15 DEF GuardInv

LEMMA ReviewFailsSound ==
  ASSUME GuardInv, NEW r \in Run, B!ReviewFails(r), UNCHANGED <<vars, runVars>>
  PROVE  GuardInv'
<1> DEFINE need == B!RequiredApprovals(req[r].fused.verdict)
           t == tickets[TheCommand]
<1>1. /\ stage[r] = "review" /\ RunSound(r) /\ RunTypes
      /\ UNCHANGED <<resolved, option, heads, req, permitted, executed, spent, now>>
      /\ stage' = [stage EXCEPT ![r] = "done"]
  BY DEF B!ReviewFails, B!Goto, GuardInv, runVars
<1>2. req[r].digest = TheCommand /\ need \in Nat \ {0}
  BY <1>1, JudgedAsked DEF RunSound, UnderWay
<1>3. t \in B!Ticket /\ now \in Nat
  BY <1>1 DEF RunTypes
<1>4. B!Raised(t, need) \in B!Ticket /\ B!AfterRequest(t, need, now) \in B!Ticket
  BY <1>2, <1>3, AskedTicket
<1>5. \/ UNCHANGED tickets
      \/ \E u \in {B!Raised(t, need), B!AfterRequest(t, need, now)} :
           tickets' = [tickets EXCEPT ![TheCommand] = u]
  BY <1>2 DEF B!ReviewFails, B!Ask
<1> HIDE DEF need, t
<1>6. tickets' \in [{TheCommand} -> B!Ticket]
  BY <1>1, <1>4, <1>5 DEF RunTypes
<1>7. stage[r] # "new" /\ (r \in executed => stage[r] = "done")
  BY <1>1 DEF RunSound
<1> QED BY <1>1, <1>6, <1>7, EndsSound

LEMMA AuditSound ==
  ASSUME GuardInv, NEW r \in Run, B!Audit(r), UNCHANGED <<vars, runVars>>
  PROVE  GuardInv'
<1>1. /\ stage[r] = "audit" /\ RunSound(r) /\ RunTypes
      /\ UNCHANGED <<resolved, option, heads, req, permitted, executed, spent, now, tickets>>
      /\ stage' = [stage EXCEPT ![r] = IF permitted[r] /\ ~req[r].dry_run THEN "dispatch" ELSE "done"]
  BY DEF B!Audit, B!Goto, B!world, GuardInv, runVars
<1>2. CASE permitted[r] /\ ~req[r].dry_run
  <2>1. stage' = [stage EXCEPT ![r] = "dispatch"]
    BY <1>1, <1>2
  <2>2. RunTypes'
    BY <1>1, <2>1 DEF RunTypes, Stages
  <2>3. ASSUME NEW s \in Run, s # r
        PROVE  RunSound(s)'
    <3>1. Apart(s)
      BY <1>1, <2>1, <2>3 DEF RunTypes, Apart
    <3> QED BY <3>1, ApartSound DEF GuardInv
  <2>4. stage'[r] = "dispatch"
    BY <1>1, <2>1 DEF RunTypes
  <2>5. RunSound(r)'
    BY <1>1, <1>2, <2>4 DEF RunSound, UnderWay, Reviewing, Governed
  <2> QED BY <2>2, <2>3, <2>5 DEF GuardInv
<1>3. CASE ~(permitted[r] /\ ~req[r].dry_run)
  <2>1. stage' = [stage EXCEPT ![r] = "done"]
    BY <1>1, <1>3
  <2>2. stage[r] # "new" /\ (r \in executed => stage[r] = "done")
    BY <1>1 DEF RunSound
  <2> QED BY <1>1, <2>1, <2>2, EndsSound DEF RunTypes
<1> QED BY <1>2, <1>3

LEMMA ExecuteSound ==
  ASSUME GuardInv, NEW r \in Run, B!Execute(r), UNCHANGED <<vars, runVars>>
  PROVE  GuardInv'
<1>1. /\ stage[r] = "dispatch" /\ RunSound(r) /\ RunTypes
      /\ UNCHANGED <<resolved, option, heads, req, permitted, spent, now, tickets>>
      /\ stage' = [stage EXCEPT ![r] = "done"]
      /\ executed' = executed \cup {r}
  BY DEF B!Execute, B!Goto, B!world, GuardInv, runVars
<1>2. RunTypes'
  BY <1>1 DEF RunTypes, Stages
<1>3. ASSUME NEW s \in Run, s # r
      PROVE  RunSound(s)'
  <2>1. Apart(s)
    BY <1>1, <1>3 DEF RunTypes, Apart
  <2> QED BY <2>1, ApartSound DEF GuardInv
<1>4. stage'[r] = "done"
  BY <1>1 DEF RunTypes
<1>5. RunSound(r)'
  BY <1>1, <1>4 DEF RunSound, UnderWay, Reviewing, Governed
<1> QED BY <1>2, <1>3, <1>5 DEF GuardInv

LEMMA OperatorSound ==
  ASSUME GuardInv, OperatorStep
  PROVE  GuardInv'
<1>1. /\ RunTypes
      /\ UNCHANGED <<stage, resolved, option, heads, req, permitted, executed, spent, now>>
  BY DEF OperatorStep, B!Approve, B!Deny, GuardInv, runVars
<1>2. tickets[TheCommand] \in B!Ticket /\ now \in Nat
  BY <1>1 DEF RunTypes
<1>3. tickets' \in [{TheCommand} -> B!Ticket]
  <2>1. ASSUME NEW who \in Operator, B!Approve(TheCommand, who)
        PROVE  tickets' \in [{TheCommand} -> B!Ticket]
    <3>1. B!Approved(tickets[TheCommand], who, now) \in B!Ticket
      BY <1>2, SignedTicket
    <3> QED BY <1>1, <2>1, <3>1 DEF B!Approve, RunTypes
  <2>2. ASSUME B!Deny(TheCommand)
        PROVE  tickets' \in [{TheCommand} -> B!Ticket]
    <3>1. B!Denied(tickets[TheCommand]) \in B!Ticket
      BY <1>2 DEF B!Denied, B!Ticket, B!Status, B!Terminal, B!NoExpiry
    <3> QED BY <1>1, <2>2, <3>1 DEF B!Deny, RunTypes
  <2> QED BY <2>1, <2>2 DEF OperatorStep
<1>4. RunTypes'
  BY <1>1, <1>3 DEF RunTypes
<1>5. ASSUME NEW s \in Run
      PROVE  RunSound(s)'
  <2>1. Apart(s)
    BY <1>1 DEF Apart
  <2> QED BY <2>1, ApartSound DEF GuardInv
<1> QED BY <1>4, <1>5 DEF GuardInv

LEMMA LedgerSound ==
  ASSUME GuardInv, TypeOK', LedgerStep
  PROVE  GuardInv'
<1>1. /\ RunTypes
      /\ UNCHANGED <<stage, resolved, option, req, permitted, executed, spent, now, tickets>>
      /\ heads' = [r \in Run |-> IF stage[r] \in {"new", "done"} THEN heads[r]
                                ELSE heads[r] \cup {HeadPosture(lineage')}]
  BY DEF LedgerStep, boundaryVars, world, GuardInv
<1>2. HeadPosture(lineage') \in Posture \cup {NoPosture}
  <2>1. lineage' \in Seq(Revision)
    BY DEF TypeOK
  <2> QED BY <2>1, HeadType
<1>3. RunTypes'
  BY <1>1, <1>2 DEF RunTypes
<1>4. ASSUME NEW s \in Run
      PROVE  RunSound(s)'
  <2>1. Apart(s)
    BY <1>1 DEF Apart
  <2> QED BY <2>1, ApartSound DEF GuardInv
<1> QED BY <1>3, <1>4 DEF GuardInv

LEMMA GuardStep == GuardInv /\ TypeOK /\ TypeOK' /\ Closed /\ [GuardNext]_guardVars => GuardInv'
<1> SUFFICES ASSUME GuardInv, TypeOK, TypeOK', Closed, [GuardNext]_guardVars
             PROVE  GuardInv'
  OBVIOUS
<1>1. ASSUME NEW r \in Run, NEW o \in Options, Start(r, o)
      PROVE  GuardInv'
  BY <1>1, StartSound
<1>2. ASSUME NEW r \in Run, Refuse(r) \/ Dies(r)
      PROVE  GuardInv'
  <2>1. /\ stage[r] \notin {"new", "done"}
        /\ stage' = [stage EXCEPT ![r] = "done"]
        /\ UNCHANGED <<resolved, option, heads, req, permitted, executed, spent, now, tickets>>
    BY <1>2 DEF Refuse, Dies, B!Goto, world, runVars
  <2>2. r \notin executed
    BY <2>1 DEF GuardInv, RunSound
  <2> QED BY <2>1, <2>2, EndsSound DEF GuardInv, RunTypes
<1>3. ASSUME NEW r \in Run, Middleware(r)
      PROVE  GuardInv'
  <2>1. UNCHANGED <<vars, runVars>>
    BY <1>3 DEF Middleware
  <2>2. CASE B!AuditFails(r)
    <3>1. /\ stage[r] \in {"audit", "halting"}
          /\ stage' = [stage EXCEPT ![r] = "done"]
          /\ UNCHANGED <<resolved, option, heads, req, permitted, executed, spent, now, tickets>>
      BY <2>1, <2>2 DEF B!AuditFails, B!Goto, B!world, runVars
    <3>2. r \notin executed
      BY <3>1 DEF GuardInv, RunSound
    <3> QED BY <3>1, <3>2, EndsSound DEF GuardInv, RunTypes
  <2> QED BY <1>3, <2>1, <2>2, CheckHaltSound, ReviewSound, ReviewFailsSound, AuditSound, ExecuteSound
          DEF Middleware
<1>4. CASE OperatorStep
  BY <1>4, OperatorSound
<1>5. CASE LedgerStep
  BY <1>5, LedgerSound
<1>6. CASE UNCHANGED guardVars
  <2>1. UNCHANGED <<stage, resolved, option, heads, req, permitted, executed, spent, now, tickets>>
    BY <1>6 DEF guardVars, boundaryVars, world, runVars
  <2>2. RunTypes'
    BY <2>1 DEF GuardInv, RunTypes
  <2>3. ASSUME NEW s \in Run
        PROVE  RunSound(s)'
    <3>1. Apart(s)
      BY <2>1 DEF Apart
    <3> QED BY <3>1, ApartSound DEF GuardInv
  <2> QED BY <2>2, <2>3 DEF GuardInv
<1> QED BY <1>1, <1>2, <1>3, <1>4, <1>5, <1>6 DEF GuardNext

LEMMA GuardStaysSound == GuardSpec => []GuardInv
BY GuardInitially, GuardStep, GuardKeepsPolicy, PolicyTypeCorrect, GuardCloses, PTL DEF GuardSpec

(* When policy commands run one at a time, what a guard's run executes was  *)
(* judged under a head that governed while it ran, whatever was approved or *)
(* rolled back meanwhile.                                                  *)
THEOREM HeadGoverns == ASSUME SingleSession PROVE GuardSpec => []GovernedByApproved
<1>1. GuardInv => GovernedByApproved
  BY SingleSession DEF GuardInv, RunTypes, RunSound, UnderWay, Governed, GovernedByApproved
<1> QED BY <1>1, GuardStaysSound, SingleSession, PTL

(* The posture that governs the run decides how many operators have signed  *)
(* what it consumes.                                                       *)
THEOREM TicketCoversPosture == GuardSpec => SignedForPosture
<1>1. GuardInv /\ [GuardNext]_guardVars =>
        [\A r \in spent' \ spent :
           Len(tickets[TheCommand].approvers) >= RequiredOperators[PeakSeverity(resolved[r])]]_guardVars
  <2> SUFFICES ASSUME GuardInv, [GuardNext]_guardVars, NEW r \in spent' \ spent
               PROVE  Len(tickets[TheCommand].approvers) >= RequiredOperators[PeakSeverity(resolved[r])]
    OBVIOUS
  <2>1. PICK s \in Run : B!Review(s)
    BY DEF GuardNext, Start, Refuse, Middleware, Dies, OperatorStep, LedgerStep, guardVars,
           boundaryVars, B!Submit, B!CheckHalt, B!ReviewFails, B!Audit, B!AuditFails, B!Execute,
           B!Approve, B!Deny
  <2>2. s = r /\ req[r].fused.route = "human"
        /\ B!Permits(tickets[req[r].digest], B!RequiredApprovals(req[r].fused.verdict), now)
    BY <2>1 DEF B!Review
  <2>3. req[r] \in Asked /\ req[r].fused = Judged(resolved[r])
    BY <2>1, <2>2 DEF GuardInv, RunSound, UnderWay, B!Review
  <2>4. /\ req[r].digest = TheCommand
        /\ B!RequiredApprovals(req[r].fused.verdict) = RequiredOperators[req[r].fused.verdict]
        /\ B!RequiredApprovals(req[r].fused.verdict) \in Nat \ {0}
    BY <2>3, JudgedAsked
  <2>5. tickets[TheCommand] \in B!Ticket /\ now \in Nat
    BY DEF GuardInv, RunTypes
  <2>6. Len(tickets[TheCommand].approvers) >= B!RequiredApprovals(req[r].fused.verdict)
    BY <2>2, <2>4, <2>5, AskedTicket
  <2>7. req[r].fused.verdict = PeakSeverity(resolved[r])
    BY <2>3 DEF Judged
  <2> QED BY <2>4, <2>6, <2>7
<1> QED BY <1>1, GuardStaysSound, PTL DEF GuardSpec, SignedForPosture

-----------------------------------------------------------------------------
(* The recorded case has no capability facts, so it is replayed as recorded. *)
PlainRow == "capability_context" \notin DOMAIN Row

LEMMA ReplayDecides ==
  ASSUME PlainRow, NEW posture
  PROVE  X!Replay(ProfileOf(posture), Case) = X!Outcome(Decision(posture))
<1>1. Case.context = X!NoContext
  BY DEF PlainRow, Case, X!CaseFromMapping, X!Field
<1>2. X!SignalsFor(ProfileOf(posture), Case) = Case.signals
  BY <1>1 DEF X!SignalsFor
<1> QED BY <1>2 DEF X!Replay, Decision

(* The route of a run is the outcome the exposure foretold, except that a   *)
(* block may be foretold as an escalation.                                 *)
LEMMA RouteForetold ==
  ASSUME PlainRow, NEW posture
  PROVE  /\ Judged(posture).route = "allow" <=> X!Replay(ProfileOf(posture), Case) = "allow"
         /\ Judged(posture).route = "human" => X!Replay(ProfileOf(posture), Case) = "escalate"
BY ReplayDecides DEF Judged, Route, X!Outcome

(* What runs was foretold, for the same posture, by the exposure report of  *)
(* the recorded case; what it reports as unchanged is routed alike.        *)
THEOREM ExposureHolds == ASSUME PlainRow PROVE GuardSpec => []ExposureForetells
<1>1. GuardInv => ExposureForetells
  <2> SUFFICES ASSUME GuardInv PROVE ExposureForetells
    OBVIOUS
  <2>1. ASSUME NEW r \in executed, NEW baseline \in Posture
        PROVE  LET report == X!Expose(Profile[baseline], ProfileOf(resolved[r]), <<Case>>)
               IN  /\ report[1].candidate = (IF r \in spent THEN "escalate" ELSE "allow")
                   /\ r \notin spent /\ X!Changed(report) = {} => Judged(baseline).route = "allow"
    <3> DEFINE report == X!Expose(Profile[baseline], ProfileOf(resolved[r]), <<Case>>)
    <3>1. /\ r \in Run
          /\ permitted[r]
          /\ req[r].fused = Judged(resolved[r])
          /\ r \in spent => req[r].fused.route = "human"
          /\ permitted[r] <=> req[r].fused.route = "allow" \/ r \in spent
      BY DEF GuardInv, RunTypes, RunSound, UnderWay, Reviewing
    <3>2. /\ 1 \in DOMAIN report
          /\ report[1].baseline = X!Replay(Profile[baseline], Case)
          /\ report[1].candidate = X!Replay(ProfileOf(resolved[r]), Case)
      BY DEF X!Expose, X!OutcomeChange
    <3>3. report[1].candidate = (IF r \in spent THEN "escalate" ELSE "allow")
      BY <3>1, <3>2, RouteForetold, PlainRow
    <3>4. ASSUME r \notin spent, X!Changed(report) = {}
          PROVE  Judged(baseline).route = "allow"
      <4>1. report[1].baseline = report[1].candidate
        BY <3>2, <3>4 DEF X!Changed
      <4>2. ProfileOf(baseline) = Profile[baseline]
        BY PostureAssumption DEF ProfileOf
      <4> QED BY <3>2, <3>3, <3>4, <4>1, <4>2, RouteForetold, PlainRow
    <3> QED BY <3>3, <3>4
  <2>2. ASSUME NEW r \in Run, stage[r] = "audit", X!Replay(ProfileOf(resolved[r]), Case) = "allow"
        PROVE  permitted[r]
    <3>1. req[r].fused = Judged(resolved[r]) /\ (permitted[r] <=> req[r].fused.route = "allow" \/ r \in spent)
      BY <2>2 DEF GuardInv, RunSound, UnderWay, Reviewing
    <3> QED BY <2>2, <3>1, RouteForetold, PlainRow
  <2> QED BY <2>1, <2>2 DEF ExposureForetells
<1> QED BY <1>1, GuardStaysSound, PTL
=============================================================================
