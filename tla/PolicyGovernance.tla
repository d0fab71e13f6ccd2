--------------------------- MODULE PolicyGovernance ---------------------------
(***************************************************************************)
(* The policy ledger of policy/: postures are proposed, approved by another *)
(* operator or denied, and appended to a lineage whose last revision governs *)
(* the runtime.  A session is one director-class-policy command: it loads   *)
(* the ledger, works on it and rewrites the file in place.                 *)
(*                                                                         *)
(* A posture stands for a profile and for its content address.  The field  *)
(* reviewer of a revision is history: the code does not keep it there.     *)
(***************************************************************************)
EXTENDS Integers, Sequences

CONSTANTS
  Posture,      \* profiles, by content address
  Operator,     \* proposers and reviewers
  Session,      \* commands that may run at the same time
  MaxRevisions  \* bound on the lineage

NoPosture == "none"

ASSUME PostureAssumption == NoPosture \notin Posture /\ "default" \notin Posture /\ "blocked" \notin Posture
ASSUME RevisionsAssumption == MaxRevisions \in Nat

Revision ==
  [posture : Posture, parent : Posture \cup {NoPosture},
   author : Operator, reviewer : Operator]

Proposal ==
  [status : {"pending", "approved", "denied"}, parent : Posture \cup {NoPosture},
   author : Operator]

NoProposal == [status |-> "none"]

Ledger == [history : Seq(Revision), proposals : [Posture -> Proposal \cup {NoProposal}]]

EmptyLedger == [history |-> <<>>, proposals |-> [p \in Posture |-> NoProposal]]

(* A file that is no ledger: truncated, cut, or two writes mixed.           *)
Damaged == [damaged |-> TRUE]

-----------------------------------------------------------------------------
(* PolicyHistory and PolicyChangeReview, on a ledger in memory. *)

HeadPosture(h) == IF h = <<>> THEN NoPosture ELSE h[Len(h)].posture

Recorded(l, p) == \E i \in 1 .. Len(l.history) : l.history[i].posture = p

Pending(l, p) == l.proposals[p].status = "pending"

CanPropose(l, p) == p # HeadPosture(l.history) /\ ~Pending(l, p)

CanProposeRollback(l, p) == Recorded(l, p) /\ CanPropose(l, p)

(* The base of the proposal is the head of the moment. *)
Proposed(l, p, who) ==
  [l EXCEPT !.proposals[p] =
     [status |-> "pending", parent |-> HeadPosture(l.history), author |-> who]]

(* Mutant: an operator may approve the own proposal.                        *)
CanApproveOwn(l, p, who) == Pending(l, p) /\ l.proposals[p].parent = HeadPosture(l.history)

(* Mutant: the base is not compared with the head.                          *)
CanApproveStale(l, p, who) == Pending(l, p) /\ who # l.proposals[p].author

CanApprove(l, p, who) ==
  /\ Pending(l, p)
  /\ who # l.proposals[p].author
  /\ l.proposals[p].parent = HeadPosture(l.history)

(* Mutant: restoring a posture cuts the lineage back to it.                 *)
ApprovedTruncating(l, p, who) ==
  LET kept == IF Recorded(l, p)
              THEN SubSeq(l.history, 1, (CHOOSE i \in 1 .. Len(l.history) : l.history[i].posture = p) - 1)
              ELSE l.history
  IN  [history |->
         Append(kept, [posture |-> p, parent |-> HeadPosture(kept),
                       author |-> l.proposals[p].author, reviewer |-> who]),
       proposals |-> [l.proposals EXCEPT ![p].status = "approved"]]

Approved(l, p, who) ==
  [history |->
     Append(l.history, [posture |-> p, parent |-> l.proposals[p].parent,
                        author |-> l.proposals[p].author, reviewer |-> who]),
   proposals |-> [l.proposals EXCEPT ![p].status = "approved"]]

Denied(l, p) == [l EXCEPT !.proposals[p].status = "denied"]

(* load_governance appends the revisions one by one: a forked, reordered or *)
(* forged lineage does not load.                                           *)
Chains(h) ==
  \A i \in 1 .. Len(h) : h[i].parent = (IF i = 1 THEN NoPosture ELSE h[i - 1].posture)

Readable(l) == l # Damaged /\ Chains(l.history)

(* Mutant: a ledger that does not load counts as none.                      *)
RuntimePostureOpen(l, live, required) ==
  IF ~Readable(l) \/ l.history = <<>>
  THEN IF required \/ live # NoPosture THEN "blocked" ELSE "default"
  ELSE IF live \in {NoPosture, HeadPosture(l.history)} THEN HeadPosture(l.history) ELSE "blocked"

(* resolve_runtime_posture: the posture a guard run enforces, "default" for *)
(* the safe defaults, "blocked" when it refuses every action or raises.     *)
RuntimePosture(l, live, required) ==
  IF ~Readable(l) THEN "blocked"
  ELSE IF l.history = <<>>
       THEN IF required \/ live # NoPosture THEN "blocked" ELSE "default"
       ELSE IF live \in {NoPosture, HeadPosture(l.history)} THEN HeadPosture(l.history) ELSE "blocked"

-----------------------------------------------------------------------------
VARIABLES
  ledger,   \* the file; a missing one is the empty ledger
  pc,       \* how far each session is
  draft,    \* the ledger a session is about to save
  lineage   \* history: the lineage of the last ledger saved whole

vars == <<ledger, pc, draft, lineage>>

TypeOK ==
  /\ ledger \in Ledger \cup {Damaged}
  /\ pc \in [Session -> {"idle", "loaded", "writing"}]
  /\ draft \in [Session -> Ledger]
  /\ lineage \in Seq(Revision)

Init ==
  /\ ledger = EmptyLedger
  /\ pc = [s \in Session |-> "idle"]
  /\ draft = [s \in Session |-> EmptyLedger]
  /\ lineage = <<>>

(* A command loads the ledger and changes its copy to l. *)
Command(s, l) ==
  /\ pc[s] = "idle"
  /\ pc' = [pc EXCEPT ![s] = "loaded"]
  /\ draft' = [draft EXCEPT ![s] = l]
  /\ UNCHANGED <<ledger, lineage>>

Propose(s, p, who) ==
  /\ Readable(ledger)
  /\ CanPropose(ledger, p)
  /\ Command(s, Proposed(ledger, p, who))

Rollback(s, p, who) ==
  /\ Readable(ledger)
  /\ CanProposeRollback(ledger, p)
  /\ Command(s, Proposed(ledger, p, who))

Approve(s, p, who) ==
  /\ Readable(ledger)
  /\ Len(ledger.history) < MaxRevisions
  /\ CanApprove(ledger, p, who)
  /\ Command(s, Approved(ledger, p, who))

Deny(s, p) ==
  /\ Readable(ledger)
  /\ Pending(ledger, p)
  /\ Command(s, Denied(ledger, p))

(* save_governance opens the file for writing, which empties it. *)
Truncate(s) ==
  /\ pc[s] = "loaded"
  /\ pc' = [pc EXCEPT ![s] = "writing"]
  /\ ledger' = Damaged
  /\ UNCHANGED <<draft, lineage>>

(* The whole draft is written, and the command returns. *)
Write(s) ==
  /\ pc[s] = "writing"
  /\ pc' = [pc EXCEPT ![s] = "idle"]
  /\ ledger' = draft[s]
  /\ lineage' = draft[s].history
  /\ draft' = [draft EXCEPT ![s] = EmptyLedger]

(* The process dies or the write fails; what was written, also over another *)
(* session's text, is no ledger.                                           *)
Crash(s) ==
  /\ pc[s] # "idle"
  /\ pc' = [pc EXCEPT ![s] = "idle"]
  /\ IF pc[s] = "writing" THEN ledger' \in {ledger, Damaged} ELSE UNCHANGED ledger
  /\ draft' = [draft EXCEPT ![s] = EmptyLedger]
  /\ UNCHANGED lineage

Next ==
  \E s \in Session :
    \/ \E p \in Posture, who \in Operator :
         Propose(s, p, who) \/ Rollback(s, p, who) \/ Approve(s, p, who)
    \/ \E p \in Posture : Deny(s, p)
    \/ Truncate(s) \/ Write(s) \/ Crash(s)

Spec == Init /\ [][Next]_vars

-----------------------------------------------------------------------------
OnRecord == IF ledger = Damaged THEN <<>> ELSE ledger.history

(* "It must be proposed, then approved by a different identity before it is *)
(* committed as the new head" (review.py:13): whatever became of the        *)
(* proposal since, denied once and opened again, each revision was approved *)
(* by someone other than the one who proposed it.                          *)
TwoIdentities ==
  \A i \in 1 .. Len(OnRecord) : OnRecord[i].reviewer # OnRecord[i].author

(* The lineage has no fork and no gap, and no revision that changes nothing: *)
(* a proposal opened on one head is not committed on another.              *)
LineageChains ==
  /\ Chains(OnRecord)
  /\ \A i \in 2 .. Len(OnRecord) : OnRecord[i].posture # OnRecord[i - 1].posture

(* "Append-only" (history.py:11), and "rollback never deletes history"      *)
(* (history.py:17): a ledger saved extends the one saved before it.        *)
Extends(h, g) == Len(g) <= Len(h) /\ \A i \in 1 .. Len(g) : h[i] = g[i]

AppendOnly == [][Extends(lineage', lineage)]_vars

(* A guard run enforces the last posture saved or nothing at all: a save    *)
(* cut short never returns it to the safe defaults or to an older head.    *)
FailsClosed ==
  \A live \in Posture \cup {NoPosture}, required \in BOOLEAN :
    LET e == RuntimePosture(ledger, live, required)
    IN  /\ e = "default" => lineage = <<>> /\ ~required /\ live = NoPosture
        /\ e \in Posture => e = HeadPosture(lineage) /\ live \in {NoPosture, e}
=============================================================================
