---------------------------- MODULE ApprovalStore ----------------------------
(***************************************************************************)
(* The approval queue at the level of its JSON file.  Each ApprovalQueue   *)
(* instance is a process (a guard run, a director-class-approve run, the   *)
(* approval service); its lock admits one operation of its own at a time,  *)
(* but nothing locks the file.  An operation loads the whole file, works   *)
(* on its copy and saves the whole copy by an atomic rename.               *)
(*                                                                         *)
(* With one instance this implements ApprovalQueue; with two it does not.  *)
(***************************************************************************)
EXTENDS ApprovalTicket, FiniteSets

CONSTANTS Digest, Instance, MaxTime, MaxPermits

VARIABLES
  file,      \* the tickets on disk
  now,       \* the clock
  permits,   \* True answers that reached a caller, per digest
  consents,  \* history, as in ApprovalQueue
  pc,        \* how far each instance's operation is
  op,        \* the operation it runs
  copy       \* the tickets it loaded

vars == <<file, now, permits, consents, pc, op, copy>>

Operation ==
  [kind : {"ask"}, digest : Digest, verdict : Verdict]
    \cup [kind : {"approve"}, digest : Digest, who : Approver]
    \cup [kind : {"deny"}, digest : Digest]

NoOp == [kind |-> "none"]

NoTickets == [d \in Digest |-> NoTicket]

TypeOK ==
  /\ file \in [Digest -> Ticket]
  /\ now \in Nat
  /\ permits \in [Digest -> Nat]
  /\ consents \in [Digest -> SUBSET [who : Approver, at : Nat]]
  /\ pc \in [Instance -> {"idle", "loaded", "raised"}]
  /\ op \in [Instance -> Operation \cup {NoOp}]
  /\ copy \in [Instance -> [Digest -> Ticket]]
  /\ \A i \in Instance : pc[i] # "idle" => op[i] \in Operation
  /\ \A i \in Instance : pc[i] = "raised" => op[i].kind = "ask"

Init ==
  /\ file = NoTickets
  /\ now = 0
  /\ permits = [d \in Digest |-> 0]
  /\ consents = [d \in Digest |-> {}]
  /\ pc = [i \in Instance |-> "idle"]
  /\ op = [i \in Instance |-> NoOp]
  /\ copy = [i \in Instance |-> NoTickets]

Tick ==
  /\ now < MaxTime
  /\ now' = now + 1
  /\ UNCHANGED <<file, permits, consents, pc, op, copy>>

(* The lock is taken and _load reads the file. *)
Load(i, o) ==
  /\ pc[i] = "idle"
  /\ pc' = [pc EXCEPT ![i] = "loaded"]
  /\ op' = [op EXCEPT ![i] = o]
  /\ copy' = [copy EXCEPT ![i] = file]
  /\ UNCHANGED <<file, now, permits, consents>>

(* The operation is over: its copy is dropped and the lock released. *)
Release(i) ==
  /\ pc' = [pc EXCEPT ![i] = "idle"]
  /\ op' = [op EXCEPT ![i] = NoOp]
  /\ copy' = [copy EXCEPT ![i] = NoTickets]

Mine(i) == copy[i][op[i].digest]

Need(i) == RequiredApprovals(op[i].verdict)

(* _save writes the copy, every other digest's ticket included. *)
Save(i, t) == file' = [copy[i] EXCEPT ![op[i].digest] = t]

(* request_approval: the first save, of a raised requirement. *)
SaveRaise(i) ==
  /\ pc[i] = "loaded" /\ op[i].kind = "ask"
  /\ NeedsRaise(Mine(i), Need(i))
  /\ Save(i, Raised(Mine(i), Need(i)))
  /\ copy' = [copy EXCEPT ![i][op[i].digest] = Raised(@, Need(i))]
  /\ pc' = [pc EXCEPT ![i] = "raised"]
  /\ UNCHANGED <<now, permits, consents, op>>

(* request_approval: consume, reopen or leave the ticket. *)
SettleAsk(i) ==
  LET t == Mine(i)
      u == AfterRequest(t, Need(i), now)
  IN  /\ \/ pc[i] = "raised"
         \/ pc[i] = "loaded" /\ op[i].kind = "ask" /\ ~NeedsRaise(t, Need(i))
      /\ IF u = t THEN UNCHANGED file ELSE Save(i, u)
      /\ consents' = [consents EXCEPT ![op[i].digest] =
                       IF Reopens(file[op[i].digest], now) \/ u.status = "consumed"
                       THEN {} ELSE @]
      /\ Release(i)
      /\ UNCHANGED now

Ask(i) ==
  /\ SettleAsk(i)
  /\ permits[op[i].digest] < MaxPermits
  /\ permits' = [permits EXCEPT ![op[i].digest] =
                  IF Permits(Mine(i), Need(i), now) THEN @ + 1 ELSE @]

(* The process dies between the last save and the answer. *)
AskUnanswered(i) == SettleAsk(i) /\ UNCHANGED permits

Approve(i) ==
  /\ pc[i] = "loaded" /\ op[i].kind = "approve"
  /\ IF CanApprove(Mine(i), op[i].who)
       THEN /\ Save(i, Approved(Mine(i), op[i].who, now))
            /\ consents' = [consents EXCEPT ![op[i].digest] =
                             @ \cup {[who |-> op[i].who, at |-> now]}]
       ELSE UNCHANGED <<file, consents>>
  /\ Release(i)
  /\ UNCHANGED <<now, permits>>

Deny(i) ==
  /\ pc[i] = "loaded" /\ op[i].kind = "deny"
  /\ IF CanDeny(Mine(i))
       THEN /\ Save(i, Denied(Mine(i)))
            /\ consents' = [consents EXCEPT ![op[i].digest] = {}]
       ELSE UNCHANGED <<file, consents>>
  /\ Release(i)
  /\ UNCHANGED <<now, permits>>

(* Mutant: the file is rewritten in place, so dying in a save empties it.   *)
CrashTruncating(i) ==
  /\ pc[i] # "idle"
  /\ Release(i)
  /\ file' = NoTickets
  /\ UNCHANGED <<now, permits, consents>>

(* The process dies, or a save fails and raises, before anything else is    *)
(* written: the rename has not happened.                                   *)
Crash(i) ==
  /\ pc[i] # "idle"
  /\ Release(i)
  /\ UNCHANGED <<file, now, permits, consents>>

Next ==
  \/ Tick
  \/ \E i \in Instance, o \in Operation : Load(i, o)
  \/ \E i \in Instance :
       \/ SaveRaise(i) \/ Ask(i) \/ AskUnanswered(i)
       \/ Approve(i) \/ Deny(i) \/ Crash(i)

Spec == Init /\ [][Next]_vars

-----------------------------------------------------------------------------
Consenters(d) == {c.who : c \in consents[d]}

(* queue.py:16, "permits exactly one execution ... never twice": an approval *)
(* that is already consumed on disk does not permit again.  Two instances on *)
(* one file break it: both load the approved ticket before either saves.    *)
NeverTwice ==
  [][\A i \in Instance :
       (Ask(i) /\ permits' # permits) => file[op[i].digest].status # "consumed"]_vars

(* Every load, save and crash of a single instance is a step of the queue.  *)
Queue == INSTANCE ApprovalQueue WITH tickets <- file

ImplementsQueue == Queue!Spec
=============================================================================
