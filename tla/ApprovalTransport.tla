--------------------------- MODULE ApprovalTransport ---------------------------
(***************************************************************************)
(* The operators' HTTP service over one approval queue                      *)
(* (approvals/transport.py): a thread for each request takes the queue's    *)
(* lock, decides, releases the lock, and only then tells the webhook, which *)
(* may hang or fail.  Meanwhile Governors of the same process ask.          *)
(***************************************************************************)
EXTENDS ApprovalStore

CONSTANTS
  Thread,     \* threads of the HTTP server
  Requests    \* what operators send, see Turned

VARIABLES
  web,       \* how far each thread is
  request,   \* what it was sent
  answer,    \* the HTTP status it sent back; 0 before, and if none was sent
  holder     \* the thread whose operation the queue runs, if any

web_vars == <<web, request, answer, holder>>
transportVars == <<vars, web_vars>>

NoThread == "none"

TransportInit ==
  /\ Init
  /\ web = [t \in Thread |-> "idle"]
  /\ request = [t \in Thread |-> NoOp]
  /\ answer = [t \in Thread |-> 0]
  /\ holder = NoThread

(* do_GET, do_POST, handle and _decide, up to the queue: the status of a    *)
(* request that does not reach it, or 0.                                   *)
Turned(q) ==
  CASE q.path = "healthz" -> 200
    [] q.body \in {"unsized", "too_large"} -> 413
    [] q.body \in {"not_json", "not_object"} -> 400
    [] ~q.authorised -> 401
    [] q.path = "pending" -> 200
    [] q.path = "other" -> 404
    [] q.body = "unnamed" -> 400
    [] OTHER -> 0

(* What reaches the queue is a decision. *)
ASSUME RequestsAssumption ==
  \A q \in Requests : Turned(q) = 0 => q.op \in Operation /\ q.op.kind # "ask"

Receive(t, q) ==
  /\ web[t] = "idle"
  /\ web' = [web EXCEPT ![t] = IF Turned(q) = 0 THEN "waiting" ELSE "answered"]
  /\ request' = [request EXCEPT ![t] = IF Turned(q) = 0 THEN q.op ELSE NoOp]
  /\ answer' = [answer EXCEPT ![t] = Turned(q)]
  /\ UNCHANGED <<vars, holder>>

(* queue.approve and queue.deny: the lock is taken, the file is loaded ...  *)
Take(t, i) ==
  /\ web[t] = "waiting"
  /\ Load(i, request[t])
  /\ web' = [web EXCEPT ![t] = "deciding"]
  /\ holder' = t
  /\ UNCHANGED <<request, answer>>

(* The exception that _decide turns into a status: KeyError without a       *)
(* ticket, ValueError for one that cannot be decided by this operator.      *)
Refused(ticket, o) ==
  CASE ticket.status = "none" -> 404
    [] o.kind = "approve" /\ CanApprove(ticket, o.who) -> 0
    [] o.kind = "deny" /\ CanDeny(ticket) -> 0
    [] OTHER -> 409

(* Mutant: the lock is held until the webhook has been told.                *)
DecideLocked(t, i) ==
  /\ web[t] = "deciding" /\ holder = t
  /\ pc[i] = "loaded" /\ op[i].kind # "ask"
  /\ LET refused == Refused(Mine(i), request[t])
     IN  IF refused # 0
         THEN /\ Approve(i) \/ Deny(i)
              /\ web' = [web EXCEPT ![t] = "answered"]
              /\ holder' = NoThread
              /\ answer' = [answer EXCEPT ![t] = refused]
         ELSE /\ Save(i, IF request[t].kind = "approve" THEN Approved(Mine(i), request[t].who, now)
                         ELSE Denied(Mine(i)))
              /\ web' = [web EXCEPT ![t] = "publishing"]
              /\ UNCHANGED <<now, permits, consents, pc, op, copy, holder, answer>>
  /\ UNCHANGED request

(* ... the ticket is decided and saved, and the lock released.              *)
Decide(t, i) ==
  /\ web[t] = "deciding" /\ holder = t
  /\ LET refused == Refused(Mine(i), request[t])
     IN  /\ web' = [web EXCEPT ![t] = IF refused = 0 THEN "publishing" ELSE "answered"]
         /\ answer' = [answer EXCEPT ![t] = refused]
  /\ Approve(i) \/ Deny(i)
  /\ holder' = NoThread
  /\ UNCHANGED request

(* The webhook has been told, or there is none: the ticket is sent back.    *)
Publish(t) ==
  /\ web[t] = "publishing"
  /\ web' = [web EXCEPT ![t] = "answered"]
  /\ answer' = [answer EXCEPT ![t] = 200]
  /\ UNCHANGED <<vars, request, holder>>

(* The webhook raises: the thread ends without an answer.                   *)
PublishFails(t) ==
  /\ web[t] = "publishing"
  /\ web' = [web EXCEPT ![t] = "answered"]
  /\ UNCHANGED <<vars, request, answer, holder>>

(* The thread ends, and is there for the next request.                      *)
Finish(t) ==
  /\ web[t] = "answered"
  /\ web' = [web EXCEPT ![t] = "idle"]
  /\ request' = [request EXCEPT ![t] = NoOp]
  /\ answer' = [answer EXCEPT ![t] = 0]
  /\ UNCHANGED <<vars, holder>>

(* A Governor's operation. *)
GovernorStep(i) ==
  /\ \/ \E o \in Operation : o.kind = "ask" /\ Load(i, o)
     \/ SaveRaise(i) \/ Ask(i) \/ AskUnanswered(i)
  /\ UNCHANGED web_vars

(* The process dies, with all its threads. *)
Dies(i) ==
  /\ IF pc[i] = "idle" THEN UNCHANGED vars ELSE Crash(i)
  /\ web' = [t \in Thread |-> "idle"]
  /\ request' = [t \in Thread |-> NoOp]
  /\ answer' = [t \in Thread |-> 0]
  /\ holder' = NoThread

TransportNext ==
  \/ Tick /\ UNCHANGED web_vars
  \/ \E t \in Thread :
       \/ \E q \in Requests : Receive(t, q)
       \/ \E i \in Instance : Take(t, i) \/ Decide(t, i)
       \/ Publish(t) \/ PublishFails(t) \/ Finish(t)
  \/ \E i \in Instance : GovernorStep(i) \/ Dies(i)

(* A thread that waits for the lock gets it when it is free again and       *)
(* again, and an operation on the queue comes to its end.  Nothing is       *)
(* assumed of the webhook.                                                 *)
TransportSpec ==
  /\ TransportInit
  /\ [][TransportNext]_transportVars
  /\ \A t \in Thread, i \in Instance :
       SF_transportVars(Take(t, i)) /\ WF_transportVars(Decide(t, i))
  /\ \A i \in Instance :
       WF_transportVars((SaveRaise(i) \/ Ask(i) \/ AskUnanswered(i)) /\ UNCHANGED web_vars)

-----------------------------------------------------------------------------
(* An operator who has said yes, and says it again because the answer was   *)
(* lost, is told of the conflict, and the ticket stays as it is, whatever   *)
(* the other threads do (transport.py:128).                                *)
RepeatTold ==
  [][\A t \in Thread, i \in Instance :
       (Decide(t, i) /\ request[t].kind = "approve"
          /\ request[t].who \in Consenters(request[t].digest))
       => answer'[t] = 409 /\ file' = file]_transportVars

(* A webhook that hangs stops only its own thread: every other decision     *)
(* that waits for the queue is taken, unless the process dies.              *)
WebhookNeverBlocks ==
  \A t \in Thread : web[t] = "waiting" ~> web[t] # "waiting"
=============================================================================
