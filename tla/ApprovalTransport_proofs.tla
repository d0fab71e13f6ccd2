----------------------- MODULE ApprovalTransport_proofs -----------------------
(***************************************************************************)
(* A file used by a single ApprovalQueue instance implements the queue: the *)
(* instance lock and the atomic rename are enough, whatever the crashes.   *)
(* The argument is that while an operation runs, its copy is still what is *)
(* on disk.                                                                *)
(*                                                                         *)
(* What operators send by HTTP and what Governors of the same process ask   *)
(* reaches the queue as operations of one instance: whatever the threads,   *)
(* their requests and the webhook do, the service implements the queue, and *)
(* what is proved of the queue carries over to it; and the lock is never    *)
(* with a thread that tells the webhook.                                   *)
(***************************************************************************)
EXTENDS ApprovalTransport, ApprovalTicket_proofs

SingleInstance == \A i, j \in Instance : i = j

CopyIsFile == \A i \in Instance : pc[i] # "idle" => copy[i] = file

StoreInv == TypeOK /\ CopyIsFile

LEMMA OperationFields ==
  ASSUME NEW o \in Operation
  PROVE  /\ o.digest \in Digest
         /\ o.kind = "ask" => o.verdict \in Verdict
         /\ o.kind = "approve" => o.who \in Approver
BY DEF Operation

(* What an operation in progress works on. *)
LEMMA RunningFacts ==
  ASSUME TypeOK, NEW i \in Instance, pc[i] # "idle"
  PROVE  /\ op[i] \in Operation
         /\ op[i].digest \in Digest
         /\ Mine(i) \in Ticket
         /\ op[i].kind = "ask" => Need(i) \in Nat \ {0}
         /\ pc[i] = "raised" => op[i].kind = "ask"
BY OperationFields, RequiredType DEF TypeOK, Mine, Need

LEMMA ReleaseType ==
  ASSUME TypeOK, NEW i \in Instance, Release(i)
  PROVE  /\ pc' \in [Instance -> {"idle", "loaded", "raised"}]
         /\ op' \in [Instance -> Operation \cup {NoOp}]
         /\ copy' \in [Instance -> [Digest -> Ticket]]
         /\ \A j \in Instance : pc'[j] # "idle" => j # i /\ pc'[j] = pc[j] /\ op'[j] = op[j]
         /\ pc'[i] = "idle"
<1>1. NoTickets \in [Digest -> Ticket]
  BY NoTicketType DEF NoTickets
<1> QED BY <1>1 DEF Release, TypeOK

LEMMA SettleType ==
  ASSUME TypeOK, NEW i \in Instance, SettleAsk(i)
  PROVE  /\ file' \in [Digest -> Ticket]
         /\ consents' \in [Digest -> SUBSET [who : Approver, at : Nat]]
         /\ now' \in Nat
<1>1. pc[i] # "idle" /\ op[i].kind = "ask"
  BY DEF SettleAsk, TypeOK
<1>2. /\ op[i].digest \in Digest /\ Mine(i) \in Ticket /\ Need(i) \in Nat \ {0}
      /\ now \in Nat
  BY <1>1, RunningFacts DEF TypeOK
<1>3. AfterRequest(Mine(i), Need(i), now) \in Ticket
  BY <1>2, AfterRequestType
<1>4. copy[i] \in [Digest -> Ticket] /\ file \in [Digest -> Ticket]
  BY DEF TypeOK
<1>5. file' = file \/ file' = [copy[i] EXCEPT ![op[i].digest] = AfterRequest(Mine(i), Need(i), now)]
  BY DEF SettleAsk, Save
<1>6. file' \in [Digest -> Ticket]
  BY <1>3, <1>4, <1>5
<1>7. consents' = [consents EXCEPT ![op[i].digest] = {}] \/ consents' = consents
  BY DEF SettleAsk, TypeOK
<1>8. consents' \in [Digest -> SUBSET [who : Approver, at : Nat]]
  BY <1>7 DEF TypeOK
<1>9. now' \in Nat
  BY DEF SettleAsk, TypeOK
<1> QED BY <1>6, <1>8, <1>9

LEMMA StoreNextType == TypeOK /\ [Next]_vars => TypeOK'
<1> SUFFICES ASSUME TypeOK, [Next]_vars PROVE TypeOK'
  OBVIOUS
<1>1. CASE Tick
  BY <1>1 DEF Tick, TypeOK
<1>2. ASSUME NEW i \in Instance, NEW o \in Operation, Load(i, o)
      PROVE  TypeOK'
  BY <1>2 DEF Load, TypeOK
<1>3. ASSUME NEW i \in Instance, SaveRaise(i)
      PROVE  TypeOK'
  <2>1. /\ pc[i] # "idle" /\ op[i].kind = "ask"
    BY <1>3 DEF SaveRaise
  <2>2. op[i].digest \in Digest /\ Mine(i) \in Ticket /\ Need(i) \in Nat \ {0}
    BY <2>1, RunningFacts
  <2>3. Raised(Mine(i), Need(i)) \in Ticket
    BY <2>2, RaisedType
  <2> QED BY <1>3, <2>1, <2>2, <2>3 DEF SaveRaise, Save, Mine, TypeOK
<1>4. ASSUME NEW i \in Instance, Ask(i) \/ AskUnanswered(i)
      PROVE  TypeOK'
  <2>1. SettleAsk(i) /\ permits' \in [Digest -> Nat]
    BY <1>4 DEF Ask, AskUnanswered, TypeOK
  <2>2. Release(i)
    BY <2>1 DEF SettleAsk
  <2> QED BY <2>1, <2>2, SettleType, ReleaseType DEF TypeOK
<1>5. ASSUME NEW i \in Instance, Approve(i)
      PROVE  TypeOK'
  <2>1. pc[i] # "idle" /\ op[i].kind = "approve" /\ Release(i)
    BY <1>5 DEF Approve
  <2>2. op[i].digest \in Digest /\ Mine(i) \in Ticket /\ op[i].who \in Approver /\ now \in Nat
    BY <2>1, RunningFacts, OperationFields DEF TypeOK
  <2>3. Approved(Mine(i), op[i].who, now) \in Ticket
    BY <2>2, ApprovedType
  <2>4. file' \in [Digest -> Ticket]
    BY <1>5, <2>1, <2>2, <2>3 DEF Approve, Save, TypeOK
  <2>5. consents' \in [Digest -> SUBSET [who : Approver, at : Nat]]
    BY <1>5, <2>2 DEF Approve, TypeOK
  <2>6. now' = now /\ permits' = permits
    BY <1>5 DEF Approve
  <2> QED BY <2>1, <2>4, <2>5, <2>6, ReleaseType DEF TypeOK
<1>6. ASSUME NEW i \in Instance, Deny(i)
      PROVE  TypeOK'
  <2>1. pc[i] # "idle" /\ Release(i)
    BY <1>6 DEF Deny
  <2>2. op[i].digest \in Digest /\ Mine(i) \in Ticket
    BY <2>1, RunningFacts
  <2>3. Denied(Mine(i)) \in Ticket
    BY <2>2, DeniedType
  <2>4. file' \in [Digest -> Ticket]
    BY <1>6, <2>1, <2>2, <2>3 DEF Deny, Save, TypeOK
  <2>5. consents' \in [Digest -> SUBSET [who : Approver, at : Nat]]
    BY <1>6, <2>2 DEF Deny, TypeOK
  <2>6. now' = now /\ permits' = permits
    BY <1>6 DEF Deny
  <2> QED BY <2>1, <2>4, <2>5, <2>6, ReleaseType DEF TypeOK
<1>7. ASSUME NEW i \in Instance, Crash(i)
      PROVE  TypeOK'
  BY <1>7, ReleaseType DEF Crash, TypeOK
<1>8. CASE UNCHANGED vars
  BY <1>8 DEF vars, TypeOK
<1> QED BY <1>1, <1>2, <1>3, <1>4, <1>5, <1>6, <1>7, <1>8 DEF Next

LEMMA StoreInitType == Init => TypeOK
BY NoTicketType DEF Init, TypeOK, NoTickets

(* The file, the copies and what runs on them are well typed, however many *)
(* instances there are.                                                    *)
THEOREM StoreTypeCorrect == Spec => []TypeOK
BY StoreInitType, StoreNextType, PTL DEF Spec

-----------------------------------------------------------------------------
LEMMA CopyInitInv == Init => CopyIsFile
BY DEF Init, CopyIsFile

LEMMA CopyNextInv ==
  ASSUME SingleInstance, TypeOK, CopyIsFile, [Next]_vars
  PROVE  CopyIsFile'
<1> USE DEF CopyIsFile, TypeOK
<1>1. CASE Tick
  BY <1>1 DEF Tick
<1>2. ASSUME NEW i \in Instance, NEW o \in Operation, Load(i, o)
      PROVE  CopyIsFile'
  BY <1>2 DEF Load
<1>3. ASSUME NEW i \in Instance, SaveRaise(i)
      PROVE  CopyIsFile'
  <2>1. copy'[i] = file'
    BY <1>3 DEF SaveRaise, Save, Mine
  <2> QED BY <2>1 DEF SingleInstance
<1>4. ASSUME NEW i \in Instance, Release(i)
      PROVE  CopyIsFile'
  <2>1. pc'[i] = "idle"
    BY <1>4 DEF Release
  <2> QED BY <2>1 DEF SingleInstance
<1>5. CASE UNCHANGED vars
  BY <1>5 DEF vars
<1> QED
  BY <1>1, <1>2, <1>3, <1>4, <1>5
     DEF Next, Ask, AskUnanswered, SettleAsk, Approve, Deny, Crash

(* An ask of the only instance takes the queue's own step on the file.      *)
LEMMA SettleImplements ==
  ASSUME TypeOK, CopyIsFile, NEW i \in Instance, SettleAsk(i)
  PROVE  LET d == op[i].digest
             u == AfterRequest(file[d], Need(i), now)
         IN  /\ d \in Digest /\ op[i].verdict \in Verdict
             /\ Mine(i) = file[d]
             /\ file' = [file EXCEPT ![d] = u]
             /\ consents' = [consents EXCEPT ![d] =
                               IF Reopens(file[d], now) \/ file'[d].status = "consumed"
                               THEN {} ELSE @]
             /\ now' = now
<1> DEFINE d == op[i].digest
           u == AfterRequest(file[d], Need(i), now)
<1>1. pc[i] # "idle" /\ op[i].kind = "ask"
  BY DEF SettleAsk, TypeOK
<1>2. d \in Digest /\ op[i].verdict \in Verdict /\ copy[i] = file
  BY <1>1, RunningFacts, OperationFields DEF CopyIsFile
<1>3. Mine(i) = file[d] /\ file \in [Digest -> Ticket]
  BY <1>2 DEF Mine, TypeOK
<1>4. file' = [file EXCEPT ![d] = u]
  <2>1. CASE u = file[d]
    BY <1>2, <1>3, <2>1 DEF SettleAsk
  <2>2. CASE u # file[d]
    BY <1>2, <1>3, <2>2 DEF SettleAsk, Save
  <2> QED BY <2>1, <2>2
<1>5. file'[d] = u
  BY <1>2, <1>3, <1>4
<1>6. now' = now
  BY DEF SettleAsk
<1> QED BY <1>2, <1>3, <1>4, <1>5, <1>6 DEF SettleAsk

(* The queue's operators on tickets are the store's own.                    *)
LEMMA SameTicketOps ==
  /\ Queue!NoTicket = NoTicket
  /\ \A v : Queue!RequiredApprovals(v) = RequiredApprovals(v)
  /\ \A t, n : Queue!Raised(t, n) = Raised(t, n)
  /\ \A t, m : Queue!Reopens(t, m) = Reopens(t, m)
  /\ \A t, n, m : Queue!Permits(t, n, m) = Permits(t, n, m)
  /\ \A t, n, m : Queue!AfterRequest(t, n, m) = AfterRequest(t, n, m)
  /\ \A t, w : Queue!CanApprove(t, w) = CanApprove(t, w)
  /\ \A t, w, m : Queue!Approved(t, w, m) = Approved(t, w, m)
  /\ \A t : Queue!CanDeny(t) = CanDeny(t)
  /\ \A t : Queue!Denied(t) = Denied(t)
<1>1. Queue!NoExpiry = NoExpiry /\ Queue!Terminal = Terminal
  BY DEF Queue!NoExpiry, NoExpiry, Queue!Terminal, Terminal
<1>2. Queue!NoTicket = NoTicket
  BY <1>1 DEF Queue!NoTicket, NoTicket
<1>3. \A v : Queue!RequiredApprovals(v) = RequiredApprovals(v)
  BY DEF Queue!RequiredApprovals, RequiredApprovals
<1>4. \A t, n : Queue!Raised(t, n) = Raised(t, n)
  BY DEF Queue!Raised, Raised, Queue!NeedsRaise, NeedsRaise
<1>5. \A t, m : Queue!Reopens(t, m) = Reopens(t, m)
  BY <1>1 DEF Queue!Reopens, Reopens, Queue!IsExpired, IsExpired
<1>6. \A t, m : Queue!Consumable(t, m) = Consumable(t, m)
  BY <1>1 DEF Queue!Consumable, Consumable, Queue!IsExpired, IsExpired
<1>7. \A t, n, m : Queue!Permits(t, n, m) = Permits(t, n, m)
  BY <1>4, <1>6 DEF Queue!Permits, Permits
<1>8. \A n : Queue!Opened(n) = Opened(n)
  BY <1>1 DEF Queue!Opened, Opened
<1>9. \A t, n, m : Queue!AfterRequest(t, n, m) = AfterRequest(t, n, m)
  BY <1>4, <1>5, <1>6, <1>8 DEF Queue!AfterRequest, AfterRequest
<1>10. \A t, w : Queue!CanApprove(t, w) = CanApprove(t, w)
  BY DEF Queue!CanApprove, CanApprove, Queue!Signed, Signed
<1>11. \A t, w, m : Queue!Approved(t, w, m) = Approved(t, w, m)
  BY <1>1 DEF Queue!Approved, Approved
<1>12. \A t : Queue!CanDeny(t) = CanDeny(t)
  BY DEF Queue!CanDeny, CanDeny
<1>13. \A t : Queue!Denied(t) = Denied(t)
  BY <1>1 DEF Queue!Denied, Denied
<1> QED BY <1>2, <1>3, <1>4, <1>5, <1>7, <1>9, <1>10, <1>11, <1>12, <1>13

LEMMA StoreStepImplements ==
  ASSUME TypeOK, CopyIsFile, [Next]_vars
  PROVE  [Queue!Next]_<<file, now, permits, consents>>
<1> DEFINE Same == UNCHANGED <<file, now, permits, consents>>
<1> SUFFICES Queue!Next \/ Same
  OBVIOUS
<1>1. CASE Tick
  BY <1>1 DEF Tick, Queue!Next, Queue!Tick
<1>2. ASSUME NEW i \in Instance, NEW o \in Operation, Load(i, o)
      PROVE  Same
  BY <1>2 DEF Load
<1>3. ASSUME NEW i \in Instance, SaveRaise(i)
      PROVE  Queue!Next
  <2> DEFINE d == op[i].digest
             v == op[i].verdict
  <2>1. pc[i] # "idle" /\ op[i].kind = "ask"
    BY <1>3 DEF SaveRaise
  <2>2. d \in Digest /\ v \in Verdict /\ copy[i] = file
    BY <2>1, RunningFacts, OperationFields DEF CopyIsFile
  <2>3. file' = [file EXCEPT ![d] = Raised(file[d], RequiredApprovals(v))]
    BY <1>3, <2>2 DEF SaveRaise, Save, Mine, Need
  <2>4. UNCHANGED <<now, permits, consents>>
    BY <1>3 DEF SaveRaise
  <2>5. Queue!RequestDies(d, v)
    BY <2>3, <2>4, SameTicketOps DEF Queue!RequestDies
  <2> QED BY <2>2, <2>5 DEF Queue!Next
<1>4. ASSUME NEW i \in Instance, Ask(i)
      PROVE  Queue!Next
  <2>1. Queue!RequestApproval(op[i].digest, op[i].verdict)
    BY <1>4, SettleImplements, SameTicketOps
       DEF Ask, Need, Queue!RequestApproval, Queue!UsesUpConsents
  <2>2. op[i].digest \in Digest /\ op[i].verdict \in Verdict
    BY <1>4, SettleImplements DEF Ask
  <2> QED BY <2>1, <2>2 DEF Queue!Next
<1>5. ASSUME NEW i \in Instance, AskUnanswered(i)
      PROVE  Queue!Next
  <2>1. Queue!RequestDies(op[i].digest, op[i].verdict)
    BY <1>5, SettleImplements, SameTicketOps
       DEF AskUnanswered, Need, Queue!RequestDies, Queue!UsesUpConsents
  <2>2. op[i].digest \in Digest /\ op[i].verdict \in Verdict
    BY <1>5, SettleImplements DEF AskUnanswered
  <2> QED BY <2>1, <2>2 DEF Queue!Next
<1>6. ASSUME NEW i \in Instance, Approve(i)
      PROVE  Queue!Next \/ Same
  <2> DEFINE d == op[i].digest
             w == op[i].who
  <2>1. pc[i] # "idle" /\ op[i].kind = "approve"
    BY <1>6 DEF Approve
  <2>2. d \in Digest /\ w \in Approver /\ copy[i] = file
    BY <2>1, RunningFacts, OperationFields DEF CopyIsFile
  <2>3. CASE CanApprove(file[d], w)
    <3>1. Queue!Approve(d, w)
      BY <1>6, <2>2, <2>3, SameTicketOps DEF Approve, Save, Mine, Queue!Approve
    <3> QED BY <2>2, <3>1 DEF Queue!Next
  <2>4. CASE ~CanApprove(file[d], w)
    BY <1>6, <2>2, <2>4 DEF Approve, Mine
  <2> QED BY <2>3, <2>4
<1>7. ASSUME NEW i \in Instance, Deny(i)
      PROVE  Queue!Next \/ Same
  <2> DEFINE d == op[i].digest
  <2>1. pc[i] # "idle"
    BY <1>7 DEF Deny
  <2>2. d \in Digest /\ copy[i] = file
    BY <2>1, RunningFacts DEF CopyIsFile
  <2>3. CASE CanDeny(file[d])
    <3>1. Queue!Deny(d)
      BY <1>7, <2>2, <2>3, SameTicketOps DEF Deny, Save, Mine, Queue!Deny
    <3> QED BY <2>2, <3>1 DEF Queue!Next
  <2>4. CASE ~CanDeny(file[d])
    BY <1>7, <2>2, <2>4 DEF Deny, Mine
  <2> QED BY <2>3, <2>4
<1>8. ASSUME NEW i \in Instance, Crash(i)
      PROVE  Same
  BY <1>8 DEF Crash
<1>9. CASE UNCHANGED vars
  BY <1>9 DEF vars
<1> QED BY <1>1, <1>2, <1>3, <1>4, <1>5, <1>6, <1>7, <1>8, <1>9 DEF Next

(* With a single instance on the file every load, save, crash and answer is *)
(* a step of the queue: its proved properties carry over.                   *)
THEOREM SingleInstanceImplementsQueue ==
  ASSUME SingleInstance
  PROVE  Spec => ImplementsQueue
<1>1. Init => Queue!Init
  BY SameTicketOps DEF Init, Queue!Init, NoTickets
<1>2. StoreInv /\ [Next]_vars => StoreInv'
  BY StoreNextType, CopyNextInv DEF StoreInv
<1>3. Init => StoreInv
  BY StoreInitType, CopyInitInv DEF StoreInv
<1>4. StoreInv /\ [Next]_vars => [Queue!Next]_<<file, now, permits, consents>>
  BY StoreStepImplements DEF StoreInv
<1> QED BY <1>1, <1>2, <1>3, <1>4, PTL DEF Spec, ImplementsQueue, Queue!Spec, Queue!vars

-----------------------------------------------------------------------------
(* What a thread waits with is one of the queue's operations. *)
WaitingAsks ==
  /\ request \in [Thread -> Operation \cup {NoOp}]
  /\ web \in [Thread -> {"idle", "waiting", "deciding", "publishing", "answered"}]
  /\ \A t \in Thread : web[t] = "waiting" => request[t] \in Operation /\ request[t].kind # "ask"

LEMMA WaitingInit == TransportInit => WaitingAsks
BY DEF TransportInit, WaitingAsks

LEMMA WaitingNext ==
  ASSUME WaitingAsks, [TransportNext]_transportVars
  PROVE  WaitingAsks'
<1> USE DEF WaitingAsks
<1>1. ASSUME NEW t \in Thread, NEW q \in Requests, Receive(t, q)
      PROVE  WaitingAsks'
  BY <1>1, RequestsAssumption DEF Receive
<1>2. ASSUME NEW t \in Thread, NEW i \in Instance, Take(t, i)
      PROVE  WaitingAsks'
  BY <1>2 DEF Take
<1>3. ASSUME NEW t \in Thread, NEW i \in Instance, Decide(t, i)
      PROVE  WaitingAsks'
  BY <1>3 DEF Decide
<1>4. ASSUME NEW t \in Thread, Publish(t) \/ PublishFails(t) \/ Finish(t)
      PROVE  WaitingAsks'
  BY <1>4 DEF Publish, PublishFails, Finish
<1>5. ASSUME NEW i \in Instance, Dies(i)
      PROVE  WaitingAsks'
  BY <1>5 DEF Dies
<1>6. ASSUME UNCHANGED web_vars
      PROVE  WaitingAsks'
  BY <1>6 DEF web_vars
<1> QED
  BY <1>1, <1>2, <1>3, <1>4, <1>5, <1>6
     DEF TransportNext, transportVars, GovernorStep, web_vars

(* To the queue and its file, every step of the service is a step of the    *)
(* instance, or none.                                                      *)
LEMMA TransportStep ==
  ASSUME WaitingAsks, [TransportNext]_transportVars
  PROVE  [Next]_vars
<1>1. ASSUME NEW t \in Thread, NEW i \in Instance, Take(t, i)
      PROVE  Next
  <2>1. request[t] \in Operation /\ Load(i, request[t])
    BY <1>1 DEF Take, WaitingAsks
  <2> QED BY <2>1 DEF Next
<1>2. ASSUME NEW t \in Thread, NEW i \in Instance, Decide(t, i)
      PROVE  Next
  BY <1>2 DEF Decide, Next
<1>3. ASSUME NEW i \in Instance, GovernorStep(i)
      PROVE  Next
  BY <1>3 DEF GovernorStep, Next
<1>4. ASSUME NEW i \in Instance, Dies(i)
      PROVE  Next \/ UNCHANGED vars
  BY <1>4 DEF Dies, Next
<1>5. ASSUME NEW t \in Thread,
             (\E q \in Requests : Receive(t, q)) \/ Publish(t) \/ PublishFails(t) \/ Finish(t)
      PROVE  UNCHANGED vars
  BY <1>5 DEF Receive, Publish, PublishFails, Finish
<1>6. CASE Tick /\ UNCHANGED web_vars
  BY <1>6 DEF Next
<1> QED
  BY <1>1, <1>2, <1>3, <1>4, <1>5, <1>6 DEF TransportNext, transportVars

(* Every behaviour of the service is one of the store it works on. *)
THEOREM TransportRunsStore == TransportSpec => Spec
<1>1. TransportInit => Init
  BY DEF TransportInit
<1> QED BY <1>1, WaitingInit, WaitingNext, TransportStep, PTL DEF TransportSpec, Spec

(* The service implements the queue, for any number of threads, operators   *)
(* and digests, whatever the requests (transport.py:128).                  *)
THEOREM TransportImplementsQueue ==
  ASSUME SingleInstance
  PROVE  TransportSpec => ImplementsQueue
BY TransportRunsStore, SingleInstanceImplementsQueue

-----------------------------------------------------------------------------
(* While a thread decides, it has the lock, and the instance has loaded the *)
(* file for its decision.                                                  *)
DecidesOwn ==
  \A t \in Thread : web[t] = "deciding" =>
    /\ holder = t
    /\ request[t] \in Operation /\ request[t].kind # "ask"
    /\ \A i \in Instance : pc[i] = "loaded" /\ op[i] = request[t]

LEMMA DecidesInit == TransportInit => DecidesOwn
BY DEF TransportInit, DecidesOwn

LEMMA DecidesNext ==
  ASSUME SingleInstance, TypeOK, WaitingAsks, DecidesOwn, [TransportNext]_transportVars
  PROVE  DecidesOwn'
<1> USE DEF WaitingAsks
<1>1. ASSUME NEW t \in Thread, NEW q \in Requests, Receive(t, q)
      PROVE  DecidesOwn'
  BY <1>1 DEF Receive, vars, DecidesOwn
<1>2. ASSUME NEW t \in Thread, NEW i \in Instance, Take(t, i)
      PROVE  DecidesOwn'
  <2>1. \A u \in Thread : web[u] # "deciding"
    BY <1>2 DEF Take, Load, DecidesOwn
  <2>2. \A u \in Thread : web'[u] = "deciding" => u = t
    BY <1>2, <2>1 DEF Take
  <2>3. pc'[i] = "loaded" /\ op'[i] = request[t] /\ request' = request /\ holder' = t
    BY <1>2 DEF Take, Load, TypeOK
  <2>4. request[t] \in Operation /\ request[t].kind # "ask"
    BY <1>2 DEF Take
  <2> QED BY <2>2, <2>3, <2>4 DEF DecidesOwn, SingleInstance
<1>3. ASSUME NEW t \in Thread, NEW i \in Instance, Decide(t, i)
      PROVE  DecidesOwn'
  <2>1. \A u \in Thread : web'[u] # "deciding"
    BY <1>3 DEF Decide, DecidesOwn
  <2> QED BY <2>1 DEF DecidesOwn
<1>4. ASSUME NEW t \in Thread, Publish(t) \/ PublishFails(t) \/ Finish(t)
      PROVE  DecidesOwn'
  BY <1>4 DEF Publish, PublishFails, Finish, vars, DecidesOwn
<1>5. ASSUME NEW i \in Instance, GovernorStep(i)
      PROVE  DecidesOwn'
  <2>1. \A u \in Thread : web[u] # "deciding"
    BY <1>5 DEF GovernorStep, Load, SaveRaise, Ask, AskUnanswered, SettleAsk, DecidesOwn
  <2> QED BY <1>5, <2>1 DEF GovernorStep, web_vars, DecidesOwn
<1>6. ASSUME NEW i \in Instance, Dies(i)
      PROVE  DecidesOwn'
  BY <1>6 DEF Dies, DecidesOwn
<1>7. CASE Tick /\ UNCHANGED web_vars
  BY <1>7 DEF Tick, web_vars, DecidesOwn
<1>8. CASE UNCHANGED transportVars
  BY <1>8 DEF transportVars, web_vars, vars, DecidesOwn
<1> QED BY <1>1, <1>2, <1>3, <1>4, <1>5, <1>6, <1>7, <1>8 DEF TransportNext

-----------------------------------------------------------------------------
(* The safety half of WebhookNeverBlocks: who has the queue's lock, that is *)
(* an operation under way, is a Governor that asks, or the one thread that  *)
(* decides.  A thread that tells the webhook has left the lock to others    *)
(* (transport.py:126).                                                     *)
LockIsAtWork ==
  \A i \in Instance : pc[i] # "idle" =>
    \/ op[i].kind = "ask"
    \/ /\ holder \in Thread /\ web[holder] = "deciding" /\ op[i] = request[holder]
       /\ \A t \in Thread : web[t] = "deciding" => t = holder

LEMMA LockInit == TransportInit => LockIsAtWork
BY DEF TransportInit, Init, LockIsAtWork

LEMMA LockNext ==
  ASSUME SingleInstance, TypeOK, WaitingAsks, DecidesOwn, LockIsAtWork,
         [TransportNext]_transportVars
  PROVE  LockIsAtWork'
<1> USE DEF WaitingAsks
<1>1. ASSUME NEW t \in Thread, NEW q \in Requests, Receive(t, q)
      PROVE  LockIsAtWork'
  BY <1>1 DEF Receive, vars, LockIsAtWork
<1>2. ASSUME NEW t \in Thread, NEW i \in Instance, Take(t, i)
      PROVE  LockIsAtWork'
  <2>1. \A u \in Thread : web[u] # "deciding"
    BY <1>2 DEF Take, Load, DecidesOwn
  <2>2. /\ \A u \in Thread : web'[u] = "deciding" => u = t
        /\ web'[t] = "deciding" /\ holder' = t
    BY <1>2, <2>1 DEF Take
  <2>3. op'[i] = request[t] /\ request' = request
    BY <1>2 DEF Take, Load, TypeOK
  <2> QED BY <2>2, <2>3 DEF LockIsAtWork, SingleInstance
<1>3. ASSUME NEW t \in Thread, NEW i \in Instance, Decide(t, i)
      PROVE  LockIsAtWork'
  <2>1. pc'[i] = "idle"
    BY <1>3 DEF Decide, Approve, Deny, Release, TypeOK
  <2> QED BY <2>1 DEF LockIsAtWork, SingleInstance
<1>4. ASSUME NEW t \in Thread, Publish(t) \/ PublishFails(t) \/ Finish(t)
      PROVE  LockIsAtWork'
  BY <1>4 DEF Publish, PublishFails, Finish, vars, LockIsAtWork
<1>5. ASSUME NEW i \in Instance, GovernorStep(i)
      PROVE  LockIsAtWork'
  <2>1. pc'[i] = "idle" \/ op'[i].kind = "ask"
    BY <1>5 DEF GovernorStep, Load, SaveRaise, Ask, AskUnanswered, SettleAsk, Release, TypeOK
  <2> QED BY <2>1 DEF LockIsAtWork, SingleInstance
<1>6. ASSUME NEW i \in Instance, Dies(i)
      PROVE  LockIsAtWork'
  <2>1. pc'[i] = "idle"
    BY <1>6 DEF Dies, Crash, Release, vars, TypeOK
  <2> QED BY <2>1 DEF LockIsAtWork, SingleInstance
<1>7. CASE Tick /\ UNCHANGED web_vars
  BY <1>7 DEF Tick, web_vars, LockIsAtWork
<1>8. CASE UNCHANGED transportVars
  BY <1>8 DEF transportVars, web_vars, vars, LockIsAtWork
<1> QED BY <1>1, <1>2, <1>3, <1>4, <1>5, <1>6, <1>7, <1>8 DEF TransportNext

(* However long a webhook hangs, it hangs without the queue's lock, for any *)
(* number of threads and requests (transport.py:126).                      *)
THEOREM WebhookHoldsNoLock ==
  ASSUME SingleInstance
  PROVE  TransportSpec => []LockIsAtWork
<1> DEFINE Inv == StoreInv /\ WaitingAsks /\ DecidesOwn /\ LockIsAtWork
<1>1. TransportInit => Inv
  BY StoreInitType, CopyInitInv, WaitingInit, DecidesInit, LockInit DEF TransportInit, StoreInv
<1>2. Inv /\ [TransportNext]_transportVars => Inv'
  <2> SUFFICES ASSUME Inv, [TransportNext]_transportVars PROVE Inv'
    OBVIOUS
  <2>1. [Next]_vars
    BY TransportStep
  <2>2. StoreInv'
    BY <2>1, StoreNextType, CopyNextInv DEF StoreInv
  <2> QED BY <2>2, WaitingNext, DecidesNext, LockNext DEF StoreInv
<1> QED BY <1>1, <1>2, PTL DEF TransportSpec

-----------------------------------------------------------------------------
(* Whoever has consented to the ticket that is there has signed it, and it  *)
(* is neither closed nor gone.                                             *)
ConsentsSigned ==
  \A d \in Digest : \A c \in consents[d] :
    file[d].status \in {"pending", "approved"} /\ Signed(file[d], c.who)

LEMMA SignedMore ==
  ASSUME NEW t \in Ticket, NEW who \in Approver, NEW time \in Nat
  PROVE  /\ Signed(Approved(t, who, time), who)
         /\ \A w : Signed(t, w) => Signed(Approved(t, who, time), w)
<1>1. t.approvers \in Seq(Approver) /\ Len(t.approvers) \in Nat
  BY LenProperties DEF Ticket
<1>2. Approved(t, who, time).approvers = Append(t.approvers, who)
  BY ApprovedType
<1>3. /\ Len(Append(t.approvers, who)) = Len(t.approvers) + 1
      /\ \A i \in 1 .. Len(t.approvers) : Append(t.approvers, who)[i] = t.approvers[i]
      /\ Append(t.approvers, who)[Len(t.approvers) + 1] = who
  BY <1>1, AppendProperties
<1> QED BY <1>1, <1>2, <1>3 DEF Signed

LEMMA ConsentsInit == Init => ConsentsSigned
BY DEF Init, ConsentsSigned

LEMMA ConsentsNext ==
  ASSUME TypeOK, CopyIsFile, ConsentsSigned, [Next]_vars
  PROVE  ConsentsSigned'
<1>1. CASE Tick
  BY <1>1 DEF Tick, ConsentsSigned
<1>2. ASSUME NEW i \in Instance, NEW o \in Operation, Load(i, o)
      PROVE  ConsentsSigned'
  BY <1>2 DEF Load, ConsentsSigned
<1>3. ASSUME NEW i \in Instance, SaveRaise(i)
      PROVE  ConsentsSigned'
  <2>1. pc[i] # "idle" /\ op[i].kind = "ask"
    BY <1>3 DEF SaveRaise
  <2>2. op[i].digest \in Digest /\ Need(i) \in Nat \ {0} /\ Mine(i) \in Ticket
    BY <2>1, RunningFacts
  <2>3. Mine(i) = file[op[i].digest] /\ copy[i] = file /\ file \in [Digest -> Ticket]
    BY <2>1 DEF CopyIsFile, Mine, TypeOK
  <2>4. file' = [file EXCEPT ![op[i].digest] = Raised(file[op[i].digest], Need(i))]
    BY <1>3, <2>3 DEF SaveRaise, Save
  <2>5. \A d \in Digest : file'[d].status = file[d].status /\ file'[d].approvers = file[d].approvers
    BY <2>2, <2>3, <2>4, RaisedType
  <2>6. consents' = consents
    BY <1>3 DEF SaveRaise
  <2> QED BY <2>5, <2>6 DEF ConsentsSigned, Signed
<1>4. ASSUME NEW i \in Instance, SettleAsk(i)
      PROVE  ConsentsSigned'
  <2> DEFINE d == op[i].digest
             u == AfterRequest(file[d], Need(i), now)
  <2>1. /\ d \in Digest
        /\ file' = [file EXCEPT ![d] = u]
        /\ consents' = [consents EXCEPT ![d] =
                          IF Reopens(file[d], now) \/ file'[d].status = "consumed"
                          THEN {} ELSE @]
    BY <1>4, SettleImplements
  <2>2. file \in [Digest -> Ticket] /\ file[d] \in Ticket /\ now \in Nat /\ Need(i) \in Nat \ {0}
    BY <1>4, <2>1, RunningFacts DEF TypeOK, SettleAsk
  <2>3. file'[d] = u
    BY <2>1, <2>2
  <2>4. Reopens(file[d], now) \/ u.status = "consumed" \/ u = Raised(file[d], Need(i))
    <3>1. Raised(file[d], Need(i)) \in Ticket
      BY <2>2, RaisedType
    <3>2. [Raised(file[d], Need(i)) EXCEPT !.status = "consumed"].status = "consumed"
      BY <3>1 DEF Ticket
    <3> QED BY <2>2, <3>2, AfterRequestCases
  <2>5. \A c \in consents'[d] :
          c \in consents[d] /\ file'[d].status = file[d].status
            /\ file'[d].approvers = file[d].approvers
    BY <2>1, <2>2, <2>3, <2>4, RaisedType DEF TypeOK
  <2>6. \A e \in Digest \ {d} : file'[e] = file[e] /\ consents'[e] = consents[e]
    BY <2>1, <2>2 DEF TypeOK
  <2> QED BY <2>1, <2>5, <2>6 DEF ConsentsSigned, Signed
<1>5. ASSUME NEW i \in Instance, Approve(i)
      PROVE  ConsentsSigned'
  <2> DEFINE d == op[i].digest
             w == op[i].who
             a == Approved(file[d], w, now)
  <2>1. pc[i] # "idle" /\ op[i].kind = "approve"
    BY <1>5 DEF Approve
  <2>2. /\ d \in Digest /\ w \in Approver /\ copy[i] = file
        /\ file \in [Digest -> Ticket] /\ file[d] \in Ticket /\ now \in Nat
    BY <2>1, RunningFacts, OperationFields DEF CopyIsFile, TypeOK
  <2>3. CASE CanApprove(file[d], w)
    <3>1. /\ file' = [file EXCEPT ![d] = a]
          /\ consents' = [consents EXCEPT ![d] = @ \cup {[who |-> w, at |-> now]}]
      BY <1>5, <2>2, <2>3 DEF Approve, Save, Mine
    <3>2. a.status \in {"pending", "approved"}
      BY <2>2, ApprovedType
    <3>3. \A c \in consents[d] \cup {[who |-> w, at |-> now]} : Signed(a, c.who)
      BY <2>2, SignedMore DEF ConsentsSigned
    <3>4. \A e \in Digest : consents'[e] = IF e = d THEN consents[d] \cup {[who |-> w, at |-> now]}
                                          ELSE consents[e]
      BY <3>1 DEF TypeOK
    <3>5. \A e \in Digest : file'[e] = IF e = d THEN a ELSE file[e]
      BY <2>2, <3>1
    <3>6. ASSUME NEW e \in Digest, NEW c \in consents'[e]
          PROVE  file'[e].status \in {"pending", "approved"} /\ Signed(file'[e], c.who)
      BY <3>2, <3>3, <3>4, <3>5 DEF ConsentsSigned
    <3>7. \A e, x : Signed(file[e], x)' <=> Signed(file'[e], x)
      BY DEF Signed
    <3> QED BY <3>6 DEF ConsentsSigned, Signed
  <2>4. CASE ~CanApprove(file[d], w)
    BY <1>5, <2>2, <2>4 DEF Approve, Mine, ConsentsSigned
  <2> QED BY <2>3, <2>4
<1>6. ASSUME NEW i \in Instance, Deny(i)
      PROVE  ConsentsSigned'
  <2>1. pc[i] # "idle"
    BY <1>6 DEF Deny
  <2>2. op[i].digest \in Digest /\ copy[i] = file /\ file \in [Digest -> Ticket]
    BY <2>1, RunningFacts DEF CopyIsFile, TypeOK
  <2>3. \A e \in Digest : consents'[e] = {} \/ (consents'[e] = consents[e] /\ file'[e] = file[e])
    BY <1>6, <2>2 DEF Deny, Save, Mine, TypeOK
  <2> QED BY <2>3 DEF ConsentsSigned, Signed
<1>7. ASSUME NEW i \in Instance, Crash(i)
      PROVE  ConsentsSigned'
  BY <1>7 DEF Crash, ConsentsSigned
<1>8. CASE UNCHANGED vars
  BY <1>8 DEF vars, ConsentsSigned
<1> QED
  BY <1>1, <1>2, <1>3, <1>4, <1>5, <1>6, <1>7, <1>8 DEF Next, Ask, AskUnanswered

(* An operator who approves again, because the answer was lost or the       *)
(* webhook raised after the save, is answered 409 and nothing is written,   *)
(* for any number of threads and operators (transport.py:128).             *)
THEOREM RepeatIsTold ==
  ASSUME SingleInstance
  PROVE  TransportSpec => RepeatTold
<1> DEFINE Inv == StoreInv /\ WaitingAsks /\ DecidesOwn /\ ConsentsSigned
           Told == \A t \in Thread, i \in Instance :
                     (Decide(t, i) /\ request[t].kind = "approve"
                        /\ request[t].who \in Consenters(request[t].digest))
                     => answer'[t] = 409 /\ file' = file
           Answers == answer = [t \in Thread |-> answer[t]]
<1>1. TransportInit => Inv /\ Answers
  BY StoreInitType, CopyInitInv, WaitingInit, DecidesInit, ConsentsInit
     DEF TransportInit, StoreInv
<1>2. Inv /\ Answers /\ [TransportNext]_transportVars => Inv' /\ Answers'
  <2> SUFFICES ASSUME Inv, Answers, [TransportNext]_transportVars PROVE Inv' /\ Answers'
    OBVIOUS
  <2>1. [Next]_vars
    BY TransportStep
  <2>2. StoreInv' /\ ConsentsSigned'
    BY <2>1, StoreNextType, CopyNextInv, ConsentsNext DEF StoreInv
  <2>3. WaitingAsks' /\ DecidesOwn'
    BY WaitingNext, DecidesNext DEF StoreInv
  <2>4. Answers'
    BY DEF TransportNext, transportVars, web_vars, Receive, Take, Decide, Publish,
           PublishFails, Finish, GovernorStep, Dies
  <2> QED BY <2>2, <2>3, <2>4
<1>3. Inv /\ Answers /\ [TransportNext]_transportVars => [Told]_transportVars
  <2> SUFFICES ASSUME Inv, Answers, NEW t \in Thread, NEW i \in Instance, Decide(t, i),
                      request[t].kind = "approve",
                      request[t].who \in Consenters(request[t].digest)
               PROVE  answer'[t] = 409 /\ file' = file
    OBVIOUS
  <2> DEFINE d == request[t].digest
             w == request[t].who
  <2>1. pc[i] = "loaded" /\ op[i] = request[t] /\ request[t] \in Operation
    BY DEF Decide, DecidesOwn
  <2>2. copy[i] = file /\ d \in Digest
    BY <2>1, OperationFields DEF StoreInv, CopyIsFile
  <2>3. Mine(i) = file[d]
    BY <2>1, <2>2 DEF Mine
  <2>4. file[d].status \in {"pending", "approved"} /\ Signed(file[d], w)
    BY <2>2 DEF ConsentsSigned, Consenters
  <2>5. ~CanApprove(file[d], w)
    BY <2>4 DEF CanApprove
  <2>6. Refused(Mine(i), request[t]) = 409
    BY <2>3, <2>4, <2>5 DEF Refused
  <2>7. answer'[t] = 409
    BY <2>6 DEF Decide
  <2>8. Approve(i)
    BY <2>1 DEF Decide, Deny
  <2>9. file' = file
    BY <2>1, <2>3, <2>5, <2>8 DEF Approve
  <2> QED BY <2>7, <2>9
<1> QED BY <1>1, <1>2, <1>3, PTL DEF TransportSpec, RepeatTold
=============================================================================
