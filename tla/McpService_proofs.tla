--------------------------- MODULE McpService_proofs ---------------------------
(***************************************************************************)
(* Proofs about the gateway service for any number of handler threads and   *)
(* operators, any requests and any ledger: the generations of the halt file *)
(* count its writes, the posture a call is judged by is never older than    *)
(* the oldest request in flight beside it, discoveries that do not overlap  *)
(* keep the first trust of every tool, a permitted call is one that was     *)
(* vetted and that a grant covers, however they overlap, and nothing is     *)
(* permitted that came under a halt still in force.                        *)
(***************************************************************************)
EXTENDS McpService, WellFoundedInduction, TLAPS

(* The halt file.  A command that has loaded it will write the generation   *)
(* that follows; while no two commands overlapped, what it loaded is what   *)
(* the file still holds.                                                   *)
HaltFileInv ==
  /\ halt.generation \in Nat /\ writes \in Nat
  /\ op \in [Operator -> {"idle", "loaded", "done"}]
  /\ DOMAIN prior = Operator
  /\ halt.generation <= writes
  /\ \A o \in Operator : prior[o].generation \in Nat /\ prior[o].generation <= writes
  /\ raced \/ halt.generation = writes
  /\ raced \/ \A o \in Operator : op[o] = "loaded" => prior[o].generation = halt.generation

LEMMA HaltFileInit == HaltInit => HaltFileInv
BY DEF HaltInit, HaltFileInv, Inactive

LEMMA HaltFileNext ==
  ASSUME HaltFileInv, HaltNext
  PROVE  HaltFileInv'
<1>1. ASSUME NEW o \in Operator, LoadHalt(o)
      PROVE  HaltFileInv'
  <2>1. \A p \in Operator : prior'[p] = prior[p] \/ prior'[p] = halt
    BY <1>1 DEF LoadHalt, HaltFileInv
  <2>2. \A p \in Operator : p # o => prior'[p] = prior[p] /\ op'[p] = op[p]
    BY <1>1 DEF LoadHalt, HaltFileInv
  <2>3. op'[o] = "loaded" => prior'[o] = halt
    BY <1>1 DEF LoadHalt, HaltFileInv
  <2> QED BY <1>1, <2>1, <2>2, <2>3 DEF LoadHalt, HaltFileInv
<1>2. ASSUME NEW o \in Operator, WriteHalt(o)
      PROVE  HaltFileInv'
  <2>1. halt'.generation = prior[o].generation + 1 /\ writes' = writes + 1 /\ prior' = prior
    BY <1>2 DEF WriteHalt
  <2>2. op' \in [Operator -> {"idle", "loaded", "done"}]
    BY <1>2 DEF WriteHalt, HaltFileInv
  <2>3. raced' \/ (~raced /\ \A p \in Operator : op'[p] # "loaded")
    BY <1>2 DEF WriteHalt, HaltFileInv
  <2>4. raced' \/ halt'.generation = writes'
    BY <1>2, <2>1, <2>3 DEF WriteHalt, HaltFileInv
  <2>5. halt'.generation \in Nat /\ writes' \in Nat /\ halt'.generation <= writes'
    BY <2>1 DEF HaltFileInv
  <2>6. \A p \in Operator : prior'[p].generation \in Nat /\ prior'[p].generation <= writes'
    BY <2>1 DEF HaltFileInv
  <2>7. raced' \/ \A p \in Operator : op'[p] = "loaded" => prior'[p].generation = halt'.generation
    BY <2>3
  <2>8. DOMAIN prior' = Operator
    BY <2>1 DEF HaltFileInv
  <2> QED BY <2>2, <2>4, <2>5, <2>6, <2>7, <2>8 DEF HaltFileInv
<1>3. ASSUME NEW o \in Operator, WriteHaltFails(o)
      PROVE  HaltFileInv'
  <2>1. op' \in [Operator -> {"idle", "loaded", "done"}]
           /\ \A p \in Operator : op'[p] = "loaded" => op[p] = "loaded"
    BY <1>3 DEF WriteHaltFails, HaltFileInv
  <2> QED BY <1>3, <2>1 DEF WriteHaltFails, HaltFileInv
<1> QED BY <1>1, <1>2, <1>3 DEF HaltNext

LEMMA HaltFileStep ==
  ASSUME HaltFileInv, [Next]_vars
  PROVE  HaltFileInv'
<1>1. HaltNext \/ UNCHANGED haltVars
  BY DEF Next, vars, Arrive, Step, ReviewDiscovery, ReadRegistrations, AppendRegistrations,
         CheckHalt, Judge, Collect, LoadPolicy, LoadFails, Store, Unwatched, ApprovePosture,
         HaltOrResume
<1>2. CASE UNCHANGED haltVars
  BY <1>2 DEF haltVars, HaltFileInv
<1> QED BY <1>1, <1>2, HaltFileNext

(* Generations number the writes of the halt file unless commands overlap,  *)
(* and never run ahead of them (sidecar/state.py:140).                      *)
THEOREM GenerationsNumberWrites == Spec => []GenerationsCount
<1>1. Init => HaltFileInv
  BY HaltFileInit DEF Init
<1>2. HaltFileInv => GenerationsCount
  BY DEF HaltFileInv, GenerationsCount
<1> QED BY <1>1, <1>2, HaltFileStep, PTL DEF Spec

-----------------------------------------------------------------------------
LEMMA MinIsLeast ==
  ASSUME NEW S \in SUBSET Nat, S # {}
  PROVE  Min(S) \in S /\ \A x \in S : Min(S) <= x
<1>1. PICK m \in S : \A x \in S : ~(<<x, m>> \in OpToRel(<, Nat))
  BY NatLessThanWellFounded, WFMin, Zenon
<1>2. \A x \in S : m <= x
  <2> TAKE x \in S
  <2>1. ~(x < m)
    BY <1>1, Zenon DEF OpToRel
  <2> QED BY <2>1
<1> QED BY <1>2 DEF Min

-----------------------------------------------------------------------------
(* Types.  A command that has loaded the file was given to its operator;    *)
(* what a discovery has appended is vetted until it is acknowledged.        *)
HaltTypes ==
  /\ HaltTypeOK
  /\ \A o \in Operator : op[o] = "loaded" => o \in DOMAIN command

LEMMA HaltTypesNext ==
  ASSUME HaltTypes, HaltNext \/ UNCHANGED haltVars
  PROVE  HaltTypes'
<1> USE DEF HaltTypes, HaltTypeOK
<1>1. ASSUME NEW o \in Operator, LoadHalt(o)
      PROVE  HaltTypes'
  <2>1. /\ o \in DOMAIN command /\ command' = command
        /\ op' \in [Operator -> {"idle", "loaded", "done"}]
        /\ \A p \in Operator \ {o} : op'[p] = op[p]
    BY <1>1 DEF LoadHalt
  <2>2. prior' \in [Operator -> Snapshot]
    BY <1>1 DEF LoadHalt
  <2> QED BY <1>1, <2>1, <2>2 DEF LoadHalt
<1>2. ASSUME NEW o \in Operator, WriteHalt(o)
      PROVE  HaltTypes'
  <2>1. command[o] \in Command /\ prior[o] \in Snapshot
    BY <1>2 DEF WriteHalt
  <2>2. halt' \in Snapshot
    BY <1>2, <2>1 DEF WriteHalt, Snapshot, Command
  <2>3. /\ op' \in [Operator -> {"idle", "loaded", "done"}]
        /\ \A p \in Operator : op'[p] = "loaded" => op[p] = "loaded"
    BY <1>2 DEF WriteHalt
  <2>4. raced' \in BOOLEAN /\ writes' \in Nat /\ UNCHANGED <<command, prior>>
    BY <1>2 DEF WriteHalt
  <2> QED BY <2>2, <2>3, <2>4
<1>3. ASSUME NEW o \in Operator, WriteHaltFails(o)
      PROVE  HaltTypes'
  <2>1. /\ op' \in [Operator -> {"idle", "loaded", "done"}]
        /\ \A p \in Operator : op'[p] = "loaded" => op[p] = "loaded"
    BY <1>3 DEF WriteHaltFails
  <2> QED BY <1>3, <2>1 DEF WriteHaltFails
<1>4. CASE UNCHANGED haltVars
  BY <1>4 DEF haltVars
<1> QED BY <1>1, <1>2, <1>3, <1>4 DEF HaltNext

Version == 0 .. Len(Postures)

Statuses == {0, 200, 400, 401, 403, 404, 405, 413}

TypeInv ==
  /\ TypeOK
  /\ \A o \in Operator : op[o] = "loaded" => o \in DOMAIN command
  /\ DOMAIN local = Handler
  /\ \A h \in Handler : DOMAIN local[h] = {"pinned", "head"} /\ local[h].head \in Version
  /\ \A h \in Handler : pc[h] = "checking" => ~IsDiscovery(h)
  /\ \A h \in Handler : pc[h] \in {"collecting", "loading", "storing"} /\ IsDiscovery(h) =>
       \A i \in DOMAIN New(h) : New(h)[i] \in vetted

LEMMA TypeInit == Init => TypeInv
<1> SUFFICES ASSUME Init PROVE TypeInv
  OBVIOUS
<1>1. session \in DOMAIN Workload /\ command = Workload[session].command
  BY DEF Init, workload
<1>2. DOMAIN command \subseteq Operator /\ \A o \in DOMAIN command : command[o] \in Command
  BY <1>1, WorkloadAssumption
<1>3. HaltTypeOK
  BY <1>2 DEF Init, HaltInit, HaltTypeOK, Snapshot, Inactive
<1>4. \A o \in Operator : op[o] = "idle"
  BY DEF Init, HaltInit
<1>5. acked \subseteq vetted
  BY DEF Init, Pinned
<1>6. head \in Version /\ gateway.head = head /\ 0 \in Version
  BY PosturesAssumption DEF Init, Version
<1>7. \A h \in Handler : local[h] = Nothing /\ pc[h] = "idle"
  BY DEF Init
<1>8. DOMAIN Nothing = {"pinned", "head"} /\ Nothing.head = 0
  BY DEF Nothing
<1>9. /\ pc \in [Handler -> {"idle"}] /\ status \in [Handler -> {0}]
      /\ floor \in [Handler -> {0}] /\ oldest \in [Handler -> {0}]
      /\ barred \in [Handler -> {FALSE}] /\ DOMAIN local = Handler
  BY DEF Init
<1>10. /\ floor \in [Handler -> Version] /\ oldest \in [Handler -> Version]
       /\ barred \in [Handler -> BOOLEAN]
  BY <1>6, <1>9
<1> QED BY <1>1, <1>3, <1>4, <1>5, <1>6, <1>7, <1>8, <1>9, <1>10 DEF TypeInv, TypeOK, Version

LEMMA TurnedType == \A q : Turned(q) \in {0, 200, 400, 401, 404, 405, 413}
BY DEF Turned

(* A step of one thread that answers with a status the service has, loads a *)
(* head the ledger has, and acknowledges only what is vetted.               *)
LEMMA TypesKept ==
  ASSUME TypeInv, NEW h \in Handler, Unwatched,
         NEW to \in {"trusting", "appending", "collecting", "loading", "storing", "judging", "ended"},
         pc' = [pc EXCEPT ![h] = to],
         status' \in [Handler -> Statuses],
         DOMAIN local' = Handler, \A p \in Handler \ {h} : local'[p] = local[p],
         DOMAIN local'[h] = {"pinned", "head"}, local'[h].head \in Version,
         gateway'.head \in Version,
         vetted \subseteq vetted', acked' \subseteq vetted',
         to \in {"collecting", "loading", "storing"} /\ IsDiscovery(h) =>
           \A i \in DOMAIN New(h) : New(h)[i] \in vetted'
  PROVE  TypeInv'
<1>1. \A p \in Handler : Ask(p)' = Ask(p) /\ IsDiscovery(p)' = IsDiscovery(p) /\ New(p)' = New(p)
  BY DEF Unwatched, IsDiscovery, New, Ask, workload
<1>2. pc'[h] = to /\ \A p \in Handler \ {h} : pc'[p] = pc[p]
  BY DEF TypeInv, TypeOK
<1>3. HaltTypes'
  BY HaltTypesNext DEF TypeInv, TypeOK, HaltTypes, Unwatched
<1>4. /\ session' \in DOMAIN Workload /\ head' \in Version /\ gateway'.head \in Version
      /\ floor' \in [Handler -> Version] /\ oldest' \in [Handler -> Version]
      /\ barred' \in [Handler -> BOOLEAN]
  BY DEF TypeInv, TypeOK, Unwatched, Version
<1>5. pc' \in [Handler -> {"idle", "reviewing", "trusting", "appending", "checking",
                           "collecting", "loading", "storing", "judging", "ended"}]
  BY DEF TypeInv, TypeOK
<1>6. TypeOK'
  BY <1>3, <1>4, <1>5 DEF TypeOK, HaltTypes, Version, Statuses
<1>7. \A p \in Handler : DOMAIN local'[p] = {"pinned", "head"} /\ local'[p].head \in Version
  BY DEF TypeInv
<1>8. \A p \in Handler : pc'[p] = "checking" => ~IsDiscovery(p)'
  BY <1>1, <1>2 DEF TypeInv
<1>9. ASSUME NEW p \in Handler, pc'[p] \in {"collecting", "loading", "storing"}, IsDiscovery(p)'
      PROVE  \A i \in DOMAIN New(p)' : (New(p)')[i] \in vetted'
  <2>1. \A i \in DOMAIN New(p) : New(p)[i] \in vetted'
    BY <1>1, <1>2, <1>9 DEF TypeInv
  <2> QED BY <1>1, <2>1
<1>10. Version' = Version
  BY DEF Version
<1> QED BY <1>3, <1>6, <1>7, <1>8, <1>9, <1>10 DEF TypeInv, HaltTypes

LEMMA TypesStep ==
  ASSUME TypeInv, NEW h \in Handler, Step(h)
  PROVE  TypeInv'
<1> USE DEF Goes, Ends
<1>0. Unwatched
  BY DEF Step, ReviewDiscovery, ReadRegistrations, AppendRegistrations, CheckHalt, Judge,
         Collect, LoadPolicy, LoadFails, Store
<1>a. /\ DOMAIN local = Handler /\ DOMAIN local[h] = {"pinned", "head"}
      /\ local[h].head \in Version /\ head \in Version /\ acked \subseteq vetted
      /\ pc[h] = "checking" => ~IsDiscovery(h)
      /\ pc[h] \in {"collecting", "loading", "storing"} /\ IsDiscovery(h) =>
           \A i \in DOMAIN New(h) : New(h)[i] \in vetted
      /\ gateway.head \in Version /\ status \in [Handler -> Statuses]
  BY DEF TypeInv, TypeOK, Version, Statuses
<1>b. \A answer \in {0, 200, 403} : [status EXCEPT ![h] = answer] \in [Handler -> Statuses]
  BY <1>a DEF Statuses
<1>1. CASE ReviewDiscovery(h)
  <2>1. PICK to \in {"trusting", "ended"} : pc' = [pc EXCEPT ![h] = to]
    BY <1>1 DEF ReviewDiscovery
  <2>2. status' \in [Handler -> Statuses]
    BY <1>1, <1>b DEF ReviewDiscovery
  <2>3. UNCHANGED <<gateway, local, vetted, acked>>
    BY <1>1 DEF ReviewDiscovery
  <2> QED BY <1>0, <1>a, <2>1, <2>2, <2>3, TypesKept
<1>2. CASE ReadRegistrations(h) \/ Collect(h)
  <2>1. PICK to \in {"appending", "loading"} :
          /\ pc' = [pc EXCEPT ![h] = to]
          /\ to = "loading" => pc[h] = "collecting"
    BY <1>2 DEF ReadRegistrations, Collect
  <2>2. UNCHANGED <<gateway, status, vetted, acked>>
    BY <1>2 DEF ReadRegistrations, Collect
  <2>3. local' = [local EXCEPT ![h].pinned = registrations]
    BY <1>2 DEF ReadRegistrations, Collect
  <2>4. /\ DOMAIN local' = Handler /\ \A p \in Handler \ {h} : local'[p] = local[p]
        /\ DOMAIN local'[h] = {"pinned", "head"} /\ local'[h].head = local[h].head
    BY <1>a, <2>3
  <2> QED BY <1>0, <1>a, <2>1, <2>2, <2>4, TypesKept
<1>3. CASE AppendRegistrations(h)
  <2>1. /\ pc' = [pc EXCEPT ![h] = "collecting"]
        /\ vetted' = vetted \cup {New(h)[i] : i \in DOMAIN New(h)}
        /\ UNCHANGED <<gateway, local, status, acked>>
    BY <1>3 DEF AppendRegistrations
  <2>2. \A i \in DOMAIN New(h) : New(h)[i] \in vetted'
    BY <2>1
  <2>3. vetted \subseteq vetted'
    BY <2>1
  <2> QED BY <1>0, <1>a, <2>1, <2>2, <2>3, TypesKept
<1>4. CASE CheckHalt(h)
  <2>1. PICK to \in {"collecting", "ended"} : pc' = [pc EXCEPT ![h] = to]
    BY <1>4 DEF CheckHalt
  <2>2. status' \in [Handler -> Statuses]
    BY <1>4, <1>b DEF CheckHalt
  <2>3. UNCHANGED <<gateway, local, vetted, acked>> /\ pc[h] = "checking"
    BY <1>4 DEF CheckHalt
  <2> QED BY <1>0, <1>a, <2>1, <2>2, <2>3, TypesKept
<1>5. CASE Judge(h)
  <2>1. pc' = [pc EXCEPT ![h] = "ended"]
    BY <1>5 DEF Judge
  <2>2. status' \in [Handler -> Statuses]
    BY <1>5, <1>b DEF Judge
  <2>3. UNCHANGED <<gateway, local, vetted, acked>>
    BY <1>5 DEF Judge
  <2> QED BY <1>0, <1>a, <2>1, <2>2, <2>3, TypesKept
<1>6. CASE LoadPolicy(h)
  <2>1. /\ pc[h] = "loading" /\ pc' = [pc EXCEPT ![h] = "storing"]
        /\ UNCHANGED <<gateway, status, vetted, acked>>
    BY <1>6 DEF LoadPolicy
  <2>2. local' = [local EXCEPT ![h].head = head]
    BY <1>6 DEF LoadPolicy
  <2>3. /\ DOMAIN local' = Handler /\ \A p \in Handler \ {h} : local'[p] = local[p]
        /\ DOMAIN local'[h] = {"pinned", "head"} /\ local'[h].head = head
    BY <1>a, <2>2
  <2> QED BY <1>0, <1>a, <2>1, <2>3, TypesKept
<1>7. CASE LoadFails(h)
  <2>1. pc' = [pc EXCEPT ![h] = "ended"] /\ UNCHANGED <<gateway, local, status, vetted, acked>>
    BY <1>7 DEF LoadFails, service
  <2> QED BY <1>0, <1>a, <2>1, TypesKept
<1>8. CASE Store(h)
  <2>1. PICK to \in {"judging", "ended"} : pc' = [pc EXCEPT ![h] = to]
    BY <1>8 DEF Store
  <2>2. status' \in [Handler -> Statuses]
    BY <1>8, <1>b DEF Store
  <2>3. gateway'.head \in Version /\ UNCHANGED <<local, vetted>> /\ pc[h] = "storing"
    BY <1>8, <1>a DEF Store
  <2>4. acked' \subseteq vetted
    <3>1. CASE IsDiscovery(h)
      BY <1>8, <1>a, <2>3, <3>1 DEF Store
    <3>2. CASE ~IsDiscovery(h)
      BY <1>8, <1>a, <3>2 DEF Store
    <3> QED BY <3>1, <3>2
  <2> QED BY <1>0, <1>a, <2>1, <2>2, <2>3, <2>4, TypesKept
<1> QED BY <1>1, <1>2, <1>3, <1>4, <1>5, <1>6, <1>7, <1>8 DEF Step

LEMMA TypesArrive ==
  ASSUME TypeInv, NEW h \in Handler, Arrive(h)
  PROVE  TypeInv'
<1>1. /\ UNCHANGED <<session, head, registrations, gateway, local, vetted, acked, haltVars>>
      /\ floor' = [floor EXCEPT ![h] = head]
      /\ oldest' = [oldest EXCEPT ![h] = Min({head} \cup {floor[p] : p \in InFlight})]
      /\ barred' = [barred EXCEPT ![h] = halt.halted]
      /\ status' = [status EXCEPT ![h] = Turned(Ask(h))]
  BY DEF Arrive, Ends
<1>2. PICK to \in {"ended", "reviewing", "checking"} :
        /\ pc' = [pc EXCEPT ![h] = to]
        /\ to = "checking" => ~IsDiscovery(h)
  BY DEF Arrive, Goes
<1>3. \A p \in Handler : IsDiscovery(p)' = IsDiscovery(p) /\ New(p)' = New(p)
  BY <1>1 DEF IsDiscovery, New, Ask, workload
<1>4. pc'[h] = to /\ \A p \in Handler \ {h} : pc'[p] = pc[p]
  BY <1>2 DEF TypeInv, TypeOK
<1>5. HaltTypes'
  BY <1>1, HaltTypesNext DEF TypeInv, TypeOK, HaltTypes
<1>6. Min({head} \cup {floor[p] : p \in InFlight}) \in Version
  <2> DEFINE S == {head} \cup {floor[p] : p \in InFlight}
  <2>1. S \subseteq Version /\ S # {}
    BY DEF TypeInv, TypeOK, InFlight, Version
  <2>2. Version \subseteq Nat
    BY PosturesAssumption DEF Version
  <2>3. Min(S) \in S
    BY <2>1, <2>2, MinIsLeast
  <2> QED BY <2>1, <2>3
<1>7. halt.halted \in BOOLEAN
  BY DEF TypeInv, TypeOK, HaltTypeOK, Snapshot
<1>8. Turned(Ask(h)) \in {0, 200, 400, 401, 404, 405, 413}
  BY TurnedType, Zenon
<1>9. /\ session' \in DOMAIN Workload /\ head' \in Version /\ gateway'.head \in Version
      /\ floor' \in [Handler -> Version] /\ oldest' \in [Handler -> Version]
      /\ barred' \in [Handler -> BOOLEAN] /\ acked' \subseteq vetted'
  BY <1>1, <1>6, <1>7 DEF TypeInv, TypeOK, Version
<1>10. /\ pc' \in [Handler -> {"idle", "reviewing", "trusting", "appending", "checking",
                               "collecting", "loading", "storing", "judging", "ended"}]
       /\ status' \in [Handler -> {0, 200, 400, 401, 403, 404, 405, 413}]
  BY <1>1, <1>2, <1>8 DEF TypeInv, TypeOK
<1>11. TypeOK'
  BY <1>5, <1>9, <1>10 DEF TypeOK, HaltTypes, Version
<1>12. \A p \in Handler : pc'[p] = "checking" => ~IsDiscovery(p)'
  BY <1>2, <1>3, <1>4 DEF TypeInv
<1>13. \A p \in Handler : pc'[p] \in {"collecting", "loading", "storing"} /\ IsDiscovery(p)' =>
         \A i \in DOMAIN New(p)' : (New(p)')[i] \in vetted'
  BY <1>1, <1>3, <1>4 DEF TypeInv
<1> QED BY <1>1, <1>5, <1>11, <1>12, <1>13 DEF TypeInv, HaltTypes, Version

(* The service's state keeps its types, and what it acknowledges has been   *)
(* vetted, for any number of handlers and operators.                       *)
THEOREM ServiceTypeCorrect == Spec => []TypeOK
<1>1. ASSUME TypeInv, [Next]_vars
      PROVE  TypeInv'
  <2>1. CASE ApprovePosture \/ UNCHANGED vars
    <3>1. /\ UNCHANGED <<session, service, pc, floor, oldest, barred, haltVars>>
          /\ head' \in Version
      BY <1>1, <2>1, PosturesAssumption DEF ApprovePosture, vars, TypeInv, TypeOK, Version
    <3>2. HaltTypes'
      BY <1>1, <3>1, HaltTypesNext DEF TypeInv, TypeOK, HaltTypes
    <3>3. \A h \in Handler : IsDiscovery(h)' = IsDiscovery(h) /\ New(h)' = New(h)
      BY <3>1 DEF IsDiscovery, New, Ask, workload
    <3> QED BY <1>1, <3>1, <3>2, <3>3 DEF TypeInv, TypeOK, HaltTypes, Version, service
  <2>2. CASE HaltOrResume
    <3>1. /\ UNCHANGED <<session, service, head, pc, floor, oldest>> /\ HaltNext
          /\ barred' = [h \in Handler |-> barred[h] /\ halt'.halted]
      BY <2>2 DEF HaltOrResume
    <3>2. HaltTypes'
      BY <1>1, <3>1, HaltTypesNext DEF TypeInv, TypeOK, HaltTypes
    <3>3. barred' \in [Handler -> BOOLEAN]
      BY <3>1
    <3>4. \A h \in Handler : IsDiscovery(h)' = IsDiscovery(h) /\ New(h)' = New(h)
      BY <3>1 DEF IsDiscovery, New, Ask, workload
    <3> QED BY <1>1, <3>1, <3>2, <3>3, <3>4 DEF TypeInv, TypeOK, HaltTypes, Version, service
  <2> QED BY <1>1, <2>1, <2>2, TypesStep, TypesArrive DEF Next
<1>2. TypeInv => TypeOK
  BY DEF TypeInv
<1> QED BY <1>1, <1>2, TypeInit, PTL DEF Spec

-----------------------------------------------------------------------------
(* The heads.  The ledger only grows; what a thread has loaded is at least  *)
(* as new as the head at its arrival, and so is the gateway it has stored,  *)
(* or that of a thread in flight beside it.                                *)
HeadsInv ==
  /\ head \in Nat
  /\ pc \in [Handler -> {"idle", "reviewing", "trusting", "appending", "checking", "collecting",
                         "loading", "storing", "judging", "ended"}]
  /\ DOMAIN local = Handler /\ DOMAIN status = Handler /\ DOMAIN judged = Handler
  /\ floor \in [Handler -> Nat] /\ oldest \in [Handler -> Nat]
  /\ \A h \in Handler : floor[h] <= head
  /\ \A h, p \in InFlight : oldest[h] <= floor[p]
  /\ \A h \in Handler : pc[h] = "storing" => local[h].head \in Nat /\ local[h].head >= floor[h]
  /\ \A h \in Handler : pc[h] = "judging" => gateway.head \in Nat /\ gateway.head >= oldest[h]
  /\ \A h \in Handler : pc[h] # "ended" => status[h] # 200
  /\ PolicyLag

LEMMA HeadsInit == Init => HeadsInv
<1> SUFFICES ASSUME Init PROVE HeadsInv
  OBVIOUS
<1>1. head \in Nat
  BY DEF Init
<1> QED BY <1>1 DEF Init, HeadsInv, InFlight, PolicyLag

LEMMA TurnedAway == \A q : Turned(q) = 200 => q.path = "/healthz"
BY DEF Turned

(* A step of a thread in flight keeps the invariant when it leaves the      *)
(* other threads alone, loads the head as it is, and stores and judges by   *)
(* what is at least as new as its own arrival, or its oldest neighbour's.   *)
LEMMA HeadsKept ==
  ASSUME HeadsInv, NEW h \in Handler, h \in InFlight, UNCHANGED <<head, floor, oldest>>,
         NEW to \in {"reviewing", "trusting", "appending", "checking", "collecting", "loading",
                     "storing", "judging", "ended"},
         pc' = [pc EXCEPT ![h] = to],
         DOMAIN local' = Handler, DOMAIN status' = Handler, DOMAIN judged' = Handler,
         \A p \in Handler \ {h} :
           local'[p] = local[p] /\ status'[p] = status[p] /\ judged'[p] = judged[p],
         gateway' = gateway \/ (gateway'.head \in Nat /\ gateway'.head >= floor[h]),
         to = "storing" => local'[h].head = head,
         to = "judging" => gateway' # gateway \/ (gateway.head \in Nat /\ gateway.head >= oldest[h]),
         to # "ended" => status'[h] # 200,
         to = "ended" /\ Ask(h).path = "/v1/mcp/review" /\ status'[h] = 200
           => judged'[h].head >= oldest[h],
         session' = session
  PROVE  HeadsInv'
<1> USE DEF HeadsInv
<1>1. /\ pc'[h] = to
      /\ \A p \in Handler \ {h} : pc'[p] = pc[p]
      /\ pc' \in [Handler -> {"idle", "reviewing", "trusting", "appending", "checking",
                              "collecting", "loading", "storing", "judging", "ended"}]
  OBVIOUS
<1>2. \A p \in Handler : p \in InFlight' => p \in InFlight
  BY <1>1 DEF InFlight
<1>3. \A p, q \in InFlight' : oldest'[p] <= floor'[q]
  <2>1. InFlight' \subseteq InFlight
    BY <1>2 DEF InFlight
  <2> QED BY <2>1
<1>4. \A p \in Handler : pc'[p] = "storing" => local'[p].head \in Nat /\ local'[p].head >= floor'[p]
  BY <1>1
<1>5. ASSUME NEW p \in Handler, pc'[p] = "judging"
      PROVE  gateway'.head \in Nat /\ gateway'.head >= oldest'[p]
  <2>1. oldest[p] <= floor[h] /\ oldest[p] \in Nat /\ floor[h] \in Nat
    <3>1. p = h \/ p \in InFlight
      BY <1>1, <1>5 DEF InFlight
    <3> QED BY <3>1
  <2>2. CASE gateway' = gateway
    BY <1>1, <1>5, <2>2
  <2>3. CASE gateway'.head \in Nat /\ gateway'.head >= floor[h]
    BY <2>1, <2>3
  <2> QED BY <2>2, <2>3
<1>6. \A p \in Handler : pc'[p] # "ended" => status'[p] # 200
  BY <1>1
<1>7. PolicyLag'
  <2>1. \A p \in Handler : Ask(p)' = Ask(p)
    BY DEF Ask, workload
  <2> QED BY <1>1, <2>1 DEF PolicyLag
<1> QED BY <1>1, <1>3, <1>4, <1>5, <1>6, <1>7

LEMMA HeadsStep ==
  ASSUME HeadsInv, NEW h \in Handler, Step(h)
  PROVE  HeadsInv'
<1> USE DEF HeadsInv, Goes, Ends, Unwatched
<1>0. Unwatched
  BY DEF Step, ReviewDiscovery, ReadRegistrations, AppendRegistrations, CheckHalt, Judge,
         Collect, LoadPolicy, LoadFails, Store
<1>a. h \in InFlight
  BY DEF Step, ReviewDiscovery, ReadRegistrations, AppendRegistrations, CheckHalt, Judge,
         Collect, LoadPolicy, LoadFails, Store, InFlight
<1>b. oldest[h] <= floor[h] /\ oldest[h] \in Nat /\ floor[h] \in Nat
  BY <1>a
<1> DEFINE Alone ==
             /\ DOMAIN local' = Handler /\ DOMAIN status' = Handler /\ DOMAIN judged' = Handler
             /\ \A p \in Handler \ {h} :
                  local'[p] = local[p] /\ status'[p] = status[p] /\ judged'[p] = judged[p]
<1>c. Alone
  BY DEF Step, ReviewDiscovery, ReadRegistrations, AppendRegistrations, CheckHalt, Judge,
         Collect, LoadPolicy, LoadFails, Store, service
<1>d. UNCHANGED <<head, floor, oldest>> /\ session' = session
  BY <1>0
<1>1. CASE ReviewDiscovery(h)
  <2>1. gateway' = gateway /\ status'[h] # 200
    BY <1>1 DEF ReviewDiscovery
  <2>2. CASE pc' = [pc EXCEPT ![h] = "trusting"]
    BY <1>a, <1>c, <1>d, <2>1, <2>2, HeadsKept
  <2>3. CASE pc' = [pc EXCEPT ![h] = "ended"]
    BY <1>a, <1>c, <1>d, <2>1, <2>3, HeadsKept
  <2> QED BY <1>1, <2>2, <2>3 DEF ReviewDiscovery
<1>2. CASE ReadRegistrations(h) \/ Collect(h)
  <2>1. PICK to \in {"appending", "loading"} : pc' = [pc EXCEPT ![h] = to]
    BY <1>2 DEF ReadRegistrations, Collect
  <2>2. gateway' = gateway /\ status'[h] # 200
    BY <1>2, <1>a DEF ReadRegistrations, Collect, InFlight
  <2> QED BY <1>a, <1>c, <1>d, <2>1, <2>2, HeadsKept
<1>3. CASE AppendRegistrations(h)
  <2>1. pc' = [pc EXCEPT ![h] = "collecting"] /\ gateway' = gateway /\ status'[h] # 200
    BY <1>3, <1>a DEF AppendRegistrations, InFlight
  <2> QED BY <1>a, <1>c, <1>d, <2>1, HeadsKept
<1>4. CASE CheckHalt(h)
  <2>1. gateway' = gateway /\ status'[h] # 200
    BY <1>4 DEF CheckHalt
  <2>2. CASE pc' = [pc EXCEPT ![h] = "collecting"]
    BY <1>a, <1>c, <1>d, <2>1, <2>2, HeadsKept
  <2>3. CASE pc' = [pc EXCEPT ![h] = "ended"]
    BY <1>a, <1>c, <1>d, <2>1, <2>3, HeadsKept
  <2> QED BY <1>4, <2>2, <2>3 DEF CheckHalt
<1>5. CASE Judge(h)
  <2>1. pc' = [pc EXCEPT ![h] = "ended"] /\ gateway' = gateway /\ judged'[h] = gateway
    BY <1>5 DEF Judge
  <2>2. gateway.head >= oldest[h]
    BY <1>5 DEF Judge
  <2> QED BY <1>a, <1>c, <1>d, <2>1, <2>2, HeadsKept
<1>6. CASE LoadPolicy(h)
  <2>1. local'[h].head = head
    BY <1>6 DEF LoadPolicy
  <2>2. pc' = [pc EXCEPT ![h] = "storing"] /\ gateway' = gateway /\ status'[h] # 200
    BY <1>6, <1>a DEF LoadPolicy, InFlight
  <2> QED BY <1>a, <1>c, <1>d, <2>1, <2>2, HeadsKept
<1>7. CASE LoadFails(h)
  <2>1. pc' = [pc EXCEPT ![h] = "ended"] /\ gateway' = gateway /\ status'[h] # 200
    BY <1>7, <1>a DEF LoadFails, InFlight, service
  <2> QED BY <1>a, <1>c, <1>d, <2>1, HeadsKept
<1>8. CASE Store(h)
  <2>1. gateway' = local[h] /\ gateway'.head \in Nat /\ gateway'.head >= floor[h]
    BY <1>8 DEF Store
  <2>2. PICK to \in {"judging", "ended"} :
          /\ pc' = [pc EXCEPT ![h] = to]
          /\ to = "ended" => Ask(h).path = "/v1/mcp/discovery"
          /\ to = "judging" => status'[h] = 0
    BY <1>8 DEF Store, IsDiscovery
  <2>3. to = "judging" => gateway' # gateway \/ (gateway.head \in Nat /\ gateway.head >= oldest[h])
    BY <1>b, <2>1
  <2>4. /\ to # "storing"
        /\ to # "ended" => status'[h] # 200
        /\ ~(to = "ended" /\ Ask(h).path = "/v1/mcp/review")
    BY <2>2
  <2> QED BY <1>a, <1>c, <1>d, <2>1, <2>2, <2>3, <2>4, HeadsKept
<1> QED BY <1>1, <1>2, <1>3, <1>4, <1>5, <1>6, <1>7, <1>8 DEF Step

LEMMA HeadsArrive ==
  ASSUME HeadsInv, NEW h \in Handler, Arrive(h)
  PROVE  HeadsInv'
<1> USE DEF HeadsInv
<1> DEFINE S == {head} \cup {floor[p] : p \in InFlight}
<1>1. /\ pc[h] = "idle"
      /\ \A p \in Handler \ {h} : /\ pc'[p] = pc[p] /\ status'[p] = status[p]
                                  /\ floor'[p] = floor[p] /\ oldest'[p] = oldest[p]
      /\ floor'[h] = head /\ oldest'[h] = Min(S) /\ status'[h] = Turned(Ask(h))
      /\ UNCHANGED <<session, head, gateway, local, judged>>
  BY DEF Arrive, Goes, Ends
<1>2. /\ pc'[h] \in {"ended", "reviewing", "checking"}
      /\ pc'[h] # "ended" => status'[h] = 0
  BY DEF Arrive, Goes, Ends
<1>3. S \in SUBSET Nat /\ S # {} /\ \A p \in InFlight : p \in Handler
  BY DEF InFlight
<1>4. Min(S) \in Nat /\ Min(S) <= head /\ \A p \in InFlight : Min(S) <= floor[p]
  BY <1>3, MinIsLeast
<1>5. /\ pc' \in [Handler -> {"idle", "reviewing", "trusting", "appending", "checking",
                              "collecting", "loading", "storing", "judging", "ended"}]
      /\ floor' \in [Handler -> Nat] /\ oldest' \in [Handler -> Nat]
      /\ DOMAIN status' = Handler
  BY <1>1, <1>2, <1>4 DEF Arrive, Goes, Ends
<1>6. \A p \in InFlight' : p = h \/ (p \in InFlight /\ p \in Handler \ {h})
  BY <1>1 DEF InFlight
<1>7. \A p, q \in InFlight' : oldest'[p] <= floor'[q]
  <2>1. \A p \in InFlight : oldest[p] <= floor[p] /\ floor[p] <= head /\ floor[p] \in Nat /\ oldest[p] \in Nat
    BY <1>3
  <2>2. TAKE p, q \in InFlight'
  <2>3. CASE p = h
    BY <1>1, <1>4, <1>6, <2>3
  <2>4. CASE p # h /\ q = h
    BY <1>1, <1>6, <2>1, <2>4
  <2>5. CASE p # h /\ q # h
    BY <1>1, <1>6, <2>5
  <2> QED BY <2>3, <2>4, <2>5
<1>8. /\ \A p \in Handler : floor'[p] <= head'
      /\ \A p \in Handler : pc'[p] = "storing" => local'[p].head \in Nat /\ local'[p].head >= floor'[p]
      /\ \A p \in Handler : pc'[p] = "judging" => gateway'.head \in Nat /\ gateway'.head >= oldest'[p]
      /\ \A p \in Handler : pc'[p] # "ended" => status'[p] # 200
  BY <1>1, <1>2
<1>9. PolicyLag'
  <2>1. \A p \in Handler : Ask(p)' = Ask(p)
    BY <1>1 DEF Ask, workload
  <2>2. status'[h] = 200 => Ask(h).path = "/healthz"
    <3>1. Turned(Ask(h)) = 200 => Ask(h).path = "/healthz"
      BY TurnedAway, Zenon
    <3> QED BY <1>1, <3>1
  <2> QED BY <1>1, <2>1, <2>2 DEF PolicyLag
<1> QED BY <1>1, <1>5, <1>7, <1>8, <1>9

LEMMA HeadsNext ==
  ASSUME HeadsInv, [Next]_vars
  PROVE  HeadsInv'
<1>1. CASE ApprovePosture
  <2>1. /\ head' = head + 1
        /\ UNCHANGED <<session, gateway, local, status, judged, pc, floor, oldest>>
    BY <1>1 DEF ApprovePosture, service
  <2>2. PolicyLag' = PolicyLag /\ InFlight' = InFlight
    BY <2>1 DEF PolicyLag, Ask, workload, InFlight
  <2> QED BY <2>1, <2>2 DEF HeadsInv
<1>2. CASE HaltOrResume \/ UNCHANGED vars
  <2>1. UNCHANGED <<session, head, gateway, local, status, judged, pc, floor, oldest>>
    BY <1>2 DEF HaltOrResume, vars, service
  <2>2. PolicyLag' = PolicyLag /\ InFlight' = InFlight
    BY <2>1 DEF PolicyLag, Ask, workload, InFlight
  <2> QED BY <2>1, <2>2 DEF HeadsInv
<1> QED BY <1>1, <1>2, HeadsArrive, HeadsStep DEF Next

(* However many requests overlap, and whichever thread stores its gateway   *)
(* last, a permitted call was judged by a posture no older than the head    *)
(* that the oldest request in flight at its arrival found                  *)
(* (mcp_service.py:259).                                                   *)
THEOREM PostureLagBounded == Spec => []PolicyLag
<1>1. HeadsInv => PolicyLag
  BY DEF HeadsInv
<1> QED BY <1>1, HeadsInit, HeadsNext, PTL DEF Spec
-----------------------------------------------------------------------------
(* The safety half of HaltStops: no call or response that came while the    *)
(* service was halted, and has been halted since, is let through            *)
(* (mcp_service.py:208, 236).                                              *)
HaltRefuses ==
  \A h \in Handler :
    barred[h] /\ Ask(h).path \in {"/v1/mcp/review", "/v1/mcp/response"} => status[h] # 200

(* Such a request is before the check of the halt file, or answered.        *)
BarredInv ==
  /\ DOMAIN barred = Handler /\ DOMAIN pc = Handler /\ DOMAIN status = Handler
  /\ \A h \in Handler : barred[h] => halt.halted
  /\ \A h \in Handler :
       barred[h] /\ Ask(h).path \in {"/v1/mcp/review", "/v1/mcp/response"} =>
         pc[h] \in {"checking", "ended"} /\ status[h] # 200

LEMMA BarredInit == Init => BarredInv
BY DEF Init, BarredInv

LEMMA BarredNext ==
  ASSUME BarredInv, [Next]_vars
  PROVE  BarredInv'
<1> USE DEF BarredInv
<1>1. ASSUME NEW h \in Handler, Arrive(h)
      PROVE  BarredInv'
  <2>1. \A p \in Handler : Ask(p)' = Ask(p)
    BY <1>1 DEF Arrive, Ask, workload
  <2>2. \A p \in Handler \ {h} : pc'[p] = pc[p] /\ status'[p] = status[p] /\ barred'[p] = barred[p]
    BY <1>1 DEF Arrive, Goes, Ends
  <2>3. Turned(Ask(h)) = 200 => Ask(h).path = "/healthz"
    BY TurnedAway, Zenon
  <2>4. /\ halt' = halt /\ barred'[h] = halt.halted /\ status'[h] = Turned(Ask(h))
        /\ pc'[h] \in {"ended", "reviewing", "checking"}
        /\ pc'[h] = "reviewing" => Ask(h).path = "/v1/mcp/discovery"
    BY <1>1 DEF Arrive, Goes, Ends, haltVars, IsDiscovery
  <2>5. DOMAIN barred' = Handler /\ DOMAIN pc' = Handler /\ DOMAIN status' = Handler
    BY <1>1 DEF Arrive, Goes, Ends
  <2> QED BY <2>1, <2>2, <2>3, <2>4, <2>5
<1>2. ASSUME NEW h \in Handler, Step(h)
      PROVE  BarredInv'
  <2>1. /\ UNCHANGED <<session, halt, barred>>
        /\ \A p \in Handler \ {h} : pc'[p] = pc[p] /\ status'[p] = status[p]
        /\ DOMAIN pc' = Handler /\ DOMAIN status' = Handler
    BY <1>2 DEF Step, ReviewDiscovery, ReadRegistrations, AppendRegistrations, CheckHalt, Judge,
       Collect, LoadPolicy, LoadFails, Store, Goes, Ends, Unwatched, service, haltVars
  <2>2. \A p \in Handler : Ask(p)' = Ask(p)
    BY <2>1 DEF Ask, workload
  <2>3. pc[h] = "checking" => pc'[h] = (IF halt.halted THEN "ended" ELSE "collecting")
                                /\ status'[h] = (IF halt.halted THEN 403 ELSE 0)
    BY <1>2 DEF Step, ReviewDiscovery, ReadRegistrations, AppendRegistrations, CheckHalt, Judge,
       Collect, LoadPolicy, LoadFails, Store, Goes, Ends
  <2>4. pc[h] # "ended"
    BY <1>2 DEF Step, ReviewDiscovery, ReadRegistrations, AppendRegistrations, CheckHalt, Judge,
       Collect, LoadPolicy, LoadFails, Store, Goes
  <2> QED BY <2>1, <2>2, <2>3, <2>4
<1>3. CASE HaltOrResume
  <2>1. /\ UNCHANGED <<session, pc, status>>
        /\ barred' = [h \in Handler |-> barred[h] /\ halt'.halted]
    BY <1>3 DEF HaltOrResume, service
  <2>2. \A h \in Handler : Ask(h)' = Ask(h)
    BY <2>1 DEF Ask, workload
  <2>3. \A h \in Handler : barred'[h] <=> barred[h] /\ halt'.halted
    BY <2>1
  <2> QED BY <2>1, <2>2, <2>3
<1>4. CASE ApprovePosture \/ UNCHANGED vars
  <2>1. UNCHANGED <<session, pc, status, barred, halt>>
    BY <1>4 DEF ApprovePosture, vars, service, haltVars
  <2>2. \A h \in Handler : Ask(h)' = Ask(h)
    BY <2>1 DEF Ask, workload
  <2> QED BY <2>1, <2>2
<1> QED BY <1>1, <1>2, <1>3, <1>4 DEF Next

(* A halt holds for every request that comes while it is in force, for any  *)
(* number of handlers and operators whose commands overlap them: none is    *)
(* answered 200 before the service resumes (mcp_service.py:208, 236).      *)
THEOREM HaltedCallsRefused == Spec => []HaltRefuses
<1>1. BarredInv => HaltRefuses
  BY DEF BarredInv, HaltRefuses
<1> QED BY <1>1, BarredInit, BarredNext, PTL DEF Spec

-----------------------------------------------------------------------------
(* Trust.  A registration stands in a sequence when the last entry for its  *)
(* tool is the same manifest: the gateway built from it pins that one.      *)
Stands(r, s) ==
  \E i \in DOMAIN s : /\ Fingerprint(s[i]) = Fingerprint(r)
                      /\ \A k \in DOMAIN s : Key(s[k]) = Key(r) => k <= i

Distinct(t) == \A i, j \in DOMAIN t : Key(t[i]) = Key(t[j]) => i = j

(* What a discovery is about to trust names a tool once, and agrees with    *)
(* everything acknowledged.                                                *)
Agrees(h) ==
  /\ Distinct(New(h))
  /\ \A r \in acked, i \in DOMAIN New(h) :
       Key(New(h)[i]) = Key(r) => Fingerprint(New(h)[i]) = Fingerprint(r)

(* While no discovery shares the service, what a thread has read is still   *)
(* so, and what a discovery has appended stands.                           *)
Ready(h) ==
  /\ pc[h] \in {"trusting", "appending"} => Agrees(h)
  /\ pc[h] \in {"appending", "loading", "storing"} => local[h].pinned = registrations
  /\ pc[h] \in {"collecting", "loading", "storing"} /\ IsDiscovery(h) =>
       \A i \in DOMAIN New(h) : Stands(New(h)[i], registrations)

Underway(h) ==
  /\ h \in DOMAIN workload.ask /\ Turned(Ask(h)) = 0
  /\ pc[h] \in {"reviewing", "trusting", "appending"} => IsDiscovery(h)
  /\ pc[h] \in {"checking", "judging"} => ~IsDiscovery(h)

TrustInv ==
  /\ session \in DOMAIN Workload
  /\ pc \in [Handler -> {"idle", "reviewing", "trusting", "appending", "checking", "collecting",
                         "loading", "storing", "judging", "ended"}]
  /\ DOMAIN local = Handler /\ \A h \in Handler : DOMAIN local[h] = {"pinned", "head"}
  /\ IsSequence(registrations)
  /\ \A h \in InFlight : Underway(h)
  /\ \A h, p \in InFlight : IsDiscovery(h) => p = h
  /\ \A r \in acked : Stands(r, registrations) /\ Stands(r, gateway.pinned)
  /\ \A h \in Handler : Ready(h)

SerialInv == workload.serial => TrustInv

LEMMA SameKey ==
  ASSUME NEW r, NEW s, Fingerprint(r) = Fingerprint(s)
  PROVE  Key(r) = Key(s)
BY DEF Fingerprint, Key

LEMMA FunctionIsSequence ==
  ASSUME NEW S, NEW n \in Nat, NEW f \in [1 .. n -> S]
  PROVE  f \in Seq(S)
OBVIOUS

LEMMA SequenceOfItsOwn ==
  ASSUME NEW S, NEW s \in Seq(S)
  PROVE  IsSequence(s)
<1>1. s \in [1 .. Len(s) -> S] /\ Len(s) \in Nat /\ DOMAIN s = 1 .. Len(s)
  OBVIOUS
<1>2. s = [i \in 1 .. Len(s) |-> s[i]]
  BY <1>1
<1>3. \A i \in 1 .. Len(s) : s[i] \in {s[j] : j \in DOMAIN s}
  BY <1>1
<1>4. s \in [1 .. Len(s) -> {s[j] : j \in DOMAIN s}]
  BY <1>2, <1>3
<1> QED BY <1>1, <1>4, FunctionIsSequence DEF IsSequence

LEMMA NewIsSequence ==
  ASSUME NEW h, IsSequence(Ask(h).descriptors)
  PROVE  /\ DOMAIN New(h) = DOMAIN Ask(h).descriptors
         /\ IsSequence(New(h))
<1> DEFINE d == Ask(h).descriptors
<1>1. d \in Seq({d[i] : i \in DOMAIN d})
  BY DEF IsSequence
<1>2. Len(d) \in Nat /\ DOMAIN d = 1 .. Len(d)
  BY <1>1
<1>3. DOMAIN New(h) = 1 .. Len(d)
  BY <1>2 DEF New
<1> DEFINE S == {Registration(d[i]) : i \in DOMAIN d}
<1>4. New(h) \in [1 .. Len(d) -> S]
  BY <1>2 DEF New
<1>5. New(h) \in Seq(S)
  BY <1>2, <1>4, FunctionIsSequence
<1> QED BY <1>2, <1>3, <1>5, SequenceOfItsOwn

LEMMA Appended ==
  ASSUME NEW s, NEW t, IsSequence(s), IsSequence(t)
  PROVE  /\ IsSequence(s \o t)
         /\ Len(s) \in Nat /\ DOMAIN s = 1 .. Len(s)
         /\ Len(t) \in Nat /\ DOMAIN t = 1 .. Len(t)
         /\ DOMAIN (s \o t) = 1 .. (Len(s) + Len(t))
         /\ \A i \in 1 .. Len(s) : (s \o t)[i] = s[i]
         /\ \A i \in 1 .. Len(t) : (s \o t)[Len(s) + i] = t[i]
         /\ \A k \in DOMAIN (s \o t) : k \in DOMAIN s \/ \E j \in DOMAIN t : k = Len(s) + j
<1> DEFINE A == {s[i] : i \in DOMAIN s}
           B == {t[i] : i \in DOMAIN t}
           u == s \o t
<1>1. s \in Seq(A) /\ t \in Seq(B)
  BY DEF IsSequence
<1>2. s \in Seq(A \cup B) /\ t \in Seq(A \cup B)
  BY <1>1
<1>3. u \in Seq(A \cup B) /\ Len(u) = Len(s) + Len(t)
  BY <1>2
<1>4. /\ Len(s) \in Nat /\ DOMAIN s = 1 .. Len(s)
      /\ Len(t) \in Nat /\ DOMAIN t = 1 .. Len(t)
      /\ DOMAIN u = 1 .. (Len(s) + Len(t))
  BY <1>1, <1>3
<1>5. \A i \in 1 .. Len(s) : u[i] = s[i]
  BY <1>2, <1>4
<1>6. \A i \in 1 .. Len(t) : u[Len(s) + i] = t[i]
  BY <1>2, <1>4
<1>7. \A k \in DOMAIN u : k \in DOMAIN s \/ \E j \in DOMAIN t : k = Len(s) + j
  <2> TAKE k \in DOMAIN u
  <2>1. CASE k <= Len(s)
    BY <1>4, <2>1
  <2>2. CASE k > Len(s)
    <3>1. k - Len(s) \in DOMAIN t /\ k = Len(s) + (k - Len(s))
      BY <1>4, <2>2
    <3> QED BY <3>1
  <2> QED BY <1>4, <2>1, <2>2
<1>8. IsSequence(u)
  BY <1>3, SequenceOfItsOwn
<1> QED BY <1>4, <1>5, <1>6, <1>7, <1>8

(* Appending what agrees with a manifest leaves it standing, and what is     *)
(* appended stands.                                                        *)
LEMMA StandsStill ==
  ASSUME NEW s, NEW t, IsSequence(s), IsSequence(t), Distinct(t), NEW r, Stands(r, s),
         \A i \in DOMAIN t : Key(t[i]) = Key(r) => Fingerprint(t[i]) = Fingerprint(r)
  PROVE  Stands(r, s \o t)
<1> DEFINE u == s \o t
<1>1. CASE \E i \in DOMAIN t : Key(t[i]) = Key(r)
  <2>1. PICK i \in DOMAIN t : Key(t[i]) = Key(r)
    BY <1>1
  <2>2. Len(s) + i \in DOMAIN u /\ u[Len(s) + i] = t[i]
    BY Appended
  <2>3. ASSUME NEW k \in DOMAIN u, Key(u[k]) = Key(r)
        PROVE  k <= Len(s) + i
    <3>1. CASE k \in DOMAIN s
      BY <2>1, <3>1, Appended
    <3>2. ASSUME NEW j \in DOMAIN t, k = Len(s) + j
          PROVE  k <= Len(s) + i
      <4>1. u[k] = t[j]
        BY <3>2, Appended
      <4>2. j = i
        BY <2>1, <2>3, <4>1 DEF Distinct
      <4> QED BY <3>2, <4>2, Appended
    <3> QED BY <3>1, <3>2, Appended
  <2> QED BY <2>1, <2>2, <2>3 DEF Stands
<1>2. CASE \A i \in DOMAIN t : Key(t[i]) # Key(r)
  <2>1. PICK i \in DOMAIN s : /\ Fingerprint(s[i]) = Fingerprint(r)
                             /\ \A k \in DOMAIN s : Key(s[k]) = Key(r) => k <= i
    BY DEF Stands
  <2>2. i \in DOMAIN u /\ u[i] = s[i]
    BY Appended
  <2>3. ASSUME NEW k \in DOMAIN u, Key(u[k]) = Key(r)
        PROVE  k <= i
    <3>1. CASE k \in DOMAIN s
      BY <2>1, <2>3, <3>1, Appended
    <3>2. ASSUME NEW j \in DOMAIN t, k = Len(s) + j
          PROVE  FALSE
      BY <1>2, <2>3, <3>2, Appended
    <3> QED BY <3>1, <3>2, Appended
  <2> QED BY <2>1, <2>2, <2>3 DEF Stands
<1> QED BY <1>1, <1>2

LEMMA AppendedStands ==
  ASSUME NEW s, NEW t, IsSequence(s), IsSequence(t), Distinct(t), NEW i \in DOMAIN t
  PROVE  Stands(t[i], s \o t)
<1> DEFINE u == s \o t
<1>1. Len(s) + i \in DOMAIN u /\ u[Len(s) + i] = t[i]
  BY Appended
<1>2. ASSUME NEW k \in DOMAIN u, Key(u[k]) = Key(t[i])
      PROVE  k <= Len(s) + i
  <2>1. CASE k \in DOMAIN s
    BY <2>1, Appended
  <2>2. ASSUME NEW j \in DOMAIN t, k = Len(s) + j
        PROVE  k <= Len(s) + i
    <3>1. u[k] = t[j]
      BY <2>2, Appended
    <3>2. j = i
      BY <1>2, <3>1 DEF Distinct
    <3> QED BY <2>2, <3>2, Appended
  <2> QED BY <2>1, <2>2, Appended
<1> QED BY <1>1, <1>2 DEF Stands

(* A clean review: what the descriptors say of a pinned tool is what was    *)
(* pinned.                                                                 *)
LEMMA CleanAgrees ==
  ASSUME NEW h, IsSequence(Ask(h).descriptors),
         \A r \in acked : Stands(r, gateway.pinned),
         DiscoveryFindings(Ask(h).server, Ask(h).descriptors, gateway.pinned) = {}
  PROVE  Agrees(h)
<1> DEFINE d == Ask(h).descriptors
           server == Ask(h).server
           P == {r \in Pinned(gateway.pinned) : r.server = server}
<1>1. EnvelopeFindings(server, d) = {} /\ PinFindings(d, P) = {}
  BY DEF DiscoveryFindings
<1>2. \A i, j \in DOMAIN d : ~(i < j /\ Key(d[i]) = Key(d[j]))
  <2>1. "duplicate_tool_descriptor" \notin EnvelopeFindings(server, d)
    BY <1>1
  <2> QED BY <2>1 DEF EnvelopeFindings
<1>3. \A i \in DOMAIN d : d[i].server = server
  <2>1. "server_mismatch" \notin EnvelopeFindings(server, d)
    BY <1>1
  <2> QED BY <2>1 DEF EnvelopeFindings
<1>4. \A i \in DOMAIN d, p \in P :
        Key(d[i]) = Key(p) => Fingerprint(Registration(d[i])) = Fingerprint(p)
  <2>1. "tofu_pin_mismatch" \notin PinFindings(d, P)
    BY <1>1
  <2> QED BY <2>1 DEF PinFindings
<1>5. \A i \in DOMAIN d : New(h)[i] = Registration(d[i]) /\ Key(New(h)[i]) = Key(d[i])
  BY DEF New, Registration, Key
<1>6. DOMAIN New(h) = DOMAIN d /\ DOMAIN d \subseteq Nat
  <2>1. d \in Seq({d[i] : i \in DOMAIN d})
    BY DEF IsSequence
  <2> QED BY <2>1 DEF New
<1>7. Distinct(New(h))
  <2> SUFFICES ASSUME NEW i \in DOMAIN d, NEW j \in DOMAIN d, Key(d[i]) = Key(d[j])
               PROVE  i = j
    BY <1>5, <1>6 DEF Distinct
  <2>1. ~(i < j) /\ ~(j < i)
    BY <1>2
  <2> QED BY <2>1, <1>6
<1>8. ASSUME NEW r \in acked, NEW i \in DOMAIN d, Key(New(h)[i]) = Key(r)
      PROVE  Fingerprint(New(h)[i]) = Fingerprint(r)
  <2> DEFINE g == gateway.pinned
  <2>1. PICK k \in DOMAIN g : /\ Fingerprint(g[k]) = Fingerprint(r)
                             /\ \A j \in DOMAIN g : Key(g[j]) = Key(r) => j <= k
    BY DEF Stands
  <2>2. Key(g[k]) = Key(r)
    BY <2>1, SameKey
  <2>3. g[k] \in Pinned(g)
    BY <2>1, <2>2 DEF Pinned
  <2>4. Key(d[i]) = Key(g[k])
    BY <1>5, <1>8, <2>2
  <2>5. g[k].server = server
    BY <1>3, <2>4 DEF Key
  <2> QED BY <1>4, <1>5, <2>1, <2>3, <2>4, <2>5
<1> QED BY <1>6, <1>7, <1>8 DEF Agrees

LEMMA TrustInit == Init => SerialInv
<1> SUFFICES ASSUME Init PROVE TrustInv
  BY DEF SerialInv
<1>1. registrations = workload.initial /\ gateway.pinned = registrations /\ acked = Pinned(registrations)
  BY DEF Init
<1>2. IsSequence(registrations)
  BY <1>1, WorkloadAssumption DEF Init, workload
<1>3. \A r \in acked : Stands(r, registrations) /\ Stands(r, gateway.pinned)
  BY <1>1 DEF Pinned, Stands
<1>4. InFlight = {} /\ \A h \in Handler : Ready(h)
  BY DEF Init, InFlight, Ready
<1> QED BY <1>2, <1>3, <1>4 DEF Init, TrustInv, Nothing

(* A step that changes neither what is acknowledged nor the registrations,   *)
(* nor any other thread, and moves its own thread along.                    *)
LEMMA TrustKept ==
  ASSUME TrustInv, NEW h \in InFlight, UNCHANGED <<session, registrations, acked>>,
         NEW to \in {"trusting", "appending", "collecting", "loading", "storing", "judging", "ended"},
         pc' = [pc EXCEPT ![h] = to],
         DOMAIN local' = Handler, DOMAIN local'[h] = {"pinned", "head"},
         \A p \in Handler \ {h} : local'[p] = local[p],
         \A r \in acked : Stands(r, gateway'.pinned),
         to \in {"trusting", "appending"} => IsDiscovery(h) /\ Agrees(h),
         to \in {"appending", "loading", "storing"} => local'[h].pinned = registrations,
         to = "judging" => ~IsDiscovery(h),
         to \in {"collecting", "loading", "storing"} /\ IsDiscovery(h) =>
           \A i \in DOMAIN New(h) : Stands(New(h)[i], registrations)
  PROVE  TrustInv'
<1>0. h \in Handler
  BY DEF InFlight
<1>1. \A p : Ask(p)' = Ask(p) /\ IsDiscovery(p)' = IsDiscovery(p) /\ New(p)' = New(p)
  BY DEF Ask, IsDiscovery, New, workload
<1>2. /\ pc'[h] = to /\ \A p \in Handler \ {h} : pc'[p] = pc[p]
      /\ pc' \in [Handler -> {"idle", "reviewing", "trusting", "appending", "checking",
                              "collecting", "loading", "storing", "judging", "ended"}]
  BY <1>0 DEF TrustInv
<1>3. InFlight' \subseteq InFlight
  BY <1>2 DEF InFlight
<1>4. \A p \in InFlight' : Underway(p)'
  BY <1>1, <1>2, <1>3 DEF TrustInv, Underway, InFlight, workload
<1>5. \A p \in Handler : Ready(p)'
  <2>1. \A p : Agrees(p)' = Agrees(p)
    BY <1>1 DEF Agrees
  <2>2. Ready(h)'
    BY <1>1, <1>2, <2>1 DEF Ready
  <2>3. ASSUME NEW p \in Handler \ {h}
        PROVE  Ready(p)'
    <3>1. Ready(p)
      BY DEF TrustInv
    <3> QED BY <1>1, <1>2, <2>1, <2>3, <3>1 DEF Ready
  <2> QED BY <2>2, <2>3
<1>6. \A r \in acked' : Stands(r, registrations') /\ Stands(r, gateway'.pinned)
  BY DEF TrustInv
<1>7. \A p, q \in InFlight' : IsDiscovery(p)' => q = p
  BY <1>1, <1>3 DEF TrustInv
<1>8. /\ session' \in DOMAIN Workload /\ IsSequence(registrations')
      /\ \A p \in Handler : DOMAIN local'[p] = {"pinned", "head"}
  BY DEF TrustInv
<1> QED BY <1>2, <1>4, <1>5, <1>6, <1>7, <1>8 DEF TrustInv

(* A discovery is alone: when it appends, or is acknowledged, no other      *)
(* thread has read anything.                                               *)
LEMMA DiscoveryAlone ==
  ASSUME TrustInv, NEW h \in InFlight, IsDiscovery(h),
         UNCHANGED session, NEW to \in {"collecting", "ended"}, pc' = [pc EXCEPT ![h] = to],
         IsSequence(registrations'), UNCHANGED local,
         \A r \in acked' : Stands(r, registrations') /\ Stands(r, gateway'.pinned),
         to = "collecting" => \A i \in DOMAIN New(h) : Stands(New(h)[i], registrations')
  PROVE  TrustInv'
<1>0. h \in Handler
  BY DEF InFlight
<1>1. \A p : Ask(p)' = Ask(p) /\ IsDiscovery(p)' = IsDiscovery(p) /\ New(p)' = New(p)
  BY DEF Ask, IsDiscovery, New, workload
<1>2. /\ pc'[h] = to /\ \A p \in Handler \ {h} : pc'[p] = pc[p]
      /\ pc' \in [Handler -> {"idle", "reviewing", "trusting", "appending", "checking",
                              "collecting", "loading", "storing", "judging", "ended"}]
  BY <1>0 DEF TrustInv
<1>3. \A p \in InFlight : p = h
  BY DEF TrustInv
<1>4. InFlight' \subseteq {h}
  BY <1>2, <1>3 DEF InFlight
<1>5. \A p \in InFlight' : Underway(p)'
  BY <1>1, <1>2, <1>4 DEF TrustInv, Underway, workload
<1>6. \A p \in Handler : Ready(p)'
  <2>1. Ready(h)'
    BY <1>1, <1>2 DEF Ready
  <2>2. ASSUME NEW p \in Handler \ {h}
        PROVE  Ready(p)'
    <3>1. pc'[p] \in {"idle", "ended"}
      BY <1>2, <1>3 DEF InFlight
    <3> QED BY <3>1 DEF Ready
  <2> QED BY <2>1, <2>2
<1>7. \A p, q \in InFlight' : IsDiscovery(p)' => q = p
  BY <1>4
<1> QED BY <1>2, <1>5, <1>6, <1>7 DEF TrustInv

LEMMA TrustStep ==
  ASSUME TrustInv, NEW h \in Handler, Step(h)
  PROVE  TrustInv'
<1> USE DEF Goes, Ends, Unwatched
<1>0. session' = session
  BY DEF Step, ReviewDiscovery, ReadRegistrations, AppendRegistrations, CheckHalt, Judge,
         Collect, LoadPolicy, LoadFails, Store
<1>a. h \in InFlight
  BY DEF Step, ReviewDiscovery, ReadRegistrations, AppendRegistrations, CheckHalt, Judge,
         Collect, LoadPolicy, LoadFails, Store, InFlight
<1>b. Underway(h) /\ Ready(h) /\ DOMAIN local = Handler /\ DOMAIN local[h] = {"pinned", "head"}
  BY <1>a DEF TrustInv
<1>c. \A r \in acked : Stands(r, registrations) /\ Stands(r, gateway.pinned)
  BY DEF TrustInv
<1>d. IsDiscovery(h) => IsSequence(Ask(h).descriptors)
  <2>1. session \in DOMAIN Workload
    BY DEF TrustInv
  <2> QED BY <1>b, <2>1, WorkloadAssumption DEF Underway, Ask, IsDiscovery, workload
<1>1. CASE ReviewDiscovery(h)
  <2>1. IsDiscovery(h) /\ UNCHANGED <<registrations, gateway, local, acked>>
    BY <1>1, <1>b DEF ReviewDiscovery, Underway
  <2>2. CASE DiscoveryFindings(Ask(h).server, Ask(h).descriptors, gateway.pinned) = {}
    <3>1. pc' = [pc EXCEPT ![h] = "trusting"]
      BY <1>1, <2>2 DEF ReviewDiscovery
    <3>2. Agrees(h)
      BY <1>c, <1>d, <2>1, <2>2, CleanAgrees
    <3> QED BY <1>0, <1>a, <1>b, <1>c, <2>1, <3>1, <3>2, TrustKept
  <2>3. CASE DiscoveryFindings(Ask(h).server, Ask(h).descriptors, gateway.pinned) # {}
    <3>1. pc' = [pc EXCEPT ![h] = "ended"]
      BY <1>1, <2>3 DEF ReviewDiscovery
    <3> QED BY <1>0, <1>a, <1>b, <1>c, <2>1, <3>1, TrustKept
  <2> QED BY <2>2, <2>3
<1>2. CASE ReadRegistrations(h)
  <2>1. /\ pc' = [pc EXCEPT ![h] = "appending"] /\ IsDiscovery(h) /\ Agrees(h)
        /\ UNCHANGED <<registrations, gateway, acked>>
    BY <1>2, <1>b DEF ReadRegistrations, Underway, Ready
  <2>2. /\ DOMAIN local' = Handler /\ DOMAIN local'[h] = {"pinned", "head"}
        /\ local'[h].pinned = registrations /\ \A p \in Handler \ {h} : local'[p] = local[p]
    BY <1>2, <1>b DEF ReadRegistrations
  <2> QED BY <1>0, <1>a, <1>c, <2>1, <2>2, TrustKept
<1>3. CASE AppendRegistrations(h)
  <2>1. /\ pc' = [pc EXCEPT ![h] = "collecting"] /\ IsDiscovery(h) /\ Agrees(h)
        /\ registrations' = registrations \o New(h) /\ UNCHANGED <<gateway, local, acked>>
    BY <1>3, <1>b DEF AppendRegistrations, Underway, Ready
  <2>2. IsSequence(registrations) /\ IsSequence(New(h)) /\ Distinct(New(h))
    BY <1>d, <2>1, NewIsSequence DEF TrustInv, Agrees
  <2>3. IsSequence(registrations')
    BY <2>1, <2>2, Appended
  <2>4. \A r \in acked : Stands(r, registrations')
    BY <1>c, <2>1, <2>2, StandsStill DEF Agrees
  <2>5. \A i \in DOMAIN New(h) : Stands(New(h)[i], registrations')
    BY <2>1, <2>2, AppendedStands
  <2> QED BY <1>0, <1>a, <1>c, <2>1, <2>3, <2>4, <2>5, DiscoveryAlone
<1>4. CASE CheckHalt(h)
  <2>1. PICK to \in {"collecting", "ended"} : pc' = [pc EXCEPT ![h] = to]
    BY <1>4 DEF CheckHalt
  <2>2. ~IsDiscovery(h) /\ UNCHANGED <<registrations, gateway, local, acked>>
    BY <1>4, <1>b DEF CheckHalt, Underway
  <2> QED BY <1>0, <1>a, <1>b, <1>c, <2>1, <2>2, TrustKept
<1>5. CASE Judge(h) \/ LoadFails(h)
  <2>1. /\ pc' = [pc EXCEPT ![h] = "ended"]
        /\ UNCHANGED <<registrations, gateway, local, acked>>
    BY <1>5 DEF Judge, LoadFails, service
  <2> QED BY <1>0, <1>a, <1>b, <1>c, <2>1, TrustKept
<1>6. CASE Collect(h)
  <2>1. /\ pc' = [pc EXCEPT ![h] = "loading"]
        /\ UNCHANGED <<registrations, gateway, acked>>
        /\ IsDiscovery(h) => \A i \in DOMAIN New(h) : Stands(New(h)[i], registrations)
    BY <1>6, <1>b DEF Collect, Ready
  <2>2. /\ DOMAIN local' = Handler /\ DOMAIN local'[h] = {"pinned", "head"}
        /\ local'[h].pinned = registrations /\ \A p \in Handler \ {h} : local'[p] = local[p]
    BY <1>6, <1>b DEF Collect
  <2> QED BY <1>0, <1>a, <1>c, <2>1, <2>2, TrustKept
<1>7. CASE LoadPolicy(h)
  <2>1. /\ pc' = [pc EXCEPT ![h] = "storing"]
        /\ UNCHANGED <<registrations, gateway, acked>> /\ local[h].pinned = registrations
        /\ IsDiscovery(h) => \A i \in DOMAIN New(h) : Stands(New(h)[i], registrations)
    BY <1>7, <1>b DEF LoadPolicy, Ready
  <2>2. /\ DOMAIN local' = Handler /\ DOMAIN local'[h] = {"pinned", "head"}
        /\ local'[h].pinned = local[h].pinned /\ \A p \in Handler \ {h} : local'[p] = local[p]
    BY <1>7, <1>b DEF LoadPolicy
  <2> QED BY <1>0, <1>a, <1>c, <2>1, <2>2, TrustKept
<1>8. CASE Store(h)
  <2>1. /\ gateway' = local[h] /\ local[h].pinned = registrations
        /\ UNCHANGED <<registrations, local>>
    BY <1>8, <1>b DEF Store, Ready
  <2>2. CASE IsDiscovery(h)
    <3>1. /\ pc' = [pc EXCEPT ![h] = "ended"]
          /\ acked' = acked \cup {New(h)[i] : i \in DOMAIN New(h)}
          /\ \A i \in DOMAIN New(h) : Stands(New(h)[i], registrations)
      BY <1>8, <1>b, <2>2 DEF Store, Ready
    <3>2. \A r \in acked' : Stands(r, registrations') /\ Stands(r, gateway'.pinned)
      BY <1>c, <2>1, <3>1
    <3>3. IsSequence(registrations')
      BY <2>1 DEF TrustInv
    <3> QED BY <1>0, <1>a, <2>1, <2>2, <3>1, <3>2, <3>3, DiscoveryAlone
  <2>3. CASE ~IsDiscovery(h)
    <3>1. pc' = [pc EXCEPT ![h] = "judging"] /\ acked' = acked
      BY <1>8, <2>3 DEF Store
    <3>2. \A r \in acked : Stands(r, gateway'.pinned)
      BY <1>c, <2>1
    <3> QED BY <1>0, <1>a, <1>b, <2>1, <2>3, <3>1, <3>2, TrustKept
  <2> QED BY <2>2, <2>3
<1> QED BY <1>1, <1>2, <1>3, <1>4, <1>5, <1>6, <1>7, <1>8 DEF Step

LEMMA TrustArrive ==
  ASSUME TrustInv, workload.serial, NEW h \in Handler, Arrive(h)
  PROVE  TrustInv'
<1>1. \A p : Ask(p)' = Ask(p) /\ IsDiscovery(p)' = IsDiscovery(p) /\ New(p)' = New(p)
  BY DEF Arrive, Ask, IsDiscovery, New, workload
<1>2. /\ h \in DOMAIN workload.ask
      /\ InFlight = {} \/ \A p \in InFlight \cup {h} : ~IsDiscovery(p)
  BY DEF Arrive, MayArrive
<1>3. /\ pc[h] = "idle" /\ \A p \in Handler \ {h} : pc'[p] = pc[p]
      /\ pc'[h] \in {"ended", "reviewing", "checking"}
      /\ pc'[h] # "ended" => Turned(Ask(h)) = 0
      /\ pc'[h] = "reviewing" => IsDiscovery(h)
      /\ pc'[h] = "checking" => ~IsDiscovery(h)
      /\ pc' \in [Handler -> {"idle", "reviewing", "trusting", "appending", "checking",
                              "collecting", "loading", "storing", "judging", "ended"}]
      /\ UNCHANGED <<session, registrations, gateway, local, acked>>
  BY DEF TrustInv, Arrive, Goes
<1>4. InFlight' \subseteq InFlight \cup {h}
  BY <1>3 DEF InFlight
<1>5. \A p \in InFlight' : Underway(p)'
  BY <1>1, <1>2, <1>3, <1>4 DEF TrustInv, Underway, InFlight, workload
<1>6. \A p, q \in InFlight' : IsDiscovery(p)' => q = p
  BY <1>1, <1>2, <1>4
<1>7. \A p \in Handler : Ready(p)'
  <2>1. \A p : Agrees(p)' = Agrees(p)
    BY <1>1, <1>3 DEF Agrees
  <2>2. Ready(h)'
    BY <1>3 DEF Ready
  <2>3. ASSUME NEW p \in Handler \ {h}
        PROVE  Ready(p)'
    <3>1. Ready(p)
      BY DEF TrustInv
    <3> QED BY <1>1, <1>3, <2>1, <2>3, <3>1 DEF Ready
  <2> QED BY <2>2, <2>3
<1> QED BY <1>3, <1>5, <1>6, <1>7 DEF TrustInv

LEMMA TrustNext ==
  ASSUME SerialInv, [Next]_vars
  PROVE  SerialInv'
<1>0. session' = session
  BY DEF Next, Arrive, Step, ReviewDiscovery, ReadRegistrations, AppendRegistrations, CheckHalt,
         Judge, Collect, LoadPolicy, LoadFails, Store, Unwatched, ApprovePosture, HaltOrResume,
         vars
<1> SUFFICES ASSUME workload.serial, TrustInv PROVE TrustInv'
  BY <1>0 DEF SerialInv, workload
<1>1. CASE ApprovePosture \/ HaltOrResume \/ UNCHANGED vars
  <2>1. UNCHANGED <<session, registrations, gateway, local, acked, pc>>
    BY <1>1 DEF ApprovePosture, HaltOrResume, vars, service
  <2>2. \A p : Ask(p)' = Ask(p) /\ IsDiscovery(p)' = IsDiscovery(p) /\ New(p)' = New(p)
    BY <2>1 DEF Ask, IsDiscovery, New, workload
  <2>3. InFlight' = InFlight
    BY <2>1 DEF InFlight
  <2>4. \A p : (Agrees(p)' = Agrees(p)) /\ (Underway(p)' = Underway(p))
    BY <2>1, <2>2 DEF Agrees, Underway, workload
  <2>5. \A p \in Handler : Ready(p)'
    <3> TAKE p \in Handler
    <3>1. Ready(p)
      BY DEF TrustInv
    <3> QED BY <2>1, <2>2, <2>4, <3>1 DEF Ready
  <2> QED BY <2>1, <2>2, <2>3, <2>4, <2>5 DEF TrustInv
<1> QED BY <1>1, TrustArrive, TrustStep DEF Next

(* One discovery at a time keeps the first trust of every tool, for any      *)
(* requests, any tools trusted before, and any number of threads; also when  *)
(* a discovery dies between its append and the refresh of the gateway        *)
(* (mcp_service.py:196).                                                    *)
THEOREM FirstTrustStays == Spec => []TrustStays
<1>1. SerialInv => TrustStays
  <2> SUFFICES ASSUME TrustInv, NEW r \in acked, NEW s \in acked, Key(r) = Key(s)
               PROVE  Fingerprint(r) = Fingerprint(s)
    BY DEF SerialInv, TrustStays, FirstTrust
  <2> DEFINE g == registrations
  <2>1. PICK i \in DOMAIN g : /\ Fingerprint(g[i]) = Fingerprint(r)
                             /\ \A k \in DOMAIN g : Key(g[k]) = Key(r) => k <= i
    BY DEF TrustInv, Stands
  <2>2. PICK j \in DOMAIN g : /\ Fingerprint(g[j]) = Fingerprint(s)
                             /\ \A k \in DOMAIN g : Key(g[k]) = Key(s) => k <= j
    BY DEF TrustInv, Stands
  <2>3. Key(g[i]) = Key(r) /\ Key(g[j]) = Key(s)
    BY <2>1, <2>2, SameKey
  <2>4. DOMAIN g \subseteq Nat
    BY DEF TrustInv, IsSequence
  <2>5. i = j
    BY <2>1, <2>2, <2>3, <2>4
  <2> QED BY <2>1, <2>2, <2>5
<1> QED BY <1>1, TrustInit, TrustNext, PTL DEF Spec

(* ... and every tool acknowledged is pinned in the gateway that serves the  *)
(* next request (mcp_service.py:197).                                       *)
THEOREM AcknowledgedArePinned == Spec => []PinsServed
<1>1. SerialInv => PinsServed
  BY DEF SerialInv, PinsServed, TrustInv, Stands
<1> QED BY <1>1, TrustInit, TrustNext, PTL DEF Spec

-----------------------------------------------------------------------------
(* What a call is judged by.  Every registration that a gateway was, or is  *)
(* about to be, built from was trusted once, however discoveries overlap;   *)
(* and a review answered 200 was permitted by the gateway it was judged by. *)
Entries(s) == {s[i] : i \in DOMAIN s}

(* A thread that works on a discovery has a request to work on. *)
Discovers(h) ==
  IsDiscovery(h) /\ h \in DOMAIN workload.ask /\ Turned(Ask(h)) = 0

Reviewed(h) == pc[h] = "ended" /\ status[h] = 200 /\ Ask(h).path = "/v1/mcp/review"

VettedInv ==
  /\ session \in DOMAIN Workload
  /\ IsSequence(registrations) /\ Entries(registrations) \subseteq vetted
  /\ Entries(gateway.pinned) \subseteq vetted
  /\ \A h \in Handler :
       /\ DOMAIN local[h] = {"pinned", "head"}
       /\ IsSequence(local[h].pinned) /\ Entries(local[h].pinned) \subseteq vetted
       /\ Entries(judged[h].pinned) \subseteq vetted
       /\ pc[h] \in {"reviewing", "trusting", "appending"} => Discovers(h)
       /\ Reviewed(h) => PermitsCall(Ask(h), judged[h], workload)

LEMMA NoneIsSequence == IsSequence(<<>>) /\ Entries(<<>>) = {}
BY DEF IsSequence, Entries

LEMMA AppendedEntries ==
  ASSUME NEW s, NEW t, IsSequence(s), IsSequence(t)
  PROVE  IsSequence(s \o t) /\ Entries(s \o t) \subseteq Entries(s) \cup Entries(t)
<1>1. ASSUME NEW k \in DOMAIN (s \o t)
      PROVE  (s \o t)[k] \in Entries(s) \cup Entries(t)
  <2>1. k \in DOMAIN s \/ \E j \in DOMAIN t : k = Len(s) + j
    BY Appended
  <2>2. CASE k \in DOMAIN s
    BY <2>2, Appended DEF Entries
  <2>3. ASSUME NEW j \in DOMAIN t, k = Len(s) + j
        PROVE  (s \o t)[k] \in Entries(t)
    <3>1. DOMAIN t = 1 .. Len(t) /\ \A i \in 1 .. Len(t) : (s \o t)[Len(s) + i] = t[i]
      BY Appended
    <3> QED BY <2>3, <3>1 DEF Entries
  <2> QED BY <2>1, <2>2, <2>3
<1>2. IsSequence(s \o t)
  BY Appended
<1> QED BY <1>1, <1>2 DEF Entries

LEMMA VettedInit == Init => VettedInv
<1> SUFFICES ASSUME Init PROVE VettedInv
  OBVIOUS
<1>1. IsSequence(registrations)
  BY WorkloadAssumption DEF Init, workload
<1>2. \A h \in Handler : local[h] = Nothing /\ judged[h] = Nothing /\ pc[h] = "idle"
  BY DEF Init
<1>3. Nothing.pinned = <<>> /\ DOMAIN Nothing = {"pinned", "head"}
  BY DEF Nothing
<1>4. vetted = Entries(registrations) /\ gateway.pinned = registrations /\ session \in DOMAIN Workload
  BY DEF Init, Entries
<1> QED BY <1>1, <1>2, <1>3, <1>4, NoneIsSequence DEF VettedInv, Reviewed

(* A step of one thread that trusts at most more, rereads only what was      *)
(* trusted, and answers a review by a gateway that permits it.              *)
LEMMA VettedKept ==
  ASSUME VettedInv, HeadsInv, NEW h \in Handler, UNCHANGED session,
         NEW to, pc' = [pc EXCEPT ![h] = to],
         vetted \subseteq vetted',
         IsSequence(registrations'), Entries(registrations') \subseteq vetted',
         Entries(gateway'.pinned) \subseteq vetted',
         \A p \in Handler \ {h} : local'[p] = local[p] /\ judged'[p] = judged[p] /\ status'[p] = status[p],
         DOMAIN local'[h] = {"pinned", "head"},
         IsSequence(local'[h].pinned), Entries(local'[h].pinned) \subseteq vetted',
         Entries(judged'[h].pinned) \subseteq vetted',
         to \in {"reviewing", "trusting", "appending"} => Discovers(h),
         to = "ended" /\ status'[h] = 200 /\ Ask(h).path = "/v1/mcp/review" =>
           PermitsCall(Ask(h), judged'[h], workload)
  PROVE  VettedInv'
<1>1. workload' = workload /\ \A p : Ask(p)' = Ask(p) /\ Discovers(p)' = Discovers(p)
  BY DEF Ask, Discovers, IsDiscovery, workload
<1>2. pc'[h] = to /\ \A p \in Handler \ {h} : pc'[p] = pc[p]
  BY DEF HeadsInv
<1>3. /\ DOMAIN local'[h] = {"pinned", "head"}
      /\ IsSequence(local'[h].pinned) /\ Entries(local'[h].pinned) \subseteq vetted'
      /\ Entries(judged'[h].pinned) \subseteq vetted'
      /\ pc'[h] \in {"reviewing", "trusting", "appending"} => Discovers(h)
      /\ Reviewed(h)' => PermitsCall(Ask(h), judged'[h], workload)
  BY <1>1, <1>2 DEF Reviewed
<1>4. ASSUME NEW p \in Handler \ {h}
      PROVE  /\ DOMAIN local'[p] = {"pinned", "head"}
             /\ IsSequence(local'[p].pinned) /\ Entries(local'[p].pinned) \subseteq vetted'
             /\ Entries(judged'[p].pinned) \subseteq vetted'
             /\ pc'[p] \in {"reviewing", "trusting", "appending"} => Discovers(p)
             /\ Reviewed(p)' => PermitsCall(Ask(p), judged'[p], workload)
  <2>1. Reviewed(p)' <=> Reviewed(p)
    BY <1>1, <1>2, <1>4 DEF Reviewed
  <2> QED BY <1>2, <1>4, <2>1 DEF VettedInv
<1>5. session' \in DOMAIN Workload
  BY DEF VettedInv
<1> QED BY <1>1, <1>3, <1>4, <1>5 DEF VettedInv

LEMMA VettedStep ==
  ASSUME VettedInv, HeadsInv, NEW h \in Handler, Step(h)
  PROVE  VettedInv'
<1> USE DEF Goes, Ends, Unwatched
<1>0. session' = session
  BY DEF Step, ReviewDiscovery, ReadRegistrations, AppendRegistrations, CheckHalt, Judge,
         Collect, LoadPolicy, LoadFails, Store
<1>a. /\ IsSequence(registrations) /\ Entries(registrations) \subseteq vetted
      /\ Entries(gateway.pinned) \subseteq vetted
      /\ DOMAIN local[h] = {"pinned", "head"}
      /\ IsSequence(local[h].pinned) /\ Entries(local[h].pinned) \subseteq vetted
      /\ Entries(judged[h].pinned) \subseteq vetted
      /\ pc[h] \in {"reviewing", "trusting", "appending"} => Discovers(h)
  BY DEF VettedInv
<1>b. DOMAIN local = Handler /\ DOMAIN status = Handler /\ DOMAIN judged = Handler
      /\ (pc[h] # "ended" => status[h] # 200)
  BY DEF HeadsInv
<1>1. CASE ReviewDiscovery(h)
  <2>1. PICK to \in {"trusting", "ended"} : pc' = [pc EXCEPT ![h] = to]
    BY <1>1 DEF ReviewDiscovery
  <2>2. UNCHANGED <<registrations, gateway, local, vetted, judged>> /\ Discovers(h)
    BY <1>1, <1>a DEF ReviewDiscovery
  <2>3. status'[h] # 200 /\ \A p \in Handler \ {h} : status'[p] = status[p]
    BY <1>1, <1>b DEF ReviewDiscovery
  <2> QED BY <1>0, <1>a, <2>1, <2>2, <2>3, VettedKept
<1>2. CASE ReadRegistrations(h)
  <2>1. /\ pc' = [pc EXCEPT ![h] = "appending"] /\ Discovers(h)
        /\ UNCHANGED <<registrations, gateway, status, vetted, judged>>
    BY <1>2, <1>a DEF ReadRegistrations
  <2>2. /\ DOMAIN local'[h] = {"pinned", "head"} /\ local'[h].pinned = registrations
        /\ \A p \in Handler \ {h} : local'[p] = local[p]
    BY <1>2, <1>a, <1>b DEF ReadRegistrations
  <2> QED BY <1>0, <1>a, <2>1, <2>2, VettedKept
<1>3. CASE AppendRegistrations(h)
  <2>1. /\ pc' = [pc EXCEPT ![h] = "collecting"] /\ Discovers(h)
        /\ registrations' = local[h].pinned \o New(h)
        /\ vetted' = vetted \cup Entries(New(h))
        /\ UNCHANGED <<gateway, local, status, judged>>
    BY <1>3, <1>a DEF AppendRegistrations, Entries
  <2>2. IsSequence(New(h))
    <3>1. session \in DOMAIN Workload
      BY DEF VettedInv
    <3>2. IsSequence(Ask(h).descriptors)
      BY <2>1, <3>1, WorkloadAssumption DEF Discovers, IsDiscovery, Ask, workload
    <3> QED BY <3>2, NewIsSequence
  <2>3. IsSequence(registrations') /\ Entries(registrations') \subseteq vetted'
    <3>1. /\ IsSequence(local[h].pinned \o New(h))
          /\ Entries(local[h].pinned \o New(h)) \subseteq Entries(local[h].pinned) \cup Entries(New(h))
      BY <1>a, <2>2, AppendedEntries
    <3> QED BY <1>a, <2>1, <3>1
  <2>4. vetted \subseteq vetted'
    BY <2>1
  <2> QED BY <1>0, <1>a, <2>1, <2>3, <2>4, VettedKept
<1>4. CASE CheckHalt(h)
  <2>1. PICK to \in {"collecting", "ended"} : pc' = [pc EXCEPT ![h] = to]
    BY <1>4 DEF CheckHalt
  <2>2. UNCHANGED <<registrations, gateway, local, vetted, judged>>
    BY <1>4 DEF CheckHalt
  <2>3. status'[h] # 200 /\ \A p \in Handler \ {h} : status'[p] = status[p]
    BY <1>4, <1>b DEF CheckHalt
  <2> QED BY <1>0, <1>a, <2>1, <2>2, <2>3, VettedKept
<1>5. CASE Judge(h)
  <2>1. /\ pc' = [pc EXCEPT ![h] = "ended"]
        /\ UNCHANGED <<registrations, gateway, local, vetted>>
        /\ judged'[h] = gateway
        /\ \A p \in Handler \ {h} : judged'[p] = judged[p] /\ status'[p] = status[p]
    BY <1>5, <1>b DEF Judge
  <2>2. ASSUME status'[h] = 200, Ask(h).path = "/v1/mcp/review"
        PROVE  PermitsCall(Ask(h), gateway, workload)
    BY <1>5, <1>b, <2>2 DEF Judge
  <2> QED BY <1>0, <1>a, <2>1, <2>2, VettedKept
<1>6. CASE Collect(h)
  <2>1. /\ pc' = [pc EXCEPT ![h] = "loading"]
        /\ UNCHANGED <<registrations, gateway, status, vetted, judged>>
    BY <1>6 DEF Collect
  <2>2. /\ DOMAIN local'[h] = {"pinned", "head"} /\ local'[h].pinned = registrations
        /\ \A p \in Handler \ {h} : local'[p] = local[p]
    BY <1>6, <1>a, <1>b DEF Collect
  <2> QED BY <1>0, <1>a, <2>1, <2>2, VettedKept
<1>7. CASE LoadPolicy(h)
  <2>1. /\ pc' = [pc EXCEPT ![h] = "storing"]
        /\ UNCHANGED <<registrations, gateway, status, vetted, judged>>
    BY <1>7 DEF LoadPolicy
  <2>2. /\ DOMAIN local'[h] = {"pinned", "head"} /\ local'[h].pinned = local[h].pinned
        /\ \A p \in Handler \ {h} : local'[p] = local[p]
    BY <1>7, <1>a, <1>b DEF LoadPolicy
  <2> QED BY <1>0, <1>a, <2>1, <2>2, VettedKept
<1>8. CASE LoadFails(h)
  <2>1. /\ pc' = [pc EXCEPT ![h] = "ended"] /\ status[h] # 200
        /\ UNCHANGED <<registrations, gateway, local, status, vetted, judged>>
    BY <1>8, <1>b DEF LoadFails, service
  <2> QED BY <1>0, <1>a, <2>1, VettedKept
<1>9. CASE Store(h)
  <2>1. PICK to \in {"ended", "judging"} : pc' = [pc EXCEPT ![h] = to]
    BY <1>9 DEF Store
  <2>2. gateway' = local[h] /\ UNCHANGED <<registrations, local, vetted, judged>>
    BY <1>9 DEF Store
  <2>3. /\ status'[h] = 200 => Ask(h).path # "/v1/mcp/review"
        /\ \A p \in Handler \ {h} : status'[p] = status[p]
    BY <1>9, <1>b DEF Store, IsDiscovery
  <2> QED BY <1>0, <1>a, <2>1, <2>2, <2>3, VettedKept
<1> QED BY <1>1, <1>2, <1>3, <1>4, <1>5, <1>6, <1>7, <1>8, <1>9 DEF Step

LEMMA VettedNext == VettedInv /\ HeadsInv /\ [Next]_vars => VettedInv'
<1> SUFFICES ASSUME VettedInv, HeadsInv, [Next]_vars PROVE VettedInv'
  OBVIOUS
<1>1. ASSUME NEW h \in Handler, Arrive(h)
      PROVE  VettedInv'
  <2>1. PICK to \in {"ended", "reviewing", "checking"} :
          /\ pc' = [pc EXCEPT ![h] = to]
          /\ to = "reviewing" => Turned(Ask(h)) = 0 /\ IsDiscovery(h) /\ h \in DOMAIN workload.ask
    BY <1>1 DEF Arrive, Goes, MayArrive
  <2>2. UNCHANGED <<session, registrations, gateway, local, vetted, judged>>
    BY <1>1 DEF Arrive
  <2>3. /\ status'[h] = 200 => Ask(h).path # "/v1/mcp/review"
        /\ \A p \in Handler \ {h} : status'[p] = status[p]
    BY <1>1, TurnedAway DEF Arrive, Ends, HeadsInv
  <2>4. /\ IsSequence(registrations) /\ Entries(registrations) \subseteq vetted
        /\ Entries(gateway.pinned) \subseteq vetted
        /\ DOMAIN local[h] = {"pinned", "head"}
        /\ IsSequence(local[h].pinned) /\ Entries(local[h].pinned) \subseteq vetted
        /\ Entries(judged[h].pinned) \subseteq vetted
    BY DEF VettedInv
  <2> QED BY <2>1, <2>2, <2>3, <2>4, VettedKept DEF Discovers
<1>2. CASE ApprovePosture \/ HaltOrResume \/ UNCHANGED vars
  <2>1. UNCHANGED <<session, registrations, gateway, local, vetted, judged, pc, status>>
    BY <1>2 DEF ApprovePosture, HaltOrResume, vars, service
  <2> QED BY <2>1 DEF VettedInv, Reviewed, Discovers, IsDiscovery, Ask, workload
<1> QED BY <1>1, <1>2, VettedStep DEF Next

-----------------------------------------------------------------------------
(* What a permission says of a call.  Checks that return early answer        *)
(* nothing only if none of them holds, and else what one of them says.      *)
LEMMA FirstOfAnswers ==
  ASSUME NEW checks, DOMAIN checks \subseteq Nat,
         \A i \in DOMAIN checks : checks[i][2].score = 90
  PROVE  /\ FirstOf(checks) = Silence \/ FirstOf(checks).score = 90
         /\ FirstOf(checks) = Silence => \A i \in DOMAIN checks : ~checks[i][1]
<1> DEFINE hits == {i \in DOMAIN checks : checks[i][1]}
<1>1. CASE hits = {}
  <2>1. FirstOf(checks) = Silence
    BY <1>1 DEF FirstOf
  <2> QED BY <1>1, <2>1
<1>2. CASE hits # {}
  <2>1. hits \in SUBSET Nat
    OBVIOUS
  <2>2. Min(hits) \in hits
    BY <1>2, <2>1, MinIsLeast
  <2>3. FirstOf(checks) = checks[Min(hits)][2]
    BY <1>2 DEF FirstOf
  <2>4. FirstOf(checks).score = 90
    BY <2>2, <2>3
  <2>5. Silence.score = -1
    BY DEF Silence, Raise
  <2> QED BY <2>4, <2>5
<1> QED BY <1>1, <1>2

(* An objection on the action plane is never permitted: it blocks, or, where *)
(* the user's own word softens it, a human is asked (fusion.py:343).        *)
LEMMA ObjectionBars ==
  ASSUME NEW posture, NEW rep, NEW provenance, NEW d \in CallDetectors,
         GatewayPlane[d] = "action", rep[d].score = 90, posture.threshold["action"] <= 90
  PROVE  ~Permits(F(posture)!Fuse(CallDetectors, rep, provenance))
<1>1. d \in F(posture)!Objectors(CallDetectors, rep)
  BY DEF F!Objectors, F!Signals, F!NoSignal
<1>2. CASE F(posture)!Softened(CallDetectors, rep, provenance)
  BY <1>1, <1>2 DEF Permits, F!Fuse
<1>3. CASE ~F(posture)!Softened(CallDetectors, rep, provenance)
  BY <1>1, <1>3 DEF Permits, F!Fuse, F!ActionBlocks
<1> QED BY <1>2, <1>3

(* An answer of the registry is an objection; it is silent on a registered  *)
(* tool only as the tool was registered, with arguments its schema allows,  *)
(* and on any other tool only under dynamic discovery.                      *)
LEMMA RegistryAsked ==
  ASSUME NEW call, NEW regs, NEW dynamic, NEW signed
  PROVE  /\ \/ RegistrySignal(call, regs, dynamic, signed) = Silence
            \/ RegistrySignal(call, regs, dynamic, signed).score = 90
         /\ RegistrySignal(call, regs, dynamic, signed) = Silence =>
              \/ dynamic /\ Registered(call, regs) = {}
              \/ \E r \in Registered(call, regs) :
                   /\ CallFingerprint(call, r) = Fingerprint(r)
                   /\ r.signature = "valid" \/ (~signed /\ r.signature = Blank)
                   /\ ~Violates(call.args, r.arguments)
<1> DEFINE known == Registered(call, regs)
<1>1. CASE known = {}
  <2> DEFINE checks == << <<Lookalike(call, regs), Trust("mcp_lookalike_tool")>>,
                          <<~dynamic, Trust("mcp_unknown_tool")>> >>
  <2>1. RegistrySignal(call, regs, dynamic, signed) = FirstOf(checks)
    BY <1>1 DEF RegistrySignal
  <2>2. DOMAIN checks = 1 .. 2 /\ checks[2][1] = ~dynamic
    OBVIOUS
  <2>3. \A i \in DOMAIN checks : checks[i][2].score = 90
    BY DEF Trust, Raise
  <2> HIDE DEF checks
  <2>4. /\ FirstOf(checks) = Silence \/ FirstOf(checks).score = 90
        /\ FirstOf(checks) = Silence => ~checks[2][1]
    BY <2>2, <2>3, FirstOfAnswers
  <2>5. FirstOf(checks) = Silence => dynamic
    BY <2>2, <2>4, Zenon
  <2> QED BY <1>1, <2>1, <2>4, <2>5, Zenon
<1>2. CASE known # {}
  <2> DEFINE r == CHOOSE r \in known : TRUE
             checks ==
               << <<Underpopulated(r), Trust("mcp_underpopulated_registration")>>,
                  <<signed /\ r.signature = Blank, Trust("mcp_unsigned_registration")>>,
                  <<r.signature \notin {Blank, "valid"}, Trust("mcp_registration_signature_mismatch")>>,
                  <<r.transports # {} /\ CallTransport(call) \notin r.transports \cup {Blank},
                    Trust("mcp_transport_mismatch")>>,
                  <<CallFingerprint(call, r) # Fingerprint(r), Trust("mcp_schema_drift")>>,
                  <<Violates(call.args, r.arguments), Trust("mcp_argument_schema_violation")>> >>
  <2>1. RegistrySignal(call, regs, dynamic, signed) = FirstOf(checks)
    BY <1>2 DEF RegistrySignal
  <2>2. /\ DOMAIN checks = 1 .. 6
        /\ checks[2][1] = (signed /\ r.signature = Blank)
        /\ checks[3][1] = (r.signature \notin {Blank, "valid"})
        /\ checks[5][1] = (CallFingerprint(call, r) # Fingerprint(r))
        /\ checks[6][1] = Violates(call.args, r.arguments)
    OBVIOUS
  <2>3. \A i \in DOMAIN checks : checks[i][2].score = 90
    BY DEF Trust, Raise
  <2>4. r \in known
    BY <1>2
  <2> HIDE DEF checks, r, known
  <2>5. /\ FirstOf(checks) = Silence \/ FirstOf(checks).score = 90
        /\ FirstOf(checks) = Silence => \A i \in 1 .. 6 : ~checks[i][1]
    BY <2>2, <2>3, FirstOfAnswers
  <2>6. FirstOf(checks) = Silence =>
          ~checks[2][1] /\ ~checks[3][1] /\ ~checks[5][1] /\ ~checks[6][1]
    BY <2>5
  <2>7. FirstOf(checks) = Silence =>
          /\ ~(signed /\ r.signature = Blank) /\ r.signature \in {Blank, "valid"}
          /\ CallFingerprint(call, r) = Fingerprint(r) /\ ~Violates(call.args, r.arguments)
    BY <2>2, <2>6
  <2> QED BY <2>1, <2>4, <2>5, <2>7 DEF known
<1> QED BY <1>1, <1>2

(* A capability policy that is silent has a grant for what the call touches, *)
(* and none that asks for an approval; its answer is an objection.          *)
LEMMA CapabilityAsked ==
  ASSUME NEW policy, NEW context
  PROVE  /\ \/ CapabilitySignal(policy, context) = Silence
            \/ CapabilitySignal(policy, context).score = 90
         /\ CapabilitySignal(policy, context) = Silence =>
              /\ \E g \in policy.grants : GrantMatches(g, context)
              /\ \A g \in policy.grants : GrantMatches(g, context) => ~g.approval_required
<1> DEFINE checks ==
       << <<\E f \in Facts : context.facts[f] = Blank, Denied("capability_context_missing")>>,
          <<policy.origin_rules # {} /\ \A r \in policy.origin_rules : ~Matches(r, context),
            Denied("capability_origin_denied")>>,
          <<\A g \in policy.grants : ~GrantMatches(g, context), Denied("capability_missing")>>,
          <<NeedsApproval(policy, context), Denied("capability_approval_required")>> >>
<1>1. CapabilitySignal(policy, context) = FirstOf(checks)
  BY DEF CapabilitySignal
<1>2. /\ DOMAIN checks = 1 .. 4
      /\ checks[3][1] = (\A g \in policy.grants : ~GrantMatches(g, context))
      /\ checks[4][1] = NeedsApproval(policy, context)
  OBVIOUS
<1>3. \A i \in DOMAIN checks : checks[i][2].score = 90
  BY DEF Denied, Raise
<1> HIDE DEF checks
<1>4. /\ FirstOf(checks) = Silence \/ FirstOf(checks).score = 90
      /\ FirstOf(checks) = Silence => \A i \in 1 .. 4 : ~checks[i][1]
  BY <1>2, <1>3, FirstOfAnswers
<1>5. FirstOf(checks) = Silence => ~checks[3][1] /\ ~checks[4][1]
  BY <1>4
<1>6. FirstOf(checks) = Silence =>
        (\E g \in policy.grants : GrantMatches(g, context)) /\ ~NeedsApproval(policy, context)
  BY <1>2, <1>5
<1> QED BY <1>1, <1>4, <1>6 DEF NeedsApproval

(* Under a posture that lets a detector's 0.9 object, a permitted call has   *)
(* the registry and the capability policy silent.                          *)
LEMMA PermittedUnopposed ==
  ASSUME NEW q, NEW g, NEW config, PermitsCall(q, g, config),
         ActivePosture(g.head).threshold["action"] <= 90
  PROVE  /\ RegistrySignal(q.call, g.pinned, config.dynamic, config.signed) = Silence
         /\ CapabilityAnswer(q, g.head) = Silence
<1> DEFINE posture == ActivePosture(g.head)
           rep == [d \in CallDetectors |-> Report(posture, CallAnswer(q, d, g, config))]
<1>1. Permits(F(posture)!Fuse(CallDetectors, rep, q.provenance))
  BY DEF PermitsCall
<1>2. \A d \in CallDetectors : rep[d] = Report(posture, CallAnswer(q, d, g, config))
  OBVIOUS
<1>3. posture.threshold["action"] <= 90
  OBVIOUS
<1> HIDE DEF posture, rep
<1>4. ASSUME NEW d \in CallDetectors, GatewayPlane[d] = "action",
             CallAnswer(q, d, g, config).score = 90
      PROVE  FALSE
  <2>1. CallAnswer(q, d, g, config) # Silence
    BY <1>4 DEF Silence, Raise
  <2>2. Report(posture, CallAnswer(q, d, g, config)).score = 90
    BY <1>4, <2>1 DEF Report
  <2>3. rep[d].score = 90
    BY <1>2, <2>2
  <2> QED BY <1>1, <1>3, <1>4, <2>3, ObjectionBars
<1>5. /\ "mcp_call" \in CallDetectors /\ GatewayPlane["mcp_call"] = "action"
      /\ "capability_policy" \in CallDetectors /\ GatewayPlane["capability_policy"] = "action"
  BY DEF CallDetectors, ResponseDetectors, GatewayPlane
<1>6. RegistrySignal(q.call, g.pinned, config.dynamic, config.signed) = Silence
  <2> SUFFICES ASSUME RegistrySignal(q.call, g.pinned, config.dynamic, config.signed) # Silence
               PROVE  FALSE
    OBVIOUS
  <2>1. CallAnswer(q, "mcp_call", g, config) =
          RegistrySignal(q.call, g.pinned, config.dynamic, config.signed)
    BY DEF CallAnswer, InspectorSignal
  <2>2. RegistrySignal(q.call, g.pinned, config.dynamic, config.signed).score = 90
    BY RegistryAsked
  <2> QED BY <1>4, <1>5, <2>1, <2>2
<1>7. CapabilityAnswer(q, g.head) = Silence
  <2> SUFFICES ASSUME CapabilityAnswer(q, g.head) # Silence PROVE FALSE
    OBVIOUS
  <2>1. CallAnswer(q, "capability_policy", g, config) = CapabilityAnswer(q, g.head)
    BY DEF CallAnswer
  <2>2. CapabilityAnswer(q, g.head).score = 90
    BY CapabilityAsked DEF CapabilityAnswer
  <2> QED BY <1>4, <1>5, <2>1, <2>2
<1> QED BY <1>6, <1>7

(* Whatever discoveries and reviews do to the registrations and to the      *)
(* gateway in between, a permitted call is one tool that was trusted once,   *)
(* as it was trusted (mcp_registry.py:382).                                *)
THEOREM PermittedCallsAreVetted == Spec => []CallsMatchVetted
<1>1. VettedInv => CallsMatchVetted
  <2> SUFFICES ASSUME VettedInv, NEW h \in Handler,
                      Allowed(h, "/v1/mcp/review"), Objecting(h),
                      ~(workload.dynamic /\ Registered(Ask(h).call, judged[h].pinned) = {})
               PROVE  \E r \in vetted :
                        /\ Key(r) = Key(Ask(h).call)
                        /\ CallFingerprint(Ask(h).call, r) = Fingerprint(r)
                        /\ r.signature = "valid" \/ (~workload.signed /\ r.signature = Blank)
                        /\ ~Violates(Ask(h).call.args, r.arguments)
    BY DEF CallsMatchVetted
  <2>1. PermitsCall(Ask(h), judged[h], workload) /\ Entries(judged[h].pinned) \subseteq vetted
    BY DEF VettedInv, Reviewed, Allowed
  <2>2. RegistrySignal(Ask(h).call, judged[h].pinned, workload.dynamic, workload.signed) = Silence
    BY <2>1, PermittedUnopposed DEF Objecting
  <2>3. PICK r \in Registered(Ask(h).call, judged[h].pinned) :
          /\ CallFingerprint(Ask(h).call, r) = Fingerprint(r)
          /\ r.signature = "valid" \/ (~workload.signed /\ r.signature = Blank)
          /\ ~Violates(Ask(h).call.args, r.arguments)
    BY <2>2, RegistryAsked
  <2>4. r \in vetted /\ Key(r) = Key(Ask(h).call)
    BY <2>1 DEF Registered, Pinned, Entries
  <2> QED BY <2>3, <2>4
<1> QED BY <1>1, VettedInit, VettedNext, HeadsInit, HeadsNext, PTL DEF Spec

(* ... and, once a posture is approved, one that a grant covers and that no  *)
(* grant wants a human for (capability.py:184).                            *)
THEOREM PermittedCallsAreGranted == Spec => []PermittedCallIsGranted
<1>1. VettedInv => PermittedCallIsGranted
  <2> SUFFICES ASSUME VettedInv, NEW h \in Handler,
                      Allowed(h, "/v1/mcp/review"), Objecting(h), judged[h].head # 0
               PROVE  /\ {g \in Grants : GrantMatches(g, Ask(h).capability)} # {}
                      /\ \A g \in {g \in Grants : GrantMatches(g, Ask(h).capability)} :
                           ~g.approval_required
    BY DEF PermittedCallIsGranted
  <2>1. PermitsCall(Ask(h), judged[h], workload)
    BY DEF VettedInv, Reviewed, Allowed
  <2>2. CapabilityAnswer(Ask(h), judged[h].head) = Silence
    BY <2>1, PermittedUnopposed DEF Objecting
  <2> DEFINE policy == Compile(Postures[judged[h].head].profile, Grants)
  <2>3. CapabilitySignal(policy, Ask(h).capability) = Silence /\ policy.grants = Grants
    BY <2>2 DEF CapabilityAnswer, Compile
  <2> HIDE DEF policy
  <2> QED BY <2>3, CapabilityAsked
<1> QED BY <1>1, VettedInit, VettedNext, HeadsInit, HeadsNext, PTL DEF Spec
=============================================================================
