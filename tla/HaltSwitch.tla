------------------------------ MODULE HaltSwitch ------------------------------
(***************************************************************************)
(* The halt-state file (sidecar/state.py) and the commands that write it:   *)
(* the sidecar's HTTP handlers (sidecar/service.py) and its command line    *)
(* (sidecar/cli.py).  A command loads the file, adds one to its generation  *)
(* and replaces the file; nothing locks it.  Each operator gives one        *)
(* command.                                                                *)
(***************************************************************************)
EXTENDS Naturals, FiniteSets

CONSTANT Operator

(* A command to halt or to resume, with or without a reason and an actor.   *)
Command == [halting : BOOLEAN, signed : BOOLEAN]

NoCommand == [halting |-> FALSE, signed |-> FALSE]

Snapshot == [halted : BOOLEAN, generation : Nat]

Inactive == [halted |-> FALSE, generation |-> 0]

VARIABLES
  halt,      \* the file; Inactive also when there is none
  command,   \* what an operator is told to do: a function on some of them
  op,        \* how far the command is
  prior,     \* the snapshot it loaded
  writes,    \* history: commands that replaced the file
  raced      \* history: some command overlapped another one's write

haltVars == <<halt, command, op, prior, writes, raced>>

HaltTypeOK ==
  /\ halt \in Snapshot
  /\ DOMAIN command \subseteq Operator /\ \A o \in DOMAIN command : command[o] \in Command
  /\ op \in [Operator -> {"idle", "loaded", "done"}]
  /\ prior \in [Operator -> Snapshot]
  /\ writes \in Nat /\ raced \in BOOLEAN

HaltInit ==
  /\ halt = Inactive
  /\ op = [o \in Operator |-> "idle"]
  /\ prior = [o \in Operator |-> Inactive]
  /\ writes = 0
  /\ raced = FALSE

(* A command without a reason or an actor is refused (400) and reads        *)
(* nothing.                                                                *)
LoadHalt(o) ==
  /\ o \in DOMAIN command
  /\ op[o] = "idle"
  /\ op' = [op EXCEPT ![o] = IF command[o].signed THEN "loaded" ELSE "done"]
  /\ prior' = [prior EXCEPT ![o] = IF command[o].signed THEN halt ELSE @]
  /\ UNCHANGED <<halt, command, writes, raced>>

(* Mutant: resuming starts the generations afresh. *)
WriteHaltAfresh(o) ==
  /\ op[o] = "loaded"
  /\ halt' = [halted |-> command[o].halting,
              generation |-> IF command[o].halting THEN prior[o].generation + 1 ELSE 0]
  /\ op' = [op EXCEPT ![o] = "done"]
  /\ writes' = writes + 1
  /\ raced' = (raced \/ \E p \in Operator \ {o} : op[p] = "loaded")
  /\ UNCHANGED <<command, prior>>

(* halt and resume: the file is replaced by the next generation of the one  *)
(* that was loaded.                                                        *)
WriteHalt(o) ==
  /\ op[o] = "loaded"
  /\ halt' = [halted |-> command[o].halting, generation |-> prior[o].generation + 1]
  /\ op' = [op EXCEPT ![o] = "done"]
  /\ writes' = writes + 1
  /\ raced' = (raced \/ \E p \in Operator \ {o} : op[p] = "loaded")
  /\ UNCHANGED <<command, prior>>

(* The write raises, or its process dies, before the file is replaced.      *)
WriteHaltFails(o) ==
  /\ op[o] = "loaded"
  /\ op' = [op EXCEPT ![o] = "done"]
  /\ UNCHANGED <<halt, command, prior, writes, raced>>

HaltNext == \E o \in Operator : LoadHalt(o) \/ WriteHalt(o) \/ WriteHaltFails(o)

-----------------------------------------------------------------------------
(* Generations number the writes, so that a refusal's halt_generation names *)
(* one of them, unless commands overlap; and no overlap makes a generation  *)
(* run ahead of the writes (state.py:140, 162).                            *)
GenerationsCount == halt.generation <= writes /\ (~raced => halt.generation = writes)
=============================================================================
