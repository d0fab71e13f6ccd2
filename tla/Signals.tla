-------------------------------- MODULE Signals --------------------------------
(***************************************************************************)
(* What a detector answers (core/signal.py), and the words that the        *)
(* detectors of the action plane share (action/_lexicon.py).  Scores are in *)
(* parts of a unit: hundredths where a detector's own score is meant.      *)
(***************************************************************************)
EXTENDS Integers, Sequences, FiniteSets, FiniteSetsExt

Severity == [INFO |-> 0, LOW |-> 1, MEDIUM |-> 2, HIGH |-> 3, CRITICAL |-> 4]

(* A missing, empty or blank string. *)
Blank == ""

UntrustedOrigins == {"untrusted", "retrieved", "tool_output", "external", "document", "web"}

Raise(type, score, severity) == [type |-> type, score |-> score, severity |-> severity]

(* evaluate returned None. *)
Silence == Raise("none", -1, 0)

(* Disguises of a text are a sequence of layers, from the outside in. *)
Peeled(layers, layer) ==
  IF layers # <<>> /\ Head(layers) = layer THEN Tail(layers) ELSE layers

(* The answer of the first condition that holds: checks that return early,  *)
(* in the order of the code.                                               *)
FirstOf(checks) ==
  LET hits == {i \in DOMAIN checks : checks[i][1]}
  IN  IF hits = {} THEN Silence ELSE checks[Min(hits)][2]
=============================================================================
