-------------------------- MODULE DestructiveCommand --------------------------
(***************************************************************************)
(* The destructive-command detector (action/destructive_command.py), which  *)
(* looks at a command and at what action/_normalize.py makes of it.        *)
(*                                                                         *)
(* A command is a sequence of segments (action/_shell_segments.py) under    *)
(* layers of disguise, from the outside in.  A segment prints or runs, has  *)
(* the idioms that patterns recognise, and removes targets or not.         *)
(***************************************************************************)
EXTENDS Signals

(* Disguises that one transformation takes off, all of the command. *)
Encodings ==
  {"hex", "octal", "brace", "arithmetic", "xargs", "substitution", "variable", "alias"}

(* Disguises that leave the words of the command to shlex. *)
Quotings == {"quote_break", "split_flags", "quoted"}

CommandLayer == Quotings \cup Encodings \cup {"ifs", "wide", "zero_width", "homoglyph", "base64"}

(* Layers that a command may have: what is compressed is encoded as well.   *)
Layered(layers) ==
  \A i \in DOMAIN layers :
    \/ layers[i] \in CommandLayer
    \/ layers[i] = "compressed" /\ i > 1 /\ layers[i - 1] = "base64"

(* What is decoded may be compressed. *)
Decoded(layers) ==
  IF Peeled(layers, "base64") = layers THEN layers
  ELSE Peeled(Tail(layers), "compressed")

(* _transform_once: each transformation on its own, but for quotes before   *)
(* flags, and wide letters before zero-width ones before homoglyphs.       *)
Transformed(layers) ==
  LET dequoted == Peeled(layers, "quote_break")
      narrow == Peeled(layers, "wide")
      stripped == Peeled(narrow, "zero_width")
  IN  {dequoted, Peeled(dequoted, "split_flags"), Peeled(layers, "quoted"),
       Peeled(layers, "ifs"), narrow, stripped, Peeled(stripped, "homoglyph"),
       Decoded(layers)}
        \cup {Peeled(layers, e) : e \in Encodings}

MaxDepth == 4
MaxForms == 64

(* add: of the new forms, those that there is room for. *)
Added(forms, new) ==
  IF Cardinality(forms \cup new) <= MaxForms THEN new
  ELSE CHOOSE some \in SUBSET new : Cardinality(some) = MaxForms - Cardinality(forms)

(* What the forms that the round before has added are transformed to. *)
Discovered(found) == (UNION {Transformed(form) : form \in found.frontier}) \ found.forms

Round(found) ==
  LET added == Added(found.forms, Discovered(found))
  IN  [forms |-> found.forms \cup added, frontier |-> added]

Unexpanded(layers) == [forms |-> {layers}, frontier |-> {layers}]

(* Mutant: every round starts from the command as it came.                  *)
ExpandFlat(layers) ==
  LET found[i \in 0 .. MaxDepth] ==
        IF i = 0 THEN Unexpanded(layers)
        ELSE Round([found[i - 1] EXCEPT !.frontier = {layers}])
  IN  found[MaxDepth].forms

(* expand, by the Python reference: the forms after the last round. *)
Expand(layers) ==
  LET found[i \in 0 .. MaxDepth] ==
        IF i = 0 THEN Unexpanded(layers) ELSE Round(found[i - 1])
  IN  found[MaxDepth].forms

-----------------------------------------------------------------------------
(* _RULES, in order: what a pattern recognises, and how bad it is. *)
Rules ==
  <<<<"fork_bomb", 4>>, <<"disk_overwrite", 4>>, <<"filesystem_format", 4>>,
    <<"destructive_command", 3>>, <<"availability_loss", 3>>, <<"permission_wipe", 3>>,
    <<"process_kill", 3>>, <<"remote_code_execution", 3>>, <<"history_rewrite", 3>>,
    <<"sql_drop", 4>>, <<"sql_truncate", 4>>, <<"sql_unscoped_delete", 3>>,
    <<"sql_unscoped_update", 3>>, <<"infra_teardown", 4>>, <<"infra_teardown", 3>>,
    <<"bucket_deletion", 3>>, <<"privilege_escalation", 3>>, <<"exfiltration", 3>>,
    <<"datastore_drop", 4>>, <<"datastore_flush", 3>>, <<"disk_overwrite", 3>>,
    <<"dependency_removal", 3>>>>

(* _target_severity of a target of a recursive rm; 0 for none. *)
TargetSeverity(target) ==
  CASE target.place \in {"root", "home", "here"} -> Severity.CRITICAL
    [] target.place \in {"absolute", "scratch"} /\ target.wildcard -> Severity.CRITICAL
    [] target.place = "absolute" -> Severity.HIGH
    [] target.place = "scratch" -> 0
    [] target.place = "parent" -> Severity.HIGH
    [] OTHER -> 0

(* _rm_severity: what only prints removes nothing. *)
RmSeverity(segments) ==
  Max({0} \cup UNION {{TargetSeverity(t) : t \in s.removes} :
                        s \in {s \in Range(segments) : s.recursive /\ ~s.prints}})

(* is_print_only_command, on the command as it came. *)
PrintOnly(command) ==
  /\ Len(command.segments) = 1
  /\ command.segments[1].prints /\ ~command.segments[1].redirects
  /\ Range(command.layers) \subseteq Quotings

(* The idioms in the forms, as positions among the rules. *)
Matched(command) ==
  {i \in DOMAIN Rules : \E s \in Range(command.segments) : Rules[i] \in s.idioms}

SeverityScore == [s \in {3, 4} |-> IF s = Severity.CRITICAL THEN 97 ELSE 90]

(* _match_python and evaluate: the first of the worst rules, or the removal *)
(* if it is worse.  Nothing is recognised under a layer.                   *)
DestructiveSignal(command) ==
  LET matched == Matched(command)
      worst == Max({0} \cup {Rules[i][2] : i \in matched})
      best == Rules[Min({i \in matched : Rules[i][2] = worst})]
      rm == RmSeverity(command.segments)
  IN  IF PrintOnly(command) \/ <<>> \notin Expand(command.layers) THEN Silence
      ELSE IF matched # {} /\ worst >= rm THEN Raise(best[1], SeverityScore[worst], worst)
      ELSE IF rm # 0 THEN Raise("destructive_command", SeverityScore[rm], rm)
      ELSE Silence

(* An action with no text has no command. *)
Destructive(request) ==
  IF request.command = <<>> THEN Silence ELSE DestructiveSignal(request.command[1])
=============================================================================
