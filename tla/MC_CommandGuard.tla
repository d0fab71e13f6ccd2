--------------------------- MODULE MC_CommandGuard ---------------------------
EXTENDS CommandGuard, TLC

MCPlain(limit) ==
  [threshold |-> [content |-> 50, integrity |-> 50, action |-> limit],
   margin |-> [p \in X!PlaneNames |-> X!Unset], uncertainty_margin |-> 15,
   capability_profile |-> "deny_all_actions"]

(* The same CRITICAL command needs nobody under the defaults, two operators  *)
(* under strict, and one under wide, where its score is only borderline.    *)
MCProfile ==
  [strict |-> MCPlain(5), wide |-> MCPlain(20)]

MCRow ==
  [label |-> "copy", provenance |-> "user",
   signals |-> << [plane |-> "action", score |-> 10, signal_type |-> "blast_radius",
                   severity |-> "CRITICAL"] >>]

MCOption(live, required, execute) == [live |-> live, required |-> required, execute |-> execute]

MCOptions ==
  {MCOption(NoPosture, FALSE, TRUE), MCOption("wide", TRUE, TRUE)}

MCSymmetry == Permutations(Operator) \cup Permutations(Run)
=============================================================================
