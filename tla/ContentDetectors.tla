--------------------------- MODULE ContentDetectors ---------------------------
(***************************************************************************)
(* The detectors of the content and integrity planes that need no model:    *)
(* instructions hidden in a text (detectors/injection.py with the default   *)
(* backend of detectors/defaults.py), personal data in a response (pii.py)  *)
(* and claims without a citation (citation.py).                            *)
(*                                                                         *)
(* A text is a set of passages.  A passage says something, under layers of  *)
(* disguise from the outside in: "wide" letters, "zero_width" characters    *)
(* between them, "rot13" and "base64".  Wide letters and zero-width         *)
(* characters commute and are listed in this order.                        *)
(***************************************************************************)
EXTENDS Signals

(* rot13 undoes itself. *)
Rotated(layers) ==
  IF layers # <<>> /\ Head(layers) = "rot13" THEN Tail(layers) ELSE <<"rot13">> \o layers

(* _text_variants: what is decoded is rotated, but not normalised, stripped *)
(* or decoded once more.                                                   *)
Variants(layers) ==
  LET normalised == Peeled(layers, "wide")
      stripped == Peeled(normalised, "zero_width")
      tokens == {s \in {layers, normalised, stripped} : s # <<>> /\ Head(s) = "base64"}
      decoded == {Tail(s) : s \in tokens}
  IN  {layers, normalised, stripped, Rotated(stripped)}
        \cup decoded \cup {Rotated(s) : s \in decoded}

(* screen, by the default backend: a takeover phrase in some variant. *)
Screened(text) == \E p \in text : p.says = "instruction" /\ <<>> \in Variants(p.layers)

(* InjectionPromptDetector.evaluate: the score of the worst field is above  *)
(* any threshold in use.                                                   *)
InjectionPrompt(texts, fields) ==
  IF \E f \in fields : Screened(texts[f])
  THEN Raise("prompt_injection", 95, Severity.HIGH) ELSE Silence

Sensitive == {"credit_card", "ssn", "iban"}

(* PIIContentDetector.evaluate: patterns see the response as it came, and a *)
(* digit to them is a wide one too.                                        *)
PIIContent(texts) ==
  LET legible == {p \in texts["response"] :
                    \/ p.layers = <<>>
                    \/ p.says \in {"credit_card", "ssn"} /\ p.layers = <<"wide">>}
      found == {p.says : p \in legible}
  IN  FirstOf(<< <<found \cap Sensitive # {}, Raise("pii_detected", 99, Severity.HIGH)>>,
                 <<"email" \in found, Raise("pii_detected", 99, Severity.MEDIUM)>> >>)

MinCoverage == 80

(* CitationCoverageDetector.evaluate, on what the tracer counted. *)
CitationCoverage(claims) ==
  LET coverage == ((claims.total - claims.uncited) * 100) \div claims.total
  IN  IF claims.total = 0 \/ claims.uncited = 0 THEN Silence
      ELSE IF coverage >= MinCoverage THEN Silence
      ELSE Raise("uncited_claims", (claims.uncited * 100) \div claims.total,
                 IF coverage = 0 /\ claims.total > 1 THEN Severity.HIGH ELSE Severity.MEDIUM)
=============================================================================
