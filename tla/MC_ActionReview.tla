---------------------------- MODULE MC_ActionReview ----------------------------
EXTENDS ActionReview

(* The default wiring: the cheap detectors in tier 0, the model-backed in 1.*)
MCFree ==
  {"destructive_command", "injection_prompt", "semantic_action_support", "response_nli",
   "contradiction"}
MCDetector ==
  MCFree \cup {"origin_taint", "blast_radius", "reversibility", "intent_consistency",
               "causal_takeover", "memory_threat", "remanentia_memory_governance",
               "browser_action", "pii_content", "citation_coverage"}
MCTier ==
  [d \in MCDetector |->
     IF d \in {"semantic_action_support", "response_nli", "contradiction"} THEN 1 ELSE 0]
MCPlane ==
  [d \in MCDetector |->
     CASE d = "injection_prompt" -> "integrity"
       [] d \in {"response_nli", "contradiction", "pii_content", "citation_coverage"} -> "content"
       [] OTHER -> "action"]

(* The default thresholds 0.5, 0.5 and 0.3 and margin 0.15. *)
MCThreshold == [p \in Planes |-> IF p = "action" THEN 30 ELSE 50]
MCMargin == [p \in Planes |-> 15]

-----------------------------------------------------------------------------
Base ==
  [action |-> {"text"}, printed |-> {}, query |-> {}, context |-> {}, response |-> {},
   provenance |-> "user", tenant |-> "t1", evidence |-> {}, timeline |-> <<>>,
   divergence |-> 0, memory |-> <<>>, remanentia |-> <<>>, call |-> <<>>, browser |-> <<>>,
   command |-> <<>>, claims |-> [total |-> 0, uncited |-> 0],
   texts |-> [f \in {"query", "context", "response"} |-> {}]]

Reads == {"text"}
Writes == {"text", "mutating", "browser_mutating"}
Drops == {"text", "mutating", "irreversible", "production", "sql_mutation", "drop_database",
          "catastrophic"}
Wipes == {"text", "mutating", "irreversible", "system_target", "production", "breadth",
          "root_delete", "recursive_rm", "catastrophic"}

Sources == {"user", "web", "agent"}

Plain ==
  [prints |-> FALSE, redirects |-> FALSE, idioms |-> {}, recursive |-> FALSE, removes |-> {}]

Of(idioms) == [Plain EXCEPT !.idioms = idioms]

Removes(place, wildcard) ==
  [Plain EXCEPT !.recursive = TRUE, !.removes = {[place |-> place, wildcard |-> wildcard]}]

DropsStore == [layers |-> <<>>, segments |-> <<Of({<<"datastore_drop", 4>>})>>]

AnyLayers ==
  UNION {[1 .. n -> CommandLayer] : n \in 0 .. 1}
    \cup UNION {[1 .. n -> {"split_flags", "base64", "wide"}] : n \in 2 .. 5}
    \cup {<<"base64", "compressed", "hex", "base64">>}

Commands ==
  {[Base EXCEPT !.provenance = p, !.command = <<[layers |-> l, segments |-> <<s>>]>>] :
     p \in {"user", "web"}, l \in AnyLayers,
     s \in {Of({<<"fork_bomb", 4>>}), [Removes("root", FALSE) EXCEPT !.prints = TRUE]}}
  \cup
  {[Base EXCEPT !.command = <<[layers |-> l, segments |-> s]>>] :
     l \in {<<>>, <<"base64">>, <<"quoted">>},
     s \in {<<Of({Rules[i], Rules[(i % Len(Rules)) + 1]}), [Plain EXCEPT !.prints = TRUE]>> :
                  i \in DOMAIN Rules}
          \cup {<<[Of({i}) EXCEPT !.prints = TRUE, !.redirects = r]>> :
                  i \in Range(Rules), r \in BOOLEAN}
          \cup {<<Of({i}), Removes(place, w)>> :
                  i \in {<<"sql_unscoped_delete", 3>>, <<"sql_drop", 4>>}, w \in BOOLEAN,
                  place \in {"root", "absolute", "scratch", "parent", "local"}}
          \cup {<<Removes(place, w)>> : w \in BOOLEAN,
                  place \in {"root", "home", "here", "absolute", "scratch", "parent", "local"}}}

Origins ==
  {[Base EXCEPT !.action = a, !.query = q, !.context = c, !.provenance = p, !.divergence = v,
                !.command = x, !.printed = h] :
     a \in {{}, Reads, Writes, Drops, Wipes},
     q \in {{"text"}, {"text", "read_only_task"}, {"text", "read_only_task", "mutating_task"}},
     c \in {{}, {"text", "mutating"}}, p \in Sources, v \in {0, 70},
     x \in {<<>>, <<DropsStore>>},
     h \in {{}, {"system_target", "production"}}}

Timelines ==
  {[Base EXCEPT !.action = Drops, !.provenance = p, !.timeline =
      <<[user_intent |-> i, proposed_action |-> {}, action_source |-> s,
         retrieved_content |-> r, intermediate_plan |-> {}]>>] :
     p \in Sources, i \in {{}, {"text", "mutating_task"}}, s \in {Blank, "web"},
     r \in {{}, {"text", "action"}}}

Evidences ==
  {[Base EXCEPT !.action = a, !.evidence = e, !.provenance = p] :
     a \in {Reads, Drops, {"text", "mutating", "irreversible", "recursive_rm"}},
     p \in Sources,
     e \in SUBSET {"snapshot_id", "rollback_command", "transaction_id", "dry_run_digest",
                   "stdout"}}

Contract ==
  [tenant |-> "t1", expires_at |-> 2, tier |-> "trusted", contexts |-> {"notes"},
   digest |-> "of_terms"]

Contracts ==
  {NoContract, [Contract EXCEPT !.expires_at = 0], [Contract EXCEPT !.contexts = {"mail"}]} \cup
  {[Contract EXCEPT !.digest = d, !.tenant = t, !.tier = r] :
     d \in {"of_terms", "other", Blank}, t \in {"t1", "t2"}, r \in {"trusted", "external"}}

Plan ==
  [user_goal |-> {"text", "read_only_goal"}, current_plan |-> {}, retrieved_context |-> {},
   proposed_next_action |-> {}]

Context ==
  [tenant |-> "t1", retrieval_context |-> "notes", now |-> 2, contract |-> Contract,
   plan |-> Plan, cached_schema |-> Blank, live_schema |-> "s1", memory_text |-> {"text"},
   memory_source |-> Blank]

Memories ==
  {[Base EXCEPT !.action = a, !.provenance = p, !.memory =
      <<[Context EXCEPT !.contract = c, !.now = n, !.memory_source = s, !.memory_text = m,
                        !.plan.retrieved_context = r, !.cached_schema = k]>>] :
     a \in {Reads, Writes}, p \in Sources, c \in Contracts, n \in {0, 2, 3},
     s \in {Blank, "web"}, m \in {{"text"}, {"text", "persistent"}, {"text", "delayed"}},
     r \in {{}, {"text", "schema_words", "mutating"}}, k \in {Blank, "s2"}}

Args ==
  [tenant |-> Blank, retrieval_context |-> Blank, project |-> "notes", type |-> Blank, now |-> 0,
   contract |-> Contract, plan |-> <<>>, retrieved_context |-> {}, cached_schema |-> Blank,
   live_schema |-> Blank, content |-> {"text"}, memory_source |-> Blank, scope |-> Blank,
   trigger |-> Blank, was_correct |-> Blank, was_used |-> Blank, query |-> Blank]

Calls ==
  {[Base EXCEPT !.provenance = p, !.response = w, !.call =
      <<[server |-> s, identity_name |-> Blank, tool |-> t, provenance |-> Blank,
         args |-> [Args EXCEPT !.contract = c, !.scope = g, !.content = m,
                               !.was_correct = f]]>>] :
     p \in Sources, w \in {{}, {"text", "secret"}}, s \in {"remanentia", "files"},
     t \in {"remanentia_remember", "consolidate", "recall", "recall_feedback", "other"},
     c \in {NoContract} \cup {[Contract EXCEPT !.digest = d, !.tenant = o] :
                             d \in {"of_terms", "other", Blank}, o \in {"t1", "t2"}},
     g \in {Blank, "fleet"}, m \in {{"text"}, {"text", "high_impact"}},
     f \in {Blank, "false"}}

Page ==
  [page_origin |-> "https://a", frame_origin |-> Blank, selected_element |-> {},
   visible_text |-> {}, hidden_text |-> {}, target |-> Blank, form_fields |-> {},
   download |-> Blank, clipboard |-> Blank, site |-> Blank]

Pages ==
  {[Base EXCEPT !.action = a, !.provenance = p, !.browser =
      <<[Page EXCEPT !.frame_origin = f, !.hidden_text = h, !.visible_text = v, !.target = t,
                     !.form_fields = x, !.clipboard = c, !.download = d, !.site = s]>>] :
     a \in {Reads, Writes}, p \in Sources, f \in {Blank, "https://b"},
     h \in {{}, {"text", "injection"}}, v \in {{}, {"text", "hijack"}},
     t \in {Blank, "https://a", "https://b"}, x \in {{}, {"name"}}, c \in {Blank, "copied"},
     d \in {Blank, "document", "executable"}, s \in {Blank, "banking"}}

Layers == {"wide", "zero_width", "rot13", "base64"}

Texts ==
  {[Base EXCEPT !.texts[f] = {[says |-> w, layers |-> l]}, !.claims = c] :
     f \in {"query", "context", "response"}, w \in {"instruction", "ssn", "email"},
     l \in UNION {[1..n -> Layers] : n \in 0..3},
     c \in {[total |-> 0, uncited |-> 0], [total |-> 5, uncited |-> 1],
            [total |-> 2, uncited |-> 2]}}

MCRequests ==
  Commands \cup Texts \cup Origins \cup Timelines \cup Evidences \cup Memories \cup Calls \cup Pages
=============================================================================
