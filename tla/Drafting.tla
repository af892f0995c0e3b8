------------------------------ MODULE Drafting ------------------------------
(***************************************************************************)
(* How a request in words becomes a draft rule (app/suggestion): the       *)
(* language model's answer, or a fallback built from the request, is sent  *)
(* through a fixed sequence of passes, each of which repairs something in  *)
(* the draft and none of which knows what the others established; the      *)
(* result is normalised, or replaced by a minimal draft.  A confirmation   *)
(* rewrites it once more.                                                  *)
(*                                                                         *)
(* A word or phrase is one value, told apart by what the passes ask of it; *)
(* lists have neither order nor limit.  The conditions of a draft are the  *)
(* set of their leaves: whether they stand under an "any" or an "all" is   *)
(* lost, since what is stored asks for all of them, but not whether they   *)
(* stand under a "not", since what does is not stored.  A signal lists its *)
(* words (any_of, in, equals, contains).  Left out are patterns of words,  *)
(* and objects with two of the keys any, all, not, entity_type and signal, *)
(* of which the normalisation reads the first and the guards read all.     *)
(* All terms of a draft have one entity type.                              *)
(***************************************************************************)
EXTENDS Naturals, FiniteSets

Specific == {"code", "alien", "wider"}  \* identifier score of 0.45 or more
CodeLike == Specific \cup {"weak"}      \* 0.32 or more
Partial == {"piece", "wider"}           \* part of a token, or longer than it
Abstract == {"secret"}                  \* ABSTRACT_CONTEXT_KEYWORDS
Noise == {"noise"}                      \* a short word or a connector
Banned == {"placeholder"}               \* "literal refine required"
MultiWord == {"phrase", "support"}

Pii == {"EMAIL", "PHONE", "TAX_ID", "CCCD"}
ExactTypes == {"INTERNAL_CODE", "CUSTOM_SECRET"}

(***************************************************************************)
(* The request                                                             *)
(*                                                                         *)
(* known is the PII type the request names or shows, or "none"; literal    *)
(* says that it speaks of an exact value, and top that its best token looks*)
(* internal; tokens are its code-like words, said its other ones; secretly *)
(* says that it speaks of secrets, payroll that it is about sending pay    *)
(* data outside, topic what else it is about; explicit is the one action   *)
(* it names as a word, hint the one found in its letters.                  *)
(***************************************************************************)

Said(p) == p.said \cup p.tokens
Phrases(p) == p.said \cap {"phrase"}
ContextPhrases(p) == p.said \cap {"support", "documents", "internal"}

\* _is_literal_secret_prompt: the detector's hint is INTERNAL_CODE.
LiteralSecret(p) == p.known = "none" /\ p.literal /\ p.tokens # {} /\ p.top

\* _is_custom_secret_prompt
CustomSecret(p) ==
    \/ LiteralSecret(p)
    \/ p.known = "none" /\ p.tokens # {} /\ p.secretly

\* The case of both functions in which a literal is meant but none is found.
Unsupported(p) == p.literal /\ p.known = "none" /\ p.tokens = {}

(***************************************************************************)
(* Drafts                                                                  *)
(***************************************************************************)

Leaf(on, values) == [on |-> on, values |-> values, negated |-> FALSE]
Keyword(words) == Leaf("context_keywords", words)
Entity(types) == Leaf("entity", types)
Persona(who) == Leaf("persona", {who})

On(leaves, field) == {leaf \in leaves : leaf.on = field}

\* collect_context_keyword_terms, _extract_entity_types, _has_signal_persona: all
\* three look under a "not".
Keywords(d) == UNION {leaf.values : leaf \in On(d.leaves, "context_keywords")}
Entities(d) == UNION {leaf.values : leaf \in On(d.leaves, "entity")}
HasPersona(d, who) == \E leaf \in On(d.leaves, "persona") : who \in leaf.values

\* A stable key: its first part, the PII type that it names, and whether it keeps
\* up with the action (it ends in one, or contains the demanded one).
OwnKey == [scope |-> "personal", names |-> "none", acts |-> FALSE]

Draft(leaves, terms, type, action) ==
    [leaves |-> leaves, terms |-> terms, type |-> type, action |-> action,
     key |-> OwnKey]

\* f applied to the values of each context_keywords leaf.
Rewrite(leaves, f) ==
    { IF leaf.on = "context_keywords" THEN [leaf EXCEPT !.values = f[leaf.values]]
      ELSE leaf : leaf \in leaves }

\* _sanitize_context_keyword_values: what is usable, else what is usable of the
\* fallback, else one unusable value rather than none.
SanitizeValues(words, fallback) ==
    LET usable(ws) == ws \ (Noise \cup Banned)
    IN  IF usable(words) # {} THEN usable(words)
        ELSE IF usable(fallback) # {} THEN usable(fallback)
        ELSE IF words \ Banned # {} THEN {CHOOSE w \in words \ Banned : TRUE}
        ELSE {}

\* _sanitize_context_keyword_conditions: a leaf that is left without a value gets
\* what can be had of the fallback, which may be nothing.
SanitizedValues(words, fallback) ==
    IF SanitizeValues(words, fallback) # {} THEN SanitizeValues(words, fallback)
    ELSE SanitizeValues(fallback, fallback)

Sanitized(leaves, fallback) ==
    Rewrite(leaves, [words \in {leaf.values : leaf \in leaves} |->
                        SanitizedValues(words, fallback)])

OrContext(words) == IF words = {} THEN {"context"} ELSE words

\* _build_exact_secret_draft
ExactDraft(p, action) ==
    Draft({Keyword(p.tokens)}, p.tokens, "INTERNAL_CODE", action)

\* _build_payroll_external_email_draft; the two lists are a value each.
PayrollDraft(action) ==
    Draft({Keyword({"payroll"}), Keyword({"gmail"})}, {"payroll", "gmail"},
          "PERSONA", action)

TopicWord == [office |-> "hr", dev |-> "docker", finance |-> "profit"]

\* _build_persona_signal_draft; its risk_boost leaf goes where its persona leaf goes.
PersonaDraft(who, action) ==
    Draft({Persona(who), Keyword({TopicWord[who]})}, {TopicWord[who]},
          "PERSONA", action)

\* _build_generic_prompt_keyword_draft
GenericDraft(p, words, action) ==
    LET candidates == IF words # {} THEN words
                      ELSE IF Phrases(p) # {} THEN Phrases(p) ELSE ContextPhrases(p)
    IN  Draft({Keyword(OrContext(SanitizeValues(candidates, candidates)))}, {},
              "CUSTOM_SECRET", action)

\* _build_literal_refinement_draft
RefinementDraft(p, action) ==
    LET words == IF Phrases(p) # {} THEN Phrases(p) ELSE ContextPhrases(p)
    IN  Draft({Keyword(OrContext(words))}, ContextPhrases(p), "CUSTOM_SECRET", action)

\* _fallback_generate
FallbackDraft(p) ==
    IF p.payroll THEN PayrollDraft(p.hint)
    ELSE IF p.known # "none" THEN Draft({Entity({p.known})}, {}, "CUSTOM_SECRET", p.hint)
    ELSE IF LiteralSecret(p) THEN ExactDraft(p, p.hint)
    ELSE IF Unsupported(p) THEN RefinementDraft(p, p.hint)
    ELSE IF p.topic # "none" THEN PersonaDraft(p.topic, p.hint)
    ELSE GenericDraft(p, OrContext(IF p.tokens # {} THEN p.tokens ELSE Phrases(p)), p.hint)

(***************************************************************************)
(* Passes                                                                  *)
(***************************************************************************)

\* _sanitize_debug_placeholder_text: the terms are the fallback of the keywords.
Debugged(d) ==
    LET terms == d.terms \ Banned
    IN  [d EXCEPT !.terms = terms, !.leaves = Sanitized(d.leaves, terms)]

\* is_literal_specific, up to its limit of five terms.
IsLiteralSpecific(d) == d.terms \cap Specific # {}

\* _ensure_company_stable_key: the key of a literal-specific draft is derived from
\* its terms, a global one from the words of the request, another gets a prefix.
EnsureKey(p, d) ==
    [d EXCEPT !.key =
        IF IsLiteralSpecific(d)
        THEN [scope |-> "personal", acts |-> FALSE,
              names |-> IF d.type \in Pii THEN d.type ELSE "none"]
        ELSE IF d.key.scope = "global"
        THEN [scope |-> "personal", acts |-> "action" \in p.said, names |-> p.known]
        ELSE [d.key EXCEPT !.scope = "personal"]]

\* _realign_literal_specific_draft: codes among the terms replace all keywords.
Realigned(p, d) ==
    LET literals == d.terms \cap Specific
    IN  EnsureKey(p, IF literals = {} THEN d ELSE
            [d EXCEPT !.leaves =
                Rewrite(@, [words \in {leaf.values : leaf \in d.leaves} |-> literals])])

\* _contains_entity_type of common PII types, and _draft_has_exact_secret_terms: a
\* keyword that is a token, is part of one or contains one passes for it.
HasCommonPii(d) == Entities(d) \cap (Pii \cup {"CREDIT_CARD"}) # {}
HasExact(p, d) == p.tokens # {} /\ Keywords(d) \cap (p.tokens \cup Partial) # {}

MissesSecret(p, d) == LiteralSecret(p) /\ (HasCommonPii(d) \/ ~HasExact(p, d))

\* A keyword that contains "payroll" or "gmail", or is part of it, would do as well;
\* there is none among these words.
MissesPayroll(p, d) == p.payroll /\ ~({"payroll", "gmail"} \subseteq Keywords(d))

\* _align_draft_with_prompt
Aligned(p, d) ==
    LET hasEntity == On(d.leaves, "entity") # {}
    IN  CASE MissesSecret(p, d) -> ExactDraft(p, d.action)
          [] ~MissesSecret(p, d) /\ MissesPayroll(p, d) -> PayrollDraft(d.action)
          [] OTHER ->
                IF \/ p.topic \in {"office", "dev"} /\ hasEntity
                   \/ p.topic = "finance" /\ (hasEntity \/ ~HasPersona(d, "finance"))
                THEN PersonaDraft(p.topic, d.action) ELSE d

\* _enforce_prompt_semantic_guard, after which a secret wins against finance.
SemanticallyGuarded(p, d) ==
    CASE MissesSecret(p, d) -> ExactDraft(p, d.action)
      [] ~MissesSecret(p, d) /\ MissesPayroll(p, d) -> PayrollDraft(d.action)
      [] OTHER ->
            IF p.topic = "finance" /\ ("TAX_ID" \in Entities(d) \/ ~HasPersona(d, "finance"))
            THEN PersonaDraft("finance", d.action) ELSE d

\* _strip_unprompted_code_like_terms
Stripped(p, d) ==
    LET unprompted == CodeLike \ p.tokens
    IN  IF CustomSecret(p) THEN d ELSE
        [d EXCEPT !.terms = @ \ unprompted,
                  !.leaves = Rewrite(@, [words \in {leaf.values : leaf \in d.leaves} |->
                                            words \ unprompted])]

\* _drop_internal_code_entity_fallback, with _drop_entity_type_from_conditions.
WithoutInternalCode(p, d) ==
    LET kept == { IF leaf.on = "entity"
                  THEN [leaf EXCEPT !.values = @ \ {"INTERNAL_CODE"}] ELSE leaf :
                    leaf \in { l \in d.leaves : l.on # "entity"
                                               \/ l.values # {"INTERNAL_CODE"} } }
        words == IF Phrases(p) # {} THEN Phrases(p) ELSE ContextPhrases(p)
    IN  [d EXCEPT !.leaves = IF kept # {} THEN kept
                             ELSE GenericDraft(p, OrContext(words), d.action).leaves]

\* _infer_known_pii_entity_from_draft: a set of at most one type.
PiiOf(d) ==
    CASE Entities(d) \cap Pii # {} -> {CHOOSE t \in Entities(d) \cap Pii : TRUE}
      [] Entities(d) \cap Pii = {} /\ d.key.names # "none" -> {d.key.names}
      [] OTHER -> {}

\* _realign_action_dependent_fields_after_override: the key of a PII rule that does
\* not keep up with the action is replaced by one that names both.
Overridden(p, d) ==
    IF p.explicit \in {"none", d.action} THEN d
    ELSE [d EXCEPT !.action = p.explicit,
                   !.key = IF PiiOf(d) = {} \/ d.key.acts THEN @
                           ELSE [scope |-> "personal", acts |-> TRUE,
                                 names |-> CHOOSE t \in PiiOf(d) : TRUE]]

\* _post_generate_intent_guard
IntentGuarded(p, d) ==
    LET a == IF Unsupported(p) THEN RefinementDraft(p, d.action) ELSE d
        b == IF MissesSecret(p, a) THEN ExactDraft(p, a.action) ELSE a
        c == IF MissesPayroll(p, b) THEN PayrollDraft(b.action) ELSE b
    IN  Overridden(p, WithoutInternalCode(p, Stripped(p, c)))

\* evaluate_runtime_usability: is there a warning?
Warned(p, d) ==
    LET keywords == Keywords(d)
        codes == keywords \cap CodeLike
        exact == IF d.type \in ExactTypes THEN d.terms ELSE {}
        persona == IF d.type = "PERSONA" THEN d.terms ELSE {}
        concrete == keywords \ Abstract
    IN  \/ On(d.leaves, "context_keywords") # {} /\ keywords = {}
        \/ Unsupported(p)
        \/ codes # {} /\ codes \cap exact = {}
        \/ ~CustomSecret(p) /\ ~(codes \subseteq p.tokens)
        \/ p.literal /\ codes = {} /\ ~(concrete \subseteq exact \cup persona)
        \/ /\ keywords \cap Abstract # {} /\ concrete = {}
           /\ codes \cap exact = {}

\* _apply_runtime_usability_constraint
MadeUsable(p, d) ==
    IF LiteralSecret(p) /\ Warned(p, d) THEN ExactDraft(p, d.action) ELSE d

\* _sanitize_draft_context_keywords
KeywordsSanitized(p, d) == [d EXCEPT !.leaves = Sanitized(@, Phrases(p))]

\* _term_is_prompt_grounded
Grounded(p) == Said(p) \ Banned

\* A leaf whose words are all foreign keeps them.  (Used by a mutant.)
GroundedOrKept(p, words) ==
    IF words \cap Grounded(p) # {} THEN words \cap Grounded(p) ELSE words

\* The keywords of a leaf that the request bears out, or the request's own.
GroundedValues(p, words) ==
    LET own == IF Phrases(p) # {} THEN Phrases(p) ELSE ContextPhrases(p)
    IN  IF words \cap Grounded(p) # {} THEN words \cap Grounded(p)
        ELSE SanitizeValues(own, own)

\* _filter_and_ground_context_terms: a term that is also a keyword goes.
Filtered(p, d) ==
    LET keywords == SanitizeValues(Keywords(d), Phrases(p))
        own == (d.terms \cap Grounded(p)) \ (keywords \cup Noise)
    IN  [d EXCEPT
            !.leaves = Rewrite(@, [words \in {leaf.values : leaf \in d.leaves} |->
                                      GroundedValues(p, words)]),
            !.terms = own \cup (ContextPhrases(p) \ keywords),
            !.type = IF d.terms = {} THEN "CUSTOM_SECRET" ELSE @]

\* _select_primary_keyword_phrases and the two fallbacks after it.
PrimaryKeywords(p, d) ==
    LET existing == SanitizeValues(Keywords(d), {})
    IN  CASE Phrases(p) # {} -> Phrases(p)
          [] Phrases(p) = {} /\ existing # {} -> existing
          [] OTHER -> ContextPhrases(p)

\* _select_supporting_context_phrases
Supporting(p, d, keywords) ==
    ((d.terms \cup ContextPhrases(p)) \cap Grounded(p)) \ (keywords \cup Noise)

\* _select_semantic_condition_phrases: supporting phrases of several words, and one
\* put together from two that are too weak alone ("tai lieu", "noi bo").
SemanticPhrases(supporting) ==
    (supporting \cap MultiWord) \cup
        (IF {"documents", "internal"} \subseteq supporting THEN {"internal documents"}
         ELSE {})

\* _enforce_keyword_context_role_contract: the conditions are rebuilt from keywords,
\* with a leaf for each semantic phrase.
Contracted(p, d) ==
    LET keywords == PrimaryKeywords(p, d)
        supporting == Supporting(p, d, keywords)
    IN  IF LiteralSecret(p) \/ p.known # "none" \/ keywords = {} THEN d ELSE
        [d EXCEPT !.leaves = {Keyword(keywords)} \cup
                                {Keyword({t}) : t \in SemanticPhrases(supporting)},
                  !.terms = supporting,
                  !.type = IF d.terms = {} \/ @ = "INTERNAL_CODE" THEN "CUSTOM_SECRET"
                           ELSE @]

(***************************************************************************)
(* Normalisation                                                           *)
(***************************************************************************)

\* _normalize_conditions_node does not raise: every signal has its operator.
Valid(d) == \A leaf \in d.leaves : leaf.values # {}

\* _normalize_to_simple_builder_conditions: personas and what stands under a "not"
\* are dropped, and a leaf that names several types becomes one for each.
Simple(d) ==
    LET shown == {leaf \in d.leaves : ~leaf.negated}
        kept == {Keyword(SanitizeValues(leaf.values, leaf.values)) :
                    leaf \in On(shown, "context_keywords")} \ {Keyword({})}
        types == {Entity({t}) : t \in UNION {leaf.values : leaf \in On(shown, "entity")}}
        own == SanitizeValues(d.terms, d.terms)
    IN  IF kept \cup types # {} THEN kept \cup types ELSE {Keyword(OrContext(own))}

\* _normalize_draft, of a draft whose conditions are valid.
Normalized(d) ==
    [d EXCEPT !.leaves = Simple(d), !.action = IF @ = "warn" THEN "mask" ELSE @]

\* _build_minimal_safe_prompt_draft
MinimalDraft(p) ==
    LET words == CASE Phrases(p) # {} -> Phrases(p)
                   [] Phrases(p) = {} /\ ContextPhrases(p) # {} -> ContextPhrases(p)
                   [] OTHER -> OrContext(p.said \cap {"word"})
    IN  Debugged(Contracted(p, Draft({Keyword(words)}, ContextPhrases(p) \ words,
                                     "CUSTOM_SECRET", p.hint)))

\* The passes of _generate_draft_from_prompt, in the order in which they run.
Passed(p, d) ==
    LET aligned == Aligned(p, Realigned(p, Debugged(d)))
        guarded == IntentGuarded(p, SemanticallyGuarded(p, aligned))
        usable == Realigned(p, MadeUsable(p, guarded))
        ground == Filtered(p, KeywordsSanitized(p, usable))
    IN  Debugged(Contracted(p, ground))

\* _generate_draft_from_prompt: replies holds the model's draft, or nothing when it
\* cannot be reached or read.
Generated(p, replies) ==
    LET first == IF replies = {} THEN FallbackDraft(p) ELSE CHOOSE d \in replies : TRUE
        passed == Passed(p, first)
    IN  IF Valid(passed)
        THEN [draft |-> Normalized(Debugged(Normalized(passed))), minimal |-> FALSE]
        ELSE [draft |-> Normalized(Debugged(MinimalDraft(p))), minimal |-> TRUE]

\* _canonicalize_known_pii_draft_for_runtime, when a draft is confirmed or applied:
\* one PII type replaces all conditions.  mentions is the type that the letters of
\* the request name (_infer_known_pii_entity_from_prompt).
Canonical(p, d) ==
    LET types == IF PiiOf(d) # {} THEN PiiOf(d) ELSE {p.mentions} \cap Pii
        allowed == IF types = {"EMAIL"} THEN {"gmail", "email"} ELSE {"other name"}
        own == IF d.type \in types THEN d.terms \cap allowed ELSE {}
        foreign == PiiOf(d) = {} /\ ~(Keywords(d) \subseteq allowed)
    IN  IF types = {} \/ d.action = "allow" \/ foreign THEN d
        ELSE [d EXCEPT !.leaves = {Entity(types)}, !.type = CHOOSE t \in types : TRUE,
                       !.terms = IF own # {} THEN own ELSE allowed \ {"gmail"}]

Confirmed(p, d) == Canonical(p, Realigned(p, Normalized(d)))

-----------------------------------------------------------------------------
(***************************************************************************)
(* What the passes establish together                                      *)
(***************************************************************************)

\* The conditions are some the rule builder can show, and ask for something.
Showable(d) ==
    /\ d.leaves # {}
    /\ \A leaf \in d.leaves :
         /\ leaf.on \in {"entity", "context_keywords"}
         /\ leaf.values # {} /\ ~leaf.negated

\* Words the request does not hold: the placeholder, and the phrase put together.
OnTopic(p, d) ==
    /\ Keywords(d) \subseteq Said(p) \cup {"context"} \cup SemanticPhrases(p.said)
    /\ d.terms \subseteq Said(p)

\* An answer that the guards read as it will be stored: it has no keyword under a
\* "not", and no word that merely overlaps a token.
Straight(d) ==
    /\ d.terms \cap Partial = {}
    /\ \A leaf \in On(d.leaves, "context_keywords") :
         ~leaf.negated /\ leaf.values \cap Partial = {}

AsDemanded(p, replies, d) ==
    /\ p.explicit # "none" => d.action = p.explicit
    /\ LiteralSecret(p) /\ ~p.payroll =>
         /\ ~HasCommonPii(d)
         /\ (\A reply \in replies : Straight(reply)) => Keywords(d) \cap p.tokens # {}

DraftedAsAsked(p, replies) ==
    LET generated == Generated(p, replies)
        draft == generated.draft
        confirmed == Confirmed(p, draft)
    IN  /\ draft.key.scope = "personal"
        /\ Showable(draft)
        /\ "INTERNAL_CODE" \notin Entities(draft)
        /\ OnTopic(p, draft)
        /\ ~generated.minimal => AsDemanded(p, replies, draft)
        /\ Confirmed(p, confirmed) = confirmed
=============================================================================
