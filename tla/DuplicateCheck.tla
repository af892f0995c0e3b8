--------------------------- MODULE DuplicateCheck ---------------------------
(***************************************************************************)
(* Whether a draft rule duplicates a rule in force                         *)
(* (app/suggestion/duplicate_checker.py), what is kept of the answer with  *)
(* the suggestion, and when a confirmation is refused because of it        *)
(* (suggestion/service.py).  Deterministic checks come first, then the     *)
(* language model, with a score of similarity as its gate and its stand-in.*)
(*                                                                         *)
(* A rule is a record; its conditions are the entity types, the signal     *)
(* fields and the code-like terms they name, and the rest.  Similarity and *)
(* lexical score are percentages, hybrid scores hundredths of those.       *)
(***************************************************************************)
EXTENDS Integers, FiniteSets

Threshold == [exact |-> 92, near |-> 82]
TopK == 5

(***************************************************************************)
(* Comparing a draft with a rule                                           *)
(***************************************************************************)

Conditions(r) == <<r.entities, r.fields, r.terms, r.rest>>

\* _rule_semantic_hash and _rule_signature_hash: equal when all of this is.
Semantic(r) ==
    <<r.scope, r.action, r.severity, r.ragMode, r.priority, Conditions(r)>>
Signature(r) == <<r.key, r.scope, r.action, r.severity, r.ragMode, Conditions(r)>>

\* _is_literal_specific_variant: both name codes, and not the same ones.
Variant(draft, r) == draft.terms # {} /\ r.terms # {} /\ draft.terms # r.terms

\* _top_signal_family: the first of four, or else one of the fields.
Family(fields) ==
    LET named == <<"persona", "rag", "security", "risk_boost">>
        among == {i \in DOMAIN named : named[i] \in fields}
    IN  CASE fields = {} -> "none"
          [] among # {} -> named[CHOOSE i \in among : \A j \in among : i <= j]
          [] OTHER -> CHOOSE f \in fields : TRUE

SameFamily(draft, r) == Family(draft.fields) = Family(r.fields)

\* _is_candidate_intent_compatible.
Compatible(draft, r) ==
    /\ r.action = draft.action
    /\ IF draft.entities = {} THEN r.entities = {}
       ELSE draft.entities \cap r.entities # {}
    /\ SameFamily(draft, r)
    /\ r.scope # draft.scope => draft.entities # {} \/ draft.fields # {}

Points(condition, points) == IF condition THEN points ELSE 0

\* _structural_similarity, in hundredths.
Structural(draft, r) ==
      Points(r.scope = draft.scope, 25) + Points(r.action = draft.action, 25)
    + Points(r.ragMode = draft.ragMode, 10) + Points(r.severity = draft.severity, 10)
    + (IF draft.entities = {} \/ r.entities = {} THEN 0
       ELSE (30 * Cardinality(draft.entities \cap r.entities))
                \div Cardinality(draft.entities \cup r.entities))

Clamp(score) == IF score < 0 THEN 0 ELSE IF score > 10000 THEN 10000 ELSE score

\* _hybrid_score and _adjust_hybrid_score.
Hybrid(draft, r) ==
    Clamp(  78 * r.similarity + 22 * r.lexical + 18 * Structural(draft, r)
          + (IF draft.entities = {} \/ r.entities = {} THEN 0
             ELSE IF draft.entities \cap r.entities # {} THEN 600 ELSE -1400)
          - Points(r.action # draft.action, 500)
          - Points(r.global /\ "rag" \in r.fields /\ draft.entities # {}, 800)
          + Points(~r.global, 300))

(***************************************************************************)
(* The stages                                                              *)
(***************************************************************************)

\* The order of `scored`: by hybrid score, similarity and lexical score, on equal
\* scores that of the rows.
Above(draft, r, s) ==
    LET h == Hybrid(draft, r) - Hybrid(draft, s) IN
    \/ h > 0
    \/ h = 0 /\ r.similarity > s.similarity
    \/ h = 0 /\ r.similarity = s.similarity /\ r.lexical > s.lexical
    \/ h = 0 /\ r.similarity = s.similarity /\ r.lexical = s.lexical /\ r.id < s.id

Best(draft, S) == CHOOSE r \in S : \A s \in S \ {r} : Above(draft, r, s)

FirstK(draft, S) == {r \in S : Cardinality({s \in S : Above(draft, s, r)}) < TopK}

CompatibleOf(draft, rules) == {r \in rules : Compatible(draft, r)}

\* _is_similar_rule_candidate: what the answer lists as similar rules.
Similar(draft, r) ==
    \/ r.similarity >= Threshold.near
    \/ Hybrid(draft, r) >= 100 * Threshold.near
    \/ r.lexical >= 78

SimilarOf(draft, rules) ==
    FirstK(draft, {r \in CompatibleOf(draft, rules) : Similar(draft, r)})

Check(decision, rationale, matched, similar) ==
    [decision |-> decision, rationale |-> rationale, matched |-> matched,
     similar |-> similar]

\* The hard deterministic checks: the first that has a candidate of the same value
\* whose codes are not different ones, on all rules and not on the compatible ones.
Deterministic(draft, rules) ==
    LET plain == {r \in rules : ~Variant(draft, r)}
        sameKey == {r \in plain : r.key = draft.key}
        sameSignature == {r \in plain : Signature(r) = Signature(draft)}
        sameSemantic == {r \in plain : Semantic(r) = Semantic(draft)}
        exact(S, rationale) ==
            {Check("exact", rationale, {Best(draft, S).id}, SimilarOf(draft, rules))}
    IN  IF sameKey # {} THEN exact(sameKey, "stable_key_conflict")
        ELSE IF sameSignature # {}
             THEN exact(sameSignature, "normalized_signature_match")
        ELSE IF sameSemantic # {} THEN exact(sameSemantic, "semantic_signature_match")
        ELSE {}

\* _should_call_llm_for_duplicate, on the best of the compatible rules.
AsksModel(draft, best) ==
    \/ Hybrid(draft, best) >= 7800
    \/ Structural(draft, best) >= 72 /\ Hybrid(draft, best) >= 6000
    \/ best.similarity >= 80 /\ best.lexical >= 55

\* _fallback_decision.
ByScore(draft, best) ==
    IF \/ best.similarity >= Threshold.exact
       \/ Hybrid(draft, best) >= 100 * Threshold.exact /\ best.lexical >= 65
    THEN <<"exact", "hybrid_above_exact_threshold">>
    ELSE IF Similar(draft, best) THEN <<"near", "hybrid_above_near_threshold">>
    ELSE IF Structural(draft, best) >= 72 /\ Hybrid(draft, best) >= 5800
         THEN <<"near", "structural_near_duplicate">>
    ELSE <<"different", "below_threshold">>

\* Those of the best compatible rules that the answer names, or the best.
Matched(draft, decision, named, top) ==
    LET known == {r \in top : r.id \in named}
    IN  IF known # {} THEN known
        ELSE IF decision # "different" THEN {Best(draft, top)} ELSE {}

\* The answer stands whatever codes the rules name.  (Used by a mutant.)
DowngradedNever(draft, decision, rationale, matched, similar) ==
    Check(decision, rationale, {r.id : r \in matched}, similar)

\* Model and scores may call two rules for different codes the same thing: the
\* better-ranked match decides whether that is taken back to near.
Downgraded(draft, decision, rationale, matched, similar) ==
    LET ids == {r.id : r \in matched}
    IN  IF decision = "exact" /\ matched # {} /\ Variant(draft, Best(draft, matched))
        THEN Check("near", "literal_specific_variant", ids, similar)
        ELSE Check(decision, rationale, ids, similar)

\* What the model says, or the scores in its stead.
Answer(draft, best, reply) ==
    IF reply.decision = "fails" \/ ~AsksModel(draft, best)
    THEN [decision |-> ByScore(draft, best)[1],
          rationale |-> ByScore(draft, best)[2],
          named |-> IF ByScore(draft, best)[1] = "different" THEN {} ELSE {best.id}]
    ELSE [decision |-> reply.decision, rationale |-> "llm", named |-> reply.named]

\* build_duplicate_check.  reply is what the model would say: a decision and the
\* rules it names, or "fails" when it cannot be reached or read.
DuplicateOf(draft, rules, reply) ==
    LET top == FirstK(draft, CompatibleOf(draft, rules))
        similar == SimilarOf(draft, rules)
        answer == Answer(draft, Best(draft, top), reply)
    IN  IF Deterministic(draft, rules) # {}
        THEN CHOOSE c \in Deterministic(draft, rules) : TRUE
        ELSE IF top = {} THEN Check("different", "no_candidates", {}, similar)
        ELSE Downgraded(draft, answer.decision, answer.rationale,
                        Matched(draft, answer.decision, answer.named, top), similar)

\* _duplicate_out_from_check.
LevelOf(check) ==
    IF check.similar # {} THEN "strong"
    ELSE IF check.decision # "different" \/ check.matched # {} THEN "weak"
    ELSE "none"

\* The condition under which confirm_rule_suggestion answers 409.
RefusesConfirmation(check) ==
    /\ LevelOf(check) = "strong"
    /\ check.decision = "exact"
    /\ check.matched # {}
    /\ check.rationale # "stable_key_conflict"

-----------------------------------------------------------------------------
(***************************************************************************)
(* When a refusal is right                                                 *)
(***************************************************************************)

NoReply == [decision |-> "fails", named |-> {}]

\* replies are the answers the model may give; it is not asked when a deterministic
\* check has decided.
RefusedForReason(draft, rules, replies) ==
    /\ \A reply \in IF Deterministic(draft, rules) = {} THEN replies ELSE {NoReply} :
         LET check == DuplicateOf(draft, rules, reply) IN
         RefusesConfirmation(check) =>
            \E r \in rules :
               r.id \in check.matched /\ Compatible(draft, r) /\ ~Variant(draft, r)
    /\ (\E r \in rules : Semantic(r) = Semantic(draft))
         => DuplicateOf(draft, rules, NoReply).decision = "exact"
=============================================================================
