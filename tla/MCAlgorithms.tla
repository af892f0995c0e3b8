---------------------------- MODULE MCAlgorithms ----------------------------
(***************************************************************************)
(* The algorithms without a state of their own, each asked every question  *)
(* within bounds: a behaviour is one call, whose input arrives in at most  *)
(* three steps.  The invariants are about the answer to it.                *)
(***************************************************************************)
EXTENDS TextGeneration, EntityMasking, DuplicateCheck, Drafting

VARIABLE call

Nothing == [of |-> "nothing"]

Asked(what) == call.of = what

(***************************************************************************)
(* Texts and replies.  Bound: a second POST is answered or busy.           *)
(***************************************************************************)

Worlds == [Providers -> Outcomes \X {"text", "busy"}]
KeySets == SUBSET {"groq", "gemini"}

AskForText ==
    /\ Asked("nothing")
    /\ \E preferred \in Providers, keys \in KeySets, fast \in BOOLEAN :
         call' = [of |-> "text wanted", preferred |-> preferred, keys |-> keys,
                  fast |-> fast]

ProvidersAnswer ==
    /\ Asked("text wanted")
    /\ \E world \in Worlds :
         call' = [of |-> "text", preferred |-> call.preferred, keys |-> call.keys,
                  fast |-> call.fast, world |-> world]

AskForReply ==
    /\ Asked("nothing")
    /\ \E world \in [Providers -> Outcomes \X {"text"}], primary \in Providers,
          keys \in KeySets, names \in Providers \cup {"plain"} :
         call' = [of |-> "reply", world |-> world, primary |-> primary,
                  keys |-> keys, names |-> names]

(***************************************************************************)
(* Spans.  Bounds: texts of five characters with at most three spans of    *)
(* three types, one of which is not masked, and two scores.                *)
(***************************************************************************)

SourceOf == [EMAIL |-> "local_regex", ADDRESS |-> "vn_address", URL |-> "presidio"]

Reported ==
    { s \in { Span(t, a, b, c, SourceOf[t], 0) :
                t \in DOMAIN SourceOf, a \in 0..4, b \in 1..5, c \in {70, 90} } :
        s.start < s.end }

ReportSpan ==
    /\ Asked("nothing") \/ (Asked("spans") /\ Cardinality(call.spans) < 3)
    /\ \E s \in Reported :
         call' = [of |-> "spans",
                  spans |-> {s} \cup (IF Asked("spans") THEN call.spans ELSE {})]

\* Numbers of nine to twenty digits; the dash stands in those of thirteen only, and
\* filler words only behind a space.
Nearness == [{"PHONE", "CCCD", "TAX_ID"} -> 0..2]

ReportNumber ==
    /\ Asked("nothing")
    /\ \E digits \in 9..20, zero, luhn, dash, spaced \in BOOLEAN :
         /\ dash => digits = 13
         /\ \E hint, said \in Nearness,
               tail \in {[vi |-> 0, en |-> 0]}
                          \cup (IF spaced THEN {[vi |-> 7, en |-> 3]} ELSE {}) :
              call' = [of |-> "number",
                       number |-> [digits |-> digits, zero |-> zero, luhn |-> luhn,
                                   dash |-> dash, spaced |-> spaced, hint |-> hint,
                                   said |-> said, tail |-> tail]]

(***************************************************************************)
(* Duplicates.  Bounds: drafts for an entity or for keywords, with and     *)
(* without codes; two rules that differ from the draft in any of key,      *)
(* priority, action, entity and codes; high, middling or low scores.       *)
(***************************************************************************)

DraftRules ==
    { [key |-> "k", scope |-> "chat", action |-> "mask", severity |-> "low",
       ragMode |-> "off", priority |-> 1, entities |-> e, terms |-> t, rest |-> "r",
       fields |-> IF e = {} THEN {"context_keywords"} ELSE {},
       id |-> 0, similarity |-> 0, lexical |-> 0, global |-> FALSE] :
        e \in {{}, {"PHONE"}}, t \in {{}, {"code1"}} }

High == <<95, 90>>
Middling == <<80, 60>>
Low == <<20, 10>>

Like(draft, id, key, action, entities, terms, scores) ==
    [draft EXCEPT !.id = id, !.key = key[1], !.action = action, !.priority = key[2],
                  !.entities = entities, !.terms = terms, !.global = (id = 1),
                  !.similarity = scores[1], !.lexical = scores[2]]

RulesLike(draft, id, scores) ==
    { Like(draft, id, k, a, e, t, s) :
        k \in {<<"k", 1>>, <<"l", 1>>, <<"l", 2>>}, a \in {"mask", "block"},
        e \in {draft.entities, {"EMAIL"}}, t \in {{}, {"code1"}, {"code2"}},
        s \in scores }

\* The model's answers: a decision, and either rule, both, or another one.
Replies ==
    [decision : {"exact", "near", "different"}, named : {{}, {1}, {2}, {1, 2}, {3}}]
        \cup {NoReply}

CheckDraft ==
    /\ Asked("nothing")
    /\ \E draft \in DraftRules :
         \E one \in RulesLike(draft, 1, {High, Middling, Low}) :
            call' = [of |-> "duplicate", draft |-> draft, rules |-> {one}]

CompareAnother ==
    /\ Asked("duplicate") /\ Cardinality(call.rules) = 1
    /\ \E two \in RulesLike(call.draft, 2, {High, Low}) :
         call' = [call EXCEPT !.rules = @ \cup {two}]

(***************************************************************************)
(* Drafts.  Bounds: requests about at most one PII type, one code-like     *)
(* word and one topic; model's drafts with one or two leaves.              *)
(***************************************************************************)

Requests ==
    { q \in [ known : {"none", "EMAIL"}, mentions : {"none", "EMAIL"},
              literal : BOOLEAN, top : BOOLEAN, secretly : BOOLEAN,
              tokens : {{}, {"code"}, {"weak"}}, payroll : BOOLEAN,
              topic : {"none", "office", "finance"},
              explicit : {"none", "block"}, hint : {"mask", "allow"},
              said : { {"word"} \cup own \cup pay :
                          own \in {{}, {"support", "piece"},
                                  {"phrase", "support", "action"},
                                  {"documents", "internal"}},
                          pay \in {{}, {"payroll"}, {"payroll", "gmail"}} } ] :
        /\ q.known = "EMAIL" => q.mentions = "EMAIL"
        /\ q.top => q.literal /\ q.tokens # {} /\ q.known = "none"
        /\ q.secretly => q.tokens # {} /\ q.known = "none"
        /\ q.payroll <=> "payroll" \in q.said
        /\ "gmail" \in q.said => q.known = "EMAIL"
        /\ q.hint = "allow" => q.explicit = "block" }

Under(leaf) == [on |-> leaf.on, values |-> leaf.values, negated |-> TRUE]

DraftLeaves ==
    { Keyword(ws) : ws \in {{"code"}, {"weak"}, {"alien"}, {"piece"},
                            {"phrase", "alien"}, {"secret"}, {"noise"}} }
        \cup { Under(Keyword({"code"})), Under(Entity({"EMAIL"})) }
        \cup { Entity(ts) : ts \in {{"INTERNAL_CODE"}, {"EMAIL", "INTERNAL_CODE"}} }
        \cup { Persona("finance") }

DraftTerms ==
    { <<{}, "CUSTOM_SECRET">>, <<{"code"}, "INTERNAL_CODE">>,
      <<{"piece", "weak"}, "INTERNAL_CODE">>,
      <<{"alien", "support"}, "CUSTOM_SECRET">>,
      <<{"invented", "placeholder", "gmail"}, "EMAIL">> }

ModelDrafts ==
    { [leaves |-> {l, m}, terms |-> t[1], type |-> t[2], action |-> "mask",
       key |-> [scope |-> "global", names |-> "none", acts |-> FALSE]] :
        l, m \in DraftLeaves, t \in DraftTerms }

RequestRule ==
    /\ Asked("nothing")
    /\ \E request \in Requests :
         call' = [of |-> "draft", request |-> request, replies |-> {}]

ModelDraftsIt ==
    /\ Asked("draft") /\ call.replies = {}
    /\ \E draft \in ModelDrafts : call' = [call EXCEPT !.replies = {draft}]

-----------------------------------------------------------------------------
Init == call = Nothing

Next ==
    \/ AskForText \/ ProvidersAnswer \/ AskForReply
    \/ ReportSpan \/ ReportNumber
    \/ CheckDraft \/ CompareAnother
    \/ RequestRule \/ ModelDraftsIt

Spec == Init /\ [][Next]_call

-----------------------------------------------------------------------------
\* Every way of asking for a text, whatever each provider does: the POSTs are
\* orderly and few (two to a provider, one when the caller is in a hurry, as the
\* verifier inside a scan is); no provider without a key is asked; a failure
\* means that each provider of the chain was asked and failed for good; and a
\* model a caller named is put to one provider only, which in the chat is the one
\* the name stands for (text_generation.py's loops, generate_reply).
FallbacksInOrder ==
    /\ Asked("text") =>
          TextAsPromised(call.world, call.preferred, call.keys, call.fast)
    /\ Asked("reply") =>
          ReplyAsPromised(call.world, call.names, call.primary, call.keys)

\* A reported span of a maskable type that beats each maskable span it overlaps,
\* by the merger's measure and by the mask's, is hidden to its last character: no
\* span of a type that is not masked and no chain of other spans stands in its way.
\* And the spans chosen are apart, so that replacing them from the right leaves the
\* offsets of the others valid (EntityMerger.merge and MaskService.mask: two passes
\* with different orders, each looking at its last choice only).
LocalWinnersAreMasked == Asked("spans") => ReportMasked(call.spans)

\* A ten-digit number that may be a phone or a tax number is masked as a tax number
\* exactly when a word for taxes stands at least as near as one for phones (both
\* detectors agreeing on how near); a number with a card's checksum is masked as a
\* card, whole; and no number that a detector reports stays unmasked
\* (the scores of the two detectors, _resolve_phone_tax_overlap, _guess_type).
NearestNameWins == Asked("number") => NumberMasked(call.number)

\* Whatever the model answers and however scores rank the rules: a confirmation is
\* refused only for a rule of the same action on the same kind of data that does
\* not name other codes (so a second internal code can always be protected beside
\* the first), and a rule that differs in its key at most is always reported as an
\* exact duplicate (the order of the checks in build_duplicate_check, and its
\* last correction, which looks at one of several matches).
RefusalIsFounded ==
    Asked("duplicate") => RefusedForReason(call.draft, call.rules, Replies)

\* What one pass over a draft establishes survives the passes after it: the key is
\* never global, the conditions can be shown and ask for something, no entity type
\* INTERNAL_CODE is left, and every keyword and term occurs in the request.  Unless
\* the draft had to be replaced by the minimal one, the action that the request
\* names is taken, and a request about a literal secret gets no common PII type in its
\* place and, if the model's answer is straight, protects that secret: the guards take a
\* keyword under a "not" or one that merely overlaps the secret for its protection
\* (_condition_has_context_keyword_term), which the normalisation then drops or leaves
\* as it is.  Confirmation and application, which both rewrite the stored draft, agree
\* (_generate_draft_from_prompt, confirm_rule_suggestion).
GuardsSurvive == Asked("draft") => DraftedAsAsked(call.request, call.replies)
=============================================================================
