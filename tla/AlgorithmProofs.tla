--------------------------- MODULE AlgorithmProofs ----------------------------
(***************************************************************************)
(* What holds of the algorithms' answers for inputs of every size.           *)
(***************************************************************************)
EXTENDS MCAlgorithms, FiniteSetTheorems, SequenceTheorems, WellFoundedInduction,
        TLAPS

-----------------------------------------------------------------------------
(* Orders on finite sets.                                                  *)

Orders(R, S) ==
    /\ \A a, b \in S : a # b => <<a, b>> \in R \/ <<b, a>> \in R
    /\ \A a, b, c \in S : <<a, b>> \in R /\ <<b, c>> \in R => <<a, c>> \in R

First(R, T, r) == r \in T /\ \A s \in T \ {r} : <<r, s>> \in R

\* A finite set that is not empty has a first element: a smallest subset without would
\* have one, namely that of the others or the one left out.
LEMMA FirstExists ==
    ASSUME NEW S, IsFiniteSet(S), NEW R, Orders(R, S), NEW M \in SUBSET S, M # {}
    PROVE  \E r \in M : First(R, M, r)
<1>. DEFINE Bad == {T \in SUBSET S : T # {} /\ ~\E r \in T : First(R, T, r)}
            Less == StrictSubsetOrdering(S)
<1>1. SUFFICES ASSUME M \in Bad PROVE FALSE
  OBVIOUS
<1>2. Bad \subseteq FiniteSubsetsOf(S)
  BY FS_FiniteSubsetsOfFinite
<1>3. IsWellFoundedOn(Less, FiniteSubsetsOf(S))
  BY FS_StrictSubsetOrderingWellFounded
<1>. HIDE DEF Less
<1>4. \E T \in Bad : \A U \in Bad : <<U, T>> \notin Less
  <2>. HIDE DEF Bad
  <2>1. QED
    BY <1>1, <1>2, <1>3, WFMin
<1>5. PICK T \in Bad : \A U \in Bad : <<U, T>> \notin Less
  BY <1>4
<1>6. PICK x \in T : x \in S
  BY <1>5
<1>7. T \in SUBSET S /\ ~\E r \in T : First(R, T, r)
  BY <1>5
<1>. DEFINE U == T \ {x}
<1>8. <<U, T>> \in Less
  BY <1>6, <1>7 DEF Less, StrictSubsetOrdering
<1>9. U \notin Bad /\ U \in SUBSET S
  BY <1>5, <1>7, <1>8
<1>10. CASE U = {}
  BY <1>6, <1>7, <1>10 DEF First
<1>11. CASE U # {}
  <2>1. PICK y \in U : First(R, U, y)
    BY <1>9, <1>11
  <2>2. y \in T /\ y # x
    BY <2>1
  <2>3. CASE <<y, x>> \in R
    <3>1. First(R, T, y)
      BY <2>1, <2>2, <2>3 DEF First
    <3>2. QED
      BY <1>7, <2>2, <3>1
  <2>4. CASE <<x, y>> \in R
    <3>1. \A s \in T \ {x} : <<x, s>> \in R
      BY <1>6, <1>7, <2>1, <2>2, <2>4 DEF First, Orders
    <3>2. QED
      BY <1>6, <1>7, <3>1 DEF First
  <2>5. QED
    BY <1>6, <1>7, <2>2, <2>3, <2>4 DEF Orders
<1>12. QED
  BY <1>10, <1>11

-----------------------------------------------------------------------------
(* Duplicates.                                                             *)

\* What the rows of rules are: scores are numbers, ids differ.
Rows(rules) ==
    /\ IsFiniteSet(rules)
    /\ \A r \in rules : /\ r.id \in Int /\ r.similarity \in Int /\ r.lexical \in Int
                        /\ IsFiniteSet(r.entities)
    /\ \A r, s \in rules : r.id = s.id => r = s

LEMMA PointsType == \A c : Points(c, 25) \in Nat /\ Points(c, 10) \in Nat
  BY DEF Points

LEMMA StructuralType ==
    ASSUME NEW draft, NEW r, IsFiniteSet(draft.entities), IsFiniteSet(r.entities)
    PROVE  Structural(draft, r) \in Int
<1>. DEFINE d == draft.entities
            e == r.entities
<1>1. CASE d = {} \/ e = {}
  BY <1>1 DEF Structural, Points
<1>2. CASE ~(d = {} \/ e = {})
  <2>1. IsFiniteSet(d \cap e) /\ IsFiniteSet(d \cup e)
    BY FS_Intersection, FS_Union
  <2>2. Cardinality(d \cap e) \in Nat /\ Cardinality(d \cup e) \in Nat
    BY <2>1, FS_CardinalityType
  <2>3. Cardinality(d \cup e) # 0
    BY <1>2, <2>1, FS_EmptySet
  <2>4. (30 * Cardinality(d \cap e)) \div Cardinality(d \cup e) \in Int
    BY <2>2, <2>3
  <2>5. QED
    BY <1>2, <2>4 DEF Structural, Points
<1>3. QED
  BY <1>1, <1>2

LEMMA HybridType ==
    ASSUME NEW draft, NEW r, IsFiniteSet(draft.entities), IsFiniteSet(r.entities),
           r.similarity \in Int, r.lexical \in Int
    PROVE  Hybrid(draft, r) \in Int
<1>1. Structural(draft, r) \in Int
  BY StructuralType
<1>2. \A n \in Int : Clamp(n) \in Int
  BY DEF Clamp
<1>3. QED
  BY <1>1, <1>2 DEF Hybrid, Points

\* The rules of a set have a best one, whatever the scores.
LEMMA BestIsOne ==
    ASSUME NEW draft, IsFiniteSet(draft.entities), NEW rules, Rows(rules),
           NEW S \in SUBSET rules, S # {}
    PROVE  Best(draft, S) \in S
<1>. DEFINE R == {p \in rules \X rules : Above(draft, p[1], p[2])}
<1>1. \A r \in rules : Hybrid(draft, r) \in Int
  BY HybridType DEF Rows
<1>2. \A r, s \in rules : r # s => Above(draft, r, s) \/ Above(draft, s, r)
  BY <1>1 DEF Rows, Above
<1>3. \A r, s, t \in rules :
        Above(draft, r, s) /\ Above(draft, s, t) => Above(draft, r, t)
  <2>. TAKE r, s, t \in rules
  <2>1. /\ Hybrid(draft, r) \in Int /\ Hybrid(draft, s) \in Int
        /\ Hybrid(draft, t) \in Int
    BY <1>1
  <2>2. QED
    BY <2>1 DEF Rows, Above
<1>4. Orders(R, rules)
  BY <1>2, <1>3 DEF Orders
<1>5. PICK r \in S : First(R, S, r)
  <2>. HIDE DEF R
  <2>1. QED
    BY <1>4, FirstExists DEF Rows
<1>6. \A s \in S \ {r} : Above(draft, r, s)
  BY <1>5 DEF First
<1>7. QED
  BY <1>5, <1>6 DEF Best

LEMMA TwinsAreCompatible ==
    ASSUME NEW draft, NEW r,
           Signature(r) = Signature(draft) \/ Semantic(r) = Semantic(draft)
    PROVE  Compatible(draft, r)
<1>1. r.scope = draft.scope /\ r.action = draft.action
      /\ Conditions(r) = Conditions(draft)
  BY DEF Signature, Semantic
<1>2. r.entities = draft.entities /\ r.fields = draft.fields
  BY <1>1 DEF Conditions
<1>3. QED
  BY <1>1, <1>2 DEF Compatible, SameFamily

Plain(draft, rules) == {r \in rules : ~Variant(draft, r)}

\* What the hard checks answer.
LEMMA HardChecks ==
    ASSUME NEW draft, IsFiniteSet(draft.entities), NEW rules, Rows(rules),
           NEW check \in Deterministic(draft, rules)
    PROVE  /\ Deterministic(draft, rules) = {check}
           /\ check.decision = "exact"
           /\ \/ check.rationale = "stable_key_conflict"
              \/ \E r \in rules : /\ r.id \in check.matched /\ ~Variant(draft, r)
                                  /\ Compatible(draft, r)
<1>. DEFINE sameKey == {r \in Plain(draft, rules) : r.key = draft.key}
            sameSignature ==
                {r \in Plain(draft, rules) : Signature(r) = Signature(draft)}
            sameSemantic ==
                {r \in Plain(draft, rules) : Semantic(r) = Semantic(draft)}
            found(S, rationale) ==
                Check("exact", rationale, {Best(draft, S).id},
                      SimilarOf(draft, rules))
<1>1. \A S \in SUBSET rules : S # {} => Best(draft, S) \in S
  BY BestIsOne
<1>2. Deterministic(draft, rules) =
        IF sameKey # {} THEN {found(sameKey, "stable_key_conflict")}
        ELSE IF sameSignature # {}
             THEN {found(sameSignature, "normalized_signature_match")}
        ELSE IF sameSemantic # {}
             THEN {found(sameSemantic, "semantic_signature_match")}
        ELSE {}
  BY DEF Deterministic, Plain
<1>3. CASE sameKey # {}
  <2>1. check = found(sameKey, "stable_key_conflict")
        /\ Deterministic(draft, rules) = {check}
    BY <1>2, <1>3
  <2>2. QED
    BY <2>1 DEF Check
<1>4. CASE sameKey = {} /\ sameSignature # {}
  <2>1. check = found(sameSignature, "normalized_signature_match")
        /\ Deterministic(draft, rules) = {check}
    BY <1>2, <1>4
  <2>2. Best(draft, sameSignature) \in sameSignature
    BY <1>1, <1>4 DEF Plain
  <2>3. QED
    BY <2>1, <2>2, TwinsAreCompatible DEF Check, Plain
<1>5. CASE sameKey = {} /\ sameSignature = {} /\ sameSemantic # {}
  <2>1. check = found(sameSemantic, "semantic_signature_match")
        /\ Deterministic(draft, rules) = {check}
    BY <1>2, <1>5
  <2>2. Best(draft, sameSemantic) \in sameSemantic
    BY <1>1, <1>5 DEF Plain
  <2>3. QED
    BY <2>1, <2>2, TwinsAreCompatible DEF Check, Plain
<1>6. QED
  BY <1>2, <1>3, <1>4, <1>5

\* The hard checks find every rule that does what the draft does.
LEMMA TwinsAreFound ==
    ASSUME NEW draft, NEW rules, NEW r \in rules, Semantic(r) = Semantic(draft)
    PROVE  Deterministic(draft, rules) # {}
<1>1. r.terms = draft.terms
  BY DEF Semantic, Conditions
<1>2. r \in {s \in Plain(draft, rules) : Semantic(s) = Semantic(draft)}
  BY <1>1 DEF Plain, Variant
<1>3. QED
  BY <1>2 DEF Deterministic, Plain

\* What becomes of the answer of the model or the scores.
LEMMA SoftChecks ==
    ASSUME NEW draft, IsFiniteSet(draft.entities), NEW rules, Rows(rules), NEW reply,
           Deterministic(draft, rules) = {}, DuplicateOf(draft, rules, reply).decision = "exact"
    PROVE  \E r \in rules : /\ r.id \in DuplicateOf(draft, rules, reply).matched
                            /\ ~Variant(draft, r) /\ Compatible(draft, r)
<1>. DEFINE top == FirstK(draft, CompatibleOf(draft, rules))
            similar == SimilarOf(draft, rules)
            answer == Answer(draft, Best(draft, top), reply)
            matched == Matched(draft, answer.decision, answer.named, top)
            check == Downgraded(draft, answer.decision, answer.rationale, matched,
                                similar)
<1>1. top \in SUBSET rules /\ \A r \in top : Compatible(draft, r)
  BY DEF FirstK, CompatibleOf
<1>2. top # {} /\ DuplicateOf(draft, rules, reply) = check
  BY DEF DuplicateOf, Check
<1>3. check.decision = "exact"
  BY <1>2
<1>. HIDE DEF top, similar, answer
<1>4. answer.decision = "exact" /\ check.matched = {r.id : r \in matched}
      /\ (matched # {} => ~Variant(draft, Best(draft, matched)))
  BY <1>3 DEF Downgraded, Check
<1>5. Best(draft, top) \in top
  BY <1>1, <1>2, BestIsOne
<1>6. matched # {} /\ matched \in SUBSET top
  BY <1>4, <1>5 DEF Matched
<1>. HIDE DEF matched
<1>7. Best(draft, matched) \in matched
  BY <1>1, <1>6, BestIsOne
<1>8. QED
  BY <1>1, <1>2, <1>4, <1>6, <1>7

\* For every draft, every set of rules and all answers of the model: a refusal has its
\* ground, and a rule that does what the draft does is reported as exact.
THEOREM RefusalsHaveGrounds ==
    ASSUME NEW draft, IsFiniteSet(draft.entities), NEW rules, Rows(rules), NEW replies
    PROVE  RefusedForReason(draft, rules, replies)
<1>1. ASSUME NEW reply, RefusesConfirmation(DuplicateOf(draft, rules, reply))
      PROVE  \E r \in rules : /\ r.id \in DuplicateOf(draft, rules, reply).matched
                              /\ Compatible(draft, r) /\ ~Variant(draft, r)
  <2>. DEFINE check == DuplicateOf(draft, rules, reply)
  <2>1. check.decision = "exact" /\ check.rationale # "stable_key_conflict"
    BY <1>1 DEF RefusesConfirmation
  <2>2. CASE Deterministic(draft, rules) = {}
    BY <2>1, <2>2, SoftChecks
  <2>3. CASE Deterministic(draft, rules) # {}
    <3>1. check \in Deterministic(draft, rules)
      BY <2>3 DEF DuplicateOf
    <3>. HIDE DEF check
    <3>2. \E r \in rules : /\ r.id \in check.matched /\ ~Variant(draft, r)
                           /\ Compatible(draft, r)
      BY <2>1, <3>1, HardChecks
    <3>3. QED
      BY <3>2 DEF check
  <2>4. QED
    BY <2>2, <2>3
<1>2. ASSUME NEW r \in rules, Semantic(r) = Semantic(draft)
      PROVE  DuplicateOf(draft, rules, NoReply).decision = "exact"
  <2>1. Deterministic(draft, rules) # {}
    BY <1>2, TwinsAreFound
  <2>2. DuplicateOf(draft, rules, NoReply) \in Deterministic(draft, rules)
    BY <2>1 DEF DuplicateOf
  <2>3. QED
    BY <2>2, HardChecks
<1>3. QED
  BY <1>1, <1>2 DEF RefusedForReason

-----------------------------------------------------------------------------
(* The same of the calls that TLC enumerates.                              *)

AskedDraft == [of : {"draft"}, request : Requests, replies : SUBSET ModelDrafts]

\* The calls whose input comes in steps, as far as it has come.
CallInv ==
    /\ Asked("draft") => call \in AskedDraft
    /\ Asked("duplicate") =>
          /\ call = [of |-> "duplicate", draft |-> call.draft, rules |-> call.rules]
          /\ call.draft \in DraftRules
          /\ Rows(call.rules)
          /\ Cardinality(call.rules) = 1 => \A r \in call.rules : r.id = 1

LEMMA RuleLikeType ==
    ASSUME NEW draft \in DraftRules, NEW n \in Int,
           NEW scores \in SUBSET {High, Middling, Low}, NEW r \in RulesLike(draft, n, scores)
    PROVE  /\ r.id = n /\ r.similarity \in Int /\ r.lexical \in Int
           /\ IsFiniteSet(r.entities)
<1>1. \A x : IsFiniteSet({x})
  BY FS_Singleton
<1>2. PICK e \in {{}, {"PHONE"}}, t \in {{}, {"code1"}} :
        draft = [key |-> "k", scope |-> "chat", action |-> "mask", severity |-> "low",
                 ragMode |-> "off", priority |-> 1, entities |-> e, terms |-> t,
                 rest |-> "r",
                 fields |-> IF e = {} THEN {"context_keywords"} ELSE {},
                 id |-> 0, similarity |-> 0, lexical |-> 0, global |-> FALSE]
  BY DEF DraftRules
<1>3. IsFiniteSet(draft.entities) /\ IsFiniteSet({"EMAIL"})
  BY <1>1, <1>2, FS_EmptySet
<1>4. \A s \in scores : s[1] \in Int /\ s[2] \in Int
  BY DEF High, Middling, Low
<1>5. PICK k \in {<<"k", 1>>, <<"l", 1>>, <<"l", 2>>}, a \in {"mask", "block"},
           f \in {draft.entities, {"EMAIL"}}, u \in {{}, {"code1"}, {"code2"}},
           s \in scores : r = Like(draft, n, k, a, f, u, s)
  BY DEF RulesLike
<1>6. r.id = n /\ r.similarity = s[1] /\ r.lexical = s[2] /\ r.entities = f
  BY <1>2, <1>5 DEF Like
<1>7. QED
  BY <1>3, <1>4, <1>5, <1>6

LEMMA DraftRuleType == \A draft \in DraftRules : IsFiniteSet(draft.entities)
<1>1. \A x : IsFiniteSet({x})
  BY FS_Singleton
<1>2. \A draft \in DraftRules : draft.entities \in {{}, {"PHONE"}}
  BY DEF DraftRules
<1>3. QED
  BY <1>1, <1>2, FS_EmptySet

LEMMA CallsStart == Init => CallInv
  BY DEF Init, CallInv, Asked, Nothing

\* The questions that come in one step.
LEMMA OneStepCalls ==
    /\ AskForText => (call').of = "text wanted"
    /\ ProvidersAnswer => (call').of = "text"
    /\ AskForReply => (call').of = "reply"
    /\ ReportSpan => (call').of = "spans"
    /\ ReportNumber => (call').of = "number"
    /\ CheckDraft => (call').of = "duplicate"
<1>1. ASSUME AskForText PROVE (call').of = "text wanted"
  <2>1. PICK p, k, f : call' = [of |-> "text wanted", preferred |-> p,
                                keys |-> k, fast |-> f]
    BY <1>1, Zenon DEF AskForText
  <2>2. QED
    BY <2>1
<1>2. ASSUME ProvidersAnswer PROVE (call').of = "text"
  <2>1. PICK w : call' = [of |-> "text", preferred |-> call.preferred,
                          keys |-> call.keys, fast |-> call.fast, world |-> w]
    BY <1>2, Zenon DEF ProvidersAnswer
  <2>2. QED
    BY <2>1
<1>3. AskForReply => (call').of = "reply"
  BY DEF AskForReply
<1>4. ReportSpan => (call').of = "spans"
  BY DEF ReportSpan
<1>5. ReportNumber => (call').of = "number"
  BY DEF ReportNumber
<1>6. CheckDraft => (call').of = "duplicate"
  BY DEF CheckDraft
<1>7. QED
  BY <1>1, <1>2, <1>3, <1>4, <1>5, <1>6

LEMMA CallsKept == CallInv /\ [Next]_call => CallInv'
<1>. SUFFICES ASSUME CallInv, [Next]_call PROVE CallInv'
  OBVIOUS
<1>1. ASSUME (call').of \notin {"draft", "duplicate"} PROVE CallInv'
  BY <1>1 DEF CallInv, Asked
<1>2. CASE AskForText \/ ProvidersAnswer \/ AskForReply \/ ReportSpan \/ ReportNumber
  BY <1>1, <1>2, OneStepCalls
<1>3. CASE CheckDraft
  <2>1. PICK draft, one :
          /\ draft \in DraftRules
          /\ one \in RulesLike(draft, 1, {High, Middling, Low})
          /\ call' = [of |-> "duplicate", draft |-> draft, rules |-> {one}]
    BY <1>3 DEF CheckDraft
  <2>2. /\ one.id = 1 /\ one.similarity \in Int /\ one.lexical \in Int
        /\ IsFiniteSet(one.entities)
    BY <2>1, RuleLikeType
  <2>3. Rows({one}) /\ \A r \in {one} : r.id = 1
    <3>1. IsFiniteSet({one})
      BY FS_Singleton
    <3>2. QED
      BY <2>2, <3>1 DEF Rows
  <2>4. QED
    BY <2>1, <2>3 DEF CallInv, Asked
<1>4. CASE CompareAnother
  <2>. DEFINE draft == call.draft
              S == call.rules
  <2>1. /\ call = [of |-> "duplicate", draft |-> draft, rules |-> S]
        /\ draft \in DraftRules /\ Rows(S) /\ Cardinality(S) = 1
        /\ \A r \in S : r.id = 1
    BY <1>4 DEF CompareAnother, CallInv
  <2>2. PICK two \in RulesLike(draft, 2, {High, Low}) :
          call' = [call EXCEPT !.rules = @ \cup {two}]
    BY <1>4 DEF CompareAnother
  <2>3. call' = [of |-> "duplicate", draft |-> draft, rules |-> S \cup {two}]
    BY <2>1, <2>2
  <2>4. /\ two.id = 2 /\ two.similarity \in Int /\ two.lexical \in Int
        /\ IsFiniteSet(two.entities)
    BY <2>1, <2>2, RuleLikeType
  <2>5. IsFiniteSet(S) /\ two \notin S
    BY <2>1, <2>4 DEF Rows
  <2>6. IsFiniteSet(S \cup {two}) /\ Cardinality(S \cup {two}) = 2
    <3>1. ASSUME NEW T, IsFiniteSet(T), NEW x, x \notin T, Cardinality(T) = 1
          PROVE  IsFiniteSet(T \cup {x}) /\ Cardinality(T \cup {x}) = 2
      BY <3>1, FS_AddElement
    <3>2. QED
      BY <2>1, <2>5, <3>1
  <2>7. Rows(S \cup {two})
    BY <2>1, <2>4, <2>6 DEF Rows
  <2>8. QED
    BY <2>1, <2>3, <2>6, <2>7 DEF CallInv, Asked
<1>5. CASE RequestRule
  BY <1>5 DEF RequestRule, CallInv, Asked, AskedDraft
<1>6. CASE ModelDraftsIt
  <2>1. PICK draft \in ModelDrafts : call' = [call EXCEPT !.replies = {draft}]
    BY <1>6 DEF ModelDraftsIt
  <2>2. call \in AskedDraft
    BY <1>6 DEF ModelDraftsIt, CallInv
  <2>3. call' \in AskedDraft /\ (call').of = "draft"
    BY <2>1, <2>2 DEF AskedDraft
  <2>4. QED
    BY <2>3 DEF CallInv, Asked
<1>7. CASE UNCHANGED call
  BY <1>7 DEF CallInv, Asked
<1>8. QED
  BY <1>2, <1>3, <1>4, <1>5, <1>6, <1>7 DEF Next

\* A confirmation is refused only for a rule of the same action on the same kind of data
\* that does not name other codes, and a rule that differs in its key at most is reported
\* as an exact duplicate (RefusalIsFounded).
THEOREM RefusalsAreFounded == Spec => []RefusalIsFounded
<1>1. CallInv => RefusalIsFounded
  <2>. SUFFICES ASSUME CallInv, Asked("duplicate")
                PROVE  RefusedForReason(call.draft, call.rules, Replies)
    BY DEF RefusalIsFounded
  <2>1. Rows(call.rules) /\ IsFiniteSet(call.draft.entities)
    BY DraftRuleType DEF CallInv
  <2>2. QED
    BY <2>1, RefusalsHaveGrounds
<1>2. QED
  BY <1>1, CallsStart, CallsKept, PTL DEF Spec

-----------------------------------------------------------------------------
(* Loops over a sequence.                                                  *)

\* What holds at the start and is kept by every step holds throughout: a first number for
\* which it does not would have a predecessor.
LEMMA Throughout ==
    ASSUME NEW N \in Nat, NEW G, 0 \in G, \A i \in 1..N : i - 1 \in G => i \in G
    PROVE  \A i \in 0..N : i \in G
<1>. DEFINE R == {p \in (0..N) \X (0..N) : p[1] < p[2]}
            Bad == {i \in 0..N : i \notin G}
<1>1. SUFFICES ASSUME Bad # {} PROVE FALSE
  OBVIOUS
<1>2. IsFiniteSet(0..N)
  BY FS_Interval
<1>3. Orders(R, 0..N)
  BY DEF Orders
<1>4. PICK i \in Bad : First(R, Bad, i)
  <2>. HIDE DEF R
  <2>1. Bad \in SUBSET (0..N)
    OBVIOUS
  <2>. HIDE DEF Bad
  <2>2. QED
    BY <1>1, <1>2, <1>3, <2>1, FirstExists
<1>5. i \in 1..N /\ i - 1 \in 0..N /\ i - 1 # i
  BY <1>4
<1>6. i - 1 \notin Bad
  <2>1. \A a, b : <<a, b>> \in R => a < b
    OBVIOUS
  <2>. HIDE DEF R
  <2>2. \A j \in Bad : j # i => i < j
    BY <1>4, <2>1 DEF First
  <2>3. QED
    BY <1>5, <2>2
<1>7. QED
  BY <1>4, <1>5, <1>6

\* A loop that stays in T has its states, one for each number of items.
Loop(m, n, T, start, step) ==
    /\ m \in [0..n -> T]
    /\ m[0] = start
    /\ \A i \in 1..n : m[i] = step[i][m[i - 1]]

LEMMA LoopRuns ==
    ASSUME NEW N \in Nat, NEW T, NEW start \in T, NEW step \in [1..N -> [T -> T]]
    PROVE  \E m : Loop(m, N, T, start, step)
<1>. DEFINE Runs(n, m) == Loop(m, n, T, start, step)
            G == {n \in 0..N : \E m : Runs(n, m)}
<1>1. 0 \in G
  <2>. DEFINE m == [i \in 0..0 |-> start]
  <2>1. m \in [0..0 -> T] /\ m[0] = start /\ 1..0 = {}
    OBVIOUS
  <2>2. Runs(0, m)
    BY <2>1 DEF Loop
  <2>. HIDE DEF m, Runs
  <2>3. QED
    BY <2>2
<1>2. ASSUME NEW n \in 1..N, n - 1 \in G PROVE n \in G
  <2>1. PICK m : Runs(n - 1, m)
    BY <1>2
  <2>2. m \in [0..n - 1 -> T] /\ m[0] = start /\ n - 1 \in 0..n - 1
    BY <2>1 DEF Loop
  <2>3. step[n] \in [T -> T] /\ m[n - 1] \in T
    BY <2>2
  <2>4. step[n][m[n - 1]] \in T
    BY <2>3
  <2>. DEFINE next == [i \in 0..n |-> IF i = n THEN step[n][m[n - 1]] ELSE m[i]]
  <2>5. next \in [0..n -> T] /\ next[0] = start
    BY <2>2, <2>4
  <2>6. ASSUME NEW i \in 1..n PROVE next[i] = step[i][next[i - 1]]
    <3>1. CASE i = n
      <4>1. next[i - 1] = m[n - 1] /\ next[i] = step[n][m[n - 1]]
        BY <3>1
      <4>. HIDE DEF next
      <4>2. QED
        BY <3>1, <4>1
    <3>2. CASE i # n
      <4>1. i \in 1..n - 1 /\ next[i] = m[i] /\ next[i - 1] = m[i - 1]
        BY <3>2
      <4>2. m[i] = step[i][m[i - 1]]
        BY <2>1, <4>1 DEF Loop
      <4>. HIDE DEF next
      <4>3. QED
        BY <4>1, <4>2
    <3>3. QED
      BY <3>1, <3>2
  <2>. HIDE DEF next
  <2>7. Runs(n, next)
    BY <2>5, <2>6 DEF Loop
  <2>. HIDE DEF Runs
  <2>8. QED
    BY <2>7
<1>3. N \in G
  <2>. HIDE DEF G
  <2>1. \A i \in 1..N : i - 1 \in G => i \in G
    BY <1>2
  <2>2. \A i \in 0..N : i \in G
    BY <1>1, <2>1, Throughout
  <2>3. QED
    BY <2>2
<1>4. QED
  BY <1>3

-----------------------------------------------------------------------------
(* Spans.                                                                  *)

\* What detectors report: a type that is not masked has no rank (CUSTOM_SECRET, the one
\* exception, is a type of terms and is reported by no detector).
SpanOk(s) ==
    /\ s.start \in Int /\ s.end \in Int /\ s.score \in Int /\ s.level \in Int
    /\ s.start < s.end
    /\ s.type \in Maskable \/ TypePriority(s.type) = 0

\* The loops' states.
MergeRun(q, m) ==
    /\ m[0] = <<>>
    /\ \A i \in 1..Len(q) : m[i] = MergeNext(m[i - 1], q[i])
    /\ MergeSorted(q) = m[Len(q)]

ChooseRun(q, m) ==
    /\ m[0] = <<>>
    /\ \A i \in 1..Len(q) : m[i] = ChooseNext(m[i - 1], q[i])
    /\ ChooseSorted(q) = m[Len(q)]

LEMMA MergeNextType ==
    ASSUME NEW S, NEW q \in Seq(S), NEW s \in S PROVE MergeNext(q, s) \in Seq(S)
  BY DEF MergeNext

LEMMA ChooseNextType ==
    ASSUME NEW S, NEW q \in Seq(S), NEW s \in S PROVE ChooseNext(q, s) \in Seq(S)
  BY DEF ChooseNext

LEMMA MergeRuns ==
    ASSUME NEW S, NEW q \in Seq(S)
    PROVE  \E m \in [0..Len(q) -> Seq(S)] : MergeRun(q, m)
<1>. DEFINE N == Len(q)
            T == Seq(S)
            none == <<>>
            step == [i \in 1..N |-> [kept \in T |-> MergeNext(kept, q[i])]]
            Body(m) == [i \in 0..N |-> IF i = 0 THEN <<>> ELSE MergeNext(m[i - 1], q[i])]
            chosen == CHOOSE m : m = Body(m)
<1>1. step \in [1..N -> [T -> T]]
  <2>1. \A i \in 1..N, kept \in T : MergeNext(kept, q[i]) \in T
    BY MergeNextType
  <2>2. QED
    BY <2>1
<1>2. N \in Nat /\ none \in T
  OBVIOUS
<1>3. PICK m : Loop(m, N, T, none, step)
  <2>. HIDE DEF step, T, N, none
  <2>1. QED
    BY <1>1, <1>2, LoopRuns
<1>4. ASSUME NEW i \in 1..N PROVE m[i - 1] \in T /\ m[i] = MergeNext(m[i - 1], q[i])
  <2>1. \A kept \in T : step[i][kept] = MergeNext(kept, q[i])
    OBVIOUS
  <2>2. i - 1 \in 0..N
    BY <1>2
  <2>. HIDE DEF T, step
  <2>3. QED
    BY <1>3, <2>1, <2>2 DEF Loop
<1>5. m = Body(m) /\ m \in [0..N -> T] /\ m[0] = <<>>
  BY <1>3, <1>4 DEF Loop
<1>6. chosen = Body(chosen)
  <2>. HIDE DEF Body
  <2>1. QED
    BY <1>5
<1>7. MergeSorted(q) = chosen[N]
  BY DEF MergeSorted
<1>. HIDE DEF chosen
<1>8. /\ chosen[0] = <<>>
      /\ \A i \in 1..N : chosen[i] = MergeNext(chosen[i - 1], q[i])
  BY <1>6
<1>. DEFINE G == {i \in 0..N : chosen[i] = m[i]}
<1>9. \A i \in 0..N : i \in G
  <2>1. 0 \in G /\ \A i \in 1..N : i - 1 \in G => i \in G
    BY <1>4, <1>5, <1>8
  <2>. HIDE DEF G
  <2>2. QED
    BY <1>2, <2>1, Throughout
<1>10. chosen[N] = m[N]
  BY <1>2, <1>9
<1>11. MergeRun(q, m)
  BY <1>4, <1>5, <1>7, <1>10 DEF MergeRun
<1>12. QED
  <2>. HIDE DEF Body
  <2>1. QED
    BY <1>5, <1>11

LEMMA ChooseRuns ==
    ASSUME NEW S, NEW q \in Seq(S)
    PROVE  \E m \in [0..Len(q) -> Seq(S)] : ChooseRun(q, m)
<1>. DEFINE N == Len(q)
            T == Seq(S)
            none == <<>>
            step == [i \in 1..N |-> [kept \in T |-> ChooseNext(kept, q[i])]]
            Body(m) == [i \in 0..N |-> IF i = 0 THEN <<>> ELSE ChooseNext(m[i - 1], q[i])]
            chosen == CHOOSE m : m = Body(m)
<1>1. step \in [1..N -> [T -> T]]
  <2>1. \A i \in 1..N, kept \in T : ChooseNext(kept, q[i]) \in T
    BY ChooseNextType
  <2>2. QED
    BY <2>1
<1>2. N \in Nat /\ none \in T
  OBVIOUS
<1>3. PICK m : Loop(m, N, T, none, step)
  <2>. HIDE DEF step, T, N, none
  <2>1. QED
    BY <1>1, <1>2, LoopRuns
<1>4. ASSUME NEW i \in 1..N PROVE m[i - 1] \in T /\ m[i] = ChooseNext(m[i - 1], q[i])
  <2>1. \A kept \in T : step[i][kept] = ChooseNext(kept, q[i])
    OBVIOUS
  <2>2. i - 1 \in 0..N
    BY <1>2
  <2>. HIDE DEF T, step
  <2>3. QED
    BY <1>3, <2>1, <2>2 DEF Loop
<1>5. m = Body(m) /\ m \in [0..N -> T] /\ m[0] = <<>>
  BY <1>3, <1>4 DEF Loop
<1>6. chosen = Body(chosen)
  <2>. HIDE DEF Body
  <2>1. QED
    BY <1>5
<1>7. ChooseSorted(q) = chosen[N]
  BY DEF ChooseSorted
<1>. HIDE DEF chosen
<1>8. /\ chosen[0] = <<>>
      /\ \A i \in 1..N : chosen[i] = ChooseNext(chosen[i - 1], q[i])
  BY <1>6
<1>. DEFINE G == {i \in 0..N : chosen[i] = m[i]}
<1>9. \A i \in 0..N : i \in G
  <2>1. 0 \in G /\ \A i \in 1..N : i - 1 \in G => i \in G
    BY <1>4, <1>5, <1>8
  <2>. HIDE DEF G
  <2>2. QED
    BY <1>2, <2>1, Throughout
<1>10. chosen[N] = m[N]
  BY <1>2, <1>9
<1>11. ChooseRun(q, m)
  BY <1>4, <1>5, <1>7, <1>10 DEF ChooseRun
<1>12. QED
  <2>. HIDE DEF Body
  <2>1. QED
    BY <1>5, <1>11

LEMMA Ranks ==
    ASSUME NEW type
    PROVE  TypePriority(type) \in Nat /\ (type \in Maskable => TypePriority(type) > 0)
  BY DEF TypePriority, Maskable

LEMMA SourceRanks ==
    ASSUME NEW source
    PROVE  /\ SourcePriority(source) \in Nat /\ PreferRank(source) \in Nat
           /\ ReportRank(source) \in Nat
  BY DEF SourcePriority, PreferRank, ReportRank

LEMMA GreaterIsStrict ==
    ASSUME NEW n \in Nat, NEW k \in [1..n -> Int], NEW l \in [1..n -> Int], Greater(k, l)
    PROVE  ~Greater(l, k)
<1>1. PICK i \in 1..n : k[i] > l[i] /\ \A j \in 1..i - 1 : k[j] = l[j]
  BY DEF Greater
<1>2. SUFFICES ASSUME Greater(l, k) PROVE FALSE
  OBVIOUS
<1>3. PICK h \in 1..n : l[h] > k[h] /\ \A j \in 1..h - 1 : l[j] = k[j]
  BY <1>2 DEF Greater
<1>4. CASE i < h
  BY <1>1, <1>3, <1>4
<1>5. CASE h < i
  BY <1>1, <1>3, <1>5
<1>6. QED
  BY <1>1, <1>3, <1>4, <1>5

LEMMA PrecedenceKeyType ==
    ASSUME NEW s, SpanOk(s)
    PROVE  /\ PrecedenceKey(s) \in [1..4 -> Int]
           /\ PrecedenceKey(s) \in Seq(Int) /\ Len(PrecedenceKey(s)) = 4
           /\ PrecedenceKey(s)[1] = TypePriority(s.type)
  BY Ranks, SourceRanks DEF SpanOk, PrecedenceKey

LEMMA Concatenated ==
    ASSUME NEW k \in Seq(Int), NEW l \in Seq(Int), NEW n \in Nat,
           Len(k) > 0, Len(k) + Len(l) = n
    PROVE  /\ k \o l \in [1..n -> Int] /\ k \o l \in Seq(Int)
           /\ Len(k \o l) = n /\ (k \o l)[1] = k[1]
<1>1. k \o l \in Seq(Int) /\ Len(k \o l) = n /\ (k \o l)[1] = k[1]
  BY ConcatProperties
<1>. DEFINE kl == k \o l
<1>. HIDE DEF kl
<1>2. kl \in Seq(Int) => kl \in [1..Len(kl) -> Int]
  OBVIOUS
<1>3. Len(kl) = n /\ kl \in Seq(Int) /\ kl[1] = k[1]
  BY <1>1 DEF kl
<1>4. kl \in [1..n -> Int]
  BY <1>2, <1>3
<1>5. QED
  BY <1>3, <1>4 DEF kl

\* The key that decides between types.
General(s) == PrecedenceKey(s) \o <<999 - PreferRank(s.source)>>

LEMMA GeneralKey ==
    ASSUME NEW s, SpanOk(s)
    PROVE  /\ General(s) \in [1..5 -> Int] /\ General(s) \in Seq(Int)
           /\ Len(General(s)) = 5 /\ General(s)[1] = TypePriority(s.type)
<1>. DEFINE key == PrecedenceKey(s)
            last == <<999 - PreferRank(s.source)>>
<1>1. last \in Seq(Int) /\ Len(last) = 1
  BY SourceRanks
<1>2. key \in Seq(Int) /\ Len(key) = 4 /\ key[1] = TypePriority(s.type)
  BY PrecedenceKeyType
<1>. HIDE DEF key, last
<1>3. /\ key \o last \in [1..5 -> Int] /\ key \o last \in Seq(Int)
      /\ Len(key \o last) = 5 /\ (key \o last)[1] = key[1]
  <2>1. 5 \in Nat /\ Len(key) > 0 /\ Len(key) + Len(last) = 5
    BY <1>1, <1>2
  <2>2. QED
    BY <1>1, <1>2, <2>1, Concatenated
<1>4. General(s) = key \o last
  BY DEF General, key, last
<1>5. QED
  BY <1>2, <1>3, <1>4

\* The same behind what is asked of numbers first.
LEMMA NumberKey ==
    ASSUME NEW s, SpanOk(s)
    PROVE  <<s.score, s.level>> \o General(s) \in [1..7 -> Int]
<1>. DEFINE first == <<s.score, s.level>>
<1>1. first \in Seq(Int) /\ Len(first) = 2
  BY DEF SpanOk
<1>2. General(s) \in Seq(Int) /\ Len(General(s)) = 5
  BY GeneralKey
<1>. HIDE DEF first
<1>3. first \o General(s) \in [1..7 -> Int]
  <2>1. 7 \in Nat /\ Len(first) > 0 /\ Len(first) + Len(General(s)) = 7
    BY <1>1, <1>2
  <2>2. QED
    BY <1>1, <1>2, <2>1, Concatenated
<1>4. QED
  BY <1>3 DEF first

LEMMA ResolveKeys ==
    ASSUME NEW s, NEW t, s.type # t.type
    PROVE  ResolveKey(s, t) = IF {s.type, t.type} = {"PHONE", "TAX_ID"}
                              THEN <<s.score, s.level>> \o General(s) ELSE General(s)
  BY DEF ResolveKey, General

LEMMA ResolveKeysType ==
    ASSUME NEW s, NEW t, SpanOk(s), SpanOk(t)
    PROVE  /\ \E n \in Nat : /\ ResolveKey(s, t) \in [1..n -> Int]
                             /\ ResolveKey(t, s) \in [1..n -> Int]
           /\ s.type \in Maskable /\ t.type \notin Maskable =>
                 /\ 1 \in DOMAIN ResolveKey(s, t)
                 /\ ResolveKey(s, t)[1] = TypePriority(s.type)
                 /\ ResolveKey(t, s)[1] = TypePriority(t.type)
<1>. DEFINE last(r) == 999 - PreferRank(r.source)
<1>1. CASE s.type = t.type
  <2>1. ResolveKey(s, t) = <<s.score, last(s)>> /\ ResolveKey(t, s) = <<t.score, last(t)>>
    BY <1>1 DEF ResolveKey
  <2>2. s.score \in Int /\ t.score \in Int /\ last(s) \in Int /\ last(t) \in Int
    BY SourceRanks DEF SpanOk
  <2>. HIDE DEF last
  <2>3. <<s.score, last(s)>> \in [1..2 -> Int] /\ <<t.score, last(t)>> \in [1..2 -> Int]
    BY <2>2
  <2>4. QED
    BY <1>1, <2>1, <2>3
<1>2. CASE s.type # t.type /\ {s.type, t.type} = {"PHONE", "TAX_ID"}
  <2>1. ResolveKey(s, t) = <<s.score, s.level>> \o General(s)
    BY <1>2, ResolveKeys
  <2>2. ResolveKey(t, s) = <<t.score, t.level>> \o General(t)
    BY <1>2, ResolveKeys
  <2>3. ResolveKey(s, t) \in [1..7 -> Int] /\ ResolveKey(t, s) \in [1..7 -> Int]
    BY <2>1, <2>2, NumberKey
  <2>4. t.type \in Maskable
    BY <1>2 DEF Maskable
  <2>5. QED
    BY <2>3, <2>4
<1>3. CASE s.type # t.type /\ {s.type, t.type} # {"PHONE", "TAX_ID"}
  <2>1. ResolveKey(s, t) = General(s)
    BY <1>3, ResolveKeys
  <2>2. {t.type, s.type} = {s.type, t.type}
    OBVIOUS
  <2>3. ResolveKey(t, s) = General(t)
    BY <1>3, <2>2, ResolveKeys
  <2>4. ResolveKey(s, t) \in [1..5 -> Int] /\ ResolveKey(t, s) \in [1..5 -> Int]
    BY <2>1, <2>3, GeneralKey
  <2>5. 1 \in 1..5 /\ DOMAIN ResolveKey(s, t) = 1..5
    BY <2>4
  <2>6. QED
    BY <2>1, <2>3, <2>4, <2>5, GeneralKey
<1>4. QED
  BY <1>1, <1>2, <1>3

\* A span that beats its rivals wins against every span it overlaps strongly.
Beats(S, s) ==
    /\ s.type \in Maskable
    /\ \A t \in Rivals(S, s) : Wins(s, t) /\ Outranks(s, t)

LEMMA WinnerWins ==
    ASSUME NEW S, \A r \in S : SpanOk(r), NEW s \in S, Beats(S, s),
           NEW t \in S, t # s, Overlap(s, t)
    PROVE  Wins(s, t) /\ ~Wins(t, s)
<1>1. SpanOk(s) /\ SpanOk(t)
  OBVIOUS
<1>2. Wins(s, t)
  <2>1. CASE t.type \in Maskable
    BY <2>1 DEF Beats, Rivals
  <2>2. CASE t.type \notin Maskable
    <3>1. TypePriority(t.type) = 0 /\ TypePriority(s.type) \in Nat
          /\ TypePriority(s.type) > 0
      BY <1>1, <2>2, Ranks DEF SpanOk, Beats
    <3>2. /\ 1 \in DOMAIN ResolveKey(s, t)
          /\ ResolveKey(s, t)[1] = TypePriority(s.type)
          /\ ResolveKey(t, s)[1] = TypePriority(t.type)
      BY <1>1, <2>2, ResolveKeysType DEF Beats
    <3>3. ResolveKey(s, t)[1] > ResolveKey(t, s)[1] /\ 1..1 - 1 = {}
      BY <3>1, <3>2
    <3>4. QED
      BY <3>2, <3>3 DEF Wins, Greater
  <2>3. QED
    BY <2>1, <2>2
<1>3. PICK n \in Nat : /\ ResolveKey(s, t) \in [1..n -> Int]
                       /\ ResolveKey(t, s) \in [1..n -> Int]
  BY <1>1, ResolveKeysType
<1>4. ~Wins(t, s)
  BY <1>2, <1>3, GreaterIsStrict DEF Wins
<1>5. QED
  BY <1>2, <1>4

LEMMA WinnerOutranks ==
    ASSUME NEW S, \A r \in S : SpanOk(r), NEW s \in S, Beats(S, s),
           NEW t \in S, t # s, t.type \in Maskable, Overlap(s, t)
    PROVE  Outranks(s, t) /\ ~Outranks(t, s)
<1>1. Outranks(s, t)
  BY DEF Beats, Rivals
<1>2. PrecedenceKey(s) \in [1..4 -> Int] /\ PrecedenceKey(t) \in [1..4 -> Int]
  BY PrecedenceKeyType
<1>3. ~Outranks(t, s)
  BY <1>1, <1>2, GreaterIsStrict DEF Outranks
<1>4. QED
  BY <1>1, <1>3

-----------------------------------------------------------------------------
(* What the passes do with such a span.                                    *)

Holds(kept, s) == \E i \in 1..Len(kept) : kept[i] = s

LEMMA MergeStep ==
    ASSUME NEW S, \A r \in S : SpanOk(r), NEW s \in S, Beats(S, s),
           NEW kept \in Seq(S), NEW t \in S, Holds(kept, s) \/ t = s
    PROVE  Holds(MergeNext(kept, t), s)
<1>. DEFINE n == Len(kept)
            next == MergeNext(kept, t)
<1>1. CASE kept = <<>> \/ ~StrongOverlap(t, kept[n])
  <2>1. next = Append(kept, t)
    BY <1>1 DEF MergeNext
  <2>. HIDE DEF next
  <2>2. Len(next) = n + 1 /\ next[n + 1] = t /\ \A i \in 1..n : next[i] = kept[i]
    BY <2>1
  <2>3. Holds(next, s)
    BY <2>2 DEF Holds
  <2>4. QED
    BY <2>3 DEF next
<1>2. CASE kept # <<>> /\ StrongOverlap(t, kept[n])
  <2>1. n \in 1..n /\ kept[n] \in S
    BY <1>2
  <2>2. Overlap(t, kept[n])
    BY <1>2 DEF StrongOverlap
  <2>3. next = IF Wins(t, kept[n]) THEN [kept EXCEPT ![n] = t] ELSE kept
    BY <1>2 DEF MergeNext
  <2>4. CASE Wins(t, kept[n])
    <3>1. /\ next = [kept EXCEPT ![n] = t]
          /\ Len(next) = n /\ next[n] = t /\ \A i \in 1..n - 1 : next[i] = kept[i]
      BY <2>1, <2>3, <2>4
    <3>2. kept[n] = s => t = s
      <4>1. ASSUME kept[n] = s, t # s PROVE Overlap(s, t)
        BY <2>2, <4>1 DEF Overlap
      <4>2. QED
        BY <2>4, <4>1, WinnerWins
    <3>. HIDE DEF next
    <3>3. t = s => Holds(next, s)
      BY <2>1, <3>1 DEF Holds
    <3>4. ASSUME Holds(kept, s), t # s PROVE Holds(next, s)
      <4>1. PICK i \in 1..n : kept[i] = s
        BY <3>4 DEF Holds
      <4>2. i \in 1..n - 1
        BY <3>2, <3>4, <4>1
      <4>3. QED
        BY <3>1, <4>1, <4>2 DEF Holds
    <3>5. QED
      BY <3>3, <3>4 DEF next
  <2>5. CASE ~Wins(t, kept[n])
    <3>1. next = kept
      BY <2>3, <2>5
    <3>2. t = s => kept[n] = s
      BY <2>1, <2>2, <2>5, WinnerWins
    <3>3. Holds(kept, s)
      BY <2>1, <3>2 DEF Holds
    <3>4. QED
      BY <3>1, <3>3
  <2>6. QED
    BY <2>4, <2>5
<1>3. QED
  BY <1>1, <1>2

\* The merge keeps it.
LEMMA WinnersAreMerged ==
    ASSUME NEW S, \A r \in S : SpanOk(r), NEW q \in Seq(S), NEW s \in S, Beats(S, s),
           Holds(q, s)
    PROVE  MergeSorted(q) \in Seq(S) /\ Holds(MergeSorted(q), s)
<1>. DEFINE N == Len(q)
<1>1. PICK m \in [0..N -> Seq(S)] : MergeRun(q, m)
  BY MergeRuns
<1>2. PICK a \in 1..N : q[a] = s
  BY DEF Holds
<1>. DEFINE G == {i \in 0..N : i < a \/ Holds(m[i], s)}
<1>3. 0 \in G
  BY <1>2
<1>4. ASSUME NEW i \in 1..N, i - 1 \in G PROVE i \in G
  <2>1. m[i - 1] \in Seq(S) /\ q[i] \in S /\ m[i] = MergeNext(m[i - 1], q[i])
    BY <1>1 DEF MergeRun
  <2>2. CASE i < a
    BY <2>2
  <2>3. CASE i = a \/ i - 1 >= a
    <3>1. Holds(m[i - 1], s) \/ q[i] = s
      BY <1>2, <1>4, <2>3
    <3>2. Holds(m[i], s)
      BY <2>1, <3>1, MergeStep
    <3>3. QED
      BY <3>2
  <2>4. QED
    BY <1>2, <2>2, <2>3
<1>5. N \in Nat
  OBVIOUS
<1>6. N \in G
  <2>. HIDE DEF G
  <2>1. \A i \in 1..N : i - 1 \in G => i \in G
    BY <1>4
  <2>. HIDE DEF N
  <2>2. \A i \in 0..N : i \in G
    BY <1>3, <1>5, <2>1, Throughout
  <2>3. QED
    BY <1>5, <2>2
<1>7. Holds(m[N], s) /\ m[N] \in Seq(S)
  BY <1>1, <1>2, <1>6
<1>8. QED
  BY <1>1, <1>7 DEF MergeRun

LEMMA ChooseStep ==
    ASSUME NEW S, \A r \in S : SpanOk(r), NEW s \in S, Beats(S, s),
           NEW kept \in Seq(S), NEW t \in S, \A r \in S : r.type \in Maskable,
           Len(kept) > 0 => kept[Len(kept)].start <= t.start,
           Holds(kept, s) \/ t = s
    PROVE  Holds(ChooseNext(kept, t), s)
<1>. DEFINE n == Len(kept)
            next == ChooseNext(kept, t)
<1>1. CASE kept = <<>> \/ t.start >= kept[n].end
  <2>1. next = Append(kept, t)
    BY <1>1 DEF ChooseNext
  <2>. HIDE DEF next
  <2>2. Len(next) = n + 1 /\ next[n + 1] = t /\ \A i \in 1..n : next[i] = kept[i]
    BY <2>1
  <2>3. Holds(next, s)
    BY <2>2 DEF Holds
  <2>4. QED
    BY <2>3 DEF next
<1>2. CASE ~(kept = <<>> \/ t.start >= kept[n].end)
  <2>1. n \in 1..n /\ kept[n] \in S
    BY <1>2
  <2>2. Overlap(t, kept[n])
    BY <1>2, <2>1 DEF Overlap, SpanOk
  <2>3. next = IF Outranks(t, kept[n]) THEN [kept EXCEPT ![n] = t] ELSE kept
    BY <1>2 DEF ChooseNext
  <2>4. CASE Outranks(t, kept[n])
    <3>1. /\ next = [kept EXCEPT ![n] = t]
          /\ Len(next) = n /\ next[n] = t /\ \A i \in 1..n - 1 : next[i] = kept[i]
      BY <2>1, <2>3, <2>4
    <3>2. kept[n] = s => t = s
      <4>1. ASSUME kept[n] = s, t # s PROVE Overlap(s, t)
        BY <2>2, <4>1 DEF Overlap
      <4>2. QED
        BY <2>4, <4>1, WinnerOutranks
    <3>. HIDE DEF next
    <3>3. t = s => Holds(next, s)
      BY <2>1, <3>1 DEF Holds
    <3>4. ASSUME Holds(kept, s), t # s PROVE Holds(next, s)
      <4>1. PICK i \in 1..n : kept[i] = s
        BY <3>4 DEF Holds
      <4>2. i \in 1..n - 1
        BY <3>2, <3>4, <4>1
      <4>3. QED
        BY <3>1, <4>1, <4>2 DEF Holds
    <3>5. QED
      BY <3>3, <3>4 DEF next
  <2>5. CASE ~Outranks(t, kept[n])
    <3>1. next = kept
      BY <2>3, <2>5
    <3>2. t = s => kept[n] = s
      BY <2>1, <2>2, <2>5, WinnerOutranks
    <3>3. Holds(kept, s)
      BY <2>1, <3>2 DEF Holds
    <3>4. QED
      BY <3>1, <3>3
  <2>6. QED
    BY <2>4, <2>5
<1>3. QED
  BY <1>1, <1>2

LEMMA ApartStep ==
    ASSUME NEW S, \A r \in S : SpanOk(r), NEW kept \in Seq(S), NEW t \in S,
           Len(kept) > 0 => kept[Len(kept)].start <= t.start, Apart(kept)
    PROVE  Apart(ChooseNext(kept, t))
<1>. DEFINE n == Len(kept)
            next == ChooseNext(kept, t)
<1>1. CASE kept = <<>> \/ t.start >= kept[n].end
  <2>1. next = Append(kept, t)
    BY <1>1 DEF ChooseNext
  <2>. HIDE DEF next
  <2>2. Len(next) = n + 1 /\ next[n + 1] = t /\ \A i \in 1..n : next[i] = kept[i]
    BY <2>1
  <2>3. n > 0 => kept[n].end <= t.start
    <3>1. n > 0 => kept[n] \in S
      OBVIOUS
    <3>2. QED
      BY <1>1, <3>1 DEF SpanOk
  <2>4. Apart(next)
    BY <2>2, <2>3 DEF Apart
  <2>5. QED
    BY <2>4 DEF next
<1>2. CASE ~(kept = <<>> \/ t.start >= kept[n].end) /\ Outranks(t, kept[n])
  <2>1. /\ n \in 1..n /\ next = [kept EXCEPT ![n] = t]
        /\ Len(next) = n /\ next[n] = t /\ \A i \in 1..n - 1 : next[i] = kept[i]
    BY <1>2 DEF ChooseNext
  <2>. HIDE DEF next
  <2>2. ASSUME NEW i \in 1..n - 1 PROVE next[i].end <= next[i + 1].start
    <3>1. kept[i].end <= kept[i + 1].start
      BY DEF Apart
    <3>2. CASE i + 1 < n
      <4>1. i + 1 \in 1..n - 1
        BY <3>2
      <4>2. next[i + 1] = kept[i + 1] /\ next[i] = kept[i]
        BY <2>1, <4>1
      <4>3. QED
        BY <3>1, <4>2
    <3>3. CASE i + 1 = n
      <4>1. kept[i] \in S /\ kept[n] \in S
        <5>1. n \in Nat
          OBVIOUS
        <5>2. i \in 1..n /\ n \in 1..n
          BY <1>2, <5>1
        <5>3. QED
          BY <5>2
      <4>2. next[i] = kept[i] /\ next[i + 1] = t
        BY <2>1, <3>3
      <4>3. kept[i].end <= t.start
        BY <2>1, <3>1, <3>3, <4>1 DEF SpanOk
      <4>4. QED
        BY <4>2, <4>3
    <3>4. QED
      BY <3>2, <3>3
  <2>3. Apart(next)
    BY <2>1, <2>2 DEF Apart
  <2>4. QED
    BY <2>3 DEF next
<1>3. CASE ~(kept = <<>> \/ t.start >= kept[n].end) /\ ~Outranks(t, kept[n])
  BY <1>3 DEF ChooseNext
<1>4. QED
  BY <1>1, <1>2, <1>3

\* A listing of P from left to right.
Lists(p, P) ==
    /\ p \in Seq(P)
    /\ \A s \in P : Holds(p, s)
    /\ \A i, j \in 1..Len(p) : i < j => p[i].start <= p[j].start

\* The mask's choice is apart, and keeps each span that beats its rivals.
LEMMA WinnersAreChosen ==
    ASSUME NEW P, \A r \in P : SpanOk(r) /\ r.type \in Maskable,
           NEW p, Lists(p, P)
    PROVE  /\ Apart(ChooseSorted(p))
           /\ \A s \in P : Beats(P, s) => Holds(ChooseSorted(p), s)
<1>. DEFINE N == Len(p)
            Before(i) == {r \in P : \A j \in i + 1..N : r.start <= p[j].start}
<1>1. p \in Seq(P) /\ N \in Nat
  BY DEF Lists
<1>2. PICK m \in [0..N -> Seq(P)] : ChooseRun(p, m)
  BY <1>1, ChooseRuns
<1>3. ASSUME NEW i \in 1..N
      PROVE  /\ p[i] \in Before(i) /\ Before(i - 1) \subseteq Before(i)
             /\ \A r \in Before(i - 1) : r.start <= p[i].start
  <2>1. p[i] \in P
    BY <1>1
  <2>2. \A j \in i + 1..N : p[i].start <= p[j].start
    BY <1>1 DEF Lists
  <2>3. i \in i - 1 + 1..N /\ i + 1..N \subseteq i - 1 + 1..N
    BY <1>1
  <2>4. QED
    BY <2>1, <2>2, <2>3
<1>. DEFINE G == {i \in 0..N : m[i] \in Seq(Before(i)) /\ Apart(m[i])}
<1>. HIDE DEF Before
<1>4. 0 \in G
  <2>1. m[0] = <<>> /\ m[0] \in Seq(Before(0))
    BY <1>2 DEF ChooseRun
  <2>2. Apart(<<>>)
    BY DEF Apart
  <2>3. QED
    BY <1>1, <2>1, <2>2
<1>5. \A i \in 0..N : Before(i) \subseteq P
  BY DEF Before
<1>6. ASSUME NEW i \in 1..N, i - 1 \in G
      PROVE  /\ m[i - 1] \in Seq(P) /\ p[i] \in P /\ m[i] = ChooseNext(m[i - 1], p[i])
             /\ Len(m[i - 1]) > 0 => m[i - 1][Len(m[i - 1])].start <= p[i].start
             /\ i \in G
  <2>1. m[i - 1] \in Seq(P) /\ p[i] \in P /\ m[i] = ChooseNext(m[i - 1], p[i])
    BY <1>1, <1>2 DEF ChooseRun
  <2>2. m[i - 1] \in Seq(Before(i - 1)) /\ Apart(m[i - 1])
    BY <1>6
  <2>3. Len(m[i - 1]) > 0 => m[i - 1][Len(m[i - 1])].start <= p[i].start
    <3>1. Len(m[i - 1]) > 0 => m[i - 1][Len(m[i - 1])] \in Before(i - 1)
      BY <2>2
    <3>2. QED
      BY <1>3, <3>1
  <2>4. Apart(m[i])
    BY <2>1, <2>2, <2>3, ApartStep
  <2>5. m[i - 1] \in Seq(Before(i)) /\ p[i] \in Before(i)
    <3>1. Before(i - 1) \subseteq Before(i) /\ p[i] \in Before(i)
      BY <1>3
    <3>2. QED
      BY <2>2, <3>1
  <2>6. m[i] \in Seq(Before(i))
    BY <2>1, <2>5, ChooseNextType
  <2>7. QED
    BY <2>1, <2>3, <2>4, <2>6
<1>7. \A i \in 0..N : i \in G
  <2>. HIDE DEF G
  <2>1. \A i \in 1..N : i - 1 \in G => i \in G
    BY <1>6
  <2>. HIDE DEF N
  <2>2. QED
    BY <1>1, <1>4, <2>1, Throughout
<1>8. ChooseSorted(p) = m[N]
  BY <1>2 DEF ChooseRun
<1>9. Apart(m[N])
  BY <1>1, <1>7
<1>10. ASSUME NEW s \in P, Beats(P, s) PROVE Holds(m[N], s)
  <2>1. PICK a \in 1..N : p[a] = s
    BY DEF Lists, Holds
  <2>. DEFINE H == {i \in 0..N : i < a \/ Holds(m[i], s)}
  <2>2. 0 \in H
    BY <2>1
  <2>3. ASSUME NEW i \in 1..N, i - 1 \in H PROVE i \in H
    <3>1. /\ m[i - 1] \in Seq(P) /\ p[i] \in P /\ m[i] = ChooseNext(m[i - 1], p[i])
          /\ Len(m[i - 1]) > 0 => m[i - 1][Len(m[i - 1])].start <= p[i].start
      <4>1. i - 1 \in 0..N
        OBVIOUS
      <4>. HIDE DEF G
      <4>2. QED
        BY <1>6, <1>7, <4>1
    <3>2. CASE i < a
      BY <3>2
    <3>3. CASE i = a \/ i - 1 >= a
      <4>1. Holds(m[i - 1], s) \/ p[i] = s
        BY <2>1, <2>3, <3>3
      <4>2. Holds(m[i], s)
        BY <1>10, <3>1, <4>1, ChooseStep
      <4>3. QED
        BY <4>2
    <3>4. QED
      BY <2>1, <3>2, <3>3
  <2>4. N \in H
    <3>. HIDE DEF H
    <3>1. \A i \in 1..N : i - 1 \in H => i \in H
      BY <2>3
    <3>. HIDE DEF N
    <3>2. \A i \in 0..N : i \in H
      BY <1>1, <2>2, <3>1, Throughout
    <3>3. QED
      BY <1>1, <3>2
  <2>5. QED
    BY <2>1, <2>4
<1>11. QED
  BY <1>8, <1>9, <1>10

\* What the mask is given of a merged report.
Left(merged) == {s \in ToSet(merged) : s.type \in Maskable}

LEMMA ListedIs ==
    ASSUME NEW S, NEW q \in Seq(S), NEW s
    PROVE  (s \in ToSet(q) <=> Holds(q, s)) /\ ToSet(q) \subseteq S
  BY DEF ToSet, Holds

\* For every report, however many spans of whatever sources overlap in it, and whatever
\* orders of equals the two sorts take: what is chosen is apart, and each maskable span
\* that beats its rivals by both measures is hidden whole.  The merge and the mask look
\* only at the last span they kept; that suffices because a later span which overlaps the
\* winner loses against it, and an earlier one that stands last loses to it.
THEOREM WinnersAreHidden ==
    ASSUME NEW S, \A s \in S : SpanOk(s),
           NEW q \in Seq(S), \A s \in S : Holds(q, s),
           NEW p, Lists(p, Left(MergeSorted(q)))
    PROVE  Apart(ChooseSorted(p)) /\ WinnersHidden(S, ChooseSorted(p))
<1>. DEFINE merged == MergeSorted(q)
            P == Left(merged)
            chosen == ChooseSorted(p)
<1>1. merged \in Seq(S)
  <2>1. PICK m \in [0..Len(q) -> Seq(S)] : MergeRun(q, m)
    BY MergeRuns
  <2>2. QED
    BY <2>1 DEF MergeRun
<1>2. ToSet(merged) \subseteq S /\ \A s : Holds(merged, s) => s \in ToSet(merged)
  <2>. HIDE DEF merged
  <2>1. QED
    BY <1>1, ListedIs
<1>3. P \subseteq S /\ \A s \in P : SpanOk(s) /\ s.type \in Maskable
  BY <1>2 DEF Left
<1>. HIDE DEF P
<1>4. /\ Apart(chosen)
      /\ \A s \in P : Beats(P, s) => Holds(chosen, s)
  <2>1. Lists(p, P)
    BY DEF P
  <2>. HIDE DEF chosen
  <2>2. QED
    BY <1>3, <2>1, WinnersAreChosen DEF chosen
<1>5. ASSUME NEW s \in S, s.type \in Maskable,
             \A t \in Rivals(S, s) : Wins(s, t) /\ Outranks(s, t)
      PROVE  s.start..s.end - 1 \subseteq Hidden(chosen)
  <2>1. Beats(S, s)
    BY <1>5 DEF Beats
  <2>2. s \in P
    <3>1. Holds(q, s)
      OBVIOUS
    <3>2. Holds(merged, s)
      BY <2>1, <3>1, WinnersAreMerged
    <3>3. QED
      BY <1>2, <1>5, <3>2 DEF P, Left
  <2>3. Beats(P, s)
    BY <1>3, <2>1 DEF Beats, Rivals
  <2>4. Holds(chosen, s)
    BY <1>4, <2>2, <2>3
  <2>. HIDE DEF chosen
  <2>5. s \in ToSet(chosen)
    BY <2>4 DEF Holds, ToSet
  <2>6. QED
    BY <2>5 DEF Hidden
<1>6. QED
  BY <1>4, <1>5 DEF WinnersHidden

-----------------------------------------------------------------------------
(* Sorting.                                                                *)

\* A report whose spans differ in what the two sorts compare.
Report(S) ==
    /\ IsFiniteSet(S)
    /\ \A s \in S : SpanOk(s)
    /\ \A s, t \in S : s # t => Earlier(s, t) \/ Earlier(t, s)

SortKey(s, t) ==
    <<t.start, s.end, s.score, ReportRank(s.source), TypePriority(t.type)>>

LEMMA SortKeyType ==
    ASSUME NEW s, NEW t, SpanOk(s), SpanOk(t)
    PROVE  SortKey(s, t) \in [1..5 -> Int]
<1>1. /\ t.start \in Int /\ s.end \in Int /\ s.score \in Int
      /\ ReportRank(s.source) \in Int /\ TypePriority(t.type) \in Int
  BY Ranks, SourceRanks DEF SpanOk
<1>2. QED
  BY <1>1 DEF SortKey

\* Five numbers compared from the left.
LEMMA FiveCompared ==
    ASSUME NEW k \in [1..5 -> Int], NEW l \in [1..5 -> Int]
    PROVE  Greater(k, l) <=>
              \/ k[1] > l[1]
              \/ k[1] = l[1] /\ k[2] > l[2]
              \/ k[1] = l[1] /\ k[2] = l[2] /\ k[3] > l[3]
              \/ k[1] = l[1] /\ k[2] = l[2] /\ k[3] = l[3] /\ k[4] > l[4]
              \/ /\ k[1] = l[1] /\ k[2] = l[2] /\ k[3] = l[3] /\ k[4] = l[4]
                 /\ k[5] > l[5]
  BY DEF Greater

LEMMA EarlierIs ==
    ASSUME NEW s, NEW t, SpanOk(s), SpanOk(t)
    PROVE  Earlier(s, t) <=>
              \/ t.start > s.start
              \/ /\ t.start = s.start
                 /\ \/ s.end > t.end
                    \/ s.end = t.end /\ s.score > t.score
                    \/ /\ s.end = t.end /\ s.score = t.score
                       /\ \/ ReportRank(s.source) > ReportRank(t.source)
                          \/ /\ ReportRank(s.source) = ReportRank(t.source)
                             /\ TypePriority(t.type) > TypePriority(s.type)
<1>1. SortKey(s, t) \in [1..5 -> Int] /\ SortKey(t, s) \in [1..5 -> Int]
  BY SortKeyType
<1>2. Earlier(s, t) <=> Greater(SortKey(s, t), SortKey(t, s))
  BY DEF Earlier, SortKey
<1>3. QED
  BY <1>1, <1>2, FiveCompared DEF SortKey

LEMMA EarlierOrders ==
    ASSUME NEW s, NEW t, NEW r, SpanOk(s), SpanOk(t), SpanOk(r)
    PROVE  /\ ~Earlier(s, s) /\ (Earlier(s, t) => ~Earlier(t, s))
           /\ Earlier(s, t) /\ Earlier(t, r) => Earlier(s, r)
           /\ Earlier(s, t) => s.start <= t.start
<1>1. \A x : SpanOk(x) => /\ x.start \in Int /\ x.end \in Int /\ x.score \in Int
                          /\ ReportRank(x.source) \in Int
                          /\ TypePriority(x.type) \in Int
  BY Ranks, SourceRanks DEF SpanOk
<1>2. QED
  BY <1>1, EarlierIs

\* Ranks number the spans of a report, and the sort lists it from left to right.
LEMMA SortedLists ==
    ASSUME NEW S, Report(S)
    PROVE  Lists(Sorted(S), S)
<1>. DEFINE n == Cardinality(S)
            Behind(s) == {t \in S : Earlier(t, s)}
            rank == [s \in S |-> Cardinality(Behind(s))]
            R == {rank[s] : s \in S}
<1>1. IsFiniteSet(S) /\ n \in Nat /\ \A s \in S : SpanOk(s)
  BY FS_CardinalityType DEF Report
<1>2. ASSUME NEW s \in S, NEW t \in S, Earlier(s, t)
      PROVE  Cardinality(Behind(s)) < Cardinality(Behind(t))
  <2>1. Behind(s) \subseteq Behind(t) /\ s \in Behind(t) /\ s \notin Behind(s)
    BY <1>1, <1>2, EarlierOrders
  <2>2. IsFiniteSet(Behind(t)) /\ IsFiniteSet(Behind(s))
    BY <1>1, FS_Subset
  <2>3. Cardinality(Behind(s)) \in Nat /\ Cardinality(Behind(t)) \in Nat
    BY <2>2, FS_CardinalityType
  <2>. HIDE DEF Behind
  <2>4. QED
    BY <2>1, <2>2, <2>3, FS_Subset
<1>3. \A s \in S : rank[s] \in 0..n - 1
  <2>. TAKE s \in S
  <2>1. Behind(s) \subseteq S /\ s \notin Behind(s)
    BY <1>1, EarlierOrders
  <2>2. IsFiniteSet(Behind(s)) /\ Cardinality(Behind(s)) \in Nat
    BY <1>1, FS_Subset, FS_CardinalityType
  <2>3. Cardinality(Behind(s)) <= n /\ Cardinality(Behind(s)) # n
    <3>. HIDE DEF Behind
    <3>1. QED
      BY <1>1, <2>1, FS_Subset
  <2>. HIDE DEF Behind
  <2>4. QED
    BY <1>1, <2>2, <2>3
<1>4. \A s, t \in S : s # t => rank[s] # rank[t]
  <2>. TAKE s, t \in S
  <2>1. s # t => Earlier(s, t) \/ Earlier(t, s)
    BY DEF Report
  <2>2. rank[s] \in Int /\ rank[t] \in Int
    BY <1>3
  <2>3. QED
    BY <1>2, <2>1, <2>2
<1>. HIDE DEF rank
<1>5. R = 0..n - 1
  <2>1. DOMAIN rank = S
    BY DEF rank
  <2>2. rank \in Bijection(S, R)
    BY <1>4, <2>1 DEF Bijection, Injection, Surjection, IsInjective, rank
  <2>3. Cardinality(R) = n
    BY <1>1, <2>2, FS_Bijection DEF ExistsBijection
  <2>4. IsFiniteSet(0..n - 1) /\ Cardinality(0..n - 1) = n
    BY <1>1, FS_Interval
  <2>5. R \subseteq 0..n - 1
    BY <1>3
  <2>. HIDE DEF R, n
  <2>6. QED
    BY <2>3, <2>4, <2>5, FS_Subset
<1>6. ASSUME NEW i \in 1..n
      PROVE  Sorted(S)[i] \in S /\ rank[Sorted(S)[i]] = i - 1
  <2>1. \E s \in S : rank[s] = i - 1
    <3>1. i - 1 \in 0..n - 1
      BY <1>1
    <3>2. i - 1 \in R
      BY <1>5, <3>1
    <3>3. QED
      BY <3>2
  <2>2. Sorted(S)[i] = CHOOSE s \in S : rank[s] = i - 1
    BY DEF Sorted, rank
  <2>3. QED
    BY <2>1, <2>2
<1>7. Sorted(S) \in Seq(S) /\ Len(Sorted(S)) = n
  <2>1. Sorted(S) \in [1..n -> S]
    BY <1>6 DEF Sorted
  <2>2. QED
    BY <1>1, <2>1
<1>8. \A s \in S : Holds(Sorted(S), s)
  <2>. TAKE s \in S
  <2>1. rank[s] + 1 \in 1..n
    BY <1>1, <1>3
  <2>2. rank[Sorted(S)[rank[s] + 1]] = rank[s] /\ Sorted(S)[rank[s] + 1] \in S
    BY <1>3, <1>6, <2>1
  <2>3. Sorted(S)[rank[s] + 1] = s
    BY <1>4, <2>2
  <2>4. QED
    BY <1>7, <2>1, <2>3 DEF Holds
<1>9. ASSUME NEW i \in 1..n, NEW j \in 1..n, i < j
      PROVE  Sorted(S)[i].start <= Sorted(S)[j].start
  <2>. DEFINE s == Sorted(S)[i]
              t == Sorted(S)[j]
  <2>1. s \in S /\ t \in S /\ rank[s] < rank[t]
    BY <1>1, <1>6, <1>9
  <2>. HIDE DEF s, t
  <2>2. rank[s] \in Int /\ rank[t] \in Int
    BY <1>3, <2>1
  <2>3. ~Earlier(t, s) /\ s # t
    BY <1>2, <2>1, <2>2 DEF rank
  <2>4. Earlier(s, t)
    BY <2>1, <2>3 DEF Report
  <2>5. s.start <= t.start
    BY <1>1, <2>1, <2>4, EarlierOrders
  <2>6. QED
    BY <2>5 DEF s, t
<1>10. QED
  BY <1>7, <1>8, <1>9 DEF Lists

\* A part of a report is one.
LEMMA PartsAreReports ==
    ASSUME NEW S, Report(S), NEW P \in SUBSET S PROVE Report(P)
  BY FS_Subset DEF Report

\* For every report: what EntityMerger.merge leaves of it, masked by MaskService.mask.
THEOREM ReportsAreMasked ==
    ASSUME NEW S, Report(S) PROVE ReportMasked(S)
<1>. DEFINE q == Sorted(S)
            merged == MergeSorted(q)
            p == Sorted(Left(merged))
<1>1. Lists(q, S) /\ \A s \in S : SpanOk(s)
  BY SortedLists DEF Report
<1>. HIDE DEF q
<1>2. merged \in Seq(S)
  <2>1. q \in Seq(S)
    BY <1>1 DEF Lists
  <2>2. PICK m \in [0..Len(q) -> Seq(S)] : MergeRun(q, m)
    BY <2>1, MergeRuns
  <2>3. Len(q) \in 0..Len(q)
    BY <2>1
  <2>4. QED
    BY <2>2, <2>3 DEF MergeRun
<1>3. Left(merged) \in SUBSET S
  <2>. HIDE DEF merged
  <2>1. QED
    BY <1>2, ListedIs DEF Left
<1>4. Lists(p, Left(merged))
  <2>. HIDE DEF merged
  <2>1. QED
    BY <1>3, PartsAreReports, SortedLists
<1>. HIDE DEF p
<1>5. q \in Seq(S) /\ \A s \in S : Holds(q, s)
  BY <1>1 DEF Lists
<1>6. Apart(ChooseSorted(p)) /\ WinnersHidden(S, ChooseSorted(p))
  BY <1>1, <1>4, <1>5, WinnersAreHidden
<1>7. Chosen(Merge(S)) = ChooseSorted(p)
  BY DEF Chosen, Merge, Left, p, q
<1>8. QED
  BY <1>6, <1>7 DEF ReportMasked

-----------------------------------------------------------------------------
(* The reports that TLC enumerates.                                        *)

SpansInv ==
    Asked("spans") => IsFiniteSet(call.spans) /\ call.spans \subseteq Reported

LEMMA ReportedSpan ==
    ASSUME NEW s \in Reported
    PROVE  /\ s.type \in {"EMAIL", "ADDRESS", "URL"} /\ s.source = SourceOf[s.type]
           /\ SpanOk(s)
           /\ s = Span(s.type, s.start, s.end, s.score, s.source, 0)
<1>1. PICK t \in {"EMAIL", "ADDRESS", "URL"}, a \in 0..4, b \in 1..5, c \in {70, 90} :
        s = Span(t, a, b, c, SourceOf[t], 0) /\ s.start < s.end
  BY DEF Reported, SourceOf
<1>2. /\ s.type = t /\ s.start = a /\ s.end = b /\ s.score = c
      /\ s.source = SourceOf[t] /\ s.level = 0
  BY <1>1 DEF Span
<1>3. t \in Maskable \/ TypePriority(t) = 0
  BY DEF Maskable, TypePriority
<1>4. QED
  BY <1>1, <1>2, <1>3 DEF SpanOk

LEMMA ReportedDiffer ==
    ASSUME NEW s \in Reported, NEW t \in Reported, s # t
    PROVE  Earlier(s, t) \/ Earlier(t, s)
<1>1. SpanOk(s) /\ SpanOk(t)
  BY ReportedSpan
<1>2. CASE s.start = t.start /\ s.end = t.end /\ s.score = t.score
  <2>1. s.type # t.type
    <3>1. s.type = t.type => s.source = t.source
      BY ReportedSpan
    <3>2. s = Span(s.type, s.start, s.end, s.score, s.source, 0)
          /\ t = Span(t.type, t.start, t.end, t.score, t.source, 0)
      BY ReportedSpan
    <3>3. QED
      BY <1>2, <3>1, <3>2
  <2>2. \A x, y \in {"EMAIL", "ADDRESS", "URL"} :
          x # y => ReportRank(SourceOf[x]) # ReportRank(SourceOf[y])
    BY DEF SourceOf, ReportRank
  <2>3. ReportRank(s.source) # ReportRank(t.source)
    BY <2>1, <2>2, ReportedSpan
  <2>4. ReportRank(s.source) \in Nat /\ ReportRank(t.source) \in Nat
    BY SourceRanks
  <2>5. QED
    BY <1>1, <1>2, <2>3, <2>4, EarlierIs
<1>3. CASE ~(s.start = t.start /\ s.end = t.end /\ s.score = t.score)
  <2>1. /\ s.start \in Int /\ s.end \in Int /\ s.score \in Int
        /\ t.start \in Int /\ t.end \in Int /\ t.score \in Int
    BY <1>1 DEF SpanOk
  <2>2. QED
    BY <1>1, <1>3, <2>1, EarlierIs
<1>4. QED
  BY <1>2, <1>3

LEMMA SpansStart == Init => SpansInv
  BY DEF Init, SpansInv, Asked, Nothing

LEMMA SpansKept == CallInv /\ SpansInv /\ [Next]_call => SpansInv'
<1>. SUFFICES ASSUME CallInv, SpansInv, [Next]_call PROVE SpansInv'
  OBVIOUS
<1>1. ASSUME (call').of # "spans" PROVE SpansInv'
  BY <1>1 DEF SpansInv, Asked
<1>2. CASE ReportSpan
  <2>1. PICK s \in Reported :
          call' = [of |-> "spans",
                   spans |-> {s} \cup (IF Asked("spans") THEN call.spans ELSE {})]
    BY <1>2 DEF ReportSpan
  <2>2. IsFiniteSet({s}) /\ IsFiniteSet({})
    BY FS_Singleton, FS_EmptySet
  <2>. DEFINE before == IF Asked("spans") THEN call.spans ELSE {}
  <2>3. IsFiniteSet(before) /\ before \subseteq Reported
    BY <2>2 DEF SpansInv
  <2>. HIDE DEF before
  <2>4. (call').spans = {s} \cup before
    BY <2>1 DEF before
  <2>5. IsFiniteSet({s} \cup before)
    BY <2>2, <2>3, FS_Union
  <2>6. QED
    BY <2>3, <2>4, <2>5 DEF SpansInv
<1>3. CASE AskForText \/ ProvidersAnswer \/ AskForReply \/ ReportNumber \/ CheckDraft
  BY <1>1, <1>3, OneStepCalls
<1>4. CASE CompareAnother
  <2>1. call = [of |-> "duplicate", draft |-> call.draft, rules |-> call.rules]
    BY <1>4 DEF CompareAnother, CallInv
  <2>2. PICK two : call' = [call EXCEPT !.rules = @ \cup {two}]
    BY <1>4 DEF CompareAnother
  <2>3. (call').of = "duplicate"
    BY <2>1, <2>2
  <2>4. QED
    BY <1>1, <2>3
<1>5. CASE RequestRule
  BY <1>5 DEF RequestRule, SpansInv, Asked
<1>6. CASE ModelDraftsIt
  <2>1. PICK draft : call' = [call EXCEPT !.replies = {draft}]
    BY <1>6 DEF ModelDraftsIt
  <2>2. call \in AskedDraft
    BY <1>6 DEF ModelDraftsIt, CallInv
  <2>3. (call').of = "draft"
    BY <2>1, <2>2 DEF AskedDraft
  <2>4. QED
    BY <1>1, <2>3
<1>7. CASE UNCHANGED call
  BY <1>7 DEF SpansInv, Asked
<1>8. QED
  BY <1>2, <1>3, <1>4, <1>5, <1>6, <1>7 DEF Next

\* A reported span of a maskable type that beats its rivals by both measures is hidden to
\* its last character, and what is chosen is apart (LocalWinnersAreMasked).
THEOREM LocalWinners == Spec => []LocalWinnersAreMasked
<1>1. SpansInv => LocalWinnersAreMasked
  <2>. SUFFICES ASSUME SpansInv, Asked("spans") PROVE ReportMasked(call.spans)
    BY DEF LocalWinnersAreMasked
  <2>1. Report(call.spans)
    BY ReportedSpan, ReportedDiffer DEF SpansInv, Report
  <2>2. QED
    BY <2>1, ReportsAreMasked
<1>2. Init => CallInv /\ SpansInv
  BY CallsStart, SpansStart
<1>3. CallInv /\ SpansInv /\ [Next]_call => CallInv' /\ SpansInv'
  BY CallsKept, SpansKept
<1>4. QED
  BY <1>1, <1>2, <1>3, PTL DEF Spec

-----------------------------------------------------------------------------
(* Drafts of every size.                                                   *)

\* What the model may send: conditions on any words, under a "not" or not, and any
\* terms.
LeafShape(leaf) ==
    /\ leaf = [on |-> leaf.on, values |-> leaf.values, negated |-> leaf.negated]
    /\ leaf.negated \in BOOLEAN

DraftShape(d) ==
    /\ d = [leaves |-> d.leaves, terms |-> d.terms, type |-> d.type,
            action |-> d.action, key |-> d.key]
    /\ \A leaf \in d.leaves : LeafShape(leaf)
    /\ d.key = [scope |-> d.key.scope, names |-> d.key.names, acts |-> d.key.acts]
    /\ d.key.names \in Pii \cup {"none"}

\* A request: its code-like words are among the tokens, which are whole ones; the
\* others are usable.
RequestOk(p) ==
    /\ p.tokens \subseteq CodeLike \ Partial
    /\ p.said \cap (CodeLike \cup Noise \cup Banned) = {}
    /\ p.known \in Pii \cup {"none"}
    /\ p.topic \in {"none", "office", "dev", "finance"}
    /\ p.explicit # "warn"

\* A keyword, an entity of a set of leaves.
HasKeyword(leaves, w) ==
    \E leaf \in leaves : leaf.on = "context_keywords" /\ w \in leaf.values
HasEntity(leaves, t) == \E leaf \in leaves : leaf.on = "entity" /\ t \in leaf.values

LEMMA KeywordsAre == \A d, w : w \in Keywords(d) <=> HasKeyword(d.leaves, w)
  BY DEF Keywords, On, HasKeyword

LEMMA EntitiesAre == \A d, t : t \in Entities(d) <=> HasEntity(d.leaves, t)
  BY DEF Entities, On, HasEntity

LEMMA LeavesAre ==
    /\ \A ws : /\ LeafShape(Keyword(ws)) /\ Keyword(ws).values = ws
               /\ Keyword(ws).on = "context_keywords" /\ ~Keyword(ws).negated
    /\ \A ts : /\ LeafShape(Entity(ts)) /\ Entity(ts).values = ts
               /\ Entity(ts).on = "entity" /\ ~Entity(ts).negated
    /\ \A who : /\ LeafShape(Persona(who)) /\ Persona(who).values = {who}
                /\ Persona(who).on = "persona" /\ ~Persona(who).negated
  BY DEF Keyword, Entity, Persona, Leaf, LeafShape

\* Leaves are told apart by their fields.
LEMMA SameLeaf ==
    ASSUME NEW l, NEW m, LeafShape(l), LeafShape(m), l.on = m.on, l.values = m.values,
           l.negated <=> m.negated
    PROVE  l = m
<1>1. l.negated = m.negated
  BY DEF LeafShape
<1>2. QED
  BY <1>1 DEF LeafShape

\* A leaf with other values.
Revalued(leaf, ws) == [leaf EXCEPT !.values = ws]

LEMMA RevaluedIs ==
    ASSUME NEW leaf, LeafShape(leaf), NEW ws
    PROVE  /\ LeafShape(Revalued(leaf, ws)) /\ Revalued(leaf, ws).on = leaf.on
           /\ Revalued(leaf, ws).values = ws
           /\ Revalued(leaf, ws).negated <=> leaf.negated
  BY DEF LeafShape, Revalued

\* Keywords that the guards read as they will be stored.
Upright(leaves) ==
    \A leaf \in leaves :
        leaf.on = "context_keywords" => ~leaf.negated /\ leaf.values \cap Partial = {}

Tidy(d) == d.terms \cap Partial = {} /\ Upright(d.leaves)

LEMMA StraightIsTidy == \A d : Straight(d) <=> Tidy(d)
  BY DEF Straight, Tidy, Upright, On

LEMMA RewriteIs ==
    ASSUME NEW leaves, \A leaf \in leaves : LeafShape(leaf), NEW f
    PROVE  /\ \A leaf \in Rewrite(leaves, f) : LeafShape(leaf)
           /\ (\A leaf \in leaves : leaf.on = "context_keywords" =>
                  ~leaf.negated /\ f[leaf.values] \cap Partial = {}) =>
                     Upright(Rewrite(leaves, f))
           /\ \A w : HasKeyword(Rewrite(leaves, f), w) <=>
                        \E leaf \in leaves : /\ leaf.on = "context_keywords"
                                             /\ w \in f[leaf.values]
           /\ \A t : HasEntity(Rewrite(leaves, f), t) <=> HasEntity(leaves, t)
<1>. DEFINE new(leaf) == IF leaf.on = "context_keywords" 
                         THEN Revalued(leaf, f[leaf.values]) ELSE leaf
<1>1. Rewrite(leaves, f) = {new(leaf) : leaf \in leaves}
  BY DEF Rewrite, Revalued
<1>2. \A leaf \in leaves :
        /\ LeafShape(new(leaf)) /\ new(leaf).on = leaf.on
        /\ new(leaf).negated <=> leaf.negated
        /\ leaf.on = "context_keywords" => new(leaf).values = f[leaf.values]
        /\ leaf.on # "context_keywords" => new(leaf) = leaf
  BY RevaluedIs
<1>. HIDE DEF new
<1>3. \A leaf \in Rewrite(leaves, f) : LeafShape(leaf)
  BY <1>1, <1>2
<1>4. \A w : HasKeyword(Rewrite(leaves, f), w) <=>
                \E leaf \in leaves : /\ leaf.on = "context_keywords"
                                     /\ w \in f[leaf.values]
  BY <1>1, <1>2 DEF HasKeyword
<1>5. \A t : HasEntity(Rewrite(leaves, f), t) <=> HasEntity(leaves, t)
  BY <1>1, <1>2 DEF HasEntity
<1>6. (\A leaf \in leaves : leaf.on = "context_keywords" =>
          ~leaf.negated /\ f[leaf.values] \cap Partial = {}) =>
             Upright(Rewrite(leaves, f))
  BY <1>1, <1>2 DEF Upright
<1>7. QED
  BY <1>3, <1>4, <1>5, <1>6

\* What a list of keywords becomes.
LEMMA SanitizeIs ==
    ASSUME NEW ws, NEW fallback
    PROVE  /\ SanitizeValues(ws, fallback) \subseteq ws \cup fallback
           /\ SanitizeValues(ws, fallback) \cap Banned = {}
           /\ ws \cap CodeLike \subseteq SanitizeValues(ws, fallback)
           /\ SanitizeValues(ws, {}) \subseteq ws
  BY DEF SanitizeValues, CodeLike, Specific, Noise, Banned

LEMMA SanitizedValuesIs ==
    ASSUME NEW ws, NEW fallback
    PROVE  /\ SanitizedValues(ws, fallback) \subseteq ws \cup fallback
           /\ ws \cap CodeLike \subseteq SanitizedValues(ws, fallback)
<1>1. /\ SanitizeValues(ws, fallback) \subseteq ws \cup fallback
      /\ ws \cap CodeLike \subseteq SanitizeValues(ws, fallback)
      /\ SanitizeValues(fallback, fallback) \subseteq fallback
  BY SanitizeIs
<1>2. QED
  BY <1>1 DEF SanitizedValues

\* The leaves of a draft sanitized.
LEMMA SanitizedIs ==
    ASSUME NEW leaves, \A leaf \in leaves : LeafShape(leaf), NEW fallback
    PROVE  /\ \A leaf \in Sanitized(leaves, fallback) : LeafShape(leaf)
           /\ \A w : HasKeyword(Sanitized(leaves, fallback), w) =>
                        HasKeyword(leaves, w) \/ w \in fallback
           /\ \A w \in CodeLike : HasKeyword(leaves, w) =>
                                     HasKeyword(Sanitized(leaves, fallback), w)
           /\ \A t : HasEntity(Sanitized(leaves, fallback), t) <=> HasEntity(leaves, t)
           /\ Upright(leaves) /\ fallback \cap Partial = {} =>
                 Upright(Sanitized(leaves, fallback))
<1>. DEFINE f == [words \in {leaf.values : leaf \in leaves} |->
                     SanitizedValues(words, fallback)]
<1>1. \A leaf \in leaves : f[leaf.values] = SanitizedValues(leaf.values, fallback)
  OBVIOUS
<1>2. Sanitized(leaves, fallback) = Rewrite(leaves, f)
  BY DEF Sanitized
<1>. HIDE DEF f
<1>3. \A leaf \in leaves :
        /\ f[leaf.values] \subseteq leaf.values \cup fallback
        /\ leaf.values \cap CodeLike \subseteq f[leaf.values]
  BY <1>1, SanitizedValuesIs
<1>4. /\ \A leaf \in Rewrite(leaves, f) : LeafShape(leaf)
      /\ (\A leaf \in leaves : leaf.on = "context_keywords" =>
             ~leaf.negated /\ f[leaf.values] \cap Partial = {}) =>
                Upright(Rewrite(leaves, f))
      /\ \A w : HasKeyword(Rewrite(leaves, f), w) <=>
                   \E leaf \in leaves : /\ leaf.on = "context_keywords"
                                        /\ w \in f[leaf.values]
      /\ \A t : HasEntity(Rewrite(leaves, f), t) <=> HasEntity(leaves, t)
  BY RewriteIs
<1>5. Upright(leaves) /\ fallback \cap Partial = {} => Upright(Rewrite(leaves, f))
  BY <1>3, <1>4 DEF Upright
<1>6. QED
  BY <1>2, <1>3, <1>4, <1>5 DEF HasKeyword

-----------------------------------------------------------------------------
(* What each pass keeps.                                                   *)

Personal(d) == d.key.scope = "personal"

\* The secret of a literal request is among the keywords, without common PII types.
HasToken(p, d) == \E w \in p.tokens : HasKeyword(d.leaves, w)
NoPii(d) == \A t \in Pii \cup {"CREDIT_CARD"} : ~HasEntity(d.leaves, t)
Protects(p, d) == HasToken(p, d) /\ NoPii(d)

LEMMA ProtectsIs ==
    ASSUME NEW p, NEW d
    PROVE  /\ NoPii(d) <=> ~HasCommonPii(d)
           /\ HasToken(p, d) <=> Keywords(d) \cap p.tokens # {}
           /\ Tidy(d) => (HasToken(p, d) <=> HasExact(p, d))
<1>1. HasToken(p, d) <=> Keywords(d) \cap p.tokens # {}
  BY KeywordsAre DEF HasToken
<1>2. NoPii(d) <=> ~HasCommonPii(d)
  BY EntitiesAre DEF HasCommonPii, NoPii
<1>3. Tidy(d) => (HasToken(p, d) <=> HasExact(p, d))
  <2>1. Tidy(d) => Keywords(d) \cap Partial = {}
    BY KeywordsAre DEF Tidy, Upright, HasKeyword
  <2>2. QED
    BY <1>1, <2>1 DEF HasExact
<1>4. QED
  BY <1>1, <1>2, <1>3

LEMMA DebuggedIs ==
    ASSUME NEW d, DraftShape(d)
    PROVE  /\ DraftShape(Debugged(d))
           /\ Debugged(d).key = d.key /\ Debugged(d).action = d.action
           /\ Debugged(d).terms \subseteq d.terms
           /\ \A w : HasKeyword(Debugged(d).leaves, w) =>
                        HasKeyword(d.leaves, w) \/ w \in d.terms
           /\ \A w \in CodeLike : HasKeyword(d.leaves, w) =>
                                     HasKeyword(Debugged(d).leaves, w)
           /\ \A t : HasEntity(Debugged(d).leaves, t) <=> HasEntity(d.leaves, t)
           /\ Tidy(d) => Tidy(Debugged(d))
<1>. DEFINE terms == d.terms \ Banned
            leaves == Sanitized(d.leaves, terms)
<1>1. terms \subseteq d.terms
  OBVIOUS
<1>2. Debugged(d) = [d EXCEPT !.terms = terms, !.leaves = leaves]
  BY DEF Debugged
<1>. HIDE DEF terms
<1>3. /\ \A leaf \in leaves : LeafShape(leaf)
      /\ \A w : HasKeyword(leaves, w) => HasKeyword(d.leaves, w) \/ w \in terms
      /\ \A w \in CodeLike : HasKeyword(d.leaves, w) => HasKeyword(leaves, w)
      /\ \A t : HasEntity(leaves, t) <=> HasEntity(d.leaves, t)
      /\ Upright(d.leaves) /\ terms \cap Partial = {} => Upright(leaves)
  BY SanitizedIs DEF DraftShape
<1>. HIDE DEF leaves
<1>4. /\ DraftShape(Debugged(d)) /\ Debugged(d).key = d.key
      /\ Debugged(d).action = d.action
      /\ Debugged(d).terms = terms /\ Debugged(d).leaves = leaves
  BY <1>2, <1>3 DEF DraftShape
<1>5. Tidy(d) => Tidy(Debugged(d))
  BY <1>1, <1>3, <1>4 DEF Tidy
<1>6. QED
  BY <1>1, <1>3, <1>4, <1>5

LEMMA EnsureKeyIs ==
    ASSUME NEW p, RequestOk(p), NEW d, DraftShape(d)
    PROVE  /\ DraftShape(EnsureKey(p, d)) /\ Personal(EnsureKey(p, d))
           /\ EnsureKey(p, d).leaves = d.leaves /\ EnsureKey(p, d).terms = d.terms
           /\ EnsureKey(p, d).action = d.action /\ EnsureKey(p, d).type = d.type
           /\ Personal(d) /\ d.terms \cap Specific = {} => EnsureKey(p, d) = d
<1>. DEFINE key == IF IsLiteralSpecific(d)
                   THEN [scope |-> "personal", acts |-> FALSE,
                         names |-> IF d.type \in Pii THEN d.type ELSE "none"]
                   ELSE IF d.key.scope = "global"
                   THEN [scope |-> "personal", acts |-> "action" \in p.said,
                         names |-> p.known]
                   ELSE [d.key EXCEPT !.scope = "personal"]
<1>1. EnsureKey(p, d) = [d EXCEPT !.key = key]
  BY DEF EnsureKey
<1>2. /\ key = [scope |-> key.scope, names |-> key.names, acts |-> key.acts]
      /\ key.scope = "personal" /\ key.names \in Pii \cup {"none"}
  <2>1. CASE IsLiteralSpecific(d)
    BY <2>1
  <2>2. CASE ~IsLiteralSpecific(d) /\ d.key.scope = "global"
    BY <2>2 DEF RequestOk
  <2>3. CASE ~IsLiteralSpecific(d) /\ d.key.scope # "global"
    BY <2>3 DEF DraftShape
  <2>4. QED
    BY <2>1, <2>2, <2>3
<1>3. d.terms \cap Specific = {} /\ Personal(d) => key = d.key
  BY DEF Personal, DraftShape, IsLiteralSpecific
<1>. HIDE DEF key
<1>4. [d EXCEPT !.key = d.key] = d
  BY DEF DraftShape
<1>5. QED
  BY <1>1, <1>2, <1>3, <1>4 DEF Personal, DraftShape

LEMMA RealignedIs ==
    ASSUME NEW p, RequestOk(p), NEW d, DraftShape(d)
    PROVE  /\ DraftShape(Realigned(p, d)) /\ Personal(Realigned(p, d))
           /\ Realigned(p, d).terms = d.terms /\ Realigned(p, d).action = d.action
           /\ Realigned(p, d).type = d.type
           /\ d.terms \cap Specific = {} => Realigned(p, d) = EnsureKey(p, d)
           /\ d.terms \cap Specific # {} =>
                 \A w : HasKeyword(Realigned(p, d).leaves, w) <=>
                           /\ w \in d.terms \cap Specific
                           /\ On(d.leaves, "context_keywords") # {}
           /\ \A t : HasEntity(Realigned(p, d).leaves, t) <=> HasEntity(d.leaves, t)
           /\ Tidy(d) => Tidy(Realigned(p, d))
<1>. DEFINE literals == d.terms \cap Specific
            f == [words \in {leaf.values : leaf \in d.leaves} |-> literals]
            replaced == [d EXCEPT !.leaves = Rewrite(@, f)]
<1>1. Realigned(p, d) = EnsureKey(p, IF literals = {} THEN d ELSE replaced)
  BY DEF Realigned
<1>2. CASE literals = {}
  BY <1>1, <1>2, EnsureKeyIs DEF Tidy
<1>3. CASE literals # {}
  <2>1. \A leaf \in d.leaves : f[leaf.values] = literals
    OBVIOUS
  <2>. HIDE DEF f
  <2>. DEFINE leaves == Rewrite(d.leaves, f)
  <2>2. /\ \A leaf \in leaves : LeafShape(leaf)
        /\ \A w : HasKeyword(leaves, w) <=>
                     \E leaf \in d.leaves : /\ leaf.on = "context_keywords"
                                            /\ w \in f[leaf.values]
        /\ \A t : HasEntity(leaves, t) <=> HasEntity(d.leaves, t)
        /\ (\A leaf \in d.leaves : leaf.on = "context_keywords" =>
               ~leaf.negated /\ f[leaf.values] \cap Partial = {}) => Upright(leaves)
    BY RewriteIs DEF DraftShape
  <2>. HIDE DEF leaves
  <2>3. \A w : HasKeyword(leaves, w) <=>
                  w \in literals /\ On(d.leaves, "context_keywords") # {}
    BY <2>1, <2>2 DEF On
  <2>4. replaced = [d EXCEPT !.leaves = leaves]
    BY DEF leaves
  <2>. HIDE DEF replaced
  <2>5. /\ DraftShape(replaced) /\ replaced.terms = d.terms /\ replaced.type = d.type
        /\ replaced.action = d.action /\ replaced.leaves = leaves
    BY <2>2, <2>4 DEF DraftShape
  <2>6. Realigned(p, d) = EnsureKey(p, replaced)
    BY <1>1, <1>3
  <2>7. Tidy(d) => Tidy(EnsureKey(p, replaced))
    <3>1. Tidy(d) => Upright(leaves)
      BY <2>1, <2>2 DEF Tidy, Upright
    <3>2. QED
      BY <2>5, <3>1, EnsureKeyIs DEF Tidy
  <2>8. QED
    BY <1>3, <2>2, <2>3, <2>5, <2>6, <2>7, EnsureKeyIs
<1>4. QED
  BY <1>2, <1>3

\* The drafts built from the request.
LEMMA DraftIs ==
    ASSUME NEW leaves, \A leaf \in leaves : LeafShape(leaf),
           NEW terms, NEW type, NEW action
    PROVE  LET d == Draft(leaves, terms, type, action)
           IN  /\ DraftShape(d) /\ Personal(d) /\ d.leaves = leaves
               /\ d.terms = terms /\ d.type = type /\ d.action = action
  BY DEF Draft, DraftShape, OwnKey, Personal

LEMMA ExactIs ==
    ASSUME NEW p, NEW action
    PROVE  LET d == ExactDraft(p, action)
           IN  /\ DraftShape(d) /\ Personal(d) /\ d.leaves = {Keyword(p.tokens)}
               /\ d.terms = p.tokens /\ d.action = action
               /\ p.tokens # {} => Protects(p, d)
               /\ p.tokens \cap Partial = {} => Tidy(d)
               /\ \A t : ~HasEntity(d.leaves, t)
<1>. DEFINE d == ExactDraft(p, action)
<1>1. \A leaf \in {Keyword(p.tokens)} : LeafShape(leaf)
  BY LeavesAre
<1>2. /\ DraftShape(d) /\ Personal(d) /\ d.leaves = {Keyword(p.tokens)}
      /\ d.terms = p.tokens /\ d.action = action
  BY <1>1, DraftIs DEF ExactDraft
<1>. HIDE DEF d
<1>3. \A t : ~HasEntity(d.leaves, t)
  BY <1>2, LeavesAre DEF HasEntity
<1>4. \A w \in p.tokens : HasKeyword(d.leaves, w)
  BY <1>2, LeavesAre DEF HasKeyword
<1>5. p.tokens \cap Partial = {} => Tidy(d)
  BY <1>2, LeavesAre DEF Tidy, Upright
<1>6. QED
  BY <1>2, <1>3, <1>4, <1>5 DEF Protects, HasToken, NoPii, d

LEMMA PayrollIs ==
    ASSUME NEW action
    PROVE  LET d == PayrollDraft(action)
           IN  DraftShape(d) /\ Personal(d) /\ d.action = action
<1>1. \A leaf \in {Keyword({"payroll"}), Keyword({"gmail"})} : LeafShape(leaf)
  BY LeavesAre
<1>2. QED
  BY <1>1, DraftIs DEF PayrollDraft

LEMMA PersonaIs ==
    ASSUME NEW who \in {"office", "dev", "finance"}, NEW action
    PROVE  LET d == PersonaDraft(who, action)
           IN  /\ DraftShape(d) /\ Personal(d) /\ d.action = action
               /\ \A w : HasKeyword(d.leaves, w) => w \notin CodeLike
               /\ d.terms \cap Specific = {} /\ Tidy(d)
<1>. DEFINE d == PersonaDraft(who, action)
            word == TopicWord[who]
<1>1. word \notin CodeLike /\ word \notin Specific /\ word \notin Partial
  BY DEF TopicWord, CodeLike, Specific, Partial
<1>. HIDE DEF word
<1>. DEFINE leaves == {Persona(who), Keyword({word})}
            terms == {word}
<1>2. \A leaf \in leaves : LeafShape(leaf)
  BY LeavesAre
<1>3. /\ DraftShape(d) /\ Personal(d) /\ d.leaves = leaves
      /\ d.terms = terms /\ d.action = action
  <2>1. d = Draft(leaves, terms, "PERSONA", action)
    BY DEF PersonaDraft, word
  <2>. HIDE DEF d, leaves, terms
  <2>2. QED
    BY <1>2, <2>1, DraftIs
<1>. HIDE DEF d
<1>4. \A w : HasKeyword(d.leaves, w) => w = word
  BY <1>3, LeavesAre DEF HasKeyword
<1>5. Tidy(d)
  <2>1. \A leaf \in leaves : leaf.on = "context_keywords" =>
                                ~leaf.negated /\ leaf.values = {word}
    BY LeavesAre
  <2>2. QED
    BY <1>1, <1>3, <2>1 DEF Tidy, Upright
<1>6. QED
  BY <1>1, <1>3, <1>4, <1>5 DEF d

LEMMA GenericIs ==
    ASSUME NEW p, NEW words, NEW action
    PROVE  LET d == GenericDraft(p, words, action)
           IN  /\ DraftShape(d) /\ Personal(d) /\ d.action = action
               /\ \A t : ~HasEntity(d.leaves, t)
<1>. DEFINE d == GenericDraft(p, words, action)
            candidates == IF words # {} THEN words
                          ELSE IF Phrases(p) # {} THEN Phrases(p) ELSE ContextPhrases(p)
            ws == OrContext(SanitizeValues(candidates, candidates))
<1>1. \A leaf \in {Keyword(ws)} : LeafShape(leaf)
  BY LeavesAre
<1>2. d = Draft({Keyword(ws)}, {}, "CUSTOM_SECRET", action)
  BY DEF GenericDraft
<1>. HIDE DEF d, ws
<1>3. DraftShape(d) /\ Personal(d) /\ d.leaves = {Keyword(ws)} /\ d.action = action
  BY <1>1, <1>2, DraftIs
<1>4. QED
  BY <1>3, LeavesAre DEF HasEntity, d

LEMMA RefinementIs ==
    ASSUME NEW p, NEW action
    PROVE  LET d == RefinementDraft(p, action)
           IN  DraftShape(d) /\ Personal(d) /\ d.action = action
<1>. DEFINE words == IF Phrases(p) # {} THEN Phrases(p) ELSE ContextPhrases(p)
<1>1. \A leaf \in {Keyword(OrContext(words))} : LeafShape(leaf)
  BY LeavesAre
<1>2. QED
  BY <1>1, DraftIs DEF RefinementDraft

\* A request to protect a literal secret.
Literal(p) == LiteralSecret(p) /\ ~p.payroll

LEMMA FallbackIs ==
    ASSUME NEW p, RequestOk(p)
    PROVE  /\ DraftShape(FallbackDraft(p))
           /\ Literal(p) => Tidy(FallbackDraft(p))
<1>1. \A leaf \in {Entity({p.known})} : LeafShape(leaf)
  BY LeavesAre
<1>2. DraftShape(Draft({Entity({p.known})}, {}, "CUSTOM_SECRET", p.hint))
  BY <1>1, DraftIs
<1>3. p.topic # "none" => DraftShape(PersonaDraft(p.topic, p.hint))
  BY PersonaIs DEF RequestOk
<1>4. DraftShape(FallbackDraft(p))
  BY <1>2, <1>3, PayrollIs, ExactIs, RefinementIs, GenericIs DEF FallbackDraft
<1>5. Literal(p) => FallbackDraft(p) = ExactDraft(p, p.hint)
  BY DEF Literal, LiteralSecret, FallbackDraft
<1>6. QED
  BY <1>4, <1>5, ExactIs DEF RequestOk

\* What a draft has that is not lost on the way to the action: its shape, and, in a
\* request about a literal secret, a key that will find it.
Carries(p, d) == d.terms \cap Specific # {} => d.terms \cap Specific \cap p.tokens # {}

LEMMA LiteralHas ==
    ASSUME NEW p, RequestOk(p), Literal(p)
    PROVE  /\ p.tokens # {} /\ p.known = "none" /\ ~Unsupported(p) /\ CustomSecret(p)
           /\ p.tokens \subseteq CodeLike \ Partial
           /\ \A d : ~MissesSecret(p, d) => NoPii(d)
           /\ \A d : Tidy(d) => (MissesSecret(p, d) <=> ~Protects(p, d))
           /\ \A d : ~MissesPayroll(p, d)
  BY ProtectsIs DEF Literal, LiteralSecret, Unsupported, CustomSecret, RequestOk,
                    MissesSecret, MissesPayroll, Protects

LEMMA ExactCarries ==
    ASSUME NEW p, NEW action PROVE Carries(p, ExactDraft(p, action))
<1>1. ExactDraft(p, action).terms = p.tokens
  BY ExactIs
<1>2. QED
  BY <1>1 DEF Carries

\* After the first realignment, a secret among the keywords is one among the terms.
LEMMA FirstRealigned ==
    ASSUME NEW p, RequestOk(p), NEW d, DraftShape(d)
    PROVE  Protects(p, Realigned(p, d)) => Carries(p, Realigned(p, d))
<1>. DEFINE x == Realigned(p, d)
<1>1. /\ x.terms = d.terms
      /\ d.terms \cap Specific # {} =>
            \A w : HasKeyword(x.leaves, w) => w \in d.terms \cap Specific
  BY RealignedIs
<1>. HIDE DEF x
<1>2. Protects(p, x) => Carries(p, x)
  BY <1>1 DEF Protects, HasToken, Carries
<1>3. QED
  BY <1>2 DEF x

\* A pass that either leaves a draft alone or replaces it.
Replaces(p, d, e) ==
    /\ DraftShape(e) /\ e.action = d.action
    /\ Literal(p) /\ Tidy(d) => Tidy(e)
    /\ Literal(p) /\ (Protects(p, d) => Carries(p, d)) =>
          (Protects(p, e) => Carries(p, e))

LEMMA AlignedIs ==
    ASSUME NEW p, RequestOk(p), NEW d, DraftShape(d)
    PROVE  Replaces(p, d, Aligned(p, d))
<1>1. Replaces(p, d, d)
  BY DEF Replaces
<1>2. Replaces(p, d, ExactDraft(p, d.action))
  BY ExactIs, ExactCarries DEF Replaces, RequestOk
<1>3. ~p.payroll \/ Replaces(p, d, PayrollDraft(d.action))
  BY PayrollIs DEF Replaces, Literal
<1>4. p.topic \in {"office", "dev", "finance"} =>
        Replaces(p, d, PersonaDraft(p.topic, d.action))
  <2>1. SUFFICES ASSUME p.topic \in {"office", "dev", "finance"}
                 PROVE  Replaces(p, d, PersonaDraft(p.topic, d.action))
    OBVIOUS
  <2>2. /\ DraftShape(PersonaDraft(p.topic, d.action))
        /\ PersonaDraft(p.topic, d.action).action = d.action
        /\ PersonaDraft(p.topic, d.action).terms \cap Specific = {}
        /\ Tidy(PersonaDraft(p.topic, d.action))
    BY <2>1, PersonaIs
  <2>3. QED
    BY <2>2 DEF Replaces, Carries
<1>5. MissesPayroll(p, d) => p.payroll
  BY DEF MissesPayroll
<1>6. QED
  BY <1>1, <1>2, <1>3, <1>4, <1>5 DEF Aligned

LEMMA SemanticallyGuardedIs ==
    ASSUME NEW p, RequestOk(p), NEW d, DraftShape(d)
    PROVE  Replaces(p, d, SemanticallyGuarded(p, d))
<1>1. Replaces(p, d, d)
  BY DEF Replaces
<1>2. Replaces(p, d, ExactDraft(p, d.action))
  BY ExactIs, ExactCarries DEF Replaces, RequestOk
<1>3. ~p.payroll \/ Replaces(p, d, PayrollDraft(d.action))
  BY PayrollIs DEF Replaces, Literal
<1>4. Replaces(p, d, PersonaDraft("finance", d.action))
  BY PersonaIs DEF Replaces, Carries
<1>5. MissesPayroll(p, d) => p.payroll
  BY DEF MissesPayroll
<1>6. QED
  BY <1>1, <1>2, <1>3, <1>4, <1>5 DEF SemanticallyGuarded

LEMMA StrippedIs ==
    ASSUME NEW p, RequestOk(p), NEW d, DraftShape(d)
    PROVE  /\ DraftShape(Stripped(p, d)) /\ Stripped(p, d).action = d.action
           /\ CustomSecret(p) => Stripped(p, d) = d
<1>. DEFINE unprompted == CodeLike \ p.tokens
            f == [words \in {leaf.values : leaf \in d.leaves} |-> words \ unprompted]
            leaves == Rewrite(d.leaves, f)
            e == [d EXCEPT !.terms = @ \ unprompted, !.leaves = leaves]
<1>1. Stripped(p, d) = IF CustomSecret(p) THEN d ELSE e
  BY DEF Stripped
<1>. HIDE DEF f
<1>2. \A leaf \in leaves : LeafShape(leaf)
  BY RewriteIs DEF DraftShape
<1>. DEFINE terms == d.terms \ unprompted
<1>. HIDE DEF leaves, terms
<1>3. e = [d EXCEPT !.terms = terms, !.leaves = leaves]
  BY DEF DraftShape, terms
<1>. HIDE DEF e
<1>4. DraftShape(e) /\ e.action = d.action
  BY <1>2, <1>3 DEF DraftShape
<1>5. QED
  BY <1>1, <1>4

LEMMA WithoutInternalCodeIs ==
    ASSUME NEW p, RequestOk(p), NEW d, DraftShape(d)
    PROVE  LET e == WithoutInternalCode(p, d)
           IN  /\ DraftShape(e) /\ e.action = d.action /\ e.terms = d.terms
               /\ ~HasEntity(e.leaves, "INTERNAL_CODE")
               /\ NoPii(d) => NoPii(e)
               /\ Protects(p, d) => Protects(p, e)
               /\ Protects(p, d) /\ Tidy(d) => Tidy(e)
<1>. DEFINE without(leaf) == IF leaf.on = "entity"
                             THEN Revalued(leaf, leaf.values \ {"INTERNAL_CODE"})
                             ELSE leaf
            others == {l \in d.leaves : l.on # "entity" \/ l.values # {"INTERNAL_CODE"}}
            kept == {without(leaf) : leaf \in others}
            words == IF Phrases(p) # {} THEN Phrases(p) ELSE ContextPhrases(p)
            generic == GenericDraft(p, OrContext(words), d.action).leaves
            leaves == IF kept # {} THEN kept ELSE generic
            e == [d EXCEPT !.leaves = leaves]
<1>1. WithoutInternalCode(p, d) = e
  <2>1. kept = { IF leaf.on = "entity"
                 THEN [leaf EXCEPT !.values = @ \ {"INTERNAL_CODE"}] ELSE leaf :
                   leaf \in others }
    BY DEF Revalued
  <2>2. QED
    BY <2>1 DEF WithoutInternalCode
<1>2. \A leaf \in d.leaves :
        /\ LeafShape(without(leaf)) /\ without(leaf).on = leaf.on
        /\ without(leaf).negated <=> leaf.negated
        /\ leaf.on = "entity" => without(leaf).values = leaf.values \ {"INTERNAL_CODE"}
        /\ leaf.on # "entity" => without(leaf) = leaf
  BY RevaluedIs DEF DraftShape
<1>. HIDE DEF without
<1>3. /\ \A leaf \in kept : LeafShape(leaf)
      /\ ~HasEntity(kept, "INTERNAL_CODE")
      /\ \A t : HasEntity(kept, t) => HasEntity(d.leaves, t)
      /\ \A w : HasKeyword(d.leaves, w) => HasKeyword(kept, w)
      /\ Upright(d.leaves) => Upright(kept)
  <2>1. \A leaf \in kept : LeafShape(leaf)
    BY <1>2
  <2>2. ~HasEntity(kept, "INTERNAL_CODE")
    BY <1>2 DEF HasEntity
  <2>3. \A t : HasEntity(kept, t) => HasEntity(d.leaves, t)
    BY <1>2 DEF HasEntity
  <2>4. \A w : HasKeyword(d.leaves, w) => HasKeyword(kept, w)
    BY <1>2 DEF HasKeyword
  <2>5. Upright(d.leaves) => Upright(kept)
    BY <1>2 DEF Upright
  <2>6. QED
    BY <2>1, <2>2, <2>3, <2>4, <2>5
<1>. HIDE DEF kept, words
<1>4. (\A leaf \in generic : LeafShape(leaf)) /\ \A t : ~HasEntity(generic, t)
  BY GenericIs DEF DraftShape
<1>. HIDE DEF generic
<1>5. (\A leaf \in leaves : LeafShape(leaf)) /\ ~HasEntity(leaves, "INTERNAL_CODE")
  BY <1>3, <1>4
<1>6. Protects(p, d) => leaves = kept
  BY <1>3 DEF Protects, HasToken, HasKeyword
<1>. HIDE DEF leaves
<1>7. DraftShape(e) /\ e.action = d.action /\ e.terms = d.terms /\ e.leaves = leaves
  BY <1>5 DEF DraftShape
<1>. HIDE DEF e
<1>8. Protects(p, d) => Protects(p, e)
  BY <1>3, <1>6, <1>7 DEF Protects, HasToken, NoPii
<1>9. NoPii(d) => NoPii(e)
  <2>1. leaves = kept \/ leaves = generic
    BY DEF leaves
  <2>2. QED
    BY <1>3, <1>4, <1>7, <2>1 DEF NoPii
<1>10. Protects(p, d) /\ Tidy(d) => Tidy(e)
  BY <1>3, <1>6, <1>7 DEF Tidy
<1>11. QED
  BY <1>1, <1>5, <1>7, <1>8, <1>9, <1>10

LEMMA OverriddenIs ==
    ASSUME NEW p, RequestOk(p), NEW d, DraftShape(d)
    PROVE  LET e == Overridden(p, d)
           IN  /\ DraftShape(e) /\ e.terms = d.terms /\ e.leaves = d.leaves
               /\ p.explicit # "none" => e.action = p.explicit
<1>. DEFINE key == IF PiiOf(d) = {} \/ d.key.acts THEN d.key
                   ELSE [scope |-> "personal", acts |-> TRUE,
                         names |-> CHOOSE t \in PiiOf(d) : TRUE]
            action == p.explicit
            e == [d EXCEPT !.action = action, !.key = key]
<1>1. Overridden(p, d) = IF p.explicit \in {"none", d.action} THEN d ELSE e
  BY DEF Overridden
<1>2. PiiOf(d) \subseteq Pii
  BY DEF PiiOf, DraftShape
<1>3. key = [scope |-> key.scope, names |-> key.names, acts |-> key.acts]
      /\ key.names \in Pii \cup {"none"}
  BY <1>2 DEF DraftShape
<1>. HIDE DEF key, action
<1>4. d = [leaves |-> d.leaves, terms |-> d.terms, type |-> d.type,
           action |-> d.action, key |-> d.key]
  BY DEF DraftShape
<1>5. e = [d EXCEPT !.action = action, !.key = key]
  OBVIOUS
<1>. HIDE DEF e
<1>6. /\ e = [leaves |-> e.leaves, terms |-> e.terms, type |-> e.type,
              action |-> e.action, key |-> e.key]
      /\ e.terms = d.terms /\ e.leaves = d.leaves /\ e.action = action
      /\ e.key = key
  BY <1>4, <1>5
<1>7. DraftShape(e)
  BY <1>3, <1>6 DEF DraftShape
<1>8. QED
  BY <1>1, <1>6, <1>7 DEF action, e

LEMMA IntentGuardedIs ==
    ASSUME NEW p, RequestOk(p), NEW d, DraftShape(d)
    PROVE  LET e == IntentGuarded(p, d)
           IN  /\ DraftShape(e) /\ ~HasEntity(e.leaves, "INTERNAL_CODE")
               /\ p.explicit # "none" => e.action = p.explicit
               /\ Literal(p) => NoPii(e)
               /\ Literal(p) /\ Tidy(d) /\ (Protects(p, d) => Carries(p, d)) =>
                     Tidy(e) /\ Protects(p, e) /\ Carries(p, e)
<1>. DEFINE a == IF Unsupported(p) THEN RefinementDraft(p, d.action) ELSE d
            b == IF MissesSecret(p, a) THEN ExactDraft(p, a.action) ELSE a
            c == IF MissesPayroll(p, b) THEN PayrollDraft(b.action) ELSE b
            s == Stripped(p, c)
            w == WithoutInternalCode(p, s)
            e == Overridden(p, w)
<1>1. IntentGuarded(p, d) = e
  BY DEF IntentGuarded
<1>2. DraftShape(a) /\ (Literal(p) => a = d)
  BY RefinementIs, LiteralHas
<1>. HIDE DEF a
<1>3. /\ DraftShape(b)
      /\ Literal(p) => NoPii(b)
      /\ Literal(p) /\ Tidy(a) /\ (Protects(p, a) => Carries(p, a)) =>
            Tidy(b) /\ Protects(p, b) /\ Carries(p, b)
  <2>1. CASE MissesSecret(p, a)
    <3>1. b = ExactDraft(p, a.action)
      BY <2>1
    <3>2. DraftShape(b) /\ Carries(p, b) /\ (p.tokens # {} => Protects(p, b))
          /\ (p.tokens \cap Partial = {} => Tidy(b))
      BY <3>1, ExactIs, ExactCarries
    <3>. HIDE DEF b
    <3>3. Literal(p) => Protects(p, b) /\ Tidy(b)
      BY <3>2, LiteralHas
    <3>4. QED
      BY <3>2, <3>3 DEF Protects
  <2>2. CASE ~MissesSecret(p, a)
    <3>1. b = a
      BY <2>2
    <3>. HIDE DEF b
    <3>2. QED
      BY <1>2, <2>2, <3>1, LiteralHas
  <2>3. QED
    BY <2>1, <2>2
<1>. HIDE DEF b
<1>4. DraftShape(c) /\ (Literal(p) => c = b)
  BY <1>3, PayrollIs, LiteralHas
<1>. HIDE DEF c
<1>5. DraftShape(s) /\ (Literal(p) => s = c)
  BY <1>4, StrippedIs, LiteralHas
<1>. HIDE DEF s
<1>6. /\ DraftShape(w) /\ ~HasEntity(w.leaves, "INTERNAL_CODE") /\ w.terms = s.terms
      /\ NoPii(s) => NoPii(w)
      /\ Protects(p, s) => Protects(p, w)
      /\ Protects(p, s) /\ Tidy(s) => Tidy(w)
  BY <1>5, WithoutInternalCodeIs
<1>. HIDE DEF w
<1>7. /\ DraftShape(e) /\ e.terms = w.terms /\ e.leaves = w.leaves
      /\ p.explicit # "none" => e.action = p.explicit
  BY <1>6, OverriddenIs
<1>. HIDE DEF e
<1>8. ASSUME Literal(p), Tidy(d), Protects(p, d) => Carries(p, d)
      PROVE  Tidy(e) /\ Protects(p, e) /\ Carries(p, e)
  <2>1. Tidy(s) /\ Protects(p, s) /\ Carries(p, s)
    BY <1>2, <1>3, <1>4, <1>5, <1>8
  <2>2. QED
    BY <1>6, <1>7, <2>1 DEF Protects, HasToken, NoPii, Carries, Tidy
<1>9. Literal(p) => NoPii(e)
  BY <1>3, <1>4, <1>5, <1>6, <1>7 DEF NoPii
<1>10. QED
  BY <1>1, <1>6, <1>7, <1>8, <1>9

\* What holds of a draft from the intent guard to the end; tidy says that the answer
\* was.
Guarded(p, d, tidy) ==
    /\ DraftShape(d)
    /\ ~HasEntity(d.leaves, "INTERNAL_CODE")
    /\ p.explicit # "none" => d.action = p.explicit
    /\ Literal(p) => NoPii(d) /\ (tidy => Tidy(d) /\ HasToken(p, d))

LEMMA MadeUsableIs ==
    ASSUME NEW p, RequestOk(p), NEW tidy \in BOOLEAN, NEW d, Guarded(p, d, tidy),
           Literal(p) /\ tidy => Carries(p, d)
    PROVE  /\ Guarded(p, MadeUsable(p, d), tidy)
           /\ Literal(p) /\ tidy => Carries(p, MadeUsable(p, d))
<1>1. Guarded(p, ExactDraft(p, d.action), tidy)
  BY ExactIs, LiteralHas DEF Guarded, Protects, RequestOk
<1>2. QED
  BY <1>1, ExactCarries DEF MadeUsable

LEMMA SecondRealigned ==
    ASSUME NEW p, RequestOk(p), NEW tidy \in BOOLEAN, NEW d, Guarded(p, d, tidy),
           Literal(p) /\ tidy => Carries(p, d)
    PROVE  Guarded(p, Realigned(p, d), tidy) /\ Personal(Realigned(p, d))
<1>. DEFINE x == Realigned(p, d)
<1>1. /\ DraftShape(x) /\ Personal(x) /\ x.action = d.action
      /\ d.terms \cap Specific = {} => x = EnsureKey(p, d)
      /\ d.terms \cap Specific # {} =>
            \A w : HasKeyword(x.leaves, w) <=>
                      /\ w \in d.terms \cap Specific
                      /\ On(d.leaves, "context_keywords") # {}
      /\ \A t : HasEntity(x.leaves, t) <=> HasEntity(d.leaves, t)
      /\ Tidy(d) => Tidy(x)
  BY RealignedIs DEF Guarded
<1>2. EnsureKey(p, d).leaves = d.leaves
  BY EnsureKeyIs DEF Guarded
<1>. HIDE DEF x
<1>3. ASSUME Literal(p), tidy PROVE HasToken(p, x)
  <2>1. HasToken(p, d) /\ Carries(p, d)
    BY <1>3 DEF Guarded
  <2>2. CASE d.terms \cap Specific = {}
    BY <1>1, <1>2, <2>1, <2>2 DEF HasToken
  <2>3. CASE d.terms \cap Specific # {}
    <3>1. On(d.leaves, "context_keywords") # {}
      BY <2>1 DEF HasToken, HasKeyword, On
    <3>2. QED
      BY <1>1, <2>1, <2>3, <3>1 DEF Carries, HasToken
  <2>4. QED
    BY <2>2, <2>3
<1>4. NoPii(d) => NoPii(x)
  BY <1>1 DEF NoPii
<1>5. Guarded(p, x, tidy)
  BY <1>1, <1>3, <1>4 DEF Guarded
<1>6. QED
  BY <1>1, <1>5 DEF x

\* Passes that keep the tokens and the entities keep what is guarded.
LEMMA GuardedOn ==
    ASSUME NEW p, RequestOk(p), NEW tidy \in BOOLEAN, NEW d, Guarded(p, d, tidy),
           NEW e, DraftShape(e), e.action = d.action,
           Tidy(d) => Tidy(e),
           \A w \in p.tokens :
              Tidy(d) /\ HasKeyword(d.leaves, w) => HasKeyword(e.leaves, w),
           \A t : HasEntity(e.leaves, t) => HasEntity(d.leaves, t)
    PROVE  Guarded(p, e, tidy)
  BY DEF Guarded, HasToken, NoPii

LEMMA KeywordsSanitizedIs ==
    ASSUME NEW p, RequestOk(p), NEW tidy \in BOOLEAN, NEW d, Guarded(p, d, tidy)
    PROVE  /\ Guarded(p, KeywordsSanitized(p, d), tidy)
           /\ KeywordsSanitized(p, d).key = d.key
<1>. DEFINE leaves == Sanitized(d.leaves, Phrases(p))
            e == [d EXCEPT !.leaves = leaves]
<1>1. KeywordsSanitized(p, d) = e
  BY DEF KeywordsSanitized
<1>2. /\ \A leaf \in leaves : LeafShape(leaf)
      /\ \A w \in CodeLike : HasKeyword(d.leaves, w) => HasKeyword(leaves, w)
      /\ \A t : HasEntity(leaves, t) <=> HasEntity(d.leaves, t)
      /\ Upright(d.leaves) /\ Phrases(p) \cap Partial = {} => Upright(leaves)
  BY SanitizedIs DEF Guarded, DraftShape
<1>. HIDE DEF leaves
<1>3. DraftShape(e) /\ e.leaves = leaves /\ e.action = d.action /\ e.key = d.key
      /\ e.terms = d.terms
  BY <1>2 DEF Guarded, DraftShape
<1>. HIDE DEF e
<1>4. Tidy(d) => Tidy(e)
  BY <1>2, <1>3 DEF Tidy, Phrases, Partial
<1>5. Guarded(p, e, tidy)
  BY <1>2, <1>3, <1>4, GuardedOn DEF RequestOk
<1>6. QED
  BY <1>1, <1>3, <1>5

\* Everything a draft asks for was said, or put together from what was.
Sayable(p) == Said(p) \cup {"context"} \cup SemanticPhrases(p.said)

About(p, d) ==
    /\ \A w : HasKeyword(d.leaves, w) => w \in Sayable(p)
    /\ d.terms \subseteq Said(p)

LEMMA AboutIs == \A p, d : OnTopic(p, d) <=> About(p, d)
  BY KeywordsAre DEF OnTopic, About, Sayable

LEMMA FilteredIs ==
    ASSUME NEW p, RequestOk(p), NEW tidy \in BOOLEAN, NEW d, Guarded(p, d, tidy)
    PROVE  /\ Guarded(p, Filtered(p, d), tidy) /\ About(p, Filtered(p, d))
           /\ Filtered(p, d).key = d.key
<1>. DEFINE keywords == SanitizeValues(Keywords(d), Phrases(p))
            terms == ((d.terms \cap Grounded(p)) \ (keywords \cup Noise))
                         \cup (ContextPhrases(p) \ keywords)
            f == [words \in {leaf.values : leaf \in d.leaves} |-> GroundedValues(p, words)]
            leaves == Rewrite(d.leaves, f)
            type == IF d.terms = {} THEN "CUSTOM_SECRET" ELSE d.type
            e == [d EXCEPT !.leaves = leaves, !.terms = terms, !.type = type]
<1>1. Filtered(p, d) = e
  BY DEF Filtered
<1>2. \A ws : /\ GroundedValues(p, ws) \subseteq Said(p)
              /\ ws \cap p.tokens \subseteq GroundedValues(p, ws)
              /\ ws \cap Partial = {} => GroundedValues(p, ws) \cap Partial = {}
  <2>. TAKE ws
  <2>1. Grounded(p) \subseteq Said(p) /\ p.tokens \subseteq Grounded(p)
    BY DEF Grounded, Said, RequestOk, CodeLike, Specific, Banned
  <2>2. Phrases(p) \subseteq Said(p) /\ ContextPhrases(p) \subseteq Said(p)
    BY DEF Phrases, ContextPhrases, Said
  <2>3. \A own : SanitizeValues(own, own) \subseteq own
    BY SanitizeIs
  <2>4. Phrases(p) \cap Partial = {} /\ ContextPhrases(p) \cap Partial = {}
    BY DEF Phrases, ContextPhrases, Partial
  <2>5. QED
    BY <2>1, <2>2, <2>3, <2>4 DEF GroundedValues
<1>3. /\ terms \subseteq Said(p)
      /\ d.terms \cap Partial = {} => terms \cap Partial = {}
  BY DEF Grounded, Said, ContextPhrases, Partial
<1>4. \A leaf \in d.leaves : f[leaf.values] = GroundedValues(p, leaf.values)
  OBVIOUS
<1>. HIDE DEF f, terms, type
<1>5. /\ \A leaf \in leaves : LeafShape(leaf)
      /\ \A w : HasKeyword(leaves, w) <=>
                   \E leaf \in d.leaves : /\ leaf.on = "context_keywords"
                                          /\ w \in f[leaf.values]
      /\ \A t : HasEntity(leaves, t) <=> HasEntity(d.leaves, t)
      /\ (\A leaf \in d.leaves : leaf.on = "context_keywords" =>
             ~leaf.negated /\ f[leaf.values] \cap Partial = {}) => Upright(leaves)
  BY RewriteIs DEF Guarded, DraftShape
<1>. HIDE DEF leaves
<1>6. /\ \A w : HasKeyword(leaves, w) => w \in Said(p)
      /\ \A w \in p.tokens : HasKeyword(d.leaves, w) => HasKeyword(leaves, w)
  BY <1>2, <1>4, <1>5 DEF HasKeyword
<1>7. /\ DraftShape(e) /\ e.leaves = leaves /\ e.terms = terms
      /\ e.action = d.action /\ e.key = d.key
  <2>1. e = [d EXCEPT !.leaves = leaves, !.terms = terms, !.type = type]
    OBVIOUS
  <2>. HIDE DEF e
  <2>2. QED
    BY <1>5, <2>1 DEF Guarded, DraftShape
<1>. HIDE DEF e
<1>8. Tidy(d) => Tidy(e)
  <2>1. Upright(d.leaves) => Upright(leaves)
    BY <1>2, <1>4, <1>5 DEF Upright
  <2>2. QED
    BY <1>3, <1>7, <2>1 DEF Tidy
<1>9. Guarded(p, e, tidy)
  BY <1>5, <1>6, <1>7, <1>8, GuardedOn
<1>10. About(p, e)
  BY <1>3, <1>6, <1>7 DEF About, Sayable
<1>11. QED
  BY <1>1, <1>7, <1>9, <1>10

LEMMA ContractedIs ==
    ASSUME NEW p, RequestOk(p), NEW tidy \in BOOLEAN, NEW d, DraftShape(d), About(p, d)
    PROVE  /\ Guarded(p, d, tidy) => Guarded(p, Contracted(p, d), tidy)
           /\ DraftShape(Contracted(p, d)) /\ About(p, Contracted(p, d))
           /\ Contracted(p, d).key = d.key
           /\ HasEntity(Contracted(p, d).leaves, "INTERNAL_CODE") =>
                 HasEntity(d.leaves, "INTERNAL_CODE")
<1>. DEFINE keywords == PrimaryKeywords(p, d)
            terms == Supporting(p, d, keywords)
            leaves == {Keyword(keywords)} \cup
                          {Keyword({t}) : t \in SemanticPhrases(terms)}
            type == IF d.terms = {} \/ d.type = "INTERNAL_CODE" THEN "CUSTOM_SECRET"
                    ELSE d.type
            e == [d EXCEPT !.leaves = leaves, !.terms = terms, !.type = type]
            aside == LiteralSecret(p) \/ p.known # "none" \/ keywords = {}
<1>1. Contracted(p, d) = IF aside THEN d ELSE e
  BY DEF Contracted
<1>2. terms \subseteq Said(p) /\ SemanticPhrases(terms) \subseteq Sayable(p)
  <2>1. terms \subseteq Said(p)
    BY DEF Supporting, Grounded
  <2>. HIDE DEF terms
  <2>2. "documents" \notin p.tokens /\ "internal" \notin p.tokens
    BY DEF RequestOk, CodeLike, Specific
  <2>3. {"documents", "internal"} \subseteq terms =>
            {"documents", "internal"} \subseteq p.said
    BY <2>1, <2>2 DEF Said
  <2>4. terms \cap MultiWord \subseteq Said(p)
    BY <2>1
  <2>5. CASE {"documents", "internal"} \subseteq terms
    <3>1. /\ SemanticPhrases(terms) = (terms \cap MultiWord) \cup {"internal documents"}
          /\ "internal documents" \in SemanticPhrases(p.said)
      BY <2>3, <2>5 DEF SemanticPhrases
    <3>2. QED
      BY <2>1, <2>4, <3>1 DEF Sayable
  <2>6. CASE ~({"documents", "internal"} \subseteq terms)
    <3>1. SemanticPhrases(terms) = terms \cap MultiWord
      BY <2>6 DEF SemanticPhrases
    <3>2. QED
      BY <2>1, <2>4, <3>1 DEF Sayable
  <2>7. QED
    BY <2>5, <2>6
<1>3. \A w \in keywords : w \in Sayable(p)
  <2>1. SanitizeValues(Keywords(d), {}) \subseteq Keywords(d)
    BY SanitizeIs
  <2>2. \A w \in Keywords(d) : w \in Sayable(p)
    BY KeywordsAre DEF About
  <2>3. Phrases(p) \subseteq Said(p) /\ ContextPhrases(p) \subseteq Said(p)
    BY DEF Phrases, ContextPhrases, Said
  <2>4. QED
    BY <2>1, <2>2, <2>3 DEF PrimaryKeywords, Sayable
<1>. HIDE DEF keywords, terms, type
<1>4. /\ \A leaf \in leaves : LeafShape(leaf)
      /\ \A w : HasKeyword(leaves, w) => w \in keywords \cup SemanticPhrases(terms)
      /\ \A t : ~HasEntity(leaves, t)
  <2>1. \A leaf \in leaves :
          /\ LeafShape(leaf) /\ leaf.on = "context_keywords"
          /\ leaf.values \subseteq keywords \cup SemanticPhrases(terms)
    <3>. TAKE leaf \in leaves
    <3>1. CASE leaf = Keyword(keywords)
      BY <3>1, LeavesAre
    <3>2. CASE \E t \in SemanticPhrases(terms) : leaf = Keyword({t})
      BY <3>2, LeavesAre
    <3>3. QED
      BY <3>1, <3>2
  <2>. HIDE DEF leaves
  <2>2. QED
    BY <2>1 DEF HasKeyword, HasEntity
<1>. HIDE DEF leaves
<1>5. /\ DraftShape(e) /\ e.leaves = leaves /\ e.terms = terms
      /\ e.action = d.action /\ e.key = d.key
  <2>1. e = [d EXCEPT !.leaves = leaves, !.terms = terms, !.type = type]
    OBVIOUS
  <2>. HIDE DEF e
  <2>2. QED
    BY <1>4, <2>1 DEF DraftShape
<1>. HIDE DEF e
<1>6. About(p, e)
  BY <1>2, <1>3, <1>4, <1>5 DEF About
<1>7. ~LiteralSecret(p) /\ Guarded(p, d, tidy) => Guarded(p, e, tidy)
  BY <1>4, <1>5 DEF Guarded, Literal
<1>8. QED
  BY <1>1, <1>4, <1>5, <1>6, <1>7

LEMMA DebuggedKeeps ==
    ASSUME NEW p, RequestOk(p), NEW tidy \in BOOLEAN, NEW d, DraftShape(d), About(p, d)
    PROVE  /\ Guarded(p, d, tidy) => Guarded(p, Debugged(d), tidy)
           /\ DraftShape(Debugged(d)) /\ About(p, Debugged(d))
           /\ Debugged(d).key = d.key
           /\ HasEntity(Debugged(d).leaves, "INTERNAL_CODE") =>
                 HasEntity(d.leaves, "INTERNAL_CODE")
<1>. DEFINE e == Debugged(d)
<1>1. /\ DraftShape(e) /\ e.key = d.key /\ e.action = d.action
      /\ e.terms \subseteq d.terms
      /\ \A w : HasKeyword(e.leaves, w) => HasKeyword(d.leaves, w) \/ w \in d.terms
      /\ \A w \in CodeLike : HasKeyword(d.leaves, w) => HasKeyword(e.leaves, w)
      /\ \A t : HasEntity(e.leaves, t) <=> HasEntity(d.leaves, t)
      /\ Tidy(d) => Tidy(e)
  BY DebuggedIs
<1>. HIDE DEF e
<1>2. Guarded(p, d, tidy) => Guarded(p, e, tidy)
  BY <1>1, GuardedOn DEF RequestOk
<1>3. About(p, e)
  BY <1>1 DEF About, Sayable
<1>4. QED
  BY <1>1, <1>2, <1>3 DEF e

\* Keywords that sanitizing leaves alone, and what the rule builder shows.
Clean(ws) == SanitizeValues(ws, ws) = ws

SimpleLeaf(leaf) ==
    /\ LeafShape(leaf) /\ leaf.values # {} /\ ~leaf.negated
    /\ \/ leaf.on = "context_keywords" /\ Clean(leaf.values)
       \/ leaf.on = "entity" /\ \E t : leaf.values = {t}

LEMMA Cleaned == \A ws : Clean(SanitizeValues(ws, ws))
<1>. TAKE ws
<1>. DEFINE usable(v) == v \ (Noise \cup Banned)
            clean == SanitizeValues(ws, ws)
<1>1. CASE usable(ws) # {}
  BY <1>1 DEF SanitizeValues, Clean
<1>2. CASE usable(ws) = {} /\ ws \ Banned # {}
  <2>1. PICK w : w \in ws \ Banned /\ clean = {w}
    BY <1>2 DEF SanitizeValues
  <2>2. w \in Noise /\ {w} \ Banned = {w} /\ usable({w}) = {}
    BY <1>2, <2>1
  <2>3. SanitizeValues({w}, {w}) = {w}
    BY <2>2 DEF SanitizeValues
  <2>4. QED
    BY <2>1, <2>3 DEF Clean
<1>3. CASE ws \ Banned = {}
  BY <1>3 DEF SanitizeValues, Clean
<1>4. QED
  BY <1>1, <1>2, <1>3

LEMMA SimpleIs ==
    ASSUME NEW d, DraftShape(d)
    PROVE  /\ Simple(d) # {} /\ \A leaf \in Simple(d) : SimpleLeaf(leaf)
           /\ \A w : HasKeyword(Simple(d), w) =>
                        HasKeyword(d.leaves, w) \/ w \in d.terms \/ w = "context"
           /\ Upright(d.leaves) =>
                 \A w \in CodeLike : HasKeyword(d.leaves, w) => HasKeyword(Simple(d), w)
           /\ Tidy(d) => Upright(Simple(d))
           /\ \A t : HasEntity(Simple(d), t) => HasEntity(d.leaves, t)
<1>. DEFINE clean(ws) == SanitizeValues(ws, ws)
            shown == {leaf \in d.leaves : ~leaf.negated}
            kept == {Keyword(clean(leaf.values)) :
                        leaf \in On(shown, "context_keywords")} \ {Keyword({})}
            named == UNION {leaf.values : leaf \in On(shown, "entity")}
            types == {Entity({t}) : t \in named}
            own == OrContext(clean(d.terms))
<1>1. Simple(d) = IF kept \cup types # {} THEN kept \cup types ELSE {Keyword(own)}
  BY DEF Simple
<1>2. \A ws : clean(ws) \subseteq ws /\ ws \cap CodeLike \subseteq clean(ws) /\ Clean(clean(ws))
  BY SanitizeIs, Cleaned
<1>3. Clean(own) /\ own # {} /\ own \subseteq d.terms \cup {"context"}
  <2>1. Clean({"context"})
    BY DEF Clean, SanitizeValues, Noise, Banned
  <2>2. QED
    BY <1>2, <2>1 DEF OrContext
<1>. HIDE DEF clean, own
<1>4. \A leaf \in kept :
        /\ SimpleLeaf(leaf) /\ leaf.on = "context_keywords"
        /\ \A w \in leaf.values : HasKeyword(d.leaves, w)
  <2>. TAKE leaf \in kept
  <2>1. PICK l \in On(shown, "context_keywords") : leaf = Keyword(clean(l.values))
    OBVIOUS
  <2>2. /\ LeafShape(leaf) /\ leaf.on = "context_keywords" /\ ~leaf.negated
        /\ leaf.values = clean(l.values)
    BY <2>1, LeavesAre
  <2>3. leaf.values # {}
    BY <2>1, <2>2
  <2>4. QED
    BY <1>2, <2>1, <2>2, <2>3 DEF SimpleLeaf, HasKeyword, On
<1>5. \A leaf \in types :
        /\ SimpleLeaf(leaf) /\ leaf.on = "entity"
        /\ \A t \in leaf.values : HasEntity(d.leaves, t)
  <2>. TAKE leaf \in types
  <2>1. PICK t \in named : leaf = Entity({t})
    OBVIOUS
  <2>2. LeafShape(leaf) /\ leaf.on = "entity" /\ leaf.values = {t} /\ ~leaf.negated
    BY <2>1, LeavesAre
  <2>3. HasEntity(d.leaves, t)
    BY DEF On, HasEntity
  <2>4. QED
    BY <2>2, <2>3 DEF SimpleLeaf
<1>6. ASSUME NEW w \in CodeLike, HasKeyword(d.leaves, w), Upright(d.leaves)
      PROVE  HasKeyword(kept, w)
  <2>1. PICK l \in On(shown, "context_keywords") : w \in l.values
    BY <1>6 DEF HasKeyword, On, Upright
  <2>2. w \in clean(l.values)
    BY <1>2, <2>1
  <2>3. /\ Keyword(clean(l.values)).values = clean(l.values)
        /\ Keyword({}).values = {}
        /\ Keyword(clean(l.values)).on = "context_keywords"
    BY LeavesAre
  <2>4. Keyword(clean(l.values)) \in kept
    BY <2>2, <2>3
  <2>5. QED
    BY <2>2, <2>3, <2>4 DEF HasKeyword
<1>7. LET leaf == Keyword(own)
      IN  SimpleLeaf(leaf) /\ leaf.on = "context_keywords" /\ leaf.values = own
  BY <1>3, LeavesAre DEF SimpleLeaf
<1>. HIDE DEF kept, types
<1>8. Simple(d) # {} /\ \A leaf \in Simple(d) : SimpleLeaf(leaf)
  BY <1>1, <1>4, <1>5, <1>7
<1>9. \A w : HasKeyword(Simple(d), w) =>
                HasKeyword(d.leaves, w) \/ w \in d.terms \/ w = "context"
  BY <1>1, <1>3, <1>4, <1>5, <1>7 DEF HasKeyword
<1>10. Upright(d.leaves) =>
          \A w \in CodeLike : HasKeyword(d.leaves, w) => HasKeyword(Simple(d), w)
  BY <1>1, <1>6 DEF HasKeyword
<1>11. \A t : HasEntity(Simple(d), t) => HasEntity(d.leaves, t)
  BY <1>1, <1>4, <1>5, <1>7 DEF HasEntity
<1>12. Tidy(d) => Upright(Simple(d))
  <2>1. ASSUME Tidy(d), NEW leaf \in Simple(d), leaf.on = "context_keywords"
        PROVE  ~leaf.negated /\ leaf.values \cap Partial = {}
    <3>1. \A w : HasKeyword(Simple(d), w) => w \notin Partial
      BY <1>9, <2>1 DEF Tidy, Upright, HasKeyword, Partial
    <3>2. QED
      BY <1>8, <2>1, <3>1 DEF SimpleLeaf, HasKeyword
  <2>2. QED
    BY <2>1 DEF Upright
<1>13. QED
  BY <1>8, <1>9, <1>10, <1>11, <1>12

\* A draft as the rule builder shows it.
SimpleShape(d) ==
    /\ DraftShape(d) /\ d.action # "warn"
    /\ d.leaves # {} /\ \A leaf \in d.leaves : SimpleLeaf(leaf)

LEMMA NormalizedIs ==
    ASSUME NEW d, DraftShape(d)
    PROVE  LET e == Normalized(d)
           IN  /\ SimpleShape(e) /\ e.leaves = Simple(d) /\ e.terms = d.terms
               /\ e.type = d.type /\ e.key = d.key
               /\ e.action = IF d.action = "warn" THEN "mask" ELSE d.action
<1>. DEFINE leaves == Simple(d)
            action == IF d.action = "warn" THEN "mask" ELSE d.action
            e == [d EXCEPT !.leaves = leaves, !.action = action]
<1>1. Normalized(d) = e
  BY DEF Normalized
<1>2. leaves # {} /\ \A leaf \in leaves : SimpleLeaf(leaf)
  BY SimpleIs
<1>3. action # "warn"
  OBVIOUS
<1>. HIDE DEF leaves, action
<1>4. e = [d EXCEPT !.leaves = leaves, !.action = action]
  OBVIOUS
<1>. HIDE DEF e
<1>5. /\ DraftShape(e) /\ e.leaves = leaves /\ e.terms = d.terms
      /\ e.type = d.type /\ e.key = d.key /\ e.action = action
  BY <1>2, <1>4 DEF DraftShape, SimpleLeaf
<1>6. QED
  BY <1>1, <1>2, <1>3, <1>5 DEF SimpleShape, leaves, action

LEMMA NormalizedKeeps ==
    ASSUME NEW p, RequestOk(p), NEW tidy \in BOOLEAN, NEW d, DraftShape(d), About(p, d)
    PROVE  /\ Guarded(p, d, tidy) => Guarded(p, Normalized(d), tidy)
           /\ SimpleShape(Normalized(d)) /\ About(p, Normalized(d))
           /\ Normalized(d).key = d.key
           /\ HasEntity(Normalized(d).leaves, "INTERNAL_CODE") =>
                 HasEntity(d.leaves, "INTERNAL_CODE")
<1>. DEFINE e == Normalized(d)
<1>1. /\ SimpleShape(e) /\ e.leaves = Simple(d) /\ e.terms = d.terms
      /\ e.key = d.key
      /\ e.action = IF d.action = "warn" THEN "mask" ELSE d.action
  BY NormalizedIs
<1>. HIDE DEF e
<1>2. /\ \A w : HasKeyword(e.leaves, w) =>
                   HasKeyword(d.leaves, w) \/ w \in d.terms \/ w = "context"
      /\ Upright(d.leaves) =>
            \A w \in CodeLike : HasKeyword(d.leaves, w) => HasKeyword(e.leaves, w)
      /\ Tidy(d) => Upright(e.leaves)
      /\ \A t : HasEntity(e.leaves, t) => HasEntity(d.leaves, t)
  BY <1>1, SimpleIs
<1>3. Guarded(p, d, tidy) => Guarded(p, e, tidy)
  <2>1. Tidy(d) => Tidy(e)
    BY <1>1, <1>2 DEF Tidy
  <2>2. Tidy(d) /\ HasToken(p, d) => HasToken(p, e)
    BY <1>2 DEF HasToken, RequestOk, Tidy
  <2>3. NoPii(d) => NoPii(e)
    BY <1>2 DEF NoPii
  <2>4. QED
    BY <1>1, <1>2, <2>1, <2>2, <2>3 DEF Guarded, RequestOk, SimpleShape
<1>4. About(p, e)
  BY <1>1, <1>2 DEF About, Sayable
<1>5. QED
  BY <1>1, <1>2, <1>3, <1>4 DEF e

-----------------------------------------------------------------------------
(* All passes.                                                             *)

LEMMA PassedIs ==
    ASSUME NEW p, RequestOk(p), NEW tidy \in BOOLEAN, NEW d, DraftShape(d),
           Literal(p) /\ tidy => Tidy(d)
    PROVE  LET e == Passed(p, d)
           IN  Guarded(p, e, tidy) /\ About(p, e) /\ Personal(e)
<1>. DEFINE d1 == Debugged(d)
            d2 == Realigned(p, d1)
            d3 == Aligned(p, d2)
            d4 == SemanticallyGuarded(p, d3)
            d5 == IntentGuarded(p, d4)
            d6 == MadeUsable(p, d5)
            d7 == Realigned(p, d6)
            d8 == KeywordsSanitized(p, d7)
            d9 == Filtered(p, d8)
            d10 == Contracted(p, d9)
            d11 == Debugged(d10)
<1>1. Passed(p, d) = d11
  BY DEF Passed
<1>2. DraftShape(d1) /\ (Literal(p) /\ tidy => Tidy(d1))
  BY DebuggedIs
<1>. HIDE DEF d1
<1>3. /\ DraftShape(d2) /\ (Protects(p, d2) => Carries(p, d2))
      /\ Literal(p) /\ tidy => Tidy(d2)
  BY <1>2, RealignedIs, FirstRealigned
<1>. HIDE DEF d2
<1>4. Replaces(p, d2, d3)
  BY <1>3, AlignedIs
<1>. HIDE DEF d3
<1>5. /\ DraftShape(d3) /\ (Literal(p) => (Protects(p, d3) => Carries(p, d3)))
      /\ Literal(p) /\ tidy => Tidy(d3)
  BY <1>3, <1>4 DEF Replaces
<1>6. Replaces(p, d3, d4)
  BY <1>5, SemanticallyGuardedIs
<1>. HIDE DEF d4
<1>7. /\ DraftShape(d4) /\ (Literal(p) => (Protects(p, d4) => Carries(p, d4)))
      /\ Literal(p) /\ tidy => Tidy(d4)
  BY <1>5, <1>6 DEF Replaces
<1>8. /\ DraftShape(d5) /\ ~HasEntity(d5.leaves, "INTERNAL_CODE")
      /\ p.explicit # "none" => d5.action = p.explicit
      /\ Literal(p) => NoPii(d5)
      /\ Literal(p) /\ Tidy(d4) /\ (Protects(p, d4) => Carries(p, d4)) =>
            Tidy(d5) /\ Protects(p, d5) /\ Carries(p, d5)
  BY <1>7, IntentGuardedIs
<1>. HIDE DEF d5
<1>9. Guarded(p, d5, tidy) /\ (Literal(p) /\ tidy => Carries(p, d5))
  BY <1>7, <1>8 DEF Guarded, Protects
<1>10. Guarded(p, d6, tidy) /\ (Literal(p) /\ tidy => Carries(p, d6))
  BY <1>9, MadeUsableIs
<1>. HIDE DEF d6
<1>11. Guarded(p, d7, tidy) /\ Personal(d7)
  BY <1>10, SecondRealigned
<1>. HIDE DEF d7
<1>12. Guarded(p, d8, tidy) /\ d8.key = d7.key
  BY <1>11, KeywordsSanitizedIs
<1>. HIDE DEF d8
<1>13. Guarded(p, d9, tidy) /\ About(p, d9) /\ d9.key = d8.key
  BY <1>12, FilteredIs
<1>. HIDE DEF d9
<1>14. Guarded(p, d10, tidy) /\ About(p, d10) /\ d10.key = d9.key
  BY <1>13, ContractedIs DEF Guarded
<1>. HIDE DEF d10
<1>15. Guarded(p, d11, tidy) /\ About(p, d11) /\ d11.key = d10.key
  BY <1>14, DebuggedKeeps DEF Guarded
<1>. HIDE DEF d11
<1>16. QED
  BY <1>1, <1>11, <1>12, <1>13, <1>14, <1>15 DEF Personal

LEMMA MinimalIs ==
    ASSUME NEW p, RequestOk(p)
    PROVE  LET d == MinimalDraft(p)
           IN  /\ DraftShape(d) /\ About(p, d) /\ Personal(d)
               /\ ~HasEntity(d.leaves, "INTERNAL_CODE")
<1>. DEFINE words == CASE Phrases(p) # {} -> Phrases(p)
                   [] Phrases(p) = {} /\ ContextPhrases(p) # {} -> ContextPhrases(p)
                   [] OTHER -> OrContext(p.said \cap {"word"})
            terms == ContextPhrases(p) \ words
            leaves == {Keyword(words)}
            d1 == Draft(leaves, terms, "CUSTOM_SECRET", p.hint)
            d2 == Contracted(p, d1)
            d3 == Debugged(d2)
<1>1. MinimalDraft(p) = d3
  BY DEF MinimalDraft
<1>2. words \subseteq Said(p) \cup {"context"} /\ terms \subseteq Said(p)
  BY DEF Phrases, ContextPhrases, Said, OrContext
<1>. HIDE DEF words, terms
<1>3. /\ \A leaf \in leaves : LeafShape(leaf)
      /\ \A w : HasKeyword(leaves, w) => w \in words
      /\ \A t : ~HasEntity(leaves, t)
  BY LeavesAre DEF HasKeyword, HasEntity
<1>. HIDE DEF leaves
<1>4. DraftShape(d1) /\ Personal(d1) /\ d1.leaves = leaves /\ d1.terms = terms
  BY <1>3, DraftIs
<1>. HIDE DEF d1
<1>5. About(p, d1) /\ ~HasEntity(d1.leaves, "INTERNAL_CODE")
  BY <1>2, <1>3, <1>4 DEF About, Sayable
<1>6. /\ DraftShape(d2) /\ About(p, d2) /\ d2.key = d1.key
      /\ ~HasEntity(d2.leaves, "INTERNAL_CODE")
  BY <1>4, <1>5, ContractedIs
<1>. HIDE DEF d2
<1>7. /\ DraftShape(d3) /\ About(p, d3) /\ d3.key = d2.key
      /\ ~HasEntity(d3.leaves, "INTERNAL_CODE")
  BY <1>6, DebuggedKeeps
<1>. HIDE DEF d3
<1>8. QED
  BY <1>1, <1>4, <1>6, <1>7 DEF Personal

\* What is generated, from whatever the model sends.
LEMMA GeneratedIs ==
    ASSUME NEW p, RequestOk(p), NEW replies, \A d \in replies : DraftShape(d),
           NEW tidy \in BOOLEAN, tidy => \A d \in replies : Tidy(d)
    PROVE  LET generated == Generated(p, replies)
               draft == generated.draft
           IN  /\ SimpleShape(draft) /\ About(p, draft) /\ Personal(draft)
               /\ ~HasEntity(draft.leaves, "INTERNAL_CODE")
               /\ ~generated.minimal => Guarded(p, draft, tidy)
<1>. DEFINE first == IF replies = {} THEN FallbackDraft(p)
                     ELSE CHOOSE d \in replies : TRUE
            passed == Passed(p, first)
            minimal == MinimalDraft(p)
            shown == Normalized(passed)
            again == Debugged(shown)
            full == Normalized(again)
            safe == Debugged(minimal)
            last == Normalized(safe)
<1>1. Generated(p, replies) = IF Valid(passed) THEN [draft |-> full, minimal |-> FALSE]
                              ELSE [draft |-> last, minimal |-> TRUE]
  BY DEF Generated
<1>2. DraftShape(first) /\ (Literal(p) /\ tidy => Tidy(first))
  BY FallbackIs
<1>. HIDE DEF first
<1>3. Guarded(p, passed, tidy) /\ About(p, passed) /\ Personal(passed)
  BY <1>2, PassedIs
<1>. HIDE DEF passed
<1>4. /\ Guarded(p, shown, tidy) /\ About(p, shown) /\ shown.key = passed.key
  BY <1>3, NormalizedKeeps DEF Guarded
<1>. HIDE DEF shown
<1>5. Guarded(p, again, tidy) /\ About(p, again) /\ again.key = shown.key
  BY <1>4, DebuggedKeeps DEF Guarded
<1>. HIDE DEF again
<1>6. /\ Guarded(p, full, tidy) /\ About(p, full) /\ full.key = again.key
      /\ SimpleShape(full)
  BY <1>5, NormalizedKeeps DEF Guarded
<1>. HIDE DEF full
<1>7. /\ DraftShape(minimal) /\ About(p, minimal) /\ Personal(minimal)
      /\ ~HasEntity(minimal.leaves, "INTERNAL_CODE")
  BY MinimalIs
<1>. HIDE DEF minimal
<1>8. /\ DraftShape(safe) /\ About(p, safe) /\ safe.key = minimal.key
      /\ ~HasEntity(safe.leaves, "INTERNAL_CODE")
  BY <1>7, DebuggedKeeps
<1>. HIDE DEF safe
<1>9. /\ SimpleShape(last) /\ About(p, last) /\ last.key = safe.key
      /\ ~HasEntity(last.leaves, "INTERNAL_CODE")
  BY <1>8, NormalizedKeeps
<1>. HIDE DEF last
<1>10. CASE Valid(passed)
  <2>1. /\ Generated(p, replies).draft = full
        /\ SimpleShape(full) /\ About(p, full) /\ Guarded(p, full, tidy)
        /\ ~HasEntity(full.leaves, "INTERNAL_CODE") /\ Personal(full)
    BY <1>1, <1>3, <1>4, <1>5, <1>6, <1>10 DEF Personal, Guarded
  <2>2. QED
    BY <2>1
<1>11. CASE ~Valid(passed)
  <2>1. /\ Generated(p, replies).draft = last /\ Generated(p, replies).minimal
        /\ Personal(last)
    BY <1>1, <1>7, <1>8, <1>9, <1>11 DEF Personal
  <2>2. QED
    BY <1>9, <2>1
<1>12. QED
  BY <1>10, <1>11

-----------------------------------------------------------------------------
(* Confirmation.                                                           *)

LEMMA CleanLiterals ==
    ASSUME NEW ws, ws \subseteq Specific, NEW fallback
    PROVE  SanitizeValues(ws, ws) = ws
  BY DEF SanitizeValues, Specific, Noise, Banned

\* What is shown stays as it is when it is normalised again.
LEMMA SimpleStays ==
    ASSUME NEW d, SimpleShape(d)
    PROVE  Simple(d) = d.leaves
<1>. DEFINE kept == {Keyword(SanitizeValues(leaf.values, leaf.values)) :
                        leaf \in On(d.leaves, "context_keywords")} \ {Keyword({})}
            types == {Entity({t}) : t \in Entities(d)}
            shown == {leaf \in d.leaves : ~leaf.negated}
<1>. shown = d.leaves
  BY DEF SimpleShape, SimpleLeaf
<1>1. \A leaf \in On(d.leaves, "context_keywords") :
        /\ Keyword(SanitizeValues(leaf.values, leaf.values)) = leaf
        /\ leaf # Keyword({})
  <2>. TAKE leaf \in On(d.leaves, "context_keywords")
  <2>1. /\ leaf \in d.leaves /\ LeafShape(leaf) /\ leaf.on = "context_keywords"
        /\ SanitizeValues(leaf.values, leaf.values) = leaf.values
        /\ leaf.values # {} /\ ~leaf.negated
    BY DEF On, SimpleShape, SimpleLeaf, Clean
  <2>2. Keyword(leaf.values) = leaf
    BY <2>1, LeavesAre, SameLeaf
  <2>3. QED
    BY <2>1, <2>2, LeavesAre
<1>2. kept = On(d.leaves, "context_keywords")
  BY <1>1
<1>3. types = On(d.leaves, "entity")
  <2>1. ASSUME NEW leaf \in On(d.leaves, "entity") PROVE leaf \in types
    <3>1. PICK t : leaf.values = {t}
      BY <2>1 DEF On, SimpleShape, SimpleLeaf
    <3>2. LeafShape(leaf) /\ leaf.on = "entity" /\ ~leaf.negated /\ t \in Entities(d)
      BY <2>1, <3>1 DEF On, SimpleShape, SimpleLeaf, Entities
    <3>3. /\ LeafShape(Entity({t})) /\ Entity({t}).on = "entity"
          /\ Entity({t}).values = {t} /\ ~Entity({t}).negated
      BY LeavesAre
    <3>4. leaf = Entity({t})
      BY <3>1, <3>2, <3>3, SameLeaf
    <3>5. QED
      BY <3>2, <3>4
  <2>2. ASSUME NEW t \in Entities(d) PROVE Entity({t}) \in On(d.leaves, "entity")
    <3>1. PICK leaf \in On(d.leaves, "entity") : t \in leaf.values
      BY <2>2 DEF Entities
    <3>2. PICK u : leaf.values = {u}
      BY <3>1 DEF On, SimpleShape, SimpleLeaf
    <3>3. LeafShape(leaf) /\ leaf.on = "entity" /\ leaf.values = {t} /\ ~leaf.negated
      BY <3>1, <3>2 DEF On, SimpleShape, SimpleLeaf
    <3>4. /\ LeafShape(Entity({t})) /\ Entity({t}).on = "entity"
          /\ Entity({t}).values = {t} /\ ~Entity({t}).negated
      BY LeavesAre
    <3>5. leaf = Entity({t})
      BY <3>3, <3>4, SameLeaf
    <3>6. QED
      BY <3>1, <3>5
  <2>3. QED
    BY <2>1, <2>2
<1>4. d.leaves = On(d.leaves, "context_keywords") \cup On(d.leaves, "entity")
  BY DEF On, SimpleShape, SimpleLeaf
<1>5. kept \cup types = d.leaves /\ d.leaves # {}
  BY <1>2, <1>3, <1>4 DEF SimpleShape
<1>6. QED
  BY <1>5 DEF Simple, Entities

LEMMA NormalizedStays ==
    ASSUME NEW d, SimpleShape(d) PROVE Normalized(d) = d
<1>1. Simple(d) = d.leaves /\ d.action # "warn"
  BY SimpleStays DEF SimpleShape
<1>2. Normalized(d) = [d EXCEPT !.leaves = d.leaves, !.action = d.action]
  BY <1>1 DEF Normalized
<1>3. QED
  BY <1>2 DEF SimpleShape, DraftShape

LEMMA EnsureKeyTwice ==
    ASSUME NEW p, RequestOk(p), NEW d, DraftShape(d)
    PROVE  EnsureKey(p, EnsureKey(p, d)) = EnsureKey(p, d)
<1>. DEFINE e == EnsureKey(p, d)
<1>1. /\ DraftShape(e) /\ Personal(e) /\ e.terms = d.terms /\ e.type = d.type
      /\ Personal(e) /\ e.terms \cap Specific = {} => EnsureKey(p, e) = e
  BY EnsureKeyIs
<1>2. ASSUME d.terms \cap Specific # {} PROVE EnsureKey(p, e) = e
  <2>. DEFINE key == [scope |-> "personal", acts |-> FALSE,
                      names |-> IF d.type \in Pii THEN d.type ELSE "none"]
  <2>1. e = [d EXCEPT !.key = key]
    BY <1>2 DEF EnsureKey, IsLiteralSpecific
  <2>2. EnsureKey(p, e) = [e EXCEPT !.key = key]
    BY <1>1, <1>2 DEF EnsureKey, IsLiteralSpecific
  <2>. HIDE DEF e, key
  <2>3. e.key = key
    BY <2>1 DEF DraftShape
  <2>4. [e EXCEPT !.key = e.key] = e
    BY <1>1 DEF DraftShape
  <2>5. QED
    BY <2>2, <2>3, <2>4
<1>3. QED
  BY <1>1, <1>2

\* A second realignment changes nothing, nor does a normalisation after the first.
LEMMA RealignedStays ==
    ASSUME NEW p, RequestOk(p), NEW d, SimpleShape(d)
    PROVE  LET x == Realigned(p, d)
           IN  SimpleShape(x) /\ Personal(x) /\ Realigned(p, x) = x
<1>. DEFINE x == Realigned(p, d)
            literals == d.terms \cap Specific
            f(leaves) == [words \in {leaf.values : leaf \in leaves} |-> literals]
            leaves == Rewrite(d.leaves, f(d.leaves))
            replaced == [d EXCEPT !.leaves = leaves]
<1>1. /\ DraftShape(x) /\ Personal(x) /\ x.terms = d.terms /\ x.action = d.action
      /\ literals = {} => x = EnsureKey(p, d)
  BY RealignedIs DEF SimpleShape
<1>2. CASE literals = {}
  <2>1. x = EnsureKey(p, d) /\ x.leaves = d.leaves
    BY <1>1, <1>2, EnsureKeyIs DEF SimpleShape
  <2>. HIDE DEF x
  <2>2. SimpleShape(x)
    BY <1>1, <2>1 DEF SimpleShape
  <2>3. x.terms \cap Specific = {}
    BY <1>1, <1>2
  <2>4. Realigned(p, x) = EnsureKey(p, x) /\ EnsureKey(p, x) = x
    BY <1>1, <2>3, RealignedIs, EnsureKeyIs
  <2>5. QED
    BY <1>1, <2>2, <2>4 DEF x
<1>3. CASE literals # {}
  <2>1. x = EnsureKey(p, replaced)
    BY <1>3 DEF Realigned
  <2>2. leaves = { IF leaf.on = "context_keywords" THEN Keyword(literals) ELSE leaf :
                      leaf \in d.leaves }
    <3>1. \A leaf \in d.leaves : f(d.leaves)[leaf.values] = literals
      OBVIOUS
    <3>2. ASSUME NEW leaf \in d.leaves, leaf.on = "context_keywords"
          PROVE  Revalued(leaf, literals) = Keyword(literals)
      BY <3>2, RevaluedIs, LeavesAre, SameLeaf DEF SimpleShape, SimpleLeaf
    <3>. HIDE DEF f, literals
    <3>3. QED
      BY <3>1, <3>2 DEF Rewrite, Revalued
  <2>3. \A leaf \in d.leaves : leaf.on # "context_keywords" => leaf \in leaves
    BY <2>2
  <2>4. \A leaf \in d.leaves : leaf.on = "context_keywords" => Keyword(literals) \in leaves
    BY <2>2
  <2>5. leaves # {}
    BY <2>3, <2>4 DEF SimpleShape
  <2>6. SimpleLeaf(Keyword(literals))
    <3>1. Clean(literals)
      BY CleanLiterals DEF Clean
    <3>2. QED
      BY <1>3, <3>1, LeavesAre DEF SimpleLeaf
  <2>7. \A leaf \in leaves : SimpleLeaf(leaf) /\ LeafShape(leaf)
    BY <2>2, <2>6 DEF SimpleShape, SimpleLeaf
  <2>8. Rewrite(leaves, f(leaves)) = leaves
    <3>1. \A leaf \in leaves : f(leaves)[leaf.values] = literals
      OBVIOUS
    <3>2. ASSUME NEW leaf \in leaves, leaf.on = "context_keywords"
          PROVE  Revalued(leaf, literals) = leaf
      <4>1. leaf = Keyword(literals)
        BY <2>2, <3>2
      <4>2. LeafShape(leaf) /\ leaf.values = literals
        BY <4>1, LeavesAre
      <4>3. /\ LeafShape(Revalued(leaf, literals)) /\ Revalued(leaf, literals).on = leaf.on
            /\ Revalued(leaf, literals).values = literals
            /\ Revalued(leaf, literals).negated <=> leaf.negated
        BY <4>2, RevaluedIs
      <4>. HIDE DEF literals
      <4>4. QED
        BY <4>2, <4>3, SameLeaf
    <3>. HIDE DEF f, leaves, literals
    <3>3. QED
      BY <3>1, <3>2 DEF Rewrite, Revalued
  <2>. HIDE DEF leaves
  <2>9. replaced = [d EXCEPT !.leaves = leaves]
    OBVIOUS
  <2>. HIDE DEF replaced
  <2>10. DraftShape(replaced) /\ replaced.leaves = leaves /\ replaced.terms = d.terms
    BY <2>7, <2>9 DEF SimpleShape, DraftShape
  <2>11. x.leaves = leaves
    BY <2>1, <2>10, EnsureKeyIs
  <2>12. EnsureKey(p, x) = x
    BY <2>1, <2>10, EnsureKeyTwice
  <2>. HIDE DEF x
  <2>13. SimpleShape(x)
    BY <1>1, <2>5, <2>7, <2>11 DEF SimpleShape
  <2>14. [x EXCEPT !.leaves = x.leaves] = x
    BY <1>1 DEF DraftShape
  <2>15. Rewrite(x.leaves, f(x.leaves)) = x.leaves
    BY <2>8, <2>11
  <2>16. Realigned(p, x) = EnsureKey(p, [x EXCEPT !.leaves = Rewrite(@, f(x.leaves))])
    BY <1>1, <1>3 DEF Realigned
  <2>17. Realigned(p, x) = x
    BY <2>12, <2>14, <2>15, <2>16
  <2>18. QED
    BY <1>1, <2>13, <2>17 DEF x
<1>4. QED
  BY <1>2, <1>3

\* What a confirmation makes of a draft about PII type t, with the type's own terms.
Retyped(x, t, terms) == [x EXCEPT !.leaves = {Entity({t})}, !.type = t, !.terms = terms]

NamesOf(t, terms) ==
    terms # {} /\ terms \subseteq IF t = "EMAIL" THEN {"gmail", "email"} ELSE {"other name"}

\* A confirmation that has replaced the conditions by a PII type is not undone.
LEMMA CanonicalStays ==
    ASSUME NEW p, RequestOk(p), NEW x, SimpleShape(x), Personal(x),
           NEW t \in Pii, NEW terms, x.action # "allow", NamesOf(t, terms)
    PROVE  Confirmed(p, Retyped(x, t, terms)) = Retyped(x, t, terms)
<1>. DEFINE allowed == IF t = "EMAIL" THEN {"gmail", "email"} ELSE {"other name"}
            leaves == {Entity({t})}
            y == [x EXCEPT !.leaves = leaves, !.type = t, !.terms = terms]
<1>1. SimpleLeaf(Entity({t})) /\ LeafShape(Entity({t}))
      /\ Entity({t}).on = "entity" /\ Entity({t}).values = {t}
  <2>1. /\ LeafShape(Entity({t})) /\ Entity({t}).on = "entity"
        /\ Entity({t}).values = {t} /\ ~Entity({t}).negated
    BY LeavesAre
  <2>2. QED
    BY <2>1 DEF SimpleLeaf
<1>2. leaves # {} /\ \A leaf \in leaves : SimpleLeaf(leaf) /\ LeafShape(leaf)
  BY <1>1
<1>3. \A u : HasEntity(leaves, u) <=> u = t
  BY <1>1 DEF HasEntity
<1>. HIDE DEF leaves
<1>4. y = [x EXCEPT !.leaves = leaves, !.type = t, !.terms = terms]
  OBVIOUS
<1>5. terms # {} /\ terms \subseteq allowed
  BY DEF NamesOf
<1>. HIDE DEF y
<1>6. /\ DraftShape(y) /\ y.leaves = leaves /\ y.type = t /\ y.terms = terms
      /\ y.action = x.action /\ y.key = x.key
  BY <1>2, <1>4 DEF SimpleShape, DraftShape
<1>7. SimpleShape(y) /\ Personal(y)
  BY <1>2, <1>6 DEF SimpleShape, Personal
<1>8. Normalized(y) = y
  BY <1>7, NormalizedStays
<1>9. terms \cap Specific = {}
  BY <1>5 DEF Specific
<1>10. Realigned(p, y) = y
  <2>1. y.terms \cap Specific = {}
    BY <1>6, <1>9
  <2>2. Realigned(p, y) = EnsureKey(p, y)
    BY <1>6, <2>1, RealignedIs
  <2>3. EnsureKey(p, y) = y
    BY <1>6, <1>7, <2>1, EnsureKeyIs
  <2>4. QED
    BY <2>2, <2>3
<1>11. Entities(y) = {t}
  BY <1>3, <1>6, EntitiesAre
<1>12. PiiOf(y) = {t}
  BY <1>11 DEF PiiOf
<1>13. Canonical(p, y) = [y EXCEPT !.leaves = {Entity({t})}, !.type = t, !.terms = terms]
  <2>1. ({t} = {"EMAIL"}) <=> (t = "EMAIL")
    OBVIOUS
  <2>2. y.terms \cap allowed = terms /\ terms # {}
    BY <1>6, <1>5
  <2>3. (CHOOSE u \in {t} : TRUE) = t
    OBVIOUS
  <2>4. y.action # "allow" /\ y.type \in {t}
    BY <1>6
  <2>5. QED
    BY <1>12, <2>1, <2>2, <2>3, <2>4 DEF Canonical
<1>14. [y EXCEPT !.leaves = y.leaves, !.type = y.type, !.terms = y.terms] = y
  BY <1>6 DEF DraftShape
<1>15. Canonical(p, y) = y
  BY <1>6, <1>13, <1>14 DEF leaves
<1>16. Confirmed(p, y) = y
  BY <1>8, <1>10, <1>15 DEF Confirmed
<1>17. QED
  BY <1>16 DEF y, leaves, Retyped

\* Confirming a confirmed draft changes nothing.
LEMMA ConfirmedStays ==
    ASSUME NEW p, RequestOk(p), NEW d, SimpleShape(d)
    PROVE  Confirmed(p, Confirmed(p, d)) = Confirmed(p, d)
<1>. DEFINE x == Realigned(p, d)
            y == Canonical(p, x)
            types == IF PiiOf(x) # {} THEN PiiOf(x) ELSE {p.mentions} \cap Pii
            allowed == IF types = {"EMAIL"} THEN {"gmail", "email"} ELSE {"other name"}
            own == IF x.type \in types THEN x.terms \cap allowed ELSE {}
            foreign == PiiOf(x) = {} /\ ~(Keywords(x) \subseteq allowed)
            terms == IF own # {} THEN own ELSE allowed \ {"gmail"}
            aside == types = {} \/ x.action = "allow" \/ foreign
<1>1. Confirmed(p, d) = y
  BY NormalizedStays DEF Confirmed
<1>2. SimpleShape(x) /\ Personal(x) /\ Realigned(p, x) = x
  BY RealignedStays
<1>. HIDE DEF x
<1>3. y = IF aside THEN x
          ELSE [x EXCEPT !.leaves = {Entity(types)}, !.type = CHOOSE t \in types : TRUE,
                         !.terms = terms]
  BY DEF Canonical
<1>4. CASE aside
  <2>1. y = x
    BY <1>3, <1>4
  <2>2. Confirmed(p, x) = y
    BY <1>2, NormalizedStays DEF Confirmed
  <2>3. QED
    BY <1>1, <2>1, <2>2
<1>5. CASE ~aside
  <2>1. \E t \in Pii : types = {t}
    <3>1. PiiOf(x) = {} \/ \E t \in Pii : PiiOf(x) = {t}
      BY <1>2 DEF PiiOf, SimpleShape, DraftShape
    <3>2. QED
      BY <1>5, <3>1
  <2>2. PICK t \in Pii : types = {t}
    BY <2>1
  <2>3. allowed = IF t = "EMAIL" THEN {"gmail", "email"} ELSE {"other name"}
    BY <2>2
  <2>4. terms # {} /\ terms \subseteq allowed
    <3>. HIDE DEF types, allowed
    <3>1. "email" \in allowed \ {"gmail"} \/ "other name" \in allowed \ {"gmail"}
      <4>1. CASE t = "EMAIL"
        BY <2>3, <4>1
      <4>2. CASE t # "EMAIL"
        BY <2>3, <4>2
      <4>3. QED
        BY <4>1, <4>2
    <3>2. own \subseteq allowed
      OBVIOUS
    <3>. HIDE DEF own
    <3>3. CASE own # {}
      BY <3>2, <3>3
    <3>4. CASE own = {}
      BY <3>1, <3>4
    <3>5. QED
      BY <3>3, <3>4
  <2>5. x.action # "allow"
    BY <1>5
  <2>6. (CHOOSE u \in types : TRUE) = t
    BY <2>2
  <2>. HIDE DEF types, allowed, own, terms, foreign
  <2>7. y = [x EXCEPT !.leaves = {Entity({t})}, !.type = t, !.terms = terms]
    BY <1>3, <1>5, <2>2, <2>6
  <2>8. Confirmed(p, y) = y
    <3>. HIDE DEF y, aside
    <3>1. y = Retyped(x, t, terms)
      BY <2>7 DEF Retyped
    <3>2. NamesOf(t, terms)
      BY <2>3, <2>4 DEF NamesOf
    <3>3. QED
      BY <1>2, <2>5, <3>1, <3>2, CanonicalStays
  <2>9. QED
    BY <1>1, <2>8
<1>6. QED
  BY <1>4, <1>5

\* For every request, and whatever conditions and terms the model sends, under a "not" or
\* not: what one pass establishes, no later pass undoes.  Of answers which the guards do not
\* read as they will be stored (Straight) this says all but one thing: that a keyword of
\* the draft is a token of a literal secret.
THEOREM PassesKeepTheirWord ==
    ASSUME NEW p, RequestOk(p), NEW replies, \A d \in replies : DraftShape(d)
    PROVE  DraftedAsAsked(p, replies)
<1>. DEFINE generated == Generated(p, replies)
            draft == generated.draft
            tidy == \A reply \in replies : Straight(reply)
<1>1. /\ SimpleShape(draft) /\ About(p, draft) /\ Personal(draft)
      /\ ~HasEntity(draft.leaves, "INTERNAL_CODE")
      /\ ~generated.minimal => Guarded(p, draft, tidy)
  <2>1. tidy \in BOOLEAN /\ (tidy => \A d \in replies : Tidy(d))
    BY StraightIsTidy
  <2>. HIDE DEF tidy
  <2>2. QED
    BY <2>1, GeneratedIs
<1>. HIDE DEF generated
<1>2. Showable(draft)
  BY <1>1 DEF SimpleShape, SimpleLeaf, Showable
<1>3. "INTERNAL_CODE" \notin Entities(draft)
  BY <1>1, EntitiesAre
<1>4. OnTopic(p, draft)
  BY <1>1, AboutIs
<1>5. ~generated.minimal => AsDemanded(p, replies, draft)
  BY <1>1, ProtectsIs DEF Guarded, Literal, AsDemanded, tidy
<1>6. Confirmed(p, Confirmed(p, draft)) = Confirmed(p, draft)
  BY <1>1, ConfirmedStays
<1>7. QED
  BY <1>1, <1>2, <1>3, <1>4, <1>5, <1>6 DEF DraftedAsAsked, Personal, generated

\* Of what TLC enumerates.
LEMMA RequestsAreOk == \A p \in Requests : RequestOk(p)
<1>. SUFFICES ASSUME NEW p \in Requests PROVE RequestOk(p)
  OBVIOUS
<1>1. /\ p.tokens \in {{}, {"code"}, {"weak"}} /\ p.known \in {"none", "EMAIL"}
      /\ p.topic \in {"none", "office", "finance"} /\ p.explicit \in {"none", "block"}
  BY DEF Requests
<1>2. p.said \subseteq {"word", "phrase", "support", "piece", "action", "documents",
                        "internal", "payroll", "gmail"}
  <2>1. p.said \in { {"word"} \cup own \cup pay :
                        own \in {{}, {"support", "piece"},
                                {"phrase", "support", "action"},
                                {"documents", "internal"}},
                        pay \in {{}, {"payroll"}, {"payroll", "gmail"}} }
    BY DEF Requests
  <2>2. PICK own \in {{}, {"support", "piece"}, {"phrase", "support", "action"},
                      {"documents", "internal"}},
             pay \in {{}, {"payroll"}, {"payroll", "gmail"}} :
          p.said = {"word"} \cup own \cup pay
    BY <2>1
  <2>3. /\ own \subseteq {"support", "piece", "phrase", "action", "documents", "internal"}
        /\ pay \subseteq {"payroll", "gmail"}
    OBVIOUS
  <2>4. QED
    BY <2>2, <2>3
<1>3. QED
  BY <1>1, <1>2 DEF RequestOk, Pii, CodeLike, Specific, Partial, Noise, Banned

LEMMA ModelDraftsShape == \A d \in ModelDrafts : DraftShape(d)
<1>. SUFFICES ASSUME NEW d \in ModelDrafts PROVE DraftShape(d)
  OBVIOUS
<1>1. \A leaf \in DraftLeaves : LeafShape(leaf)
  <2>1. \A leaf : LeafShape(Under(leaf))
    BY DEF LeafShape, Under
  <2>2. QED
    BY <2>1, LeavesAre DEF DraftLeaves
<1>2. PICK l \in DraftLeaves, m \in DraftLeaves, t \in DraftTerms :
        d = [leaves |-> {l, m}, terms |-> t[1], type |-> t[2], action |-> "mask",
             key |-> [scope |-> "global", names |-> "none", acts |-> FALSE]]
  BY DEF ModelDrafts
<1>3. \A leaf \in d.leaves : LeafShape(leaf)
  BY <1>1, <1>2
<1>4. /\ d = [leaves |-> d.leaves, terms |-> d.terms, type |-> d.type,
              action |-> d.action, key |-> d.key]
      /\ d.key = [scope |-> "global", names |-> "none", acts |-> FALSE]
  BY <1>2
<1>5. QED
  BY <1>3, <1>4 DEF DraftShape

\* No pass over a draft undoes what an earlier one established (GuardsSurvive).
THEOREM GuardsHold == Spec => []GuardsSurvive
<1>1. CallInv => GuardsSurvive
  <2>. SUFFICES ASSUME CallInv, Asked("draft")
                PROVE  DraftedAsAsked(call.request, call.replies)
    BY DEF GuardsSurvive
  <2>1. call.request \in Requests /\ call.replies \subseteq ModelDrafts
    BY DEF CallInv, AskedDraft
  <2>2. RequestOk(call.request) /\ \A d \in call.replies : DraftShape(d)
    BY <2>1, RequestsAreOk, ModelDraftsShape
  <2>3. QED
    BY <2>2, PassesKeepTheirWord
<1>2. QED
  BY <1>1, CallsStart, CallsKept, PTL DEF Spec

-----------------------------------------------------------------------------
(* Chains of every kind.                                                   *)

Post(model) == [provider: Providers, model: {model, NoModel}, outcome: Outcomes]

Result(model) ==
    [posts: Seq(Post(model)), result: Providers \cup {"none"}, fallback: BOOLEAN]

\* The POSTs to one provider: a second one follows a first that may be repeated.
Block(b, p, model) ==
    /\ b \in Seq(Post(model)) /\ Len(b) \in 0..2
    /\ \A j \in 1..Len(b) : b[j].provider = p
    /\ Len(b) = 2 => Retriable(b[1].outcome)

\* What is in the trace so far was of no use, and p has not been asked.
Open(r, p, model) ==
    /\ r.posts \in Seq(Post(model)) /\ Orderly(r)
    /\ \A i \in 1..Len(r.posts) : r.posts[i].outcome # "text" /\ r.posts[i].provider # p

\* e is r and a block.
Extended(r, b, e) ==
    /\ Len(e.posts) = Len(r.posts) + Len(b)
    /\ \A i \in 1..Len(r.posts) : e.posts[i] = r.posts[i]
    /\ \A i \in 1..Len(b) : e.posts[Len(r.posts) + i] = b[i]

LEMMA ConcatExtends ==
    ASSUME NEW model, NEW r, r.posts \in Seq(Post(model)), NEW b \in Seq(Post(model)),
           NEW e, e.posts = r.posts \o b
    PROVE  Extended(r, b, e) /\ e.posts \in Seq(Post(model))
<1>1. /\ e.posts \in Seq(Post(model)) /\ Len(e.posts) = Len(r.posts) + Len(b)
      /\ \A i \in 1..Len(r.posts) + Len(b) :
            e.posts[i] = IF i <= Len(r.posts) THEN r.posts[i] ELSE b[i - Len(r.posts)]
  BY ConcatProperties
<1>2. Len(r.posts) \in Nat /\ Len(b) \in Nat
  BY LenProperties
<1>3. ASSUME NEW i \in 1..Len(b) PROVE e.posts[Len(r.posts) + i] = b[i]
  BY <1>1, <1>2
<1>. QED
  BY <1>1, <1>2, <1>3 DEF Extended

\* A block for a provider that was not asked yet keeps a trace orderly.
LEMMA BlockAdded ==
    ASSUME NEW model, NEW r, NEW p, Open(r, p, model), NEW b, Block(b, p, model),
           NEW e, Extended(r, b, e)
    PROVE  /\ Orderly(e)
           /\ PostsTo(e, p) = {Len(r.posts) + i : i \in 1..Len(b)}
           /\ \A q : q # p => PostsTo(e, q) = PostsTo(r, q)
<1>. DEFINE n == Len(r.posts)
<1>1. n \in Nat /\ Len(b) \in 0..2 /\ Len(e.posts) = n + Len(b)
  BY LenProperties DEF Open, Block, Extended
<1>2. \A i \in 1..n : e.posts[i] = r.posts[i] /\ e.posts[i].outcome # "text"
                      /\ e.posts[i].provider # p
  BY DEF Open, Extended
<1>3. \A i \in n + 1..Len(e.posts) : e.posts[i] = b[i - n] /\ e.posts[i].provider = p
  <2>1. ASSUME NEW i \in n + 1..Len(e.posts)
        PROVE  e.posts[i] = b[i - n] /\ e.posts[i].provider = p
    <3>1. i - n \in 1..Len(b) /\ n + (i - n) = i
      BY <1>1
    <3>2. \A j \in 1..Len(b) : e.posts[n + j] = b[j] /\ b[j].provider = p
      BY DEF Extended, Block
    <3>. HIDE DEF n
    <3>3. e.posts[n + (i - n)] = b[i - n] /\ b[i - n].provider = p
      BY <3>1, <3>2
    <3>4. QED
      BY <3>1, <3>3
  <2>2. QED
    BY <2>1
<1>4. Len(b) = 2 => Retriable(e.posts[n + 1].outcome) /\ e.posts[n + 1].outcome # "text"
  BY <1>1, <1>3 DEF Block, Retriable
<1>. HIDE DEF n
<1>5. Orderly(e)
  <2>. SUFFICES ASSUME NEW i \in 1..Len(e.posts) - 1
                PROVE  /\ e.posts[i].outcome # "text"
                       /\ e.posts[i].provider = e.posts[i + 1].provider
                            => Retriable(e.posts[i].outcome)
                       /\ e.posts[i].provider # e.posts[i + 1].provider
                            => \A j \in i + 1..Len(e.posts) :
                                  e.posts[j].provider # e.posts[i].provider
    BY DEF Orderly
  <2>1. CASE i < n
    <3>1. i \in 1..n - 1 /\ i + 1 \in 1..n
      BY <1>1, <2>1
    <3>2. \A j \in i + 1..Len(e.posts) : j \in i + 1..n \/ j \in n + 1..Len(e.posts)
      BY <1>1, <3>1
    <3>3. /\ r.posts[i].provider = r.posts[i + 1].provider => Retriable(r.posts[i].outcome)
          /\ r.posts[i].provider # r.posts[i + 1].provider
               => \A j \in i + 1..n : r.posts[j].provider # r.posts[i].provider
      BY <3>1 DEF Open, Orderly, n
    <3>4. \A j \in i + 1..n : e.posts[j] = r.posts[j]
      BY <1>2, <3>1
    <3>5. i \in 1..n /\ i + 1 \in i + 1..n /\ e.posts[i] = r.posts[i] /\ e.posts[i + 1] = r.posts[i + 1]
      BY <1>1, <1>2, <3>1, <3>4
    <3>6. ASSUME e.posts[i].provider # e.posts[i + 1].provider,
                 NEW j \in i + 1..Len(e.posts)
          PROVE  e.posts[j].provider # e.posts[i].provider
      <4>1. CASE j \in i + 1..n
        BY <3>3, <3>4, <3>5, <3>6, <4>1
      <4>2. CASE j \in n + 1..Len(e.posts)
        BY <1>2, <1>3, <3>5, <4>2
      <4>3. QED
        BY <3>2, <4>1, <4>2
    <3>7. QED
      BY <1>2, <3>3, <3>5, <3>6
  <2>2. CASE i = n
    <3>1. i \in 1..n /\ i + 1 \in n + 1..Len(e.posts)
      BY <1>1, <2>2
    <3>2. QED
      BY <1>2, <1>3, <2>2, <3>1
  <2>3. CASE i > n
    <3>1. \A k \in 0..2 : Len(e.posts) = n + k => i = n + 1 /\ k = 2
      BY <1>1, <2>3
    <3>2. i = n + 1 /\ Len(b) = 2 /\ Len(e.posts) = n + 2
      BY <1>1, <3>1
    <3>3. i + 1 \in n + 1..Len(e.posts) /\ i \in n + 1..Len(e.posts)
      BY <1>1, <3>2
    <3>4. e.posts[i].provider = p /\ e.posts[i + 1].provider = p
      BY <1>3, <3>3
    <3>5. QED
      BY <1>4, <3>2, <3>4
  <2>4. QED
    BY <1>1, <2>1, <2>2, <2>3
<1>6. PostsTo(e, p) = {n + i : i \in 1..Len(b)}
  <2>1. \A i \in 1..Len(b) : n + i \in 1..Len(e.posts) /\ n + i \in n + 1..Len(e.posts)
    BY <1>1
  <2>2. \A j \in 1..Len(e.posts) : j \in 1..n \/ j \in n + 1..Len(e.posts)
    BY <1>1
  <2>3. \A j \in n + 1..Len(e.posts) : j - n \in 1..Len(b) /\ j = n + (j - n)
    BY <1>1
  <2>4. \A j \in 1..Len(e.posts) : e.posts[j].provider = p <=> j \in n + 1..Len(e.posts)
    BY <1>2, <1>3, <2>2
  <2>5. QED
    BY <2>1, <2>3, <2>4 DEF PostsTo
<1>7. ASSUME NEW q, q # p PROVE PostsTo(e, q) = PostsTo(r, q)
  <2>1. \A j \in 1..Len(e.posts) : j \in 1..n \/ j \in n + 1..Len(e.posts)
    BY <1>1
  <2>2. \A j \in 1..n : j \in 1..Len(e.posts)
    BY <1>1
  <2>3. QED
    BY <1>2, <1>3, <1>7, <2>1, <2>2 DEF PostsTo, n
<1>8. QED
  BY <1>5, <1>6, <1>7 DEF n

Worldly(world) == world \in [Providers -> Outcomes \X Outcomes]

LEMMA CallIs ==
    ASSUME NEW world, Worldly(world), NEW p \in Providers, NEW fast \in BOOLEAN,
           NEW outcomes, outcomes = Call(world, p, fast)
    PROVE  /\ outcomes \in Seq(Outcomes) /\ Len(outcomes) \in 1..2
           /\ Len(outcomes) = 2 => Retriable(outcomes[1]) /\ ~fast
           /\ Len(outcomes) = 1 => fast \/ p = "ollama" \/ ~Retriable(outcomes[1])
           /\ Got(outcomes) <=> outcomes[Len(outcomes)] = "text"
<1>1. world[p][1] \in Outcomes /\ world[p][2] \in Outcomes
  BY DEF Worldly
<1>. DEFINE one == world[p][1]
            two == world[p][2]
<1>2. outcomes = IF Attempts(p, fast) = 2 /\ Retriable(one) THEN <<one, two>> ELSE <<one>>
  BY DEF Call
<1>3. Attempts(p, fast) = 2 <=> ~(p = "ollama" \/ fast)
  BY DEF Attempts
<1>4. Got(outcomes) <=> outcomes[Len(outcomes)] = "text"
  BY DEF Got, Last
<1>. HIDE DEF one, two
<1>5. one \in Outcomes /\ two \in Outcomes
  BY <1>1 DEF one, two
<1>6. CASE Attempts(p, fast) = 2 /\ Retriable(one)
  <2>1. outcomes = <<one, two>>
    BY <1>2, <1>6
  <2>2. outcomes \in Seq(Outcomes) /\ Len(outcomes) = 2 /\ outcomes[1] = one
    BY <1>5, <2>1
  <2>3. QED
    BY <1>3, <1>4, <1>6, <2>2
<1>7. CASE ~(Attempts(p, fast) = 2 /\ Retriable(one))
  <2>1. outcomes = <<one>>
    BY <1>2, <1>7
  <2>2. outcomes \in Seq(Outcomes) /\ Len(outcomes) = 1 /\ outcomes[1] = one
    BY <1>5, <2>1
  <2>3. QED
    BY <1>3, <1>4, <1>7, <2>2
<1>8. QED
  BY <1>6, <1>7

LEMMA PostsAre ==
    ASSUME NEW model, NEW p \in Providers, NEW m \in {model, NoModel},
           NEW outcomes \in Seq(Outcomes), NEW b, b = Posts(p, m, outcomes)
    PROVE  /\ b \in Seq(Post(model)) /\ Len(b) = Len(outcomes)
           /\ \A j \in 1..Len(outcomes) :
                 b[j].provider = p /\ b[j].model = m /\ b[j].outcome = outcomes[j]
<1>. DEFINE n == Len(outcomes)
<1>1. n \in Nat /\ DOMAIN outcomes = 1..n
  OBVIOUS
<1>2. b = [j \in 1..n |-> [provider |-> p, model |-> m, outcome |-> outcomes[j]]]
  BY <1>1 DEF Posts
<1>3. \A j \in 1..n : outcomes[j] \in Outcomes
  OBVIOUS
<1>. HIDE DEF n
<1>4. \A j \in 1..n : [provider |-> p, model |-> m, outcome |-> outcomes[j]] \in Post(model)
  BY <1>3 DEF Post
<1>5. b \in Seq(Post(model)) /\ Len(b) = n
  BY <1>1, <1>2, <1>4
<1>6. QED
  BY <1>2, <1>5 DEF n

Distinct(chain) ==
    \A i, j \in 1..Len(chain) : i # j => chain[i] # chain[j]

\* What both loops keep: the trace is orderly and about the providers tried so far, the
\* model is put to the first of them, and a text ends the loop.
Told(r, chain, model, i) ==
    /\ r \in Result(model) /\ Orderly(r)
    /\ r.result = "none" => \A j \in 1..Len(r.posts) : r.posts[j].outcome # "text"
    /\ \A j \in 1..Len(r.posts) : \E k \in 1..i :
          r.posts[j].provider = chain[k] /\ (r.posts[j].model = model => k = 1)

Few(r, p, once) ==
    \E n \in Nat : /\ PostsTo(r, p) \subseteq {n, n + 1}
                   /\ once => PostsTo(r, p) \subseteq {n}

LEMMA FewCounted ==
    ASSUME NEW r, NEW p, NEW once, Few(r, p, once)
    PROVE  Cardinality(PostsTo(r, p)) <= IF once THEN 1 ELSE 2
<1>1. PICK n \in Nat : /\ PostsTo(r, p) \subseteq {n, n + 1}
                       /\ once => PostsTo(r, p) \subseteq {n}
  BY DEF Few
<1>2. /\ IsFiniteSet({n}) /\ Cardinality({n}) = 1
      /\ IsFiniteSet({n, n + 1}) /\ Cardinality({n, n + 1}) = 2
  <2>1. IsFiniteSet({n}) /\ Cardinality({n}) = 1
    BY FS_Singleton
  <2>2. n + 1 \notin {n} /\ {n} \cup {n + 1} = {n, n + 1}
    OBVIOUS
  <2>3. QED
    BY <2>1, <2>2, FS_AddElement
<1>. HIDE DEF PostsTo
<1>3. CASE once
  BY <1>1, <1>2, <1>3, FS_Subset
<1>4. CASE ~once
  BY <1>1, <1>2, <1>4, FS_Subset
<1>5. QED
  BY <1>3, <1>4

\* A turn of a loop: the i-th provider of a chain is sent the POSTs of b.
Turn(r, b, e, chain, model, i) ==
    /\ Told(r, chain, model, i - 1) /\ r.result = "none"
    /\ Block(b, chain[i], model)
    /\ \A j \in 1..Len(b) : b[j].model = IF i = 1 THEN model ELSE NoModel
    /\ e = [posts |-> r.posts \o b, result |-> e.result, fallback |-> e.fallback]
    /\ e.result \in Providers \cup {"none"} /\ e.fallback \in BOOLEAN
    /\ e.result = "none" => \A j \in 1..Len(b) : b[j].outcome # "text"

\* Its POSTs are those of the block, the others' are what they were.
Joined(r, b, e, p) ==
    /\ PostsTo(e, p) = {Len(r.posts) + j : j \in 1..Len(b)}
    /\ \A q : q # p => PostsTo(e, q) = PostsTo(r, q)

LEMMA TurnTold ==
    ASSUME NEW chain \in Seq(Providers), Distinct(chain), NEW i \in 1..Len(chain),
           NEW model, model # NoModel,
           NEW r, NEW b, NEW e, Turn(r, b, e, chain, model, i)
    PROVE  Told(e, chain, model, i) /\ Extended(r, b, e) /\ Joined(r, b, e, chain[i])
<1>. USE DEF Turn
<1>. DEFINE n == Len(r.posts)
            p == chain[i]
<1>1. r.posts \in Seq(Post(model)) /\ b \in Seq(Post(model)) /\ e.posts = r.posts \o b
  BY DEF Told, Result, Block
<1>2. Extended(r, b, e) /\ e.posts \in Seq(Post(model))
  BY <1>1, ConcatExtends
<1>3. e \in Result(model)
  BY <1>2 DEF Result
<1>4. i \in Nat /\ Len(chain) \in Nat /\ n \in Nat /\ Len(b) \in Nat
  BY <1>1, LenProperties
<1>5. \A j \in 1..n : r.posts[j].outcome # "text" /\ r.posts[j].provider # p
  <2>1. \A k \in 1..i - 1 : k \in 1..Len(chain) /\ k # i
    BY <1>4
  <2>2. \A k \in 1..i - 1 : chain[k] # p
    BY <2>1 DEF Distinct
  <2>3. QED
    BY <2>2 DEF Told
<1>6. Open(r, p, model)
  BY <1>1, <1>5 DEF Open, Told
<1>7. /\ Orderly(e) /\ PostsTo(e, p) = {n + j : j \in 1..Len(b)}
      /\ \A q : q # p => PostsTo(e, q) = PostsTo(r, q)
  BY <1>2, <1>6, BlockAdded
<1>8. Len(e.posts) = n + Len(b)
  BY <1>2 DEF Extended
<1>9. ASSUME NEW j \in 1..Len(e.posts)
      PROVE  j \in 1..n \/ (j - n \in 1..Len(b) /\ j = n + (j - n))
  BY <1>4, <1>8
<1>10. ASSUME NEW j \in 1..Len(e.posts)
       PROVE  \E k \in 1..i : e.posts[j].provider = chain[k]
                              /\ (e.posts[j].model = model => k = 1)
  <2>1. CASE j \in 1..n
    <3>1. e.posts[j] = r.posts[j]
      BY <1>2, <2>1 DEF Extended
    <3>2. PICK k \in 1..i - 1 : r.posts[j].provider = chain[k]
                                /\ (r.posts[j].model = model => k = 1)
      BY <2>1 DEF Told
    <3>3. k \in 1..i
      BY <1>4
    <3>4. QED
      BY <3>1, <3>2, <3>3
  <2>2. CASE j - n \in 1..Len(b) /\ j = n + (j - n)
    <3>1. e.posts[j] = b[j - n]
      BY <1>2, <2>2 DEF Extended
    <3>2. b[j - n].provider = p /\ (b[j - n].model = model => i = 1)
      BY <2>2 DEF Block
    <3>3. i \in 1..i
      BY <1>4
    <3>4. QED
      BY <3>1, <3>2, <3>3
  <2>3. QED
    BY <1>9, <2>1, <2>2
<1>11. e.result = "none" => \A j \in 1..Len(e.posts) : e.posts[j].outcome # "text"
  <2>. SUFFICES ASSUME e.result = "none", NEW j \in 1..Len(e.posts)
                PROVE  e.posts[j].outcome # "text"
    OBVIOUS
  <2>1. CASE j \in 1..n
    BY <1>2, <1>5, <2>1 DEF Extended
  <2>2. CASE j - n \in 1..Len(b) /\ j = n + (j - n)
    BY <1>2, <2>2 DEF Extended
  <2>3. QED
    BY <1>9, <2>1, <2>2
<1>12. QED
  BY <1>2, <1>3, <1>7, <1>10, <1>11 DEF Told, Joined

\* What was found of the others stays.
LEMMA OthersStay ==
    ASSUME NEW r, NEW b, NEW e, Extended(r, b, e), NEW q, PostsTo(e, q) = PostsTo(r, q)
    PROVE  /\ \A once : Few(r, q, once) => Few(e, q, once)
           /\ \A fast : FailedForGood(r, q, fast) => FailedForGood(e, q, fast)
<1>1. \A once : Few(r, q, once) => Few(e, q, once)
  BY DEF Few
<1>2. \A i \in PostsTo(r, q) : e.posts[i] = r.posts[i]
  BY DEF PostsTo, Extended
<1>3. \A fast : FailedForGood(r, q, fast) => FailedForGood(e, q, fast)
  BY <1>2 DEF FailedForGood
<1>4. QED
  BY <1>1, <1>3

TextRun(world, chain, model, fast, i, r) ==
    /\ Told(r, chain, model, i)
    /\ \A p \in Providers : Few(r, p, fast)
    /\ r.result = "none" => \A k \in 1..i : FailedForGood(r, chain[k], fast)
    /\ r.result # "none" =>
          /\ r.posts # <<>> /\ r.posts[Len(r.posts)].provider = r.result

LEMMA TextTurn ==
    ASSUME NEW world, Worldly(world), NEW chain \in Seq(Providers), Distinct(chain),
           NEW model, model # NoModel, NEW fast \in BOOLEAN, NEW i \in 1..Len(chain),
           NEW r, TextRun(world, chain, model, fast, i - 1, r)
    PROVE  TextRun(world, chain, model, fast, i, TryProvider(world, chain, model, fast, r, i))
<1>. DEFINE e == TryProvider(world, chain, model, fast, r, i)
            p == chain[i]
            outcomes == Call(world, p, fast)
            m == IF i = 1 THEN model ELSE NoModel
            b == Posts(p, m, outcomes)
            n == Len(r.posts)
<1>1. CASE r.result # "none"
  <2>1. e = r
    BY <1>1 DEF TryProvider
  <2>2. Told(r, chain, model, i)
    <3>1. \A k \in 1..i - 1 : k \in 1..i
      OBVIOUS
    <3>2. QED
      BY <1>1, <3>1 DEF TextRun, Told
  <2>3. QED
    BY <1>1, <2>1, <2>2 DEF TextRun
<1>2. CASE r.result = "none"
  <2>1. p \in Providers /\ m \in {model, NoModel}
    OBVIOUS
  <2>2. e = [posts |-> r.posts \o b, result |-> IF Got(outcomes) THEN p ELSE "none",
             fallback |-> Got(outcomes) /\ i > 1]
    BY <1>2 DEF TryProvider
  <2>3. /\ outcomes \in Seq(Outcomes) /\ Len(outcomes) \in 1..2
        /\ Len(outcomes) = 2 => Retriable(outcomes[1]) /\ ~fast
        /\ Len(outcomes) = 1 => fast \/ p = "ollama" \/ ~Retriable(outcomes[1])
        /\ Got(outcomes) <=> outcomes[Len(outcomes)] = "text"
    <3>. HIDE DEF p, outcomes
    <3>1. outcomes = Call(world, p, fast)
      BY DEF outcomes
    <3>2. QED
      BY <2>1, <3>1, CallIs
  <2>. DEFINE got == Got(outcomes)
  <2>. HIDE DEF outcomes
  <2>4. /\ b \in Seq(Post(model)) /\ Len(b) = Len(outcomes)
        /\ \A j \in 1..Len(outcomes) :
              b[j].provider = p /\ b[j].model = m /\ b[j].outcome = outcomes[j]
    <3>. HIDE DEF p, m, b
    <3>1. b = Posts(p, m, outcomes)
      BY DEF b
    <3>2. QED
      BY <2>1, <2>3, <3>1, PostsAre
  <2>. HIDE DEF b
  <2>5. Block(b, p, model)
    BY <2>3, <2>4 DEF Block
  <2>6. got \in BOOLEAN
    BY DEF Got
  <2>. HIDE DEF got
  <2>. HIDE DEF e
  <2>7. /\ e = [posts |-> r.posts \o b, result |-> e.result, fallback |-> e.fallback]
        /\ e.result = (IF got THEN p ELSE "none") /\ e.fallback \in BOOLEAN
    BY <2>2, <2>6 DEF got
  <2>8. e.result \in Providers \cup {"none"} /\ (e.result = "none" <=> ~got)
    BY <2>1, <2>7 DEF Providers
  <2>9. \A j \in 1..Len(b) : b[j].outcome = "text" => got
    <3>. SUFFICES ASSUME NEW j \in 1..Len(b), b[j].outcome = "text" PROVE got
      OBVIOUS
    <3>1. outcomes[j] = "text" /\ j \in 1..2 /\ j <= Len(outcomes)
      BY <2>3, <2>4
    <3>2. j # Len(outcomes) => j = 1 /\ Len(outcomes) = 2
      BY <2>3, <3>1
    <3>3. ~Retriable("text")
      BY DEF Retriable
    <3>4. j = Len(outcomes)
      BY <2>3, <3>1, <3>2, <3>3
    <3>5. QED
      BY <2>3, <3>1, <3>4 DEF got
  <2>10. \A j \in 1..Len(b) : b[j].model = IF i = 1 THEN model ELSE NoModel
    BY <2>4
  <2>11. /\ Told(e, chain, model, i) /\ Extended(r, b, e)
         /\ PostsTo(e, p) = {n + j : j \in 1..Len(b)}
         /\ \A q : q # p => PostsTo(e, q) = PostsTo(r, q)
    <3>1. Told(r, chain, model, i - 1)
      BY DEF TextRun
    <3>2. e.result = "none" => \A j \in 1..Len(b) : b[j].outcome # "text"
      BY <2>8, <2>9
    <3>. HIDE DEF m
    <3>3. Turn(r, b, e, chain, model, i)
      BY <1>2, <2>5, <2>7, <2>8, <2>10, <3>1, <3>2 DEF Turn
    <3>4. Told(e, chain, model, i) /\ Extended(r, b, e) /\ Joined(r, b, e, chain[i])
      BY <3>3, TurnTold
    <3>5. QED
      BY <3>4 DEF Joined
  <2>12. n \in Nat
    BY LenProperties DEF TextRun, Told, Result
  <2>. HIDE DEF n
  <2>13. PostsTo(e, p) = IF Len(b) = 1 THEN {n + 1} ELSE {n + 1, n + 2}
    <3>1. CASE Len(b) = 1
      BY <2>11, <3>1
    <3>2. CASE Len(b) = 2
      <4>1. 1..Len(b) = {1, 2}
        BY <3>2
      <4>2. QED
        BY <2>11, <3>2, <4>1
    <3>3. QED
      BY <2>3, <2>4, <3>1, <3>2
  <2>14. Few(e, p, fast)
    <3>1. n + 1 \in Nat /\ n + 2 = (n + 1) + 1
      BY <2>12
    <3>2. PostsTo(e, p) \subseteq {n + 1, (n + 1) + 1}
      BY <2>13, <3>1
    <3>3. fast => Len(b) = 1
      BY <2>3, <2>4
    <3>4. fast => PostsTo(e, p) \subseteq {n + 1}
      BY <2>13, <3>3
    <3>5. QED
      BY <3>1, <3>2, <3>4 DEF Few
  <2>15. \A q \in Providers : Few(e, q, fast)
    BY <2>11, <2>14, OthersStay DEF TextRun
  <2>16. e.posts[n + Len(b)] = b[Len(b)] /\ Len(e.posts) = n + Len(b)
         /\ e.posts[n + 1] = b[1]
    <3>1. 1 \in 1..Len(b) /\ Len(b) \in 1..Len(b)
      BY <2>3, <2>4
    <3>2. QED
      BY <2>11, <3>1 DEF Extended, n
  <2>17. ASSUME ~got PROVE FailedForGood(e, p, fast)
    <3>1. \A j \in PostsTo(e, p) : j <= n + Len(b)
      BY <2>3, <2>4, <2>12, <2>13
    <3>2. n + Len(b) \in PostsTo(e, p)
      BY <2>3, <2>4, <2>12, <2>13
    <3>3. b[Len(b)].outcome # "text"
      BY <2>3, <2>4, <2>9, <2>17
    <3>4. Len(b) = 1 => fast \/ p = "ollama" \/ ~Retriable(b[Len(b)].outcome)
      BY <2>3, <2>4
    <3>5. Len(b) = 2 => PostsTo(e, p) # {n + Len(b)}
      BY <2>12, <2>13
    <3>6. QED
      BY <2>3, <2>4, <2>16, <3>1, <3>2, <3>3, <3>4, <3>5 DEF FailedForGood
  <2>18. ASSUME ~got, NEW k \in 1..i PROVE FailedForGood(e, chain[k], fast)
    <3>1. CASE k = i
      BY <2>17, <2>18, <3>1
    <3>2. CASE k # i
      <4>1. k \in 1..i - 1 /\ k \in 1..Len(chain)
        BY <3>2
      <4>2. FailedForGood(r, chain[k], fast) /\ chain[k] # p
        BY <1>2, <3>2, <4>1 DEF TextRun, Distinct
      <4>3. QED
        BY <2>11, <4>2, OthersStay
    <3>3. QED
      BY <3>1, <3>2
  <2>19. got => e.posts # <<>> /\ e.posts[Len(e.posts)].provider = e.result
    <3>1. Len(b) \in 1..Len(outcomes)
      BY <2>3, <2>4
    <3>2. e.posts[Len(e.posts)].provider = p
      BY <2>4, <2>16, <3>1
    <3>3. Len(e.posts) # 0
      BY <2>3, <2>4, <2>12, <2>16
    <3>4. e.posts # <<>>
      BY <3>3
    <3>5. QED
      BY <2>7, <3>2, <3>4
  <2>20. QED
    BY <2>8, <2>11, <2>15, <2>18, <2>19 DEF TextRun, e
<1>3. QED
  BY <1>1, <1>2

TextLoop(m, world, chain, model, fast) ==
    /\ m[0] = Untried
    /\ \A i \in 1..Len(chain) : m[i] = TryProvider(world, chain, model, fast, m[i - 1], i)

TextStays(T, world, chain, model, fast) ==
    \A i \in 1..Len(chain), r \in T : TryProvider(world, chain, model, fast, r, i) \in T

LEMMA TextRuns ==
    ASSUME NEW world, NEW preferred, NEW keys, NEW model, NEW fast,
           NEW chain \in Seq(Providers), chain = Chain(preferred, keys),
           NEW T, Untried \in T, TextStays(T, world, chain, model, fast)
    PROVE  \E m \in [0..Len(chain) -> T] :
              /\ TextLoop(m, world, chain, model, fast)
              /\ GenerateText(world, preferred, keys, model, fast) = m[Len(chain)]
<1>. DEFINE N == Len(chain)
            step == [i \in 1..N |-> [r \in T |-> TryProvider(world, chain, model, fast, r, i)]]
            Body(m) == [i \in 0..N |->
                           IF i = 0 THEN Untried ELSE TryProvider(world, chain, model, fast, m[i - 1], i)]
            chosen == CHOOSE m : m = Body(m)
<1>1. step \in [1..N -> [T -> T]] /\ N \in Nat
  BY DEF TextStays
<1>2. PICK m : Loop(m, N, T, Untried, step)
  <2>. HIDE DEF step, N
  <2>1. QED
    BY <1>1, LoopRuns
<1>3. ASSUME NEW i \in 1..N
      PROVE  m[i - 1] \in T /\ m[i] = TryProvider(world, chain, model, fast, m[i - 1], i)
  <2>1. \A r \in T : step[i][r] = TryProvider(world, chain, model, fast, r, i)
    OBVIOUS
  <2>2. i - 1 \in 0..N
    BY <1>1
  <2>. HIDE DEF step
  <2>3. QED
    BY <1>2, <2>1, <2>2 DEF Loop
<1>4. m = Body(m) /\ m \in [0..N -> T] /\ m[0] = Untried
  BY <1>2, <1>3 DEF Loop
<1>5. chosen = Body(chosen)
  <2>. HIDE DEF Body
  <2>1. QED
    BY <1>4
<1>6. GenerateText(world, preferred, keys, model, fast) = chosen[N]
  BY DEF GenerateText
<1>. HIDE DEF chosen
<1>7. /\ chosen[0] = Untried
      /\ \A i \in 1..N : chosen[i] = TryProvider(world, chain, model, fast, chosen[i - 1], i)
  BY <1>5
<1>. DEFINE G == {i \in 0..N : chosen[i] = m[i]}
<1>8. \A i \in 0..N : i \in G
  <2>1. 0 \in G /\ \A i \in 1..N : i - 1 \in G => i \in G
    BY <1>3, <1>4, <1>7
  <2>. HIDE DEF G
  <2>2. QED
    BY <1>1, <2>1, Throughout
<1>9. chosen[N] = m[N]
  BY <1>1, <1>8
<1>10. QED
  <2>. HIDE DEF Body
  <2>1. QED
    BY <1>3, <1>4, <1>6, <1>9 DEF TextLoop

LEMMA UntriedIs ==
    ASSUME NEW model, NEW chain
    PROVE  Untried \in Result(model) /\ Told(Untried, chain, model, 0)
           /\ \A p, once : Few(Untried, p, once)
<1>1. Untried.posts = <<>> /\ Untried.result = "none" /\ Untried \in Result(model)
  BY DEF Untried, Result
<1>2. Len(Untried.posts) = 0
  BY <1>1
<1>. HIDE DEF Untried
<1>3. Orderly(Untried)
  BY <1>2 DEF Orderly
<1>4. \A p : PostsTo(Untried, p) = {}
  BY <1>2 DEF PostsTo
<1>5. \A p, once : Few(Untried, p, once)
  <2>1. 0 \in Nat
    OBVIOUS
  <2>2. QED
    BY <1>4, <2>1 DEF Few
<1>6. QED
  BY <1>1, <1>2, <1>3, <1>5 DEF Told

LEMMA TryProviderType ==
    ASSUME NEW world, Worldly(world), NEW chain \in Seq(Providers), NEW model,
           NEW fast \in BOOLEAN, NEW i \in 1..Len(chain), NEW r \in Result(model)
    PROVE  TryProvider(world, chain, model, fast, r, i) \in Result(model)
<1>. DEFINE p == chain[i]
            outcomes == Call(world, p, fast)
            m == IF i = 1 THEN model ELSE NoModel
            b == Posts(p, m, outcomes)
            got == Got(outcomes)
<1>1. p \in Providers /\ m \in {model, NoModel} /\ got \in BOOLEAN
  BY DEF Got
<1>2. outcomes \in Seq(Outcomes)
  <2>. HIDE DEF p, outcomes
  <2>1. outcomes = Call(world, p, fast)
    BY DEF outcomes
  <2>2. QED
    BY <1>1, <2>1, CallIs
<1>3. b \in Seq(Post(model))
  <2>. HIDE DEF p, m, b, outcomes
  <2>1. b = Posts(p, m, outcomes)
    BY DEF b
  <2>2. QED
    BY <1>1, <1>2, <2>1, PostsAre
<1>4. r.posts \o b \in Seq(Post(model))
  BY <1>3, ConcatProperties DEF Result
<1>5. TryProvider(world, chain, model, fast, r, i)
        = IF r.result # "none" THEN r
          ELSE [posts |-> r.posts \o b, result |-> IF got THEN p ELSE "none",
                fallback |-> got /\ i > 1]
  BY DEF TryProvider
<1>. HIDE DEF p, b, got
<1>6. (got /\ i > 1) \in BOOLEAN /\ (IF got THEN p ELSE "none") \in Providers \cup {"none"}
  BY <1>1
<1>7. QED
  BY <1>4, <1>5, <1>6 DEF Result

LEMMA ShortConcats ==
    ASSUME NEW a, NEW b, NEW c
    PROVE  /\ <<>> \o <<>> = <<>> /\ <<a>> \o <<>> = <<a>> /\ <<>> \o <<a>> = <<a>>
           /\ <<a>> \o <<b>> = <<a, b>> /\ <<a, b>> \o <<c>> = <<a, b, c>>
<1>1. <<>> \o <<>> = <<>> /\ <<a>> \o <<>> = <<a>> /\ <<>> \o <<a>> = <<a>>
  <2>. DEFINE S == {a}
  <2>1. <<a>> \in Seq(S) /\ <<>> \in Seq(S)
    OBVIOUS
  <2>2. QED
    BY <2>1, ConcatEmptySeq
<1>2. \A x, y : <<x>> \o <<y>> = <<x, y>>
  <2>1. ASSUME NEW x, NEW y PROVE <<x>> \o <<y>> = <<x, y>>
    <3>. DEFINE S == {x, y}
                s == <<x>> \o <<y>>
                t == <<x, y>>
    <3>1. /\ <<x>> \in Seq(S) /\ <<y>> \in Seq(S) /\ t \in Seq(S)
          /\ Len(<<x>>) = 1 /\ Len(<<y>>) = 1 /\ Len(t) = 2
          /\ t[1] = x /\ t[2] = y
      OBVIOUS
    <3>2. /\ s \in Seq(S) /\ Len(s) = 2
          /\ \A i \in 1..2 : s[i] = IF i <= 1 THEN <<x>>[i] ELSE <<y>>[i - 1]
      BY <3>1, ConcatProperties
    <3>3. s[1] = x /\ s[2] = y
      BY <3>2
    <3>. HIDE DEF s, t
    <3>4. \A i \in 1..2 : i \in {1, 2}
      OBVIOUS
    <3>5. \A i \in 1..Len(s) : s[i] = t[i]
      BY <3>1, <3>2, <3>3, <3>4
    <3>6. s = t
      BY <3>1, <3>2, <3>5, SeqEqual
    <3>7. QED
      BY <3>6 DEF s, t
  <2>2. QED
    BY <2>1
<1>3. <<a, b>> \o <<c>> = <<a, b, c>>
  <2>. DEFINE S == {a, b, c}
              u == <<a, b>>
              w == <<c>>
              s == u \o w
              t == <<a, b, c>>
  <2>1. /\ u \in Seq(S) /\ w \in Seq(S) /\ t \in Seq(S)
        /\ Len(u) = 2 /\ Len(w) = 1 /\ Len(t) = 3
        /\ w[1] = c /\ t[1] = a /\ t[2] = b /\ t[3] = c /\ u[1] = a /\ u[2] = b
    OBVIOUS
  <2>2. /\ s \in Seq(S) /\ Len(s) = 3
        /\ \A i \in 1..3 : s[i] = IF i <= 2 THEN u[i] ELSE w[i - 2]
    <3>. HIDE DEF u, w
    <3>1. QED
      BY <2>1, ConcatProperties
  <2>3. s[1] = a /\ s[2] = b /\ s[3] = c
    <3>. HIDE DEF s, u, w
    <3>1. QED
      BY <2>1, <2>2
  <2>. HIDE DEF s, t
  <2>4. \A i \in 1..3 : i \in {1, 2, 3}
    OBVIOUS
  <2>5. \A i \in 1..Len(s) : s[i] = t[i]
    BY <2>1, <2>2, <2>3, <2>4
  <2>6. s = t
    BY <2>1, <2>2, <2>5, SeqEqual
  <2>7. QED
    BY <2>6 DEF s, t
<1>5. QED
  BY <1>1, <1>2, <1>3

\* What a list of providers without repetition is.
Listed(chain) == chain \in Seq(Providers) /\ Distinct(chain)

LEMMA ShortLists ==
    ASSUME NEW p \in Providers, NEW q \in Providers, NEW o \in Providers,
           p # q, p # o, q # o
    PROVE  /\ Listed(<<p>>) /\ Listed(<<p, q>>) /\ Listed(<<p, q, o>>)
<1>1. /\ <<p>> \in Seq(Providers) /\ Len(<<p>>) = 1
      /\ <<p, q>> \in Seq(Providers) /\ Len(<<p, q>>) = 2
      /\ <<p, q, o>> \in Seq(Providers) /\ Len(<<p, q, o>>) = 3
  OBVIOUS
<1>2. Listed(<<p>>)
  BY <1>1 DEF Listed, Distinct
<1>3. Listed(<<p, q>>)
  BY <1>1 DEF Listed, Distinct
<1>4. Listed(<<p, q, o>>)
  <2>. DEFINE s == <<p, q, o>>
  <2>1. s[1] = p /\ s[2] = q /\ s[3] = o
    OBVIOUS
  <2>. HIDE DEF s
  <2>2. Len(s) = 3 /\ s \in Seq(Providers)
    BY <1>1 DEF s
  <2>3. \A i \in 1..Len(s) : i \in {1, 2, 3}
    BY <2>2
  <2>4. Distinct(s)
    BY <2>1, <2>3 DEF Distinct
  <2>5. QED
    BY <2>2, <2>4 DEF Listed, s
<1>5. QED
  BY <1>2, <1>3, <1>4

LEMMA ChainIs ==
    ASSUME NEW preferred, NEW keys, NEW chain, chain = Chain(preferred, keys)
    PROVE  /\ chain \in Seq(Providers) /\ Distinct(chain)
           /\ \A k \in 1..Len(chain) : Usable(keys, chain[k])
<1>1. \/ chain = <<"ollama">>
      \/ "groq" \in keys /\ chain = <<"groq", "ollama">>
      \/ "gemini" \in keys /\ chain = <<"gemini", "ollama">>
      \/ {"groq", "gemini"} \subseteq keys /\ chain = <<"groq", "gemini", "ollama">>
      \/ {"groq", "gemini"} \subseteq keys /\ chain = <<"gemini", "groq", "ollama">>
  <2>. DEFINE one == Keyed(keys, "groq")
              two == Keyed(keys, "gemini")
  <2>1. /\ one = IF "groq" \in keys THEN <<"groq">> ELSE <<>>
        /\ two = IF "gemini" \in keys THEN <<"gemini">> ELSE <<>>
    BY DEF Keyed, Usable
  <2>. HIDE DEF one, two
  <2>0. \A a, b, c : /\ <<>> \o <<>> = <<>> /\ <<a>> \o <<>> = <<a>> /\ <<>> \o <<a>> = <<a>>
                     /\ <<a>> \o <<b>> = <<a, b>> /\ <<a, b>> \o <<c>> = <<a, b, c>>
    BY ShortConcats
  <2>2. CASE preferred = "groq"
    <3>1. chain = (one \o two) \o <<"ollama">>
      BY <2>2 DEF Chain, one, two
    <3>2. CASE "groq" \in keys /\ "gemini" \in keys
      <4>1. one = <<"groq">> /\ two = <<"gemini">>
        BY <2>1, <3>2
      <4>2. one \o two = <<"groq", "gemini">>
        BY <4>1, <2>0
      <4>3. chain = <<"groq", "gemini", "ollama">>
        BY <3>1, <4>2, <2>0
      <4>4. QED
        BY <3>2, <4>3
    <3>3. CASE "groq" \in keys /\ "gemini" \notin keys
      <4>1. one = <<"groq">> /\ two = <<>>
        BY <2>1, <3>3
      <4>2. one \o two = <<"groq">>
        BY <4>1, <2>0
      <4>3. chain = <<"groq", "ollama">>
        BY <3>1, <4>2, <2>0
      <4>4. QED
        BY <3>3, <4>3
    <3>4. CASE "groq" \notin keys /\ "gemini" \in keys
      <4>1. one = <<>> /\ two = <<"gemini">>
        BY <2>1, <3>4
      <4>2. one \o two = <<"gemini">>
        BY <4>1, <2>0
      <4>3. chain = <<"gemini", "ollama">>
        BY <3>1, <4>2, <2>0
      <4>4. QED
        BY <3>4, <4>3
    <3>5. CASE "groq" \notin keys /\ "gemini" \notin keys
      <4>1. one = <<>> /\ two = <<>>
        BY <2>1, <3>5
      <4>2. one \o two = <<>>
        BY <4>1, <2>0
      <4>3. chain = <<"ollama">>
        BY <3>1, <4>2, <2>0
      <4>4. QED
        BY <3>5, <4>3
    <3>6. QED
      BY <3>2, <3>3, <3>4, <3>5
  <2>3. CASE preferred = "gemini"
    <3>1. chain = (two \o one) \o <<"ollama">>
      BY <2>3 DEF Chain, one, two
    <3>2. CASE "gemini" \in keys /\ "groq" \in keys
      <4>1. two = <<"gemini">> /\ one = <<"groq">>
        BY <2>1, <3>2
      <4>2. two \o one = <<"gemini", "groq">>
        BY <4>1, <2>0
      <4>3. chain = <<"gemini", "groq", "ollama">>
        BY <3>1, <4>2, <2>0
      <4>4. QED
        BY <3>2, <4>3
    <3>3. CASE "gemini" \in keys /\ "groq" \notin keys
      <4>1. two = <<"gemini">> /\ one = <<>>
        BY <2>1, <3>3
      <4>2. two \o one = <<"gemini">>
        BY <4>1, <2>0
      <4>3. chain = <<"gemini", "ollama">>
        BY <3>1, <4>2, <2>0
      <4>4. QED
        BY <3>3, <4>3
    <3>4. CASE "gemini" \notin keys /\ "groq" \in keys
      <4>1. two = <<>> /\ one = <<"groq">>
        BY <2>1, <3>4
      <4>2. two \o one = <<"groq">>
        BY <4>1, <2>0
      <4>3. chain = <<"groq", "ollama">>
        BY <3>1, <4>2, <2>0
      <4>4. QED
        BY <3>4, <4>3
    <3>5. CASE "gemini" \notin keys /\ "groq" \notin keys
      <4>1. two = <<>> /\ one = <<>>
        BY <2>1, <3>5
      <4>2. two \o one = <<>>
        BY <4>1, <2>0
      <4>3. chain = <<"ollama">>
        BY <3>1, <4>2, <2>0
      <4>4. QED
        BY <3>5, <4>3
    <3>6. QED
      BY <3>2, <3>3, <3>4, <3>5
  <2>4. CASE preferred \notin {"groq", "gemini"}
    BY <2>4 DEF Chain
  <2>5. QED
    BY <2>2, <2>3, <2>4
<1>2. Listed(chain)
  BY <1>1, ShortLists DEF Providers
<1>3. Len(chain) \in {1, 2, 3}
  <2>1. \A p, q, o \in Providers : Len(<<o>>) = 1 /\ Len(<<p, o>>) = 2 /\ Len(<<p, q, o>>) = 3
    OBVIOUS
  <2>2. QED
    BY <1>1, <2>1 DEF Providers
<1>4. \A k \in 1..Len(chain) : k \in {1, 2, 3} /\ k <= Len(chain)
  <2>1. \A n \in {1, 2, 3} : \A k \in 1..n : k \in {1, 2, 3} /\ k <= n
    OBVIOUS
  <2>2. QED
    BY <1>3, <2>1
<1>5. \A k \in 1..Len(chain) : Usable(keys, chain[k])
  <2>1. CASE chain = <<"ollama">>
    BY <2>1 DEF Usable
  <2>2. CASE "groq" \in keys /\ chain = <<"groq", "ollama">>
    BY <2>2 DEF Usable
  <2>3. CASE "gemini" \in keys /\ chain = <<"gemini", "ollama">>
    BY <2>3 DEF Usable
  <2>4. CASE {"groq", "gemini"} \subseteq keys /\ chain = <<"groq", "gemini", "ollama">>
    <3>1. chain[1] = "groq" /\ chain[2] = "gemini" /\ chain[3] = "ollama"
      BY <2>4
    <3>2. QED
      BY <1>4, <2>4, <3>1 DEF Usable
  <2>5. CASE {"groq", "gemini"} \subseteq keys /\ chain = <<"gemini", "groq", "ollama">>
    <3>1. chain[1] = "gemini" /\ chain[2] = "groq" /\ chain[3] = "ollama"
      BY <2>5
    <3>2. QED
      BY <1>4, <2>5, <3>1 DEF Usable
  <2>6. QED
    BY <1>1, <2>1, <2>2, <2>3, <2>4, <2>5
<1>6. QED
  BY <1>2, <1>5 DEF Listed

\* Whatever the providers answer to either POST, whatever keys there are and whichever
\* provider is preferred: the loops of text_generation.py are orderly and give up only when
\* each provider of the chain has failed for good.
THEOREM TextsAsPromised ==
    ASSUME NEW world, Worldly(world), NEW preferred, NEW keys, NEW fast \in BOOLEAN
    PROVE  TextAsPromised(world, preferred, keys, fast)
<1>. DEFINE model == "named"
            chain == Chain(preferred, keys)
            result == GenerateText(world, preferred, keys, model, fast)
            T == Result(model)
<1>1. /\ chain \in Seq(Providers) /\ Distinct(chain)
      /\ \A k \in 1..Len(chain) : Usable(keys, chain[k])
  BY ChainIs
<1>2. model # NoModel /\ Untried \in T
  BY UntriedIs DEF NoModel
<1>3. TextStays(T, world, chain, model, fast)
  BY <1>1, TryProviderType DEF TextStays
<1>4. PICK m \in [0..Len(chain) -> T] :
         TextLoop(m, world, chain, model, fast) /\ result = m[Len(chain)]
  <2>. HIDE DEF T, chain, model
  <2>1. chain = Chain(preferred, keys)
    BY DEF chain
  <2>2. QED
    BY <1>1, <1>2, <1>3, <2>1, TextRuns
<1>. HIDE DEF chain, result, T, model
<1>. DEFINE G == {i \in 0..Len(chain) : TextRun(world, chain, model, fast, i, m[i])}
<1>5. Len(chain) \in Nat
  BY <1>1
<1>6. 0 \in G
  <2>1. TextRun(world, chain, model, fast, 0, Untried)
    <3>1. Untried.result = "none"
      BY DEF Untried
    <3>2. QED
      BY <3>1, UntriedIs DEF TextRun
  <2>2. QED
    BY <1>4, <1>5, <2>1 DEF TextLoop
<1>7. ASSUME NEW i \in 1..Len(chain), i - 1 \in G PROVE i \in G
  <2>1. TextRun(world, chain, model, fast, i - 1, m[i - 1])
    BY <1>7
  <2>2. TextRun(world, chain, model, fast, i, m[i])
    BY <1>1, <1>2, <1>4, <2>1, TextTurn DEF TextLoop
  <2>3. QED
    BY <1>5, <2>2
<1>8. TextRun(world, chain, model, fast, Len(chain), result)
  <2>1. Len(chain) \in G
    <3>. DEFINE N == Len(chain)
    <3>1. \A i \in 1..N : i - 1 \in G => i \in G
      BY <1>7
    <3>2. N \in Nat /\ 0 \in G /\ N \in 0..N
      BY <1>5, <1>6
    <3>. HIDE DEF G, N
    <3>3. \A i \in 0..N : i \in G
      BY <3>1, <3>2, Throughout
    <3>4. QED
      BY <3>2, <3>3 DEF N
  <2>2. QED
    BY <1>4, <2>1
<1>9. ASSUME NEW p \in Providers
      PROVE  /\ Cardinality(PostsTo(result, p)) <= (IF fast THEN 1 ELSE 2)
             /\ PostsTo(result, p) # {} => Usable(keys, p)
  <2>1. Cardinality(PostsTo(result, p)) <= (IF fast THEN 1 ELSE 2)
    BY <1>8, FewCounted DEF TextRun
  <2>2. PostsTo(result, p) # {} => Usable(keys, p)
    BY <1>1, <1>8 DEF PostsTo, TextRun, Told
  <2>3. QED
    BY <2>1, <2>2
<1>10. result.result = "none" => \A p \in ToSet(chain) : FailedForGood(result, p, fast)
  BY <1>1, <1>8 DEF TextRun, ToSet
<1>11. result.result # "none" => Last(result.posts).provider = result.result
  BY <1>8 DEF TextRun, Last
<1>12. AskedOnceFor(result, model)
  BY <1>8 DEF AskedOnceFor, TextRun, Told
<1>13. Orderly(result)
  BY <1>8 DEF TextRun, Told
<1>14. QED
  BY <1>9, <1>10, <1>11, <1>12, <1>13 DEF TextAsPromised, chain, result, model

LEMMA OneAndTwo ==
    ASSUME NEW a, NEW b, NEW c
    PROVE  <<a>> \o <<b, c>> = <<a, b, c>>
<1>. DEFINE S == {a, b, c}
            u == <<a>>
            w == <<b, c>>
            s == u \o w
            t == <<a, b, c>>
<1>1. /\ u \in Seq(S) /\ w \in Seq(S) /\ t \in Seq(S)
      /\ Len(u) = 1 /\ Len(w) = 2 /\ Len(t) = 3
      /\ t[1] = a /\ t[2] = b /\ t[3] = c /\ u[1] = a /\ w[1] = b /\ w[2] = c
  OBVIOUS
<1>. HIDE DEF u, w
<1>2. /\ s \in Seq(S) /\ Len(s) = Len(u) + Len(w)
      /\ \A i \in 1..Len(u) + Len(w) :
            s[i] = IF i <= Len(u) THEN u[i] ELSE w[i - Len(u)]
  <2>. HIDE DEF S
  <2>1. QED
    BY <1>1, ConcatProperties
<1>. HIDE DEF s, t
<1>3. s[1] = a /\ s[2] = b /\ s[3] = c
  BY <1>1, <1>2
<1>4. \A i \in 1..3 : i \in {1, 2, 3}
  OBVIOUS
<1>5. \A i \in 1..Len(s) : s[i] = t[i]
  BY <1>1, <1>2, <1>3, <1>4
<1>6. s = t
  BY <1>1, <1>2, <1>5, SeqEqual
<1>7. QED
  BY <1>6 DEF s, t, u, w

LEMMA ReplyChainIs ==
    ASSUME NEW names, NEW primary \in Providers, NEW chain, chain = ReplyChain(names, primary)
    PROVE  /\ chain \in Seq(Providers) /\ Distinct(chain) /\ Len(chain) = 3
           /\ chain[1] = Route(names, primary)
           /\ \A p \in Providers : \E k \in 1..3 : chain[k] = p
<1>. DEFINE chosen == Route(names, primary)
            rest == CHOOSE p \in Providers : p \notin {chosen, primary}
<1>1. chosen \in Providers
  BY DEF Route
<1>2. \E q, o \in Providers :
         /\ chosen # q /\ chosen # o /\ q # o
         /\ chain = <<chosen, q, o>>
  <2>1. CASE chosen = primary
    <3>1. chain = <<primary>> \o Others(primary)
      BY <2>1 DEF ReplyChain
    <3>2. \E q, o \in Providers : /\ primary # q /\ primary # o /\ q # o
                                  /\ Others(primary) = <<q, o>>
      <4>1. CASE primary = "groq"
        BY <4>1 DEF Others, Providers
      <4>2. CASE primary = "gemini"
        BY <4>2 DEF Others, Providers
      <4>3. CASE primary = "ollama"
        BY <4>3 DEF Others, Providers
      <4>4. QED
        BY <4>1, <4>2, <4>3 DEF Providers
    <3>3. QED
      BY <2>1, <3>1, <3>2, OneAndTwo
  <2>2. CASE chosen # primary
    <3>1. \E p \in Providers : p \notin {chosen, primary}
      BY DEF Providers
    <3>2. rest \in Providers /\ rest \notin {chosen, primary}
      BY <3>1
    <3>3. chain = <<chosen, primary, rest>>
      BY <2>2 DEF ReplyChain
    <3>4. QED
      BY <2>2, <3>2, <3>3
  <2>3. QED
    BY <2>1, <2>2
<1>. HIDE DEF chosen, rest
<1>3. PICK q, o \in Providers : /\ chosen # q /\ chosen # o /\ q # o
                                /\ chain = <<chosen, q, o>>
  BY <1>2
<1>4. Listed(chain)
  BY <1>1, <1>3, ShortLists
<1>5. Len(chain) = 3 /\ chain[1] = chosen /\ chain[2] = q /\ chain[3] = o
  BY <1>3
<1>6. \A p \in Providers : p = chosen \/ p = q \/ p = o
  BY <1>1, <1>3 DEF Providers
<1>7. \A p \in Providers : \E k \in 1..3 : chain[k] = p
  <2>1. 1 \in 1..3 /\ 2 \in 1..3 /\ 3 \in 1..3
    OBVIOUS
  <2>2. QED
    BY <1>5, <1>6, <2>1
<1>8. QED
  BY <1>4, <1>5, <1>7 DEF Listed, chosen

Refused(world, keys, p) == Askable(keys, p) => ~Returns(p, world[p][1])

ReplyRun(world, chain, model, keys, i, r) ==
    /\ Told(r, chain, model, i)
    /\ \A p \in Providers : Few(r, p, TRUE)
    /\ r.result = "none" => \A k \in 1..i : Refused(world, keys, chain[k])
    /\ r.result # "none" => \E k \in 1..i : ~Refused(world, keys, chain[k])

Asking(world, keys, chain, model, i, r, b, e) ==
    /\ Block(b, chain[i], model) /\ Len(b) \in 0..1
    /\ \A j \in 1..Len(b) : b[j].model = IF i = 1 THEN model ELSE NoModel
    /\ e = [posts |-> r.posts \o b, result |-> e.result, fallback |-> e.fallback]
    /\ e.result \in Providers \cup {"none"} /\ e.fallback \in BOOLEAN
    /\ e.result = "none" => \A j \in 1..Len(b) : b[j].outcome # "text"
    /\ e.result = "none" <=> Refused(world, keys, chain[i])

\* What a turn of generate_reply does, with the POSTs it makes as a block.
LEMMA AskedOnce ==
    ASSUME NEW world, Worldly(world), NEW chain \in Seq(Providers), NEW model,
           NEW keys, NEW i \in 1..Len(chain), NEW r \in Result(model), r.result = "none",
           NEW e, e = AskProvider(world, chain, model, keys, r, i)
    PROVE  \E b : Asking(world, keys, chain, model, i, r, b, e)
<1>. DEFINE p == chain[i]
            asked == Askable(keys, p)
            m == IF i = 1 THEN model ELSE NoModel
            outcome == world[p][1]
            post == [provider |-> p, model |-> m, outcome |-> outcome]
            b == IF asked THEN <<post>> ELSE <<>>
            res == IF asked /\ Returns(p, outcome) THEN p ELSE "none"
<1>1. p \in Providers /\ m \in {model, NoModel} /\ outcome \in Outcomes
  BY DEF Worldly
<1>2. e = [posts |-> IF asked THEN Append(r.posts, post) ELSE r.posts,
           result |-> res, fallback |-> FALSE]
  BY DEF AskProvider
<1>3. asked \in BOOLEAN /\ Returns(p, outcome) \in BOOLEAN
  BY DEF Askable, Returns
<1>4. post \in Post(model)
  BY <1>1 DEF Post
<1>5. r.posts \in Seq(Post(model))
  BY DEF Result
<1>6. /\ post.provider = p /\ post.model = m /\ post.outcome = outcome
  OBVIOUS
<1>7. outcome = "text" => Returns(p, outcome)
  BY DEF Returns
<1>. HIDE DEF post, res, asked, outcome
<1>8. /\ b \in Seq(Post(model)) /\ Len(b) \in 0..1
      /\ \A j \in 1..Len(b) : asked /\ b[j] = post
      /\ r.posts \o b = IF asked THEN Append(r.posts, post) ELSE r.posts
  <2>1. CASE asked
    <3>1. b = <<post>>
      BY <2>1
    <3>. HIDE DEF b
    <3>2. b \in Seq(Post(model)) /\ Len(b) = 1 /\ b[1] = post
      BY <1>4, <3>1
    <3>3. Append(r.posts, post) = r.posts \o b
      BY <1>4, <1>5, <3>1, AppendIsConcat
    <3>4. QED
      BY <2>1, <3>2, <3>3
  <2>2. CASE ~asked
    <3>1. b = <<>>
      BY <2>2
    <3>2. r.posts \o <<>> = r.posts
      BY <1>5, ConcatEmptySeq
    <3>3. <<>> \in Seq(Post(model)) /\ Len(<<>>) = 0
      OBVIOUS
    <3>. HIDE DEF b
    <3>4. QED
      BY <2>2, <3>1, <3>2, <3>3
  <2>3. QED
    BY <2>1, <2>2
<1>. HIDE DEF b
<1>9. e.result = res /\ e.fallback = FALSE
      /\ e = [posts |-> r.posts \o b, result |-> e.result, fallback |-> e.fallback]
  BY <1>2, <1>8
<1>10. res \in Providers \cup {"none"} /\ (res = "none" <=> ~(asked /\ Returns(p, outcome)))
  BY <1>1 DEF res, Providers
<1>11. res = "none" <=> Refused(world, keys, p)
  BY <1>10 DEF Refused, asked, outcome
<1>12. res = "none" => \A j \in 1..Len(b) : b[j].outcome # "text"
  BY <1>6, <1>7, <1>8, <1>10
<1>13. Block(b, p, model)
  <2>1. Len(b) \in 0..2 /\ Len(b) # 2
    <3>1. \A k \in 0..1 : k \in 0..2 /\ k # 2
      OBVIOUS
    <3>2. QED
      BY <1>8, <3>1
  <2>2. QED
    BY <1>6, <1>8, <2>1 DEF Block
<1>14. \A j \in 1..Len(b) : b[j].model = m
  BY <1>6, <1>8
<1>. HIDE DEF p
<1>15. QED
  <2>1. e.fallback \in BOOLEAN /\ e.result \in Providers \cup {"none"}
    BY <1>9, <1>10
  <2>2. (e.result = "none" => \A j \in 1..Len(b) : b[j].outcome # "text")
        /\ (e.result = "none" <=> Refused(world, keys, p))
    BY <1>9, <1>11, <1>12
  <2>3. Len(b) \in 0..1
    BY <1>8
  <2>. HIDE DEF m
  <2>4. QED
    BY <1>9, <1>13, <1>14, <2>1, <2>2, <2>3 DEF Asking, p, m

LEMMA ReplyTurn ==
    ASSUME NEW world, Worldly(world), NEW chain \in Seq(Providers), Distinct(chain),
           NEW model, model # NoModel, NEW keys, NEW i \in 1..Len(chain),
           NEW r, ReplyRun(world, chain, model, keys, i - 1, r)
    PROVE  ReplyRun(world, chain, model, keys, i, AskProvider(world, chain, model, keys, r, i))
<1>. DEFINE e == AskProvider(world, chain, model, keys, r, i)
            p == chain[i]
            n == Len(r.posts)
<1>0. r \in Result(model) /\ Told(r, chain, model, i - 1)
  BY DEF ReplyRun, Told
<1>1. CASE r.result # "none"
  <2>1. e = r
    BY <1>1 DEF AskProvider
  <2>2. \A k \in 1..i - 1 : k \in 1..i
    OBVIOUS
  <2>3. Told(r, chain, model, i)
    BY <1>1, <2>2 DEF ReplyRun, Told
  <2>4. \E k \in 1..i : ~Refused(world, keys, chain[k])
    BY <1>1, <2>2 DEF ReplyRun
  <2>5. QED
    BY <1>1, <2>1, <2>3, <2>4 DEF ReplyRun
<1>2. CASE r.result = "none"
  <2>. HIDE DEF e
  <2>1. PICK b : Asking(world, keys, chain, model, i, r, b, e)
    <3>1. e = AskProvider(world, chain, model, keys, r, i)
      BY DEF e
    <3>2. QED
      BY <1>0, <1>2, <3>1, AskedOnce
  <2>2. Turn(r, b, e, chain, model, i)
    BY <1>0, <1>2, <2>1 DEF Turn, Asking
  <2>3. Told(e, chain, model, i) /\ Extended(r, b, e) /\ Joined(r, b, e, p)
    BY <2>2, TurnTold
  <2>4. n \in Nat
    BY <1>0, LenProperties DEF Result
  <2>5. Few(e, p, TRUE)
    <3>1. PostsTo(e, p) = {n + j : j \in 1..Len(b)}
      BY <2>3 DEF Joined
    <3>. HIDE DEF n
    <3>2. PostsTo(e, p) \subseteq {n + 1}
      <4>1. \A k \in 0..1 : \A j \in 1..k : j = 1
        OBVIOUS
      <4>2. \A j \in 1..Len(b) : j = 1
        BY <2>1, <4>1 DEF Asking
      <4>3. QED
        BY <3>1, <4>2
    <3>3. n + 1 \in Nat
      BY <2>4
    <3>4. QED
      BY <3>2, <3>3 DEF Few
  <2>6. \A q \in Providers : Few(e, q, TRUE)
    <3>1. ASSUME NEW q \in Providers, q # p PROVE Few(e, q, TRUE)
      <4>1. PostsTo(e, q) = PostsTo(r, q) /\ Few(r, q, TRUE)
        BY <2>3, <3>1 DEF Joined, ReplyRun
      <4>2. QED
        BY <2>3, <4>1, OthersStay
    <3>2. QED
      BY <2>5, <3>1
  <2>7. ASSUME e.result = "none", NEW k \in 1..i PROVE Refused(world, keys, chain[k])
    <3>1. k = i \/ k \in 1..i - 1
      OBVIOUS
    <3>2. QED
      BY <1>2, <2>1, <2>7, <3>1 DEF ReplyRun, Asking
  <2>8. e.result # "none" => \E k \in 1..i : ~Refused(world, keys, chain[k])
    <3>1. i \in 1..i
      OBVIOUS
    <3>2. QED
      BY <2>1, <3>1 DEF Asking
  <2>9. QED
    BY <2>3, <2>6, <2>7, <2>8 DEF ReplyRun, e
<1>3. QED
  BY <1>1, <1>2

ReplyLoop(m, world, chain, model, keys) ==
    /\ m[0] = Untried
    /\ \A i \in 1..Len(chain) : m[i] = AskProvider(world, chain, model, keys, m[i - 1], i)

ReplyStays(T, world, chain, model, keys) ==
    \A i \in 1..Len(chain), r \in T : AskProvider(world, chain, model, keys, r, i) \in T

LEMMA AskProviderType ==
    ASSUME NEW world, Worldly(world), NEW chain \in Seq(Providers), NEW model, NEW keys,
           NEW i \in 1..Len(chain), NEW r \in Result(model)
    PROVE  AskProvider(world, chain, model, keys, r, i) \in Result(model)
<1>. DEFINE e == AskProvider(world, chain, model, keys, r, i)
<1>1. CASE r.result # "none"
  BY <1>1 DEF AskProvider
<1>2. CASE r.result = "none"
  <2>. HIDE DEF e
  <2>1. PICK b : Asking(world, keys, chain, model, i, r, b, e)
    <3>1. e = AskProvider(world, chain, model, keys, r, i)
      BY DEF e
    <3>2. QED
      BY <1>2, <3>1, AskedOnce
  <2>2. r.posts \o b \in Seq(Post(model))
    BY <2>1, ConcatProperties DEF Result, Block, Asking
  <2>3. e \in Result(model)
    <3>. DEFINE res == e.result
                fall == e.fallback
                posts == r.posts \o b
    <3>1. /\ e = [posts |-> posts, result |-> res, fallback |-> fall]
          /\ res \in Providers \cup {"none"} /\ fall \in BOOLEAN
      BY <2>1 DEF Asking
    <3>2. posts \in Seq(Post(model))
      BY <2>2
    <3>. HIDE DEF res, fall, posts
    <3>3. QED
      BY <3>1, <3>2 DEF Result
  <2>4. QED
    BY <2>3 DEF e
<1>3. QED
  BY <1>1, <1>2

Replied(T, world, names, primary, keys, chain) ==
    \E m \in [0..Len(chain) -> T] :
        /\ ReplyLoop(m, world, chain, names, keys)
        /\ GenerateReply(world, names, primary, keys) = m[Len(chain)]

LEMMA ReplyRuns ==
    ASSUME NEW world, NEW names, NEW primary, NEW keys,
           NEW chain \in Seq(Providers), chain = ReplyChain(names, primary),
           NEW T, Untried \in T, ReplyStays(T, world, chain, names, keys)
    PROVE  Replied(T, world, names, primary, keys, chain)
<1>. DEFINE N == Len(chain)
            step == [i \in 1..N |-> [r \in T |-> AskProvider(world, chain, names, keys, r, i)]]
            Body(m) == [i \in 0..N |->
                           IF i = 0 THEN Untried ELSE AskProvider(world, chain, names, keys, m[i - 1], i)]
            chosen == CHOOSE m : m = Body(m)
<1>1. step \in [1..N -> [T -> T]] /\ N \in Nat
  BY DEF ReplyStays
<1>2. PICK m : Loop(m, N, T, Untried, step)
  <2>. HIDE DEF step, N
  <2>1. QED
    BY <1>1, LoopRuns
<1>3. ASSUME NEW i \in 1..N
      PROVE  m[i - 1] \in T /\ m[i] = AskProvider(world, chain, names, keys, m[i - 1], i)
  <2>1. \A r \in T : step[i][r] = AskProvider(world, chain, names, keys, r, i)
    OBVIOUS
  <2>2. i - 1 \in 0..N
    BY <1>1
  <2>. HIDE DEF step
  <2>3. QED
    BY <1>2, <2>1, <2>2 DEF Loop
<1>4. m = Body(m) /\ m \in [0..N -> T] /\ m[0] = Untried
  BY <1>2, <1>3 DEF Loop
<1>5. chosen = Body(chosen)
  <2>. HIDE DEF Body
  <2>1. QED
    BY <1>4
<1>6. GenerateReply(world, names, primary, keys) = chosen[N]
  BY DEF GenerateReply
<1>. HIDE DEF chosen
<1>7. /\ chosen[0] = Untried
      /\ \A i \in 1..N : chosen[i] = AskProvider(world, chain, names, keys, chosen[i - 1], i)
  BY <1>5
<1>. DEFINE G == {i \in 0..N : chosen[i] = m[i]}
<1>8. \A i \in 0..N : i \in G
  <2>1. 0 \in G /\ \A i \in 1..N : i - 1 \in G => i \in G
    BY <1>3, <1>4, <1>7
  <2>. HIDE DEF G
  <2>2. QED
    BY <1>1, <2>1, Throughout
<1>9. chosen[N] = m[N]
  BY <1>1, <1>8
<1>10. QED
  <2>. HIDE DEF Body
  <2>1. QED
    BY <1>3, <1>4, <1>6, <1>9 DEF ReplyLoop, Replied

\* Whatever the providers answer, whatever keys there are and whichever model is named:
\* generate_reply asks each provider at most once and in order, puts the named model to the
\* provider it stands for only, and fails exactly when nobody who can be asked returns a text.
THEOREM RepliesAsPromised ==
    ASSUME NEW world, Worldly(world), NEW names, names # NoModel,
           NEW primary \in Providers, NEW keys
    PROVE  ReplyAsPromised(world, names, primary, keys)
<1>. DEFINE chain == ReplyChain(names, primary)
            result == GenerateReply(world, names, primary, keys)
            T == Result(names)
<1>1. /\ chain \in Seq(Providers) /\ Distinct(chain) /\ Len(chain) = 3
      /\ chain[1] = Route(names, primary)
      /\ \A p \in Providers : \E k \in 1..3 : chain[k] = p
  BY ReplyChainIs
<1>2. Untried \in T
  BY UntriedIs
<1>3. ReplyStays(T, world, chain, names, keys)
  BY <1>1, AskProviderType DEF ReplyStays
<1>4. PICK m \in [0..Len(chain) -> T] :
         ReplyLoop(m, world, chain, names, keys) /\ result = m[Len(chain)]
  <2>. HIDE DEF T, chain, result
  <2>1. chain = ReplyChain(names, primary) /\ chain \in Seq(Providers)
    BY <1>1 DEF chain
  <2>2. Replied(T, world, names, primary, keys, chain)
    BY <1>2, <1>3, <2>1, ReplyRuns
  <2>3. QED
    BY <2>2 DEF result, Replied
<1>. HIDE DEF chain, result, T
<1>. DEFINE G == {i \in 0..3 : ReplyRun(world, chain, names, keys, i, m[i])}
<1>5. 0 \in G
  <2>1. ReplyRun(world, chain, names, keys, 0, Untried)
    <3>1. Untried.result = "none"
      BY DEF Untried
    <3>2. Told(Untried, chain, names, 0) /\ \A p \in Providers : Few(Untried, p, TRUE)
      BY UntriedIs, Zenon
    <3>3. QED
      <4>1. \A k \in 1..0 : FALSE
        OBVIOUS
      <4>2. QED
        BY <3>1, <3>2, <4>1, Zenon DEF ReplyRun
  <2>2. QED
    BY <1>4, <2>1 DEF ReplyLoop
<1>6. ASSUME NEW i \in 1..3, i - 1 \in G PROVE i \in G
  <2>1. ReplyRun(world, chain, names, keys, i - 1, m[i - 1])
    BY <1>6
  <2>2. i \in 1..Len(chain)
    BY <1>1
  <2>3. ReplyRun(world, chain, names, keys, i, AskProvider(world, chain, names, keys, m[i - 1], i))
    BY <1>1, <2>1, <2>2, ReplyTurn
  <2>4. ReplyRun(world, chain, names, keys, i, m[i])
    BY <1>4, <2>2, <2>3 DEF ReplyLoop
  <2>5. QED
    BY <2>4
<1>7. ReplyRun(world, chain, names, keys, 3, result)
  <2>1. \A i \in 1..3 : i - 1 \in G => i \in G
    BY <1>6
  <2>2. 3 \in Nat /\ 3 \in 0..3
    OBVIOUS
  <2>3. 3 \in G
    <3>. HIDE DEF G
    <3>1. \A i \in 0..3 : i \in G
      BY <1>5, <2>1, <2>2, Throughout
    <3>2. QED
      BY <2>2, <3>1
  <2>4. QED
    BY <1>1, <1>4, <2>3
<1>8. \A p \in Providers : Cardinality(PostsTo(result, p)) <= 1
  <2>1. ASSUME NEW p \in Providers PROVE Cardinality(PostsTo(result, p)) <= 1
    <3>1. Few(result, p, TRUE)
      BY <1>7 DEF ReplyRun
    <3>2. Cardinality(PostsTo(result, p)) <= IF TRUE THEN 1 ELSE 2
      BY <3>1, FewCounted
    <3>3. QED
      BY <3>2
  <2>2. QED
    BY <2>1
<1>9. ASSUME names \in Providers, NEW i \in 1..Len(result.posts), result.posts[i].model = names
      PROVE  result.posts[i].provider = names
  <2>1. PICK k \in 1..3 : result.posts[i].provider = chain[k] /\ k = 1
    BY <1>7, <1>9 DEF ReplyRun, Told
  <2>2. QED
    BY <1>1, <1>9, <2>1 DEF Route
<1>10. result.result = "none" <=> \A p \in Providers : Askable(keys, p) => ~Returns(p, world[p][1])
  <2>1. \A k \in 1..3 : chain[k] \in Providers
    BY <1>1
  <2>2. result.result = "none" <=> \A p \in Providers : Refused(world, keys, p)
    BY <1>1, <1>7, <2>1 DEF ReplyRun
  <2>3. QED
    BY <2>2 DEF Refused
<1>11. Orderly(result)
  BY <1>7 DEF ReplyRun, Told
<1>12. QED
  BY <1>8, <1>9, <1>10, <1>11 DEF ReplyAsPromised, result

\* A number that some text may hold; a dash stands in those of thirteen digits only.
NumberOk(number) ==
    /\ number.digits \in Nat \ {0}
    /\ {number.zero, number.luhn, number.dash, number.spaced} \subseteq BOOLEAN
    /\ number.dash => number.digits = 13
    /\ number.hint \in Nearness /\ number.said \in Nearness
    /\ number.tail.vi \in Nat /\ number.tail.en \in Nat

\* What the questions asked in one step, and the first of two, are about.
InputsInv ==
    /\ Asked("text wanted") => call.fast \in BOOLEAN
    /\ Asked("text") => Worldly(call.world) /\ call.fast \in BOOLEAN
    /\ Asked("reply") => /\ Worldly(call.world) /\ call.primary \in Providers
                         /\ call.names # NoModel
    /\ Asked("number") => NumberOk(call.number)

LEMMA InputsStart == Init => InputsInv
  BY DEF Init, InputsInv, Asked, Nothing

LEMMA InputsKept == CallInv /\ InputsInv /\ [Next]_call => InputsInv'
<1>. SUFFICES ASSUME CallInv, InputsInv, [Next]_call PROVE InputsInv'
  OBVIOUS
<1>1. ASSUME (call').of \notin {"text wanted", "text", "reply", "number"} PROVE InputsInv'
  BY <1>1 DEF InputsInv, Asked
<1>2. CASE AskForText
  <2>1. PICK p \in Providers, k \in KeySets, f \in BOOLEAN :
           call' = [of |-> "text wanted", preferred |-> p, keys |-> k, fast |-> f]
    BY <1>2, Zenon DEF AskForText
  <2>2. (call').of = "text wanted" /\ (call').fast \in BOOLEAN
    BY <2>1
  <2>3. QED
    BY <2>2 DEF InputsInv, Asked
<1>3. CASE ProvidersAnswer
  <2>1. PICK w \in Worlds :
           call' = [of |-> "text", preferred |-> call.preferred, keys |-> call.keys,
                    fast |-> call.fast, world |-> w]
    BY <1>3 DEF ProvidersAnswer
  <2>2. (call').of = "text" /\ (call').fast = call.fast /\ (call').world = w
    BY <2>1
  <2>3. call.fast \in BOOLEAN
    BY <1>3 DEF ProvidersAnswer, InputsInv
  <2>4. Worldly(w)
    BY DEF Worlds, Worldly, Outcomes
  <2>5. QED
    BY <2>2, <2>3, <2>4 DEF InputsInv, Asked
<1>4. CASE AskForReply
  <2>1. PICK w \in [Providers -> Outcomes \X {"text"}], p \in Providers, k \in KeySets,
             n \in Providers \cup {"plain"} :
           call' = [of |-> "reply", world |-> w, primary |-> p, keys |-> k, names |-> n]
    BY <1>4, Zenon DEF AskForReply
  <2>2. /\ (call').of = "reply" /\ (call').world = w /\ (call').primary = p
        /\ (call').names = n
    BY <2>1
  <2>3. Worldly(w)
    BY DEF Worldly, Outcomes
  <2>4. n # NoModel
    BY DEF NoModel, Providers
  <2>5. QED
    BY <2>2, <2>3, <2>4 DEF InputsInv, Asked
<1>5. CASE ReportNumber
  <2>0. PICK digits \in 9..20, zero \in BOOLEAN, luhn \in BOOLEAN, dash \in BOOLEAN,
             spaced \in BOOLEAN :
          /\ dash => digits = 13
          /\ \E hint \in Nearness, said \in Nearness,
                tail \in {[vi |-> 0, en |-> 0]}
                           \cup (IF spaced THEN {[vi |-> 7, en |-> 3]} ELSE {}) :
               call' = [of |-> "number",
                        number |-> [digits |-> digits, zero |-> zero, luhn |-> luhn,
                                    dash |-> dash, spaced |-> spaced, hint |-> hint,
                                    said |-> said, tail |-> tail]]
    BY <1>5, Zenon DEF ReportNumber
  <2>1. PICK hint \in Nearness, said \in Nearness,
             tail \in {[vi |-> 0, en |-> 0]}
                        \cup (IF spaced THEN {[vi |-> 7, en |-> 3]} ELSE {}) :
          call' = [of |-> "number",
                   number |-> [digits |-> digits, zero |-> zero, luhn |-> luhn,
                               dash |-> dash, spaced |-> spaced, hint |-> hint,
                               said |-> said, tail |-> tail]]
    BY <2>0, Zenon
  <2>. DEFINE number == [digits |-> digits, zero |-> zero, luhn |-> luhn,
                         dash |-> dash, spaced |-> spaced, hint |-> hint,
                         said |-> said, tail |-> tail]
  <2>2. (call').of = "number" /\ (call').number = number
    BY <2>1
  <2>3. tail.vi \in Nat /\ tail.en \in Nat
    OBVIOUS
  <2>4. NumberOk(number)
    BY <2>0, <2>1, <2>3 DEF NumberOk
  <2>. HIDE DEF number
  <2>5. QED
    BY <2>2, <2>4 DEF InputsInv, Asked
<1>6. CASE ReportSpan \/ CheckDraft
  BY <1>1, <1>6, OneStepCalls
<1>7. CASE CompareAnother
  <2>1. call = [of |-> "duplicate", draft |-> call.draft, rules |-> call.rules]
    BY <1>7 DEF CompareAnother, CallInv
  <2>2. PICK two : call' = [call EXCEPT !.rules = @ \cup {two}]
    BY <1>7 DEF CompareAnother
  <2>3. (call').of = "duplicate"
    BY <2>1, <2>2
  <2>4. QED
    BY <1>1, <2>3
<1>8. CASE RequestRule
  <2>1. PICK q : call' = [of |-> "draft", request |-> q, replies |-> {}]
    BY <1>8 DEF RequestRule
  <2>2. (call').of = "draft"
    BY <2>1
  <2>3. QED
    BY <1>1, <2>2
<1>9. CASE ModelDraftsIt
  <2>1. PICK draft : call' = [call EXCEPT !.replies = {draft}]
    BY <1>9 DEF ModelDraftsIt
  <2>2. call \in AskedDraft
    BY <1>9 DEF ModelDraftsIt, CallInv
  <2>3. (call').of = "draft"
    BY <2>1, <2>2 DEF AskedDraft
  <2>4. QED
    BY <1>1, <2>3
<1>10. CASE UNCHANGED call
  BY <1>10 DEF InputsInv, Asked
<1>11. QED
  BY <1>2, <1>3, <1>4, <1>5, <1>6, <1>7, <1>8, <1>9, <1>10 DEF Next

\* The trace of every text and every reply is orderly, nobody is asked more often than
\* allowed, and a failure means that everyone who could be asked has failed
\* (FallbacksInOrder).
THEOREM FallbacksHold == Spec => []FallbacksInOrder
<1>1. InputsInv => FallbacksInOrder
  BY TextsAsPromised, RepliesAsPromised DEF InputsInv, FallbacksInOrder
<1>2. Init => CallInv /\ InputsInv
  BY CallsStart, InputsStart
<1>3. CallInv /\ InputsInv /\ [Next]_call => CallInv' /\ InputsInv'
  BY CallsKept, InputsKept
<1>4. QED
  BY <1>1, <1>2, <1>3, PTL DEF Spec

-----------------------------------------------------------------------------
(* Numbers.                                                                *)

LEMMA Decided ==
    ASSUME NEW n \in Nat, n >= 3, NEW k \in [1..n -> Int], NEW l \in [1..n -> Int],
           \/ k[1] > l[1]
           \/ k[1] = l[1] /\ k[2] > l[2]
           \/ k[1] = l[1] /\ k[2] = l[2] /\ k[3] > l[3]
    PROVE  Greater(k, l)
<1>1. 1 \in DOMAIN k /\ 2 \in DOMAIN k /\ 3 \in DOMAIN k
  OBVIOUS
<1>2. CASE k[1] > l[1]
  BY <1>1, <1>2 DEF Greater
<1>3. CASE k[1] = l[1] /\ k[2] > l[2]
  <2>1. \A j \in 1..2 - 1 : j = 1
    OBVIOUS
  <2>2. QED
    BY <1>1, <1>3, <2>1 DEF Greater
<1>4. CASE k[1] = l[1] /\ k[2] = l[2] /\ k[3] > l[3]
  <2>1. \A j \in 1..3 - 1 : j = 1 \/ j = 2
    OBVIOUS
  <2>2. QED
    BY <1>1, <1>4, <2>1 DEF Greater
<1>5. QED
  BY <1>2, <1>3, <1>4

LEMMA NumberKeyIs ==
    ASSUME NEW s, SpanOk(s), NEW k, k = <<s.score, s.level>> \o General(s)
    PROVE  k[1] = s.score /\ k[2] = s.level /\ k[3] = TypePriority(s.type)
<1>. DEFINE first == <<s.score, s.level>>
            rest == General(s)
<1>1. first \in Seq(Int) /\ Len(first) = 2 /\ first[1] = s.score /\ first[2] = s.level
  BY DEF SpanOk
<1>2. rest \in Seq(Int) /\ Len(rest) = 5 /\ rest[1] = TypePriority(s.type)
  BY GeneralKey
<1>. HIDE DEF first, rest
<1>3. \A i \in 1..Len(first) + Len(rest) :
         (first \o rest)[i] = IF i <= Len(first) THEN first[i] ELSE rest[i - Len(first)]
  BY <1>1, <1>2, ConcatProperties
<1>4. k = first \o rest
  BY DEF first, rest
<1>. DEFINE both == first \o rest
<1>. HIDE DEF both
<1>5. \A i \in 1..7 : both[i] = IF i <= 2 THEN first[i] ELSE rest[i - 2]
  <2>1. Len(first) + Len(rest) = 7
    BY <1>1, <1>2
  <2>2. \A i \in 1..Len(first) + Len(rest) :
           both[i] = IF i <= Len(first) THEN first[i] ELSE rest[i - Len(first)]
    BY <1>3 DEF both
  <2>3. \A i \in 1..7 : both[i] = IF i <= Len(first) THEN first[i] ELSE rest[i - Len(first)]
    BY <2>1, <2>2
  <2>4. QED
    BY <1>1, <2>3
<1>6. both[1] = first[1] /\ both[2] = first[2] /\ both[3] = rest[1]
  BY <1>5
<1>7. QED
  BY <1>1, <1>2, <1>4, <1>6 DEF both

\* Between a phone and a tax number the score decides, then the level, then the type.
LEMMA NearerWins ==
    ASSUME NEW s, NEW t, SpanOk(s), SpanOk(t), {s.type, t.type} = {"PHONE", "TAX_ID"},
           \/ s.score > t.score
           \/ s.score = t.score /\ s.level > t.level
           \/ s.score = t.score /\ s.level = t.level /\ s.type = "TAX_ID"
    PROVE  Wins(s, t)
<1>. DEFINE k == <<s.score, s.level>> \o General(s)
            l == <<t.score, t.level>> \o General(t)
<1>1. s.type # t.type /\ {t.type, s.type} = {"PHONE", "TAX_ID"}
  OBVIOUS
<1>2. ResolveKey(s, t) = k /\ ResolveKey(t, s) = l
  BY <1>1, ResolveKeys
<1>3. k \in [1..7 -> Int] /\ l \in [1..7 -> Int]
  BY NumberKey
<1>. HIDE DEF k, l
<1>4. /\ k[1] = s.score /\ k[2] = s.level /\ k[3] = TypePriority(s.type)
      /\ l[1] = t.score /\ l[2] = t.level /\ l[3] = TypePriority(t.type)
  BY NumberKeyIs DEF k, l
<1>5. s.type = "TAX_ID" => t.type = "PHONE" /\ TypePriority(s.type) > TypePriority(t.type)
  BY <1>1 DEF TypePriority
<1>6. 7 \in Nat /\ 7 >= 3
  OBVIOUS
<1>7. \/ k[1] > l[1]
      \/ k[1] = l[1] /\ k[2] > l[2]
      \/ k[1] = l[1] /\ k[2] = l[2] /\ k[3] > l[3]
  BY <1>4, <1>5
<1>8. Greater(k, l)
  BY <1>3, <1>6, <1>7, Decided
<1>9. QED
  BY <1>2, <1>8 DEF Wins

\* Among other types the rank of the type comes first.
LEMMA CardWins ==
    ASSUME NEW s, NEW t, SpanOk(s), SpanOk(t), s.type = "CREDIT_CARD",
           t.type \in {"PHONE", "CCCD", "TAX_ID"}
    PROVE  Wins(s, t)
<1>1. s.type # t.type /\ {s.type, t.type} # {"PHONE", "TAX_ID"}
      /\ {t.type, s.type} # {"PHONE", "TAX_ID"}
  OBVIOUS
<1>2. ResolveKey(s, t) = General(s) /\ ResolveKey(t, s) = General(t)
  BY <1>1, ResolveKeys
<1>3. /\ General(s) \in [1..5 -> Int] /\ General(s)[1] = TypePriority(s.type)
      /\ General(t) \in [1..5 -> Int] /\ General(t)[1] = TypePriority(t.type)
  BY GeneralKey
<1>4. TypePriority(s.type) > TypePriority(t.type)
  BY DEF TypePriority
<1>5. 5 \in Nat /\ 5 >= 3
  OBVIOUS
<1>6. Greater(General(s), General(t))
  BY <1>3, <1>4, <1>5, Decided
<1>7. QED
  BY <1>2, <1>6 DEF Wins

LEMMA WinsIsStrict ==
    ASSUME NEW s, NEW t, SpanOk(s), SpanOk(t), Wins(s, t) PROVE ~Wins(t, s)
<1>1. PICK n \in Nat : ResolveKey(s, t) \in [1..n -> Int] /\ ResolveKey(t, s) \in [1..n -> Int]
  BY ResolveKeysType
<1>2. QED
  BY <1>1, GreaterIsStrict DEF Wins

\* Spans of one number: each starts where the number does.
Heads(S) == \A s \in S : SpanOk(s) /\ s.start = 0 /\ s.type \in Maskable

LEMMA HeadsOverlap ==
    ASSUME NEW s, NEW t, SpanOk(s), SpanOk(t), s.start = 0, t.start = 0
    PROVE  StrongOverlap(s, t)
<1>1. s.end \in Int /\ t.end \in Int /\ s.end > 0 /\ t.end > 0
  BY DEF SpanOk
<1>2. QED
  BY <1>1 DEF StrongOverlap, Overlap, Shared, Least

\* Those in A win against those that are not.
Leads(A, S) == A \subseteq S /\ \A a \in A : \A s \in S \ A : Wins(a, s)

\* What is kept of the first i spans of q: one, of A as soon as one of A was seen.
Kept(q, A, i, kept) ==
    \E x : /\ kept = <<x>> /\ \E j \in 1..i : q[j] = x
           /\ (\E j \in 1..i : q[j] \in A) => x \in A

LEMMA OneKept ==
    ASSUME NEW S, Heads(S), NEW A, Leads(A, S), NEW q \in Seq(S), NEW i \in 1..Len(q),
           NEW kept, i = 1 => kept = <<>>, i > 1 => Kept(q, A, i - 1, kept)
    PROVE  Kept(q, A, i, MergeNext(kept, q[i]))
<1>. DEFINE s == q[i]
<1>1. s \in S /\ i \in 1..i
  OBVIOUS
<1>2. CASE i = 1
  <2>1. MergeNext(kept, s) = Append(<<>>, s)
    BY <1>2 DEF MergeNext
  <2>2. Append(<<>>, s) = <<s>>
    OBVIOUS
  <2>3. \A j \in 1..i : j = i
    BY <1>2
  <2>4. QED
    BY <1>1, <2>1, <2>2, <2>3 DEF Kept
<1>3. CASE i > 1
  <2>1. PICK x : /\ kept = <<x>> /\ \E j \in 1..i - 1 : q[j] = x
                 /\ (\E j \in 1..i - 1 : q[j] \in A) => x \in A
    BY <1>3 DEF Kept
  <2>2. \A j \in 1..i - 1 : j \in 1..i /\ j \in 1..Len(q)
    OBVIOUS
  <2>3. x \in S /\ \E j \in 1..i : q[j] = x
    BY <2>1, <2>2
  <2>4. \A j \in 1..i : j = i \/ j \in 1..i - 1
    OBVIOUS
  <2>5. StrongOverlap(s, x)
    BY <1>1, <2>3, HeadsOverlap DEF Heads
  <2>6. MergeNext(<<x>>, s) = IF Wins(s, x) THEN <<s>> ELSE <<x>>
    <3>1. <<x>> # <<>> /\ Len(<<x>>) = 1 /\ <<x>>[1] = x
      OBVIOUS
    <3>2. [<<x>> EXCEPT ![1] = s] = <<s>>
      OBVIOUS
    <3>. HIDE DEF s
    <3>3. QED
      BY <2>5, <3>1, <3>2 DEF MergeNext
  <2>7. CASE Wins(s, x)
    <3>1. MergeNext(kept, s) = <<s>>
      BY <2>1, <2>6, <2>7
    <3>2. x \in A => s \in A
      BY <1>1, <2>3, <2>7, WinsIsStrict DEF Leads, Heads
    <3>3. (\E j \in 1..i : q[j] \in A) => s \in A
      BY <2>1, <2>4, <3>2
    <3>4. QED
      BY <1>1, <3>1, <3>3 DEF Kept
  <2>8. CASE ~Wins(s, x)
    <3>1. MergeNext(kept, s) = <<x>>
      BY <2>1, <2>6, <2>8
    <3>2. s \in A => x \in A
      BY <2>3, <2>8 DEF Leads
    <3>3. (\E j \in 1..i : q[j] \in A) => x \in A
      BY <2>1, <2>4, <3>2
    <3>4. QED
      BY <2>3, <3>1, <3>3 DEF Kept
  <2>9. QED
    BY <2>7, <2>8
<1>4. i = 1 \/ i > 1
  OBVIOUS
<1>5. QED
  BY <1>2, <1>3, <1>4

LEMMA OneIsLeft ==
    ASSUME NEW S, Heads(S), NEW A, Leads(A, S), NEW q \in Seq(S), NEW a \in A, Holds(q, a)
    PROVE  \E x \in A : MergeSorted(q) = <<x>>
<1>. DEFINE N == Len(q)
<1>1. PICK m \in [0..N -> Seq(S)] : MergeRun(q, m)
  BY MergeRuns
<1>2. N \in Nat /\ N >= 1
  BY DEF Holds
<1>. DEFINE G == {i \in 0..N : i > 0 => Kept(q, A, i, m[i])}
<1>3. 0 \in G
  BY <1>2
<1>4. ASSUME NEW i \in 1..N, i - 1 \in G PROVE i \in G
  <2>1. m[i] = MergeNext(m[i - 1], q[i]) /\ m[0] = <<>>
    BY <1>1 DEF MergeRun
  <2>2. i = 1 => m[i - 1] = <<>>
    BY <2>1
  <2>3. i > 1 => Kept(q, A, i - 1, m[i - 1])
    BY <1>4
  <2>4. Kept(q, A, i, m[i])
    BY <2>1, <2>2, <2>3, OneKept
  <2>5. QED
    BY <1>2, <2>4
<1>5. N \in G
  <2>1. \A i \in 1..N : i - 1 \in G => i \in G
    BY <1>4
  <2>2. N \in Nat /\ N \in 0..N
    BY <1>2
  <2>. HIDE DEF G, N
  <2>3. \A i \in 0..N : i \in G
    BY <1>3, <2>1, <2>2, Throughout
  <2>4. QED
    BY <2>2, <2>3
<1>6. Kept(q, A, N, MergeSorted(q))
  BY <1>1, <1>2, <1>5 DEF MergeRun
<1>7. \E j \in 1..N : q[j] \in A
  BY DEF Holds
<1>8. QED
  BY <1>6, <1>7 DEF Kept

LEMMA OneIsChosen ==
    ASSUME NEW x, SpanOk(x), x.type \in Maskable
    PROVE  Chosen(<<x>>) = <<x>>
<1>1. {s \in ToSet(<<x>>) : s.type \in Maskable} = {x}
  BY DEF ToSet
<1>2. Sorted({x}) = <<x>>
  <2>1. Cardinality({x}) = 1 /\ Cardinality({}) = 0
    BY FS_Singleton, FS_EmptySet
  <2>2. ~Earlier(x, x)
    BY EarlierOrders
  <2>3. {t \in {x} : Earlier(t, x)} = {}
    BY <2>2
  <2>4. \A i \in 1..1 : (CHOOSE s \in {x} : Cardinality({t \in {x} : Earlier(t, s)}) = i - 1) = x
    <3>1. \A i \in 1..1 : Cardinality({t \in {x} : Earlier(t, x)}) = i - 1
      BY <2>1, <2>3
    <3>2. QED
      BY <3>1
  <2>5. Sorted({x}) = [i \in 1..1 |-> x]
    BY <2>1, <2>4 DEF Sorted
  <2>6. [i \in 1..1 |-> x] = <<x>>
    OBVIOUS
  <2>7. QED
    BY <2>5, <2>6
<1>3. ChooseSorted(<<x>>) = <<x>>
  <2>. DEFINE q == <<x>>
  <2>1. q \in Seq({x}) /\ Len(q) = 1 /\ q[1] = x
    OBVIOUS
  <2>. HIDE DEF q
  <2>2. PICK m \in [0..Len(q) -> Seq({x})] : ChooseRun(q, m)
    BY <2>1, ChooseRuns
  <2>3. m[1] = ChooseNext(m[0], x) /\ m[0] = <<>> /\ ChooseSorted(q) = m[1]
    BY <2>1, <2>2 DEF ChooseRun
  <2>4. ChooseNext(<<>>, x) = <<x>>
    <3>1. Append(<<>>, x) = <<x>>
      OBVIOUS
    <3>2. QED
      BY <3>1 DEF ChooseNext
  <2>5. QED
    BY <2>3, <2>4 DEF q
<1>4. QED
  BY <1>1, <1>2, <1>3 DEF Chosen

\* Of the spans of one number a single one is masked, and it is of those that lead.
LEMMA LeaderIsMasked ==
    ASSUME NEW S, Report(S), Heads(S), NEW A, Leads(A, S), A # {}
    PROVE  \E x \in A : Chosen(Merge(S)) = <<x>>
<1>1. PICK a \in A : a \in S
  BY DEF Leads
<1>2. Sorted(S) \in Seq(S) /\ Holds(Sorted(S), a)
  BY <1>1, SortedLists DEF Lists
<1>3. PICK x \in A : MergeSorted(Sorted(S)) = <<x>>
  BY <1>2, OneIsLeft
<1>4. SpanOk(x) /\ x.type \in Maskable
  BY DEF Leads, Heads
<1>5. QED
  BY <1>3, <1>4, OneIsChosen DEF Merge

Found(number) == Regex(number) \cup Spoken(number)

\* A number has at least one digit.
LEMMA WrittenIs ==
    ASSUME NEW number, NumberOk(number)
    PROVE  /\ Written(number) \in Nat \ {0} /\ number.digits \in Nat \ {0}
           /\ Written(number) + number.tail["vi"] \in Nat \ {0}
           /\ Written(number) + number.tail["en"] \in Nat \ {0}
  BY DEF NumberOk, Written

\* How near a word of a type stands, and the score that gives.
Near(level) == level \in 0..2

ByLevel(level, a, b, c) == IF level = 0 THEN a ELSE IF level = 1 THEN b ELSE c

LEMMA Levels ==
    ASSUME NEW number, NumberOk(number), NEW type \in {"PHONE", "CCCD", "TAX_ID"}
    PROVE  Near(number.hint[type]) /\ Near(number.said[type])
  BY DEF NumberOk, Nearness, Near

LEMMA RegexSpanIs ==
    ASSUME NEW number, NumberOk(number), NEW type \in {"PHONE", "CCCD", "TAX_ID"},
           NEW end \in Nat \ {0}, NEW a \in Int, NEW b \in Int, NEW c \in Int,
           NEW s, s = RegexSpan(number, type, end, <<a, b, c>>)
    PROVE  /\ SpanOk(s) /\ s.start = 0 /\ s.end = end /\ s.type = type
           /\ s.source = "local_regex" /\ s.level = number.hint[type]
           /\ s.score = ByLevel(s.level, a, b, c)
<1>. DEFINE level == number.hint[type]
            score == <<a, b, c>>[level + 1]
<1>1. level \in {0, 1, 2}
  BY Levels DEF Near
<1>2. s = [type |-> type, start |-> 0, end |-> end, score |-> score,
           source |-> "local_regex", level |-> level]
  BY DEF RegexSpan, Span
<1>3. score = ByLevel(level, a, b, c) /\ score \in Int
  <2>1. <<a, b, c>>[1] = a /\ <<a, b, c>>[2] = b /\ <<a, b, c>>[3] = c
    OBVIOUS
  <2>2. CASE level = 0
    BY <2>1, <2>2 DEF ByLevel
  <2>3. CASE level = 1
    BY <2>1, <2>3 DEF ByLevel
  <2>4. CASE level = 2
    BY <2>1, <2>4 DEF ByLevel
  <2>5. QED
    BY <1>1, <2>2, <2>3, <2>4
<1>4. type \in Maskable
  BY DEF Maskable
<1>. HIDE DEF level, score
<1>5. QED
  BY <1>1, <1>2, <1>3, <1>4 DEF SpanOk, level

\* What each pattern finds: nothing, or one span of its type.
LEMMA PatternsAre ==
    ASSUME NEW number, NumberOk(number)
    PROVE  /\ \A s \in Phones(number) :
                 /\ SpanOk(s) /\ s.start = 0 /\ s.type = "PHONE" /\ s.source = "local_regex"
                 /\ s.level = number.hint["PHONE"] /\ s.score = ByLevel(s.level, 70, 80, 90)
           /\ \A s \in Cccds(number) :
                 SpanOk(s) /\ s.start = 0 /\ s.type = "CCCD" /\ s.source = "local_regex"
           /\ \A s \in TaxIds(number) :
                 /\ SpanOk(s) /\ s.start = 0 /\ s.type = "TAX_ID" /\ s.source = "local_regex"
                 /\ s.level = number.hint["TAX_ID"] /\ s.score = ByLevel(s.level, 65, 80, 90)
           /\ \A s \in Cards(number) :
                 SpanOk(s) /\ s.start = 0 /\ s.type = "CREDIT_CARD" /\ s.source = "local_regex"
<1>1. ASSUME NEW s \in Phones(number)
      PROVE  /\ SpanOk(s) /\ s.start = 0 /\ s.type = "PHONE" /\ s.source = "local_regex"
             /\ s.level = number.hint["PHONE"] /\ s.score = ByLevel(s.level, 70, 80, 90)
  <2>. DEFINE end == IF number.dash THEN 10 ELSE number.digits
  <2>1. s = RegexSpan(number, "PHONE", end, <<70, 80, 90>>)
    BY DEF Phones
  <2>2. end \in Nat \ {0}
    BY WrittenIs
  <2>. HIDE DEF end
  <2>3. QED
    BY <2>1, <2>2, RegexSpanIs
<1>2. ASSUME NEW s \in Cccds(number)
      PROVE  SpanOk(s) /\ s.start = 0 /\ s.type = "CCCD" /\ s.source = "local_regex"
  <2>1. s = RegexSpan(number, "CCCD", 12, <<65, 85, 95>>)
    BY DEF Cccds
  <2>2. QED
    BY <2>1, RegexSpanIs
<1>3. ASSUME NEW s \in TaxIds(number)
      PROVE  /\ SpanOk(s) /\ s.start = 0 /\ s.type = "TAX_ID" /\ s.source = "local_regex"
             /\ s.level = number.hint["TAX_ID"] /\ s.score = ByLevel(s.level, 65, 80, 90)
  <2>1. s = RegexSpan(number, "TAX_ID", Written(number), <<65, 80, 90>>)
    BY DEF TaxIds
  <2>2. Written(number) \in Nat \ {0}
    BY WrittenIs
  <2>3. QED
    BY <2>1, <2>2, RegexSpanIs
<1>4. ASSUME NEW s \in Cards(number)
      PROVE  SpanOk(s) /\ s.start = 0 /\ s.type = "CREDIT_CARD" /\ s.source = "local_regex"
  <2>. DEFINE end == Written(number) + (IF number.spaced THEN 1 ELSE 0)
  <2>1. s = [type |-> "CREDIT_CARD", start |-> 0, end |-> end, score |-> 92,
             source |-> "local_regex", level |-> 0]
    BY DEF Cards, Span
  <2>2. end \in Nat \ {0}
    BY WrittenIs
  <2>. HIDE DEF end
  <2>3. QED
    BY <2>1, <2>2 DEF SpanOk, Maskable
<1>5. QED
  BY <1>1, <1>2, <1>3, <1>4

\* No pattern finds two spans, and together they find finitely many.
LEMMA PatternsFindOne ==
    ASSUME NEW number
    PROVE  /\ \A s, t \in Phones(number) : s = t
           /\ \A s, t \in Cccds(number) : s = t
           /\ \A s, t \in TaxIds(number) : s = t
           /\ \A s, t \in Cards(number) : s = t
           /\ IsFiniteSet(Regex(number))
<1>1. \A x : IsFiniteSet({x}) /\ IsFiniteSet({})
  BY FS_Singleton, FS_EmptySet
<1>2. \E x : Phones(number) = {x} \/ Phones(number) = {}
  BY DEF Phones
<1>3. \E x : Cccds(number) = {x} \/ Cccds(number) = {}
  BY DEF Cccds
<1>4. \E x : TaxIds(number) = {x} \/ TaxIds(number) = {}
  BY DEF TaxIds
<1>5. \E x : Cards(number) = {x} \/ Cards(number) = {}
  BY DEF Cards
<1>6. /\ IsFiniteSet(Phones(number)) /\ IsFiniteSet(Cccds(number))
      /\ IsFiniteSet(TaxIds(number)) /\ IsFiniteSet(Cards(number))
  BY <1>1, <1>2, <1>3, <1>4, <1>5
<1>7. IsFiniteSet(Phones(number) \cup Cccds(number))
  BY <1>6, FS_Union
<1>8. IsFiniteSet(Phones(number) \cup Cccds(number) \cup TaxIds(number))
  BY <1>6, <1>7, FS_Union
<1>9. IsFiniteSet(Regex(number))
  BY <1>6, <1>8, FS_Union DEF Regex
<1>10. QED
  BY <1>2, <1>3, <1>4, <1>5, <1>9

Confidence(number) == Least(99, 60 + 2 * number.digits)

LEMMA SpokenScoreType ==
    ASSUME NEW number, NumberOk(number), NEW level
    PROVE  SpokenScore(Confidence(number), level) \in Int
<1>. DEFINE c == Confidence(number)
<1>1. c \in Int
  BY DEF Confidence, Least, NumberOk
<1>. HIDE DEF c
<1>2. SpokenScore(c, level) \in Int
  BY <1>1 DEF SpokenScore, Least
<1>3. QED
  BY <1>2 DEF c

\* The spoken detector's spans differ in their end only.
LEMMA SpokenAre ==
    ASSUME NEW number, NumberOk(number)
    PROVE  /\ IsFiniteSet(Spoken(number))
           /\ \A s \in Spoken(number) :
                 /\ SpanOk(s) /\ s.start = 0 /\ s.source = "spoken_norm"
                 /\ s.type \in Guess(number) /\ s.type \in {"PHONE", "CCCD", "TAX_ID"}
                 /\ s.level = number.said[s.type]
                 /\ s.score = SpokenScore(Confidence(number), s.level)
           /\ \A s, t \in Spoken(number) : s.end = t.end => s = t
           /\ \A type \in Guess(number) : \E s \in Spoken(number) : s.type = type
<1>. DEFINE F(type, lang) ==
              Span(type, 0, Written(number) + number.tail[lang],
                   SpokenScore(Confidence(number), number.said[type]), "spoken_norm",
                   number.said[type])
<1>1. Spoken(number) = {F(type, lang) : type \in Guess(number), lang \in {"vi", "en"}}
  BY DEF Spoken, Confidence
<1>2. \E g \in {"PHONE", "CCCD", "TAX_ID"} : Guess(number) = {g} \/ Guess(number) = {}
  BY DEF Guess
<1>3. PICK g \in {"PHONE", "CCCD", "TAX_ID"} : Guess(number) = {g} \/ Guess(number) = {}
  BY <1>2
<1>4. ASSUME NEW lang \in {"vi", "en"}, NEW s, s = F(g, lang)
      PROVE  /\ SpanOk(s) /\ s.start = 0 /\ s.source = "spoken_norm" /\ s.type = g
             /\ s.level = number.said[g]
             /\ s.score = SpokenScore(Confidence(number), number.said[g])
             /\ s.end = Written(number) + number.tail[lang]
  <2>. DEFINE score == SpokenScore(Confidence(number), number.said[g])
              end == Written(number) + number.tail[lang]
              level == number.said[g]
  <2>1. s = [type |-> g, start |-> 0, end |-> end, score |-> score,
             source |-> "spoken_norm", level |-> level]
    BY <1>4 DEF Span
  <2>2. score \in Int
    BY SpokenScoreType
  <2>3. end \in Nat \ {0}
    BY WrittenIs
  <2>4. level \in Int
    BY Levels DEF Near
  <2>5. g \in Maskable
    BY DEF Maskable
  <2>. HIDE DEF score, end, level
  <2>6. /\ SpanOk(s) /\ s.start = 0 /\ s.source = "spoken_norm" /\ s.type = g
        /\ s.level = level /\ s.score = score /\ s.end = end
    BY <2>1, <2>2, <2>3, <2>4, <2>5 DEF SpanOk
  <2>7. QED
    BY <2>6 DEF score, end, level
<1>5. ASSUME NEW lang \in {"vi", "en"}, NEW tongue \in {"vi", "en"},
             Written(number) + number.tail[lang] = Written(number) + number.tail[tongue]
      PROVE  F(g, lang) = F(g, tongue)
  BY <1>5
<1>. DEFINE vi == F(g, "vi")
            en == F(g, "en")
<1>6. Spoken(number) = {} \/ Spoken(number) = {vi, en}
  BY <1>1, <1>3
<1>7. Guess(number) = {g} => Spoken(number) = {vi, en}
  BY <1>1
<1>8. Spoken(number) = {} \/ Guess(number) = {g}
  BY <1>1, <1>3
<1>9. /\ SpanOk(vi) /\ vi.start = 0 /\ vi.source = "spoken_norm" /\ vi.type = g
      /\ vi.level = number.said[g]
      /\ vi.score = SpokenScore(Confidence(number), number.said[g])
      /\ vi.end = Written(number) + number.tail["vi"]
  <2>. HIDE DEF F
  <2>1. QED
    BY <1>4
<1>10. /\ SpanOk(en) /\ en.start = 0 /\ en.source = "spoken_norm" /\ en.type = g
       /\ en.level = number.said[g]
       /\ en.score = SpokenScore(Confidence(number), number.said[g])
       /\ en.end = Written(number) + number.tail["en"]
  <2>. HIDE DEF F
  <2>1. QED
    BY <1>4
<1>11. vi.end = en.end => vi = en
  <2>. HIDE DEF F
  <2>1. QED
    BY <1>5, <1>9, <1>10
<1>12. IsFiniteSet({vi, en}) /\ IsFiniteSet({})
  <2>. HIDE DEF vi, en
  <2>1. IsFiniteSet({vi}) /\ IsFiniteSet({en}) /\ IsFiniteSet({})
    BY FS_Singleton, FS_EmptySet
  <2>2. IsFiniteSet({vi} \cup {en})
    BY <2>1, FS_Union
  <2>3. {vi} \cup {en} = {vi, en}
    OBVIOUS
  <2>4. QED
    BY <2>1, <2>2, <2>3
<1>. HIDE DEF F, vi, en
<1>13. QED
  BY <1>3, <1>6, <1>7, <1>8, <1>9, <1>10, <1>11, <1>12

LEMMA FoundIs ==
    ASSUME NEW number, NumberOk(number)
    PROVE  Report(Found(number)) /\ Heads(Found(number))
<1>. DEFINE S == Found(number)
<1>1. \A s \in Regex(number) : /\ SpanOk(s) /\ s.start = 0 /\ s.source = "local_regex"
                               /\ s.type \in {"PHONE", "CCCD", "TAX_ID", "CREDIT_CARD"}
  BY PatternsAre DEF Regex
<1>2. \A s \in Spoken(number) : /\ SpanOk(s) /\ s.start = 0 /\ s.source = "spoken_norm"
                                /\ s.type \in {"PHONE", "CCCD", "TAX_ID", "CREDIT_CARD"}
  BY SpokenAre
<1>3. Heads(S)
  BY <1>1, <1>2 DEF Heads, Found, Maskable
<1>4. IsFiniteSet(S)
  BY PatternsFindOne, SpokenAre, FS_Union DEF Found
<1>5. ASSUME NEW s \in S, NEW t \in S, s # t PROVE Earlier(s, t) \/ Earlier(t, s)
  <2>1. SpanOk(s) /\ SpanOk(t) /\ s.start = 0 /\ t.start = 0
    BY <1>3 DEF Heads
  <2>2. /\ s.end \in Int /\ t.end \in Int /\ s.score \in Int /\ t.score \in Int
        /\ s.start \in Int
    BY <2>1 DEF SpanOk
  <2>3. \/ s.end # t.end
        \/ ReportRank(s.source) # ReportRank(t.source)
        \/ TypePriority(s.type) # TypePriority(t.type)
    <3>1. CASE s \in Regex(number) /\ t \in Regex(number)
      <4>1. s.type # t.type
        <5>1. ASSUME NEW r \in Regex(number)
              PROVE  /\ r.type = "PHONE" => r \in Phones(number)
                     /\ r.type = "CCCD" => r \in Cccds(number)
                     /\ r.type = "TAX_ID" => r \in TaxIds(number)
                     /\ r.type = "CREDIT_CARD" => r \in Cards(number)
          <6>1. CASE r \in Phones(number)
            BY <6>1, PatternsAre
          <6>2. CASE r \in Cccds(number)
            BY <6>2, PatternsAre
          <6>3. CASE r \in TaxIds(number)
            BY <6>3, PatternsAre
          <6>4. CASE r \in Cards(number)
            BY <6>4, PatternsAre
          <6>5. QED
            BY <6>1, <6>2, <6>3, <6>4 DEF Regex
        <5>2. s.type = t.type => s = t
          BY <1>1, <3>1, <5>1, PatternsFindOne
        <5>3. QED
          BY <1>5, <5>2
      <4>2. QED
        BY <1>1, <3>1, <4>1 DEF TypePriority
    <3>2. CASE s \in Spoken(number) /\ t \in Spoken(number)
      BY <1>5, <3>2, SpokenAre
    <3>3. CASE \/ s \in Regex(number) /\ t \in Spoken(number)
               \/ s \in Spoken(number) /\ t \in Regex(number)
      BY <1>1, <1>2, <3>3 DEF ReportRank
    <3>4. QED
      BY <3>1, <3>2, <3>3 DEF Found
  <2>4. /\ ReportRank(s.source) \in Nat /\ ReportRank(t.source) \in Nat
        /\ TypePriority(s.type) \in Nat /\ TypePriority(t.type) \in Nat
    BY SourceRanks, Ranks
  <2>5. QED
    BY <2>1, <2>2, <2>3, <2>4, EarlierIs
<1>6. QED
  BY <1>3, <1>4, <1>5 DEF Report, Heads

\* A number with a card's checksum: whatever else is found of it loses against the card.
LEMMA CardsLead ==
    ASSUME NEW number, NumberOk(number), NEW card \in Cards(number)
    PROVE  Chosen(Merge(Found(number))) = <<card>>
<1>. DEFINE S == Found(number)
<1>1. card \in S /\ SpanOk(card) /\ card.type = "CREDIT_CARD"
  BY PatternsAre DEF Found, Regex
<1>2. ASSUME NEW s \in S, s # card
      PROVE  SpanOk(s) /\ s.type \in {"PHONE", "CCCD", "TAX_ID"}
  <2>1. CASE s \in Cards(number)
    BY <1>2, <2>1, PatternsFindOne
  <2>2. CASE s \in Phones(number) \/ s \in Cccds(number) \/ s \in TaxIds(number)
    BY <2>2, PatternsAre
  <2>3. CASE s \in Spoken(number)
    BY <2>3, SpokenAre
  <2>4. QED
    BY <2>1, <2>2, <2>3 DEF Found, Regex
<1>3. Leads({card}, S)
  BY <1>1, <1>2, CardWins DEF Leads
<1>4. Report(S) /\ Heads(S)
  BY FoundIs
<1>. HIDE DEF S
<1>5. {card} # {} => \E x \in {card} : Chosen(Merge(S)) = <<x>>
  BY <1>3, <1>4, LeaderIsMasked
<1>6. QED
  BY <1>5 DEF S

\* What ten digits may be.
LEMMA TenDigits ==
    ASSUME NEW number, NumberOk(number), number.digits = 10, number.hint = number.said,
           NEW s \in Found(number)
    PROVE  /\ SpanOk(s) /\ s.type \in {"PHONE", "TAX_ID"} /\ s.level = number.hint[s.type]
           /\ s.type = "PHONE" /\ number.hint["TAX_ID"] > 0 => number.zero
           /\ s.type = "PHONE" /\ number.hint["TAX_ID"] > 0 => s.score = ByLevel(s.level, 70, 80, 90)
           /\ s.type = "PHONE" => s.score >= 70
           /\ s.type = "TAX_ID" => \/ s.score = ByLevel(s.level, 65, 80, 90)
                                   \/ s.level > 0 /\ s.score = ByLevel(s.level, 80, 88, 95)
<1>1. number.dash = FALSE
  BY DEF NumberOk
<1>2. Confidence(number) = 80
  BY DEF Confidence, Least
<1>3. Near(number.hint["PHONE"]) /\ Near(number.hint["TAX_ID"])
  BY Levels
<1>4. CASE s \in Phones(number)
  <2>1. /\ SpanOk(s) /\ s.type = "PHONE" /\ s.level = number.hint["PHONE"]
        /\ s.score = ByLevel(s.level, 70, 80, 90)
    BY <1>4, PatternsAre
  <2>2. number.zero
    BY <1>4 DEF Phones
  <2>3. s.score >= 70
    BY <2>1 DEF ByLevel
  <2>4. QED
    BY <2>1, <2>2, <2>3
<1>5. CASE s \in TaxIds(number)
  BY <1>5, PatternsAre
<1>6. CASE s \in Cccds(number) \cup Cards(number)
  BY <1>6 DEF Cccds, Cards
<1>7. CASE s \in Spoken(number)
  <2>1. /\ SpanOk(s) /\ s.type \in Guess(number) /\ s.type \in {"PHONE", "CCCD", "TAX_ID"}
        /\ s.level = number.hint[s.type] /\ s.score = SpokenScore(80, s.level)
    BY <1>2, <1>7, SpokenAre
  <2>2. Guess(number) = IF number.hint["TAX_ID"] > 0 THEN {"TAX_ID"} ELSE {"PHONE"}
    BY DEF Guess
  <2>3. s.level \in {0, 1, 2}
    BY <1>3, <2>1, <2>2 DEF Near
  <2>4. SpokenScore(80, s.level) = ByLevel(s.level, 80, 88, 95)
    BY <2>3 DEF SpokenScore, ByLevel, Least
  <2>5. ByLevel(s.level, 80, 88, 95) >= 70
    BY DEF ByLevel
  <2>6. CASE number.hint["TAX_ID"] > 0
    BY <2>1, <2>2, <2>4, <2>6
  <2>7. CASE ~(number.hint["TAX_ID"] > 0)
    BY <2>1, <2>2, <2>4, <2>5, <2>7
  <2>8. QED
    BY <2>6, <2>7
<1>8. QED
  BY <1>4, <1>5, <1>6, <1>7 DEF Found, Regex

\* Ten digits with a word at a distance both detectors agree on.
LEMMA TenDigitsAre ==
    ASSUME NEW number, NumberOk(number), number.digits = 10, number.hint = number.said,
           NEW tax, tax = number.hint["TAX_ID"], NEW phone, phone = number.hint["PHONE"]
    PROVE  \E x : /\ Chosen(Merge(Found(number))) = <<x>>
                  /\ x.type = "TAX_ID" <=>
                        \/ ~number.zero /\ tax > 0
                        \/ tax > 0 /\ tax >= phone
<1>. DEFINE S == Found(number)
            TaxSpans == {s \in S : s.type = "TAX_ID"}
            PhoneSpans == {s \in S : s.type = "PHONE"}
<1>1. tax \in {0, 1, 2} /\ phone \in {0, 1, 2}
  BY Levels DEF Near
<1>2. \A s \in S : /\ SpanOk(s) /\ s.type \in {"PHONE", "TAX_ID"}
                   /\ s.level = IF s.type = "PHONE" THEN phone ELSE tax
                   /\ s.type = "PHONE" /\ tax > 0 => number.zero
                   /\ s.type = "PHONE" /\ tax > 0 => s.score = ByLevel(phone, 70, 80, 90)
                   /\ s.type = "PHONE" => s.score >= 70
                   /\ s.type = "TAX_ID" => \/ s.score = ByLevel(tax, 65, 80, 90)
                                           \/ tax > 0 /\ s.score = ByLevel(tax, 80, 88, 95)
  BY TenDigits
<1>3. Report(S) /\ Heads(S)
  BY FoundIs
<1>4. TaxIds(number) # {} /\ \A s \in TaxIds(number) : s \in TaxSpans
  <2>1. number.dash = FALSE
    BY DEF NumberOk
  <2>2. TaxIds(number) # {}
    BY <2>1 DEF TaxIds
  <2>3. QED
    BY <2>2, PatternsAre DEF Found, Regex
<1>5. tax = 0 => PhoneSpans # {}
  <2>1. tax = 0 => "PHONE" \in Guess(number)
    BY DEF Guess
  <2>2. QED
    BY <2>1, SpokenAre DEF Found
<1>6. number.zero => PhoneSpans # {}
  <2>1. number.dash = FALSE
    BY DEF NumberOk
  <2>2. number.zero => Phones(number) # {}
    BY <2>1 DEF Phones
  <2>3. QED
    BY <2>2, PatternsAre DEF Found, Regex
<1>7. /\ TaxSpans \subseteq S /\ PhoneSpans \subseteq S
      /\ S \ TaxSpans = PhoneSpans /\ S \ PhoneSpans = TaxSpans
  BY <1>2
<1>8. ASSUME tax > 0, ~number.zero \/ tax >= phone PROVE Leads(TaxSpans, S)
  <2>1. ASSUME NEW s \in TaxSpans, NEW t \in PhoneSpans PROVE Wins(s, t)
    <3>1. /\ SpanOk(s) /\ SpanOk(t) /\ s.type = "TAX_ID" /\ t.type = "PHONE"
          /\ s.level = tax /\ t.level = phone /\ number.zero
          /\ t.score = ByLevel(phone, 70, 80, 90)
          /\ s.score = ByLevel(tax, 65, 80, 90) \/ s.score = ByLevel(tax, 80, 88, 95)
      BY <1>2, <1>8, <2>1
    <3>2. \/ s.score > t.score
          \/ s.score = t.score /\ s.level > t.level
          \/ s.score = t.score /\ s.level = t.level /\ s.type = "TAX_ID"
      BY <1>1, <1>8, <3>1 DEF ByLevel
    <3>3. {s.type, t.type} = {"PHONE", "TAX_ID"}
      BY <3>1
    <3>4. QED
      BY <3>1, <3>2, <3>3, NearerWins
  <2>2. QED
    BY <1>7, <2>1 DEF Leads
<1>9. ASSUME tax = 0 \/ (number.zero /\ tax < phone) PROVE Leads(PhoneSpans, S)
  <2>1. ASSUME NEW s \in PhoneSpans, NEW t \in TaxSpans PROVE Wins(s, t)
    <3>1. /\ SpanOk(s) /\ SpanOk(t) /\ s.type = "PHONE" /\ t.type = "TAX_ID"
          /\ s.level = phone /\ t.level = tax /\ s.score >= 70
          /\ tax > 0 => s.score = ByLevel(phone, 70, 80, 90)
          /\ \/ t.score = ByLevel(tax, 65, 80, 90)
             \/ tax > 0 /\ t.score = ByLevel(tax, 80, 88, 95)
      BY <1>2, <2>1
    <3>2. s.score \in Int /\ t.score \in Int
      BY <3>1 DEF SpanOk
    <3>3. CASE tax = 0
      <4>1. t.score = 65
        BY <3>1, <3>3 DEF ByLevel
      <4>2. s.score > t.score
        BY <3>1, <3>2, <4>1
      <4>3. {s.type, t.type} = {"PHONE", "TAX_ID"}
        BY <3>1
      <4>4. QED
        BY <3>1, <4>2, <4>3, NearerWins
    <3>4. CASE tax > 0 /\ tax < phone
      <4>1. tax = 1 /\ phone = 2
        BY <1>1, <3>4
      <4>2. s.score = 90 /\ (t.score = 80 \/ t.score = 88)
        BY <3>1, <4>1 DEF ByLevel
      <4>3. s.score > t.score
        BY <4>2
      <4>4. {s.type, t.type} = {"PHONE", "TAX_ID"}
        BY <3>1
      <4>5. QED
        BY <3>1, <4>3, <4>4, NearerWins
    <3>5. QED
      BY <1>1, <1>9, <3>3, <3>4
  <2>2. QED
    BY <1>7, <2>1 DEF Leads
<1>. HIDE DEF S, TaxSpans, PhoneSpans
<1>10. CASE tax > 0 /\ (~number.zero \/ tax >= phone)
  <2>1. TaxSpans # {}
    BY <1>4
  <2>2. PICK x \in TaxSpans : Chosen(Merge(S)) = <<x>>
    BY <1>3, <1>8, <1>10, <2>1, LeaderIsMasked
  <2>3. x.type = "TAX_ID"
    BY DEF TaxSpans
  <2>4. QED
    BY <1>10, <2>2, <2>3 DEF S
<1>11. CASE tax = 0 \/ (number.zero /\ tax < phone)
  <2>1. PhoneSpans # {}
    BY <1>5, <1>6, <1>11
  <2>2. PICK x \in PhoneSpans : Chosen(Merge(S)) = <<x>>
    BY <1>3, <1>9, <1>11, <2>1, LeaderIsMasked
  <2>3. x.type # "TAX_ID"
    BY DEF PhoneSpans
  <2>4. QED
    BY <1>1, <1>11, <2>2, <2>3 DEF S
<1>12. QED
  BY <1>1, <1>10, <1>11 DEF NumberOk

\* However many digits a number has and wherever words stand: what the detectors find of
\* it is masked as one span, a card as a card, and ten digits as what the nearest word says.
THEOREM NumbersAreMasked ==
    ASSUME NEW number, NumberOk(number) PROVE NumberMasked(number)
<1>. DEFINE found == Found(number)
            chosen == Chosen(Merge(found))
<1>1. found # {} => chosen # <<>>
  <2>. SUFFICES ASSUME found # {} PROVE chosen # <<>>
    OBVIOUS
  <2>1. Leads(found, found)
    BY DEF Leads
  <2>2. Report(found) /\ Heads(found)
    BY FoundIs
  <2>. HIDE DEF found
  <2>3. \E x \in found : chosen = <<x>>
    BY <2>1, <2>2, LeaderIsMasked
  <2>4. QED
    BY <2>3
<1>2. \A card \in Cards(number) : chosen = <<card>>
  BY CardsLead
<1>3. ASSUME number.digits = 10, number.hint = number.said
      PROVE  chosen[1].type = "TAX_ID" <=>
                \/ ~number.zero /\ number.hint["TAX_ID"] > 0
                \/ /\ number.hint["TAX_ID"] > 0
                   /\ number.hint["TAX_ID"] >= number.hint["PHONE"]
  <2>1. PICK x : /\ chosen = <<x>>
                 /\ x.type = "TAX_ID" <=>
                       \/ ~number.zero /\ number.hint["TAX_ID"] > 0
                       \/ /\ number.hint["TAX_ID"] > 0
                          /\ number.hint["TAX_ID"] >= number.hint["PHONE"]
    BY <1>3, TenDigitsAre
  <2>. HIDE DEF chosen
  <2>2. chosen[1] = x
    BY <2>1
  <2>3. QED
    BY <2>1, <2>2
<1>4. QED
  BY <1>1, <1>2, <1>3 DEF NumberMasked, Found

\* The nearest name wins, a card is masked whole, and no number found stays unmasked
\* (NearestNameWins).
THEOREM NearestNames == Spec => []NearestNameWins
<1>1. InputsInv => NearestNameWins
  BY NumbersAreMasked DEF InputsInv, NearestNameWins
<1>2. Init => CallInv /\ InputsInv
  BY CallsStart, InputsStart
<1>3. CallInv /\ InputsInv /\ [Next]_call => CallInv' /\ InputsInv'
  BY CallsKept, InputsKept
<1>4. QED
  BY <1>1, <1>2, <1>3, PTL DEF Spec
=============================================================================
