-------------------------- MODULE ScanDecisionProofs --------------------------
(***************************************************************************)
(* What holds of the decision of a scan for every set of rules, every table   *)
(* of their actions and priorities and every number of rule changes.         *)
(*                                                                         *)
(* The order of the matches is total, so that a finite set of them has a      *)
(* first one; on that rests what the resolver returns.  A rule that is in     *)
(* force throughout and outranks all others is then the first of the first    *)
(* evaluation already, and ends the scan there.                              *)
(***************************************************************************)
EXTENDS ScanDecision, FiniteSetTheorems, WellFoundedInduction, TLAPS

Top(M, r) == r \in M /\ \A q \in M : Before(r, q)

LEMMA TableType ==
    ASSUME table \in Tables, NEW r \in Rules
    PROVE  /\ Action(r) \in RuleActions /\ table[r].priority \in Nat
           /\ table[r].key \in Keys /\ table[r].own \in BOOLEAN /\ r \in Nat
  BY TablesAssumption DEF Action, Rule

LEMMA BeforeIsTotal ==
    ASSUME table \in Tables, NEW a \in Rules, NEW b \in Rules, NEW c \in Rules
    PROVE  /\ Before(a, a)
           /\ Before(a, b) \/ Before(b, a)
           /\ Before(a, b) /\ Before(b, a) => a = b
           /\ Before(a, b) /\ Before(b, c) => Before(a, c)
  BY TableType DEF Before

\* Every finite set of rules has a first one: a smallest set without would have
\* one, namely the first of the others or the one left out.
LEMMA TopExists ==
    ASSUME table \in Tables, NEW M \in SUBSET Rules, M # {}
    PROVE  \E r \in M : Top(M, r)
<1>. DEFINE Bad == {T \in SUBSET Rules : T # {} /\ ~\E r \in T : Top(T, r)}
            R == StrictSubsetOrdering(Rules)
<1>1. SUFFICES ASSUME M \in Bad PROVE FALSE
  OBVIOUS
<1>2. Bad \subseteq FiniteSubsetsOf(Rules)
  BY TablesAssumption, FS_FiniteSubsetsOfFinite
<1>3. IsWellFoundedOn(R, FiniteSubsetsOf(Rules))
  BY FS_StrictSubsetOrderingWellFounded
<1>. HIDE DEF R
<1>4. \E T \in Bad : \A U \in Bad : <<U, T>> \notin R
  <2>. HIDE DEF Bad
  <2>1. QED
    BY <1>1, <1>2, <1>3, WFMin
<1>5. PICK T \in Bad : \A U \in Bad : <<U, T>> \notin R
  BY <1>4
<1>6. PICK x \in T : x \in Rules
  BY <1>5
<1>7. \A q \in T : q \in Rules
  BY <1>5
<1>. DEFINE U == T \ {x}
<1>8. <<U, T>> \in R
  BY <1>5, <1>6 DEF R, StrictSubsetOrdering
<1>9. U \notin Bad /\ U \in SUBSET Rules
  BY <1>5, <1>8
<1>10. CASE U = {}
  <2>1. Top(T, x)
    BY <1>6, <1>7, <1>10, BeforeIsTotal DEF Top
  <2>2. QED
    BY <1>5, <1>6, <2>1
<1>11. CASE U # {}
  <2>1. PICK y \in U : Top(U, y)
    BY <1>9, <1>11
  <2>2. CASE Before(y, x)
    <3>1. Top(T, y)
      BY <2>1, <2>2 DEF Top
    <3>2. QED
      BY <1>5, <2>1, <3>1
  <2>3. CASE Before(x, y)
    <3>1. \A q \in T : Before(x, q)
      BY <1>6, <1>7, <2>1, <2>3, BeforeIsTotal DEF Top
    <3>2. QED
      BY <1>5, <1>6, <3>1 DEF Top
  <2>4. QED
    BY <1>6, <1>7, <2>1, <2>2, <2>3, BeforeIsTotal
<1>12. QED
  BY <1>10, <1>11

LEMMA FirstIsTop ==
    ASSUME table \in Tables, NEW M \in SUBSET Rules, M # {}
    PROVE  Top(M, First(M)) /\ \A r : Top(M, r) => r = First(M)
<1>1. \E r \in M : \A q \in M : Before(r, q)
  BY TopExists DEF Top
<1>2. Top(M, First(M))
  BY <1>1 DEF First, Top
<1>3. ASSUME NEW r, Top(M, r) PROVE r = First(M)
  BY <1>2, <1>3, BeforeIsTotal DEF Top
<1>4. QED
  BY <1>2, <1>3

\* No name is the one the resolver looks for: the first match decides.
LEMMA NoneCalled ==
    ASSUME table \in Tables, NEW M \in SUBSET Rules, NEW name \in RuleActions
    PROVE  Called(M, name) = {}
  BY TableType DEF Called, Spelled, RuleActions

LEMMA FirstDecides ==
    ASSUME table \in Tables, NEW M \in SUBSET Rules
    PROVE  /\ Resolve(M) \in RuleActions
           /\ Resolve(M) # "allow" => M # {}
           /\ M # {} => Resolve(M) = Action(First(M)) /\ First(M) \in M
           /\ \A action : Compact(M, action) = M
<1>1. Called(M, "block") = {} /\ Called(M, "mask") = {}
  BY NoneCalled DEF RuleActions
<1>2. Chosen(M) = First(M) /\ \A action : Compact(M, action) = M
  BY <1>1 DEF Chosen, Compact
<1>3. M # {} => First(M) \in M
  BY FirstIsTop DEF Top
<1>4. M # {} => Action(First(M)) \in RuleActions
  BY <1>3, TableType
<1>5. QED
  BY <1>2, <1>3, <1>4 DEF Resolve, RuleActions

-----------------------------------------------------------------------------
LEMMA EvaluateIs ==
    ASSUME NEW rules \in SUBSET Rules, NEW decision
    PROVE  /\ Evaluate(rules, decision) \in SUBSET rules
           /\ \A r \in Evaluate(rules, decision) : Meets(r, decision)
  BY DEF Evaluate

\* A rule of the first evaluation has no RAG key, and the text meets it.
LEMMA MetByText ==
    ASSUME NEW r, NEW decision, Meets(r, decision), ~RagKey(r)
    PROVE  r \in hit
  BY DEF Meets, RagKey

\* Who outranks all others and is in force from the start has ended the scan at
\* the first evaluation.
SettledAtOnce ==
    \A r \in steady \cap hit :
        stage # "local" /\ Action(r) # "allow" /\ Outranks(r)
            => stage = "done" /\ final = Action(r)

Asking == {"local", "assist", "verify", "toggles", "rag"}

SInv ==
    /\ TypeOK
    /\ \A r \in hit : ~RagKey(r)
    /\ steady \subseteq view /\ view \subseteq ever /\ runtime \subseteq ever
    /\ stage \in Asking => rag = "SKIPPED"
    /\ Grounded
    /\ OnlyAskedTogglesAct
    /\ SettledAtOnce

LEMMA ScanStarts == Init => SInv
<1>. SUFFICES ASSUME Init PROVE SInv
  OBVIOUS
<1>1. TypeOK
  BY TablesAssumption DEF Init, TypeOK, RuleActions
<1>2. QED
  BY <1>1 DEF Init, SInv, Asking, Grounded, OnlyAskedTogglesAct, SettledAtOnce

\* What the text is does not change, nor what the operators say of it.
LEMMA TextKept ==
    ASSUME UNCHANGED text
    PROVE  /\ \A r : Action(r)' = Action(r) /\ (RagKey(r)' <=> RagKey(r))
           /\ \A a, b : Before(a, b)' <=> Before(a, b)
           /\ hit' = hit /\ table' = table
  BY DEF text, Action, RagKey, Before

\* Once the scan is beyond its first evaluation, to outrank more rules and to be
\* in force longer is only harder.
LEMMA SettledStays ==
    ASSUME SInv, UNCHANGED text, steady' \subseteq steady, ever \subseteq ever',
           stage # "local", stage = "done" => stage' = "done" /\ final' = final
    PROVE  SettledAtOnce'
<1>1. ASSUME NEW r \in steady' \cap hit', Action(r)' # "allow", Outranks(r)'
      PROVE  stage' = "done" /\ final' = Action(r)'
  <2>1. r \in steady \cap hit /\ Action(r) # "allow" /\ Action(r)' = Action(r)
    BY <1>1, TextKept
  <2>2. Outranks(r)
    BY <1>1, TextKept DEF Outranks, Rivals, text
  <2>3. QED
    BY <2>1, <2>2 DEF SInv, SettledAtOnce
<1>2. QED
  BY <1>1 DEF SettledAtOnce

LEMMA ReturnIs ==
    ASSUME SInv, NEW M \in SUBSET Rules, NEW action, Return(M, action)
    PROVE  stage' = "done" /\ matches' = M /\ final' = action
  BY FirstDecides DEF Return, SInv, TypeOK

LEMMA LocalKeeps ==
    ASSUME SInv, EvaluateLocal
    PROVE  SInv'
<1>. DEFINE M == {r \in Evaluate(view, "SKIPPED") : ~RagKey(r)}
<1>1. /\ UNCHANGED <<text, view, changes, runtime, asked, toggles, rag, enforced, steady, ever>>
      /\ stage = "local"
  BY DEF EvaluateLocal
<1>2. M \in SUBSET Rules /\ M \subseteq view
  BY EvaluateIs DEF SInv, TypeOK
<1>3. M \subseteq hit
  BY EvaluateIs, MetByText DEF SInv, TypeOK
<1>4. \/ /\ Resolve(M) # "allow"
         /\ stage' = "done" /\ matches' = M /\ final' = Resolve(M) /\ local' = local
      \/ /\ Resolve(M) = "allow"
         /\ stage' = "assist" /\ local' = M /\ UNCHANGED <<matches, final>>
  <2>. HIDE DEF M
  <2>1. CASE Settled(Resolve(M))
    <3>1. Return(M, Resolve(M)) /\ local' = local
      BY <2>1 DEF EvaluateLocal, M
    <3>2. QED
      BY <1>2, <2>1, <3>1, ReturnIs DEF Settled
  <2>2. CASE ~Settled(Resolve(M))
    BY <2>2 DEF EvaluateLocal, Settled, M
  <2>3. QED
    BY <2>1, <2>2
<1>5. \A r \in steady \cap hit :
         Action(r) # "allow" /\ Outranks(r) => Resolve(M) = Action(r)
  <2>1. SUFFICES ASSUME NEW r \in steady \cap hit, Action(r) # "allow", Outranks(r)
                 PROVE  Resolve(M) = Action(r)
    OBVIOUS
  <2>2. r \in view /\ Meets(r, "SKIPPED") /\ ~RagKey(r)
    BY DEF SInv, Meets, RagKey
  <2>3. \A q \in view : Meets(q, "SKIPPED") /\ q # r => (q \in hit \/ RagKey(q)) /\ q \in ever
    BY MetByText DEF SInv
  <2>4. r \in M
    <3>1. table[r].own \/ \A q \in view : Meets(q, "SKIPPED") => ~table[q].own
      <4>1. ASSUME NEW q \in view, Meets(q, "SKIPPED"), table[q].own, ~table[r].own
            PROVE  FALSE
        BY <2>1, <2>3, <4>1 DEF Outranks, Rivals
      <4>2. QED
        BY <4>1
    <3>2. QED
      BY <2>2, <3>1 DEF Evaluate
  <2>5. \A q \in M : table[q].own = table[r].own
    <3>1. \A q \in M : q \in Rules /\ table[q].own \in BOOLEAN
      BY <1>2, TableType DEF SInv, TypeOK
    <3>2. \A q \in M : table[r].own => table[q].own
      BY <2>2 DEF Evaluate
    <3>3. \A q \in M : table[q].own => table[r].own
      BY <2>1, <2>3, EvaluateIs, <1>2 DEF Outranks, Rivals, SInv, TypeOK
    <3>4. QED
      BY <2>4, <3>1, <3>2, <3>3
  <2>6. \A q \in M : Before(r, q)
    <3>1. \A q \in M : q # r => Before(r, q)
      BY <1>3, <2>1, <2>5, <1>2 DEF Outranks, Rivals, SInv
    <3>2. Before(r, r)
      BY <1>2, <2>4, BeforeIsTotal DEF SInv, TypeOK
    <3>3. QED
      BY <3>1, <3>2
  <2>7. r = First(M)
    BY <1>2, <2>4, <2>6, FirstIsTop DEF Top, SInv, TypeOK
  <2>8. QED
    BY <1>2, <2>4, <2>7, FirstDecides DEF SInv, TypeOK
<1>. HIDE DEF M
<1>6. TypeOK'
  BY <1>1, <1>2, <1>4, FirstDecides DEF SInv, TypeOK, text
<1>7. SettledAtOnce'
  <2>1. ASSUME NEW r \in steady' \cap hit', Action(r)' # "allow", Outranks(r)'
        PROVE  stage' = "done" /\ final' = Action(r)'
    <3>1. r \in steady \cap hit /\ Action(r) # "allow" /\ Action(r)' = Action(r)
      BY <1>1, <2>1, TextKept
    <3>2. Outranks(r)
      BY <1>1, <2>1, TextKept DEF Outranks, Rivals, text
    <3>3. QED
      BY <1>4, <1>5, <3>1, <3>2
  <2>2. QED
    BY <2>1 DEF SettledAtOnce
<1>8. Grounded'
  <2>1. ASSUME stage' = "done", final' # "allow"
        PROVE  \E r \in matches' : Action(r)' = final' /\ r \in ever' /\ Evidence(r)'
    <3>1. Resolve(M) # "allow" /\ matches' = M /\ final' = Resolve(M)
      BY <1>4, <2>1
    <3>2. First(M) \in M /\ Action(First(M)) = final'
      BY <1>2, <3>1, FirstDecides DEF SInv, TypeOK
    <3>3. PICK f \in M : Action(f) = final'
      BY <3>2
    <3>4. f \in ever' /\ f \in hit' /\ Action(f)' = final'
      BY <1>1, <1>2, <1>3, <3>3, TextKept DEF SInv
    <3>5. QED
      BY <3>1, <3>4 DEF Evidence
  <2>2. QED
    BY <2>1 DEF Grounded
<1>9. OnlyAskedTogglesAct'
  BY <1>1 DEF SInv, Asking, OnlyAskedTogglesAct
<1>10. QED
  BY <1>1, <1>4, <1>6, <1>7, <1>8, <1>9, TextKept DEF SInv, Asking

LEMMA VerifyKeeps ==
    ASSUME SInv, VerifyAnswers
    PROVE  SInv'
<1>1. /\ UNCHANGED <<text, view, changes, local, runtime, asked, toggles, rag, steady, ever>>
      /\ stage = "verify"
  BY DEF VerifyAnswers
<1>2. SettledAtOnce'
  BY <1>1, SettledStays DEF text
<1>3. OnlyAskedTogglesAct'
  BY <1>1 DEF SInv, OnlyAskedTogglesAct, Asking
<1>4. CASE Enforceable(asked) /\ Return({asked}, "block") /\ enforced' = TRUE
  <2>1. asked \in runtime /\ asked \in Rules /\ asked \in ever /\ Action(asked) = "block"
    BY <1>4 DEF Enforceable, SInv, TypeOK
  <2>2. stage' = "done" /\ matches' = {asked} /\ final' = "block"
    BY <1>4, <2>1, ReturnIs
  <2>3. TypeOK'
    BY <1>1, <1>4, <2>1, <2>2 DEF SInv, TypeOK, text, RuleActions
  <2>4. Grounded'
    BY <1>1, <1>4, <2>1, <2>2, TextKept DEF Grounded, Evidence
  <2>5. QED
    BY <1>1, <1>2, <1>3, <2>2, <2>3, <2>4, TextKept DEF SInv, Asking
<1>5. CASE stage' = "toggles" /\ UNCHANGED result
  <2>1. TypeOK'
    BY <1>1, <1>5 DEF SInv, TypeOK, text, result
  <2>2. Grounded'
    BY <1>5 DEF Grounded
  <2>3. QED
    BY <1>1, <1>2, <1>3, <1>5, <2>1, <2>2, TextKept DEF SInv, Asking
<1>6. QED
  BY <1>4, <1>5 DEF VerifyAnswers

\* The steps on the way, which neither return nor ask the second model.
LEMMA WayKeeps ==
    ASSUME SInv, Assist \/ ReadToggles \/ RagAnswers
    PROVE  SInv'
<1>1. /\ UNCHANGED <<text, view, changes, local, result, steady, ever>>
      /\ stage \in {"assist", "toggles", "rag"}
      /\ stage' \in {"verify", "toggles", "rag", "evaluate"}
  BY DEF Assist, ReadToggles, RagAnswers
<1>2. SettledAtOnce'
  BY <1>1, SettledStays DEF text
<1>3. Grounded'
  BY <1>1 DEF Grounded
<1>4. CASE Assist
  <2>1. UNCHANGED <<toggles, rag>> /\ runtime' = view /\ asked' \in Rules \cup {Nobody}
    BY <1>4 DEF Assist, SInv, TypeOK
  <2>2. TypeOK'
    BY <1>1, <2>1 DEF SInv, TypeOK, text, result
  <2>3. OnlyAskedTogglesAct'
    BY <1>1, <2>1 DEF SInv, OnlyAskedTogglesAct, Asking
  <2>4. QED
    BY <1>1, <1>2, <1>3, <2>1, <2>2, <2>3, TextKept DEF SInv, Asking
<1>5. CASE ReadToggles
  <2>1. /\ UNCHANGED <<runtime, asked, rag>> /\ toggles' \subseteq Rules
        /\ rag = "SKIPPED"
    BY <1>1, <1>5 DEF ReadToggles, SInv, TypeOK, Asking
  <2>2. TypeOK'
    BY <1>1, <2>1 DEF SInv, TypeOK, text, result
  <2>3. OnlyAskedTogglesAct'
    BY <2>1 DEF OnlyAskedTogglesAct
  <2>4. QED
    BY <1>1, <1>2, <1>3, <2>1, <2>2, <2>3, TextKept DEF SInv, Asking
<1>6. CASE RagAnswers
  <2>1. UNCHANGED <<runtime, asked, toggles>> /\ stage' = "evaluate"
    BY <1>6 DEF RagAnswers
  <2>2. rag' = "ALLOW" \/ \E raw \in {"ALLOW", "MASK", "BLOCK"} : rag' = Effective(raw)
    BY <1>6 DEF RagAnswers
  <2>3. /\ rag' \in {"ALLOW", "MASK", "BLOCK"}
        /\ rag' = "BLOCK" => \E r \in toggles : table[r].key = "ragBlock"
        /\ rag' = "MASK" => \E r \in toggles : table[r].key = "ragMask"
    <3>1. ASSUME NEW raw \in {"ALLOW", "MASK", "BLOCK"}, rag' = Effective(raw)
          PROVE  /\ rag' \in {"ALLOW", "MASK", "BLOCK"}
                 /\ rag' = "BLOCK" => \E r \in toggles : table[r].key = "ragBlock"
                 /\ rag' = "MASK" => \E r \in toggles : table[r].key = "ragMask"
      BY <3>1 DEF Effective
    <3>2. QED
      BY <2>2, <3>1
  <2>4. TypeOK'
    BY <1>1, <2>1, <2>3 DEF SInv, TypeOK, text, result
  <2>5. OnlyAskedTogglesAct'
    BY <1>1, <2>1, <2>3 DEF OnlyAskedTogglesAct, text
  <2>6. QED
    BY <1>1, <1>2, <1>3, <2>1, <2>4, <2>5, TextKept DEF SInv, Asking
<1>7. QED
  BY <1>4, <1>5, <1>6

LEMMA EvaluateKeeps ==
    ASSUME SInv, EvaluateAll
    PROVE  SInv'
<1>. DEFINE M == Evaluate(view, rag)
<1>1. /\ UNCHANGED <<text, view, changes, local, runtime, asked, toggles, rag, enforced, steady, ever>>
      /\ stage = "evaluate" /\ Return(M, Resolve(M))
  BY DEF EvaluateAll
<1>2. M \in SUBSET Rules /\ M \subseteq view /\ \A r \in M : Meets(r, rag)
  BY EvaluateIs DEF SInv, TypeOK
<1>. HIDE DEF M
<1>3. stage' = "done" /\ matches' = M /\ final' = Resolve(M)
  BY <1>1, <1>2, ReturnIs
<1>4. SettledAtOnce'
  BY <1>1, SettledStays DEF text
<1>5. OnlyAskedTogglesAct'
  BY <1>1 DEF SInv, OnlyAskedTogglesAct, text
<1>6. TypeOK'
  BY <1>1, <1>2, <1>3, FirstDecides DEF SInv, TypeOK, text
<1>7. Grounded'
  <2>1. ASSUME final' # "allow"
        PROVE  \E r \in matches' : Action(r)' = final' /\ r \in ever' /\ Evidence(r)'
    <3>1. PICK f \in M : Action(f) = final'
      BY <1>2, <1>3, <2>1, FirstDecides DEF SInv, TypeOK
    <3>2. f \in ever' /\ Action(f)' = final'
      BY <1>1, <1>2, <3>1, TextKept DEF SInv
    <3>3. Meets(f, rag)
      BY <1>2, <3>1
    <3>4. Evidence(f)'
      BY <1>1, <3>3 DEF Meets, Evidence, text
    <3>5. QED
      BY <1>3, <3>1, <3>2, <3>4
  <2>2. QED
    BY <2>1 DEF Grounded
<1>8. QED
  BY <1>1, <1>3, <1>4, <1>5, <1>6, <1>7, TextKept DEF SInv, Asking

LEMMA ChangeKeeps ==
    ASSUME SInv, RulesChange
    PROVE  SInv'
<1>1. /\ UNCHANGED <<text, stage, local, runtime, asked, toggles, rag, result>>
      /\ stage # "done"
      /\ view' \subseteq Rules /\ changes' \in Nat
      /\ steady' = steady \cap view' /\ ever' = ever \cup view'
  BY DEF RulesChange, SInv, TypeOK
<1>2. TypeOK'
  BY <1>1 DEF SInv, TypeOK, text, result
<1>3. SettledAtOnce'
  <2>1. CASE stage = "local"
    BY <1>1, <2>1 DEF SettledAtOnce
  <2>2. CASE stage # "local"
    BY <1>1, <2>2, SettledStays
  <2>3. QED
    BY <2>1, <2>2
<1>4. Grounded' /\ OnlyAskedTogglesAct'
  BY <1>1 DEF SInv, Grounded, OnlyAskedTogglesAct, text
<1>5. QED
  BY <1>1, <1>2, <1>3, <1>4, TextKept DEF SInv, Asking

LEMMA ScanKept == SInv /\ [Next]_vars => SInv'
<1>. SUFFICES ASSUME SInv, [Next]_vars PROVE SInv'
  OBVIOUS
<1>1. CASE UNCHANGED vars
  <2>1. UNCHANGED <<text, view, changes, stage, local, runtime, asked, toggles, rag,
                    result, steady, ever>>
    BY <1>1 DEF vars
  <2>2. TypeOK'
    BY <2>1 DEF SInv, TypeOK, text, result
  <2>3. SettledAtOnce'
    <3>1. CASE stage = "local"
      BY <2>1, <3>1 DEF SettledAtOnce
    <3>2. CASE stage # "local"
      BY <2>1, <3>2, SettledStays DEF result
    <3>3. QED
      BY <3>1, <3>2
  <2>4. OnlyAskedTogglesAct'
    BY <2>1 DEF SInv, OnlyAskedTogglesAct, text
  <2>5. Grounded'
    BY <2>1, TextKept DEF SInv, Grounded, Evidence, text, result
  <2>6. QED
    BY <2>1, <2>2, <2>3, <2>4, <2>5, TextKept DEF SInv, Asking
<1>2. QED
  BY <1>1, LocalKeeps, WayKeeps, VerifyKeeps, EvaluateKeeps, ChangeKeeps DEF Next, Done

LEMMA ScanHolds == Spec => []SInv
  BY ScanStarts, ScanKept, PTL DEF Spec

\* Every variable of a scan keeps its shape; in particular the final action is one
\* of a rule or to allow, whatever set of rules matches.
THEOREM ScanTypes == Spec => []TypeOK
<1>1. SInv => TypeOK
  BY DEF SInv
<1>2. QED
  BY <1>1, ScanHolds, PTL

\* A text is masked, blocked or warned about only for a stored match of that action
\* that was in force and has evidence.
THEOREM DecisionsAreGrounded == Spec => []Grounded
<1>1. SInv => Grounded
  BY DEF SInv
<1>2. QED
  BY <1>1, ScanHolds, PTL

\* RAG acts only through a toggle that was on when it was considered.
THEOREM TogglesAreAsked == Spec => []OnlyAskedTogglesAct
<1>1. SInv => OnlyAskedTogglesAct
  BY DEF SInv
<1>2. QED
  BY <1>1, ScanHolds, PTL

\* A block rule, or a mask rule with no block rule beside it, that outranks all
\* others and is in force throughout decides, whatever the models answer and
\* however the others change.  (The proof gives more, SettledAtOnce: priority
\* decides even against a block rule, which is what BlockWins denies.)
THEOREM SteadyTopWins == Spec => []SteadyTopDecides
<1>1. SInv => SteadyTopDecides
  BY DEF SInv, SettledAtOnce, SteadyTopDecides, Undisputed
<1>2. QED
  BY <1>1, ScanHolds, PTL
=============================================================================
