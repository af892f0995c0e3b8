---------------------------- MODULE ScanDecision ----------------------------
(***************************************************************************)
(* ScanEngineLocal.scan: how one text comes to its final action.  A first  *)
(* evaluation of the rules without the RAG ones ends the scan unless it     *)
(* allows the text; then a model may be asked to confirm one rule (semantic *)
(* verification) and, behind two toggles that are themselves rules, to      *)
(* judge the text (RAG); then all rules are evaluated again.                *)
(*                                                                         *)
(* Each of these steps calls load_rules anew, and the two questions to the  *)
(* models are awaits: the rules may change under the scan.  What the        *)
(* detectors find in the text is data, chosen at the start.                 *)
(***************************************************************************)
EXTENDS Naturals, FiniteSets

CONSTANTS
    Rules,          \* numbered as load_rules lists rules of equal priority
    Tables,         \* the rule tables considered: what each rule is
    MaxChanges,     \* how often the rules change during the scan
    Nobody          \* no rule

RuleActions == {"allow", "mask", "block", "warn"}
SecDecisions == {"ALLOW", "REVIEW", "BLOCK"}

\* The stable keys the code singles out: MASK_ENTITY_KEYS, the two RAG
\* toggles, and all others.
Keys == {"pii", "ragBlock", "ragMask", "other"}

Rule == [action: RuleActions, priority: Nat, own: BOOLEAN, key: Keys]

\* load_rules answers with a list: there are finitely many rules.
ASSUME TablesAssumption ==
    /\ Rules \subseteq Nat /\ IsFiniteSet(Rules)
    /\ Tables \subseteq [Rules -> Rule]
    /\ Nobody \notin Rules
    /\ MaxChanges \in Nat

VARIABLES
    table,      \* what each rule is
    view,       \* the rules load_rules answers with
    changes,
    \* the text, as the detectors see it
    hit,        \* the rules whose conditions it meets, RAG rules excepted
    sec,        \* the decision of the injection detector
    gate,       \* _should_call_rag
    simple,     \* _is_simple_pii_only
    \* the scan
    stage,
    local,      \* phase1_matches
    runtime,    \* runtime_rules
    asked,      \* the rule the verifier is asked about
    toggles,    \* the RAG rules that were on when RAG was considered
    rag,        \* what signals["rag"] says
    enforced,   \* the verifier's answer decided
    matches,
    final,
    \* history
    steady,     \* the rules in the view throughout the scan
    ever        \* the rules in the view at some time during the scan

text == <<table, hit, sec, gate, simple>>
result == <<matches, final, enforced>>
vars == <<text, view, changes, stage, local, runtime, asked, toggles, rag,
          result, steady, ever>>

Action(r) == table[r].action
RagKey(r) == table[r].key \in {"ragBlock", "ragMask"}

Init ==
    /\ table \in Tables
    /\ view \in SUBSET Rules
    /\ hit \in SUBSET {r \in Rules : ~RagKey(r)}
    /\ sec \in SecDecisions
    /\ gate \in BOOLEAN
    /\ sec = "BLOCK" => ~gate
    /\ sec = "REVIEW" => gate
    /\ simple \in BOOLEAN
    /\ changes = 0
    /\ stage = "local"
    /\ local = {} /\ runtime = {} /\ asked = Nobody /\ toggles = {}
    /\ rag = "SKIPPED" /\ enforced = FALSE
    /\ matches = {} /\ final = "allow"
    /\ steady = view /\ ever = view

-----------------------------------------------------------------------------
(* Evaluating, resolving and compacting.                                   *)

\* _match_conditions, on the signals of the text and the RAG decision.
Meets(r, decision) ==
    CASE table[r].key = "ragBlock" -> decision = "BLOCK"
      [] table[r].key = "ragMask"  -> decision = "MASK"
      [] OTHER                     -> r \in hit

\* RuleEngine.evaluate: matches of the rule set's own rules shadow the global
\* ones.
Evaluate(rules, decision) ==
    LET met == {r \in rules : Meets(r, decision)}
        own == {r \in met : table[r].own}
    IN  IF own # {} THEN own ELSE met

\* The order of matches_sorted: by priority, and as listed when equal.
Before(a, b) ==
    \/ table[a].priority > table[b].priority
    \/ table[a].priority = table[b].priority /\ a <= b

First(M) == CHOOSE r \in M : \A q \in M : Before(r, q)

\* str(m.action).lower(): RuleAction mixes in str, but str() of a member is
\* still "RuleAction.block".
Spelled == [allow |-> "ruleaction.allow", mask |-> "ruleaction.mask",
            block |-> "ruleaction.block", warn |-> "ruleaction.warn"]

Called(M, name) == {r \in M : Spelled[Action(r)] = name}

\* DecisionResolver.resolve: the match that decides.
Chosen(M) ==
    CASE Called(M, "block") # {} -> First(Called(M, "block"))
      [] Called(M, "block") = {} /\ Called(M, "mask") # {}
                                 -> First(Called(M, "mask"))
      [] OTHER                   -> First(M)

Resolve(M) == IF M = {} THEN "allow" ELSE Action(Chosen(M))

\* compact_matches
Compact(M, action) ==
    LET masks == Called(M, "mask")
        pii == {r \in masks : table[r].key = "pii"}
        winner == First(IF pii # {} THEN pii ELSE masks)
    IN  IF action # "mask" \/ masks = {} THEN M
                                         ELSE (M \ masks) \cup {winner}

Return(M, action) ==
    /\ stage' = "done"
    /\ matches' = Compact(M, action)
    /\ final' = action

-----------------------------------------------------------------------------
(* The scan.                                                               *)

\* Mutant: only a block ends the scan early.
SettledByBlock(action) == action = "block"

\* if _action_name(phase1_decision.final_action) != "allow"
Settled(action) == action # "allow"

\* Phase 1: all but the RAG rules; the RAG signal reads SKIPPED.
EvaluateLocal ==
    /\ stage = "local"
    /\ LET M == {r \in Evaluate(view, "SKIPPED") : ~RagKey(r)} IN
       IF Settled(Resolve(M))
       THEN Return(M, Resolve(M)) /\ UNCHANGED local
       ELSE /\ local' = M
            /\ stage' = "assist"
            /\ UNCHANGED <<matches, final>>
    /\ UNCHANGED <<text, view, changes, runtime, asked, toggles, rag,
                   enforced, steady, ever>>

\* The rules are loaded again; the embeddings may point at one of them with
\* enough confidence to ask the verifier.
Assist ==
    /\ stage = "assist"
    /\ runtime' = view
    /\ \/ /\ asked' \in {r \in view : ~RagKey(r)}
          /\ stage' = "verify"
       \/ /\ stage' = "toggles"
          /\ UNCHANGED asked
    /\ UNCHANGED <<text, view, changes, local, toggles, rag, result,
                   steady, ever>>

\* Mutant: any rule that passed is enforced.
EnforceableAny(r) == r \in runtime

\* Only a confirmed rule that blocks is enforced.
Enforceable(r) == r \in runtime /\ Action(r) = "block"

\* A confident PASS on an enforceable rule blocks; FAIL, UNSURE, a timeout, an
\* unreadable answer or no material to ask about do not.
VerifyAnswers ==
    /\ stage = "verify"
    /\ \/ /\ Enforceable(asked)
          /\ Return({asked}, "block")
          /\ enforced' = TRUE
       \/ /\ stage' = "toggles"
          /\ UNCHANGED result
    /\ UNCHANGED <<text, view, changes, local, runtime, asked, toggles, rag,
                   steady, ever>>

\* simple_pii_guard
SimplePiiGuard == local = {} /\ sec = "ALLOW" /\ simple

ReadToggles ==
    /\ stage = "toggles"
    /\ toggles' = {r \in view : RagKey(r)}
    /\ stage' = IF gate /\ toggles' # {} /\ ~SimplePiiGuard
                THEN "rag" ELSE "evaluate"
    /\ UNCHANGED <<text, view, changes, local, runtime, asked, rag,
                   result, steady, ever>>

\* Mutant: the toggles are not applied to the answer.
EffectiveRaw(raw) == raw

\* Mutant: a discarded answer is written down as such.
EffectiveOff(raw) == IF toggles = {} THEN raw ELSE "OFF"

\* A decision counts only if its toggle was on when RAG was considered.
Effective(raw) ==
    CASE raw = "BLOCK" /\ ~\E r \in toggles : table[r].key = "ragBlock" -> "ALLOW"
      [] raw = "MASK" /\ ~\E r \in toggles : table[r].key = "ragMask"   -> "ALLOW"
      [] OTHER                                                          -> raw

\* RagVerifier.decide: an answer, or ALLOW when there is none to be had.
RagAnswers ==
    /\ stage = "rag"
    /\ \/ \E raw \in {"ALLOW", "MASK", "BLOCK"} :
             rag' = Effective(raw)
       \/ rag' = "ALLOW"
    /\ stage' = "evaluate"
    /\ UNCHANGED <<text, view, changes, local, runtime, asked, toggles, result,
                   steady, ever>>

\* Phase 2: all rules, with the RAG decision among the signals.
EvaluateAll ==
    /\ stage = "evaluate"
    /\ LET M == Evaluate(view, rag) IN Return(M, Resolve(M))
    /\ UNCHANGED <<text, view, changes, local, runtime, asked, toggles, rag,
                   enforced, steady, ever>>

\* A rule is enabled or disabled, and load_rules comes to know it.
RulesChange ==
    /\ stage # "done"
    /\ changes < MaxChanges
    /\ changes' = changes + 1
    /\ \E r \in Rules :
          view' = IF r \in view THEN view \ {r} ELSE view \cup {r}
    /\ steady' = steady \cap view'
    /\ ever' = ever \cup view'
    /\ UNCHANGED <<text, stage, local, runtime, asked, toggles, rag,
                   result>>

Done == stage = "done" /\ UNCHANGED vars

Next ==
    \/ EvaluateLocal \/ Assist \/ VerifyAnswers
    \/ ReadToggles \/ RagAnswers \/ EvaluateAll
    \/ RulesChange \/ Done

Spec == Init /\ [][Next]_vars

-----------------------------------------------------------------------------
(* Properties.                                                             *)

TypeOK ==
    /\ table \in Tables
    /\ view \subseteq Rules /\ hit \subseteq Rules
    /\ sec \in SecDecisions
    /\ gate \in BOOLEAN /\ simple \in BOOLEAN
    /\ enforced \in BOOLEAN
    /\ changes \in Nat
    /\ stage \in {"local", "assist", "verify", "toggles", "rag", "evaluate",
                  "done"}
    /\ local \subseteq Rules /\ runtime \subseteq Rules
    /\ asked \in Rules \cup {Nobody}
    /\ toggles \subseteq Rules /\ matches \subseteq Rules
    /\ rag \in {"SKIPPED", "ALLOW", "MASK", "BLOCK"}
    /\ final \in RuleActions
    /\ steady \subseteq Rules /\ ever \subseteq Rules

\* What there is for a rule to act on: the text meets its conditions, or the
\* verifier was asked about it and passed it, or RAG answered in its sense
\* while it was on.
Evidence(r) ==
    \/ r \in hit
    \/ enforced /\ r = asked
    \/ table[r].key = "ragBlock" /\ rag = "BLOCK"
    \/ table[r].key = "ragMask" /\ rag = "MASK"

\* No text is masked, blocked or warned about on a model's word alone: the
\* matches stored with the message hold a rule of that very action that was
\* in force during the scan and has evidence - whatever is toggled while the
\* models are asked.
Grounded ==
    stage = "done" /\ final # "allow" =>
        \E r \in matches : Action(r) = final /\ r \in ever /\ Evidence(r)

\* RAG acts only through a rule of its kind that was on when it was asked: a
\* toggle switched on while the model thinks does not make a verdict count.
OnlyAskedTogglesAct ==
    rag \in {"MASK", "BLOCK"} =>
        \E r \in toggles :
            table[r].key = IF rag = "MASK" THEN "ragMask" ELSE "ragBlock"

\* The other rules that could have matched during the scan and that no match of
\* the rule set's own hides from r's evaluation.
Rivals(r) ==
    {q \in ever \ {r} : (q \in hit \/ RagKey(q)) /\ (table[r].own => table[q].own)}

\* r has the priority over each of them; a global rule has none over an own one.
Outranks(r) ==
    \A q \in Rivals(r) : (table[q].own => table[r].own) /\ Before(r, q)

\* decision_resolver.py:21 lets a block go before any priority, and so do we here:
\* the code does not (BlockWins), and nothing is claimed of a mask rule that a
\* block rule could contradict.
Undisputed(r) ==
    \/ Action(r) = "block"
    \/ Action(r) = "mask" /\ \A q \in Rivals(r) : Action(q) # "block"

\* Where the resolver's comment and its code mean the same rule: a block rule, or
\* a mask rule with no block rule beside it, that is met, is in force from the
\* first step to the last and outranks whatever else comes into force, decides -
\* however the other rules change while the models are asked, and whatever these
\* answer (the verifier may pass a block rule that the text does not meet).
SteadyTopDecides ==
    \A r \in steady \cap hit :
        stage = "done" /\ Undisputed(r) /\ Outranks(r) => final = Action(r)

\* decision_resolver.py: "Neu co BLOCK => BLOCK" - if a match blocks, the
\* decision is to block.
BlockWins ==
    stage = "done" /\ (\E r \in matches : Action(r) = "block")
        => final = "block"
=============================================================================
