------------------------ MODULE SuggestionLifecycle ------------------------
(***************************************************************************)
(* Rule suggestions: the table rule_suggestions, the requests that generate, *)
(* edit, confirm, reject and apply a suggestion, and the company's rules     *)
(* they make.                                                              *)
(*                                                                         *)
(* Each request runs in a worker thread.  It loads the row, checks status    *)
(* and expected_version against what it has loaded, and later writes the     *)
(* columns that differ from what it has loaded, WHERE id = ...  No lock and   *)
(* no condition on the version is taken along, so that another request may   *)
(* commit in between.                                                      *)
(*                                                                         *)
(* A request whose checks refuse it changes nothing and is left out: it only *)
(* shows as a guard.  A draft is taken as its stable key and its body - what *)
(* _dedupe_key hashes; how one is made from a prompt is not modelled here.   *)
(***************************************************************************)
EXTENDS Naturals

CONSTANTS
    Workers,        \* the threads that serve requests, again and again
    Drafts,         \* drafts as _normalize_draft leaves them
    Key,            \* the stable key of each draft
    Body,           \* all else of it
    Canonical,      \* what _canonicalize_known_pii_draft_for_runtime makes of it
    Prompts,
    Offered,        \* bound: the drafts that are generated or sent by an edit
    MaxRules,       \* bound: the rules that can be made
    MaxSuggestions, \* bound: the suggestions that can be made
    MaxVersion,     \* bound: no request is begun on a later version; one
                    \* under way may write the next
    Aging,          \* bound: the suggestions nobody takes up for SUGGESTION_TTL_DAYS
    GlobalKeys,     \* stable keys of global rules
    Nothing

\* Both in order of creation.
Suggestions == 1..MaxSuggestions
RuleIds == 1..MaxRules

Statuses == {"draft", "approved", "applied", "rejected", "expired"}
Active == {"draft", "approved"}

Bodies == {Body[d] : d \in Drafts}

Row == [status: Statuses, version: Nat \ {0}, draft: Drafts, body: Bodies,
        prompt: Prompts, result: RuleIds \cup {Nothing}]
Rule == [draft: Drafts, from: Suggestions, live: BOOLEAN]

ASSUME ConstantsAssumption ==
    /\ MaxSuggestions \in Nat /\ MaxVersion \in Nat /\ MaxRules \in Nat
    /\ Offered \subseteq Drafts
    /\ Canonical \in [Drafts -> Drafts]
    /\ \A d \in Drafts : /\ Canonical[Canonical[d]] = Canonical[d]
                           /\ Key[Canonical[d]] = Key[d]
    /\ DOMAIN Key = Drafts /\ DOMAIN Body = Drafts
    /\ Nothing \notin Drafts \cup RuleIds
    /\ Nothing \notin Row \cup Rule

VARIABLES
    sug,            \* the rows of rule_suggestions
    old,            \* the suggestions whose expires_at has passed
    rules,          \* the company's rows of rules
    req,            \* what each worker is doing
    \* history
    contested,      \* suggestions written by a request that had been overtaken
    confirmed       \* the draft each suggestion had when it was last confirmed

vars == <<sug, old, rules, req, contested, confirmed>>

Idle == [at |-> "idle"]

Init ==
    /\ sug = [s \in Suggestions |-> Nothing]
    /\ old = {}
    /\ rules = [r \in RuleIds |-> Nothing]
    /\ req = [w \in Workers |-> Idle]
    /\ contested = {}
    /\ confirmed = [s \in Suggestions |-> Nothing]

-----------------------------------------------------------------------------
(* Reading.                                                                *)

There == {s \in Suggestions : sug[s] # Nothing}

\* Ids are given out in order.
IsFirst(id, free) == \A other \in free : id <= other

Made == {r \in RuleIds : rules[r] # Nothing}
LiveRules == {r \in Made : rules[r].live}

\* _validate_draft_stable_key_against_existing_rules, and uq_rules_company_stable_key
KeyFree(d) == \A r \in LiveRules : Key[rules[r].draft] # Key[d]
KeyAllowed(d) == Key[d] \notin GlobalKeys /\ KeyFree(d)

\* Mutant: a suggestion that was rejected can be applied.
MayAny(kind) == IF kind = "apply" THEN {"approved", "rejected"}
                ELSE IF kind = "reject" THEN Active ELSE {"draft"}

\* The statuses in which the row of a request must have been loaded.
May(kind) ==
    CASE kind \in {"edit", "confirm"} -> {"draft"}
      [] kind = "reject"              -> Active
      [] kind = "apply"               -> {"approved"}
      [] kind = "look"                -> {}

\* _expire_if_needed would write.
Outdated(s) == s \in old /\ sug[s].status \in Active

\* The worker goes on with the row s as loaded: an edit and a confirmation
\* look for duplicates before they write.
Admitted(w, kind, s, d) ==
    req' = [req EXCEPT ![w] =
        [at |-> IF kind \in {"edit", "confirm"} THEN "vet" ELSE "write",
         kind |-> kind, on |-> s, row |-> sug[s], draft |-> d,
         reloaded |-> FALSE, overtaken |-> FALSE]]

\* _load_suggestion_or_404, the check of the status and of expected_version
\* (the client names the version loaded, or none).  A row that is out of date
\* is expired first, which refuses the request.
Load(w, s) ==
    /\ req[w] = Idle
    /\ s \in There
    /\ sug[s].version <= MaxVersion
    /\ \/ /\ Outdated(s)
          /\ req' = [req EXCEPT ![w] =
                [at |-> "expire", kind |-> "look", victim |-> s, overtaken |-> FALSE]]
       \/ /\ ~Outdated(s)
          /\ \E kind \in {"edit", "confirm", "reject", "apply"} :
                /\ sug[s].status \in May(kind)
                /\ \E d \in IF kind = "edit"
                            THEN {x \in Offered : KeyAllowed(x)} ELSE {sug[s].draft} :
                      Admitted(w, kind, s, d)
    /\ UNCHANGED <<sug, old, rules, contested, confirmed>>

\* _find_active_duplicate: the active rows of the body that the request q is
\* about to write, the latest first.
Twins(q) ==
    {t \in There :
        /\ sug[t].status \in Active
        /\ sug[t].body = Body[q.draft]
        /\ q.kind = "edit" => t # q.on}

IsLatestTwin(t, q) == t \in Twins(q) /\ \A other \in Twins(q) : other <= t

\* No active suggestion has the body; or the latest that has answers another
\* prompt, which a generation accepts and an edit does not.
NoTwin(q) ==
    \/ Twins(q) = {}
    \/ \E t \in Suggestions :
          /\ IsLatestTwin(t, q) /\ ~Outdated(t)
          /\ q.kind = "generate" /\ sug[t].prompt # q.prompt

\* The search for duplicates comes upon a row that is out of date.
FindOutdated(w, q) ==
    \E t \in Suggestions :
        /\ IsLatestTwin(t, q) /\ Outdated(t)
        /\ req' = [req EXCEPT ![w] =
                      [at |-> "expire", victim |-> t, kind |-> "twin",
                       overtaken |-> FALSE, then |-> q]]

\* Nothing is in the way of a generation or an edit.  An edit that has expired
\* another row reads its own again (expire_on_commit), without a further check.
VetDraft(w, q) ==
    /\ NoTwin(q)
    /\ req' = [req EXCEPT ![w] =
                  IF q.kind = "edit" /\ q.reloaded
                  THEN [q EXCEPT !.at = "write", !.row = sug[q.on]]
                  ELSE [q EXCEPT !.at = "write"]]

\* generate_rule_suggestion: the LLM's draft is there, whatever it has loaded
\* until then plays no part any more.
Generate(w) ==
    /\ req[w] = Idle
    /\ There # Suggestions
    /\ \E d \in Offered, p \in Prompts :
          LET q == [at |-> "vet", kind |-> "generate", draft |-> d, prompt |-> p] IN
          FindOutdated(w, q) \/ VetDraft(w, q)
    /\ UNCHANGED <<sug, old, rules, contested, confirmed>>

Search(w) ==
    /\ req[w].at = "vet"
    /\ req[w].kind \in {"generate", "edit"}
    /\ FindOutdated(w, req[w]) \/ VetDraft(w, req[w])
    /\ UNCHANGED <<sug, old, rules, contested, confirmed>>

\* build_duplicate_check in a confirmation: a live rule that does the same
\* refuses it, unless one has its stable key, which is reported first.
VetConfirmation(w) ==
    /\ req[w].at = "vet"
    /\ req[w].kind = "confirm"
    /\ LET d == Canonical[req[w].draft] IN
       KeyFree(d) => \A r \in LiveRules : Body[rules[r].draft] # Body[d]
    /\ req' = [req EXCEPT ![w].at = "write"]
    /\ UNCHANGED <<sug, old, rules, contested, confirmed>>

\* 409: a generation answers with the suggestion there is.
Refuse(w) ==
    /\ req[w].at = "vet"
    /\ \/ /\ req[w].kind \in {"generate", "edit"}
          /\ ~NoTwin(req[w])
          /\ \E t \in Suggestions : IsLatestTwin(t, req[w]) /\ ~Outdated(t)
       \/ req[w].kind = "confirm"     \* also what the LLM takes for a duplicate
    /\ req' = [req EXCEPT ![w] = Idle]
    /\ UNCHANGED <<sug, old, rules, contested, confirmed>>

-----------------------------------------------------------------------------
(* Writing.                                                                *)

\* The row the worker is about to write was loaded before another's commit.
Touches(v, s) ==
    CASE req[v].at = "expire" -> req[v].victim = s \/ (req[v].kind = "twin"
                                     /\ req[v].then.kind = "edit" /\ req[v].then.on = s)
      [] req[v].at \in {"vet", "write"} -> req[v].kind # "generate" /\ req[v].on = s
      [] OTHER -> FALSE

\* History: w has committed to s and goes on with what next says.
Overtakes(w, s, next) ==
    req' = [v \in Workers |->
        IF v = w THEN next
        ELSE IF ~Touches(v, s) THEN req[v]
        ELSE IF req[v].at = "expire" /\ req[v].kind = "twin" /\ req[v].victim # s
             THEN [req[v] EXCEPT !.then.overtaken = TRUE]
             ELSE [req[v] EXCEPT !.overtaken = TRUE]]

Contest(w, s) ==
    contested' = IF req[w].overtaken THEN contested \cup {s} ELSE contested

\* _expire_if_needed commits; one that was met among the duplicates leads back
\* to them.
Expire(w) ==
    /\ req[w].at = "expire"
    /\ LET s == req[w].victim IN
       /\ sug' = [sug EXCEPT ![s].status = "expired"]
       /\ Contest(w, s)
       /\ Overtakes(w, s,
             IF req[w].kind = "look" THEN Idle
             ELSE IF req[w].then.kind = "edit" THEN [req[w].then EXCEPT !.reloaded = TRUE]
             ELSE req[w].then)
    /\ UNCHANGED <<old, rules, confirmed>>

\* Mutant: versions are counted from 0.
WriteGeneratedZero(w) ==
    /\ req[w].at = "write"
    /\ req[w].kind = "generate"
    /\ \E s \in Suggestions \ There :
          /\ IsFirst(s, Suggestions \ There)
          /\ sug' = [sug EXCEPT ![s] =
                [status |-> "draft", version |-> 0, draft |-> req[w].draft,
                 body |-> Body[req[w].draft], prompt |-> req[w].prompt,
                 result |-> Nothing]]
    /\ req' = [req EXCEPT ![w] = Idle]
    /\ UNCHANGED <<old, rules, contested, confirmed>>

\* A new row of version 1.
WriteGenerated(w) ==
    /\ req[w].at = "write"
    /\ req[w].kind = "generate"
    /\ \E s \in Suggestions \ There :
          /\ IsFirst(s, Suggestions \ There)
          /\ sug' = [sug EXCEPT ![s] =
                [status |-> "draft", version |-> 1, draft |-> req[w].draft,
                 body |-> Body[req[w].draft], prompt |-> req[w].prompt,
                 result |-> Nothing]]
    /\ req' = [req EXCEPT ![w] = Idle]
    /\ UNCHANGED <<old, rules, contested, confirmed>>

\* Mutant: the version stays.
SavedSameVersion(w, status, d, body, result) ==
    [sug[req[w].on] EXCEPT !.status = status, !.draft = d, !.body = body,
                           !.result = result]

\* A column is written when its value differs from the one loaded.
Kept(loaded, value, current) == IF value = loaded THEN current ELSE value

\* UPDATE ... WHERE id: the version after the one loaded, and what differs from
\* what was loaded.
Saved(w, status, d, body, result) ==
    LET was == req[w].row
        now == sug[req[w].on]
    IN  [now EXCEPT !.version = was.version + 1,
                    !.status = Kept(was.status, status, @),
                    !.draft = Kept(was.draft, d, @),
                    !.body = Kept(was.body, body, @),
                    !.result = Kept(was.result, result, @)]

Writes(w, status, d, body, result) ==
    LET s == req[w].on IN
    /\ sug' = [sug EXCEPT ![s] = Saved(w, status, d, body, result)]
    /\ Contest(w, s)
    /\ Overtakes(w, s, Idle)

WriteEdit(w) ==
    /\ req[w].at = "write" /\ req[w].kind = "edit"
    /\ LET row == req[w].row IN
       Writes(w, row.status, req[w].draft, Body[req[w].draft], row.result)
    /\ UNCHANGED <<old, rules, confirmed>>

\* The draft is put in canonical form, its dedupe key is not.
WriteConfirmation(w) ==
    /\ req[w].at = "write" /\ req[w].kind = "confirm"
    /\ LET row == req[w].row IN
       /\ Writes(w, "approved", Canonical[row.draft], row.body, row.result)
       /\ confirmed' = [confirmed EXCEPT ![req[w].on] = Canonical[row.draft]]
    /\ UNCHANGED <<old, rules>>

WriteRejection(w) ==
    /\ req[w].at = "write" /\ req[w].kind = "reject"
    /\ LET row == req[w].row IN
       Writes(w, "rejected", row.draft, row.body, row.result)
    /\ UNCHANGED <<old, rules, confirmed>>

\* Mutant: the status is committed, the result payload is not.
AppliedNoResult(w, r) ==
    LET row == req[w].row IN
    Writes(w, "applied", row.draft, row.body, Nothing)

Applied(w, r) ==
    LET row == req[w].row IN
    Writes(w, "applied", row.draft, row.body, r)

\* The rule, its terms and the suggestion in one commit.
WriteApplication(w) ==
    /\ req[w].at = "write" /\ req[w].kind = "apply"
    /\ LET d == Canonical[req[w].row.draft] IN
       /\ KeyAllowed(d)
       /\ \E r \in RuleIds \ Made :
             /\ IsFirst(r, RuleIds \ Made)
             /\ rules' = [rules EXCEPT ![r] = [draft |-> d, from |-> req[w].on, live |-> TRUE]]
             /\ Applied(w, r)
    /\ UNCHANGED <<old, confirmed>>

\* 422, 409 or IntegrityError: the application is rolled back.
RollBack(w) ==
    /\ req[w].at = "write" /\ req[w].kind = "apply"
    /\ ~KeyAllowed(Canonical[req[w].row.draft])
    /\ req' = [req EXCEPT ![w] = Idle]
    /\ UNCHANGED <<sug, old, rules, contested, confirmed>>

-----------------------------------------------------------------------------
(* Around.                                                                 *)

\* SUGGESTION_TTL_DAYS pass.
Age(s) ==
    /\ s \in (There \cap Aging) \ old
    /\ old' = old \cup {s}
    /\ UNCHANGED <<sug, rules, req, contested, confirmed>>

\* delete_company_custom_rule
DeleteRule(r) ==
    /\ r \in LiveRules
    /\ rules' = [rules EXCEPT ![r].live = FALSE]
    /\ UNCHANGED <<sug, old, req, contested, confirmed>>

Request(w) ==
    \/ Generate(w)
    \/ \E s \in Suggestions : Load(w, s)
    \/ Search(w) \/ VetConfirmation(w) \/ Refuse(w)
    \/ Expire(w)
    \/ WriteGenerated(w) \/ WriteEdit(w) \/ WriteConfirmation(w)
    \/ WriteRejection(w) \/ WriteApplication(w) \/ RollBack(w)

Next ==
    \/ \E w \in Workers : Request(w)
    \/ \E s \in Suggestions : Age(s)
    \/ \E r \in RuleIds : DeleteRule(r)

Spec == Init /\ [][Next]_vars

-----------------------------------------------------------------------------
(* Properties.                                                             *)

\* Every variable has its shape.
TypeOK ==
    /\ sug \in [Suggestions -> Row \cup {Nothing}]
    /\ old \subseteq There
    /\ rules \in [RuleIds -> Rule \cup {Nothing}]
    /\ contested \subseteq There
    /\ confirmed \in [Suggestions -> Drafts \cup {Nothing}]
    /\ \A w \in Workers :
          \/ req[w] = Idle
          \/ req[w].at \in {"vet", "write"} /\ req[w].draft \in Drafts
          \/ req[w].at = "expire" /\ req[w].victim \in There

\* Whoever asks for an applied suggestion to be applied once more is answered
\* with the rule it has become, whatever requests overlapped: "Suggestion was
\* marked applied without result payload" is never the answer.
AppliedHasRule ==
    \A s \in There :
        sug[s].status = "applied" =>
            /\ sug[s].result # Nothing
            /\ rules[sug[s].result] # Nothing
            /\ rules[sug[s].result].from = s

\* A rule comes from a suggestion that had been confirmed, and a suggestion
\* makes one rule, of the draft that was confirmed, unless it is contested;
\* two rules of one key are never live together.
RulesWereConfirmed ==
    \A r \in Made :
        /\ confirmed[rules[r].from] # Nothing
        /\ rules[r].from \notin contested =>
              /\ rules[r].draft = confirmed[rules[r].from]
              /\ sug[rules[r].from].result = r
        /\ \A q \in LiveRules \ {r} :
              rules[r].live => Key[rules[q].draft] # Key[rules[r].draft]

\* The review of the suggestions that are not contested goes as the abstract
\* specification has it.
ReviewPhase ==
    [s \in Suggestions |-> IF sug[s] = Nothing THEN "none"
                           ELSE IF s \in contested THEN "contested" ELSE sug[s].status]

Plain(s) == sug[s] # Nothing /\ s \notin contested

ReviewVersion == [s \in Suggestions |-> IF Plain(s) THEN sug[s].version ELSE 0]
ReviewContent == [s \in Suggestions |-> IF Plain(s) THEN sug[s].draft ELSE Nothing]
ReviewMade ==
    [s \in Suggestions |-> IF Plain(s) /\ sug[s].result # Nothing
                           THEN rules[sug[s].result].draft ELSE Nothing]

Review == INSTANCE SuggestionReview WITH
    Contents <- Drafts, NoContent <- Nothing,
    phase <- ReviewPhase, version <- ReviewVersion,
    content <- ReviewContent, made <- ReviewMade

\* Drafts are revised, approved and enacted in that order, each step with a
\* version of its own, and what is enacted is what was approved, as long as no
\* request writes over what another has written since it read.
Reviewed == Review!Spec

\* What has become a rule is what was reviewed: the draft that the confirmation
\* saved (Rule-suggestion-flow.md: "review/simulate, then applied to the runtime").
AppliedAsConfirmed ==
    \A r \in Made : rules[r].draft = confirmed[rules[r].from]
=============================================================================
