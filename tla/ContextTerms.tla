---------------------------- MODULE ContextTerms ----------------------------
(***************************************************************************)
(* The keywords of a company's rules: the tables rules, context_terms and     *)
(* rule_context_term_links, the embedding of each rule, the requests that     *)
(* write them together, and the two caches a scan reads - the rules in force  *)
(* (RuleEngine) and the words to look for (context_term_runtime).            *)
(*                                                                         *)
(* A keyword condition only ever holds if the scan spots the keyword, and it  *)
(* looks for the enabled terms of the company and no others.  Terms are      *)
(* shared by the rules of a company, have no unique key, and outlive them.   *)
(*                                                                         *)
(* A request reads what it needs, writes what differs from it in one commit   *)
(* and then drops the caches of its own process.  A refused request changes  *)
(* nothing and is left out; so are weights and windows, which go the way of  *)
(* "enabled", and toggles, which are in RuleRuntime.                         *)
(*                                                                         *)
(* Embeddings have a further writer: whoever compares a draft or a text with  *)
(* the rules embeds each of them anew, from the row it has loaded.           *)
(***************************************************************************)
EXTENDS Naturals, Sequences, FiniteSets, SequencesExt, FiniteSetsExt

CONSTANTS
    Writers,        \* the requests considered
    Loaders,        \* the threads that scan, again and again
    Embedders,      \* the sessions that search for duplicates or consult RAG,
                    \* again and again
    Processes,      \* the server processes
    RunsIn,         \* the process of each request and loader
    Rules,          \* the ids of rules
    Words,
    Ranking,        \* words of two tokens or more, the preferred and longest first
    Parts, Whole,   \* words that imply another: "tai lieu" and "noi bo"
    Limit,          \* semantic terms that are added at a time (2 in the code)
    Jobs,           \* what the requests may ask
    Nothing

Modes == {"strict", "semantic"}       \* MatchMode.strict_keyword, keyword_plus_semantic
Types == {"secret", "other"}          \* CUSTOM_SECRET, and all other entity types
Sources == {"manual", "auto"}
Caches == {"rules", "words"}

Term == [word: Words, type: Types, on: BOOLEAN]

\* Conditions are a list of nodes under "all", or one node.  A leaf is a
\* context_keywords signal; other nodes may hold keywords further down.
Node == [leaf: BOOLEAN, words: SUBSET Words]
Condition == [all: BOOLEAN, nodes: Seq(Node)]
Row == [live: BOOLEAN, cond: Condition, mode: Modes, embedded: Condition]

\* What a request leaves out (UNSET) is Nothing; a set of terms holds an
\* identity (type, word) once.
IsTerms(ts) ==
    /\ ts \subseteq Term
    /\ \A t, u \in ts : t.word = u.word /\ t.type = u.type => t = u

IsJob(j) ==
    /\ j.kind \in {"create", "apply", "update", "delete"}
    /\ j.rule \in Rules
    /\ j.cond = Nothing \/ (j.cond \in Condition /\ j.cond.nodes # <<>>)
    /\ j.mode \in Modes \cup {Nothing}
    /\ j.terms = Nothing \/ IsTerms(j.terms)
    /\ j.kind \in {"create", "apply"} =>
          j.cond # Nothing /\ j.mode # Nothing /\ j.terms # Nothing

ASSUME ConstantsAssumption ==
    /\ \A j \in Jobs : IsJob(j)
    /\ Limit \in Nat \ {0}
    /\ Ranking \in Seq(Words)
    /\ RunsIn \in [Writers \cup Loaders -> Processes]
    /\ IsFiniteSet(Words)       \* context_terms.term is indexed, so of limited length
    /\ Nothing \notin Row

VARIABLES
    \* PostgreSQL
    rules,          \* the rows of rules
    terms,          \* the rows of context_terms, in order of creation
    links,          \* the rows of rule_context_term_links
    \* the requests
    job,
    stage,
    due,            \* the caches a request has still to drop
    read,           \* what a request has read
    \* the searches for duplicates and the RAG scans
    embedding,      \* the rules one has loaded and is about to embed
    \* the caches and the scans that fill them
    cache,
    load,
    \* history
    dark,           \* words some request has written as not enabled
    modeOnly,       \* rules rebuilt by a change of match_mode alone
    raced           \* rules written by a request, or embedded by a search, that
                    \* had been overtaken

tables == <<rules, terms, links>>
history == <<dark, modeOnly, raced>>
vars == <<tables, job, stage, due, read, embedding, cache, load, history>>

-----------------------------------------------------------------------------
(* Conditions.                                                             *)

\* _extract_context_keyword_terms_from_conditions
Keywords(c) == UNION {c.nodes[i].words : i \in DOMAIN c.nodes}

On(ts) == {t.word : t \in {u \in ts : u.on}}
Off(ts) == {t.word : t \in {u \in ts : ~u.on}}

\* The elements of s at the positions in S, in their order.
Picked(s, S) ==
    [i \in 1..Cardinality(S) |->
        s[CHOOSE k \in S : Cardinality({j \in S : j < k}) = i - 1]]

\* _select_semantic_condition_terms, before it is cut to the limit.
Eligible(known, ts) ==
    LET on == On(ts) \ known
        implied == IF Parts # {} /\ Parts \subseteq on THEN {Whole} ELSE {}
    IN  Picked(Ranking, {i \in DOMAIN Ranking : Ranking[i] \in (on \cup implied) \ known})

Selected(known, ts) ==
    SubSeq(Eligible(known, ts), 1, Min({Limit, Len(Eligible(known, ts))}))

\* Of the keyword nodes under "all" the first is kept.
Anchored(nodes) ==
    LET first == {i \in DOMAIN nodes : nodes[i].leaf /\ \A j \in 1..(i - 1) : ~nodes[j].leaf}
    IN  Picked(nodes, {i \in DOMAIN nodes : ~nodes[i].leaf} \cup first)

\* _build_semantic_conditions
Rebuilt(c, mode, ts) ==
    LET chosen == Selected(Keywords(c), ts)
        extra == [i \in DOMAIN chosen |-> [leaf |-> TRUE, words |-> {chosen[i]}]]
    IN  IF mode # "semantic" \/ Keywords(c) = {} \/ chosen = <<>> THEN c
        ELSE [all |-> TRUE,
              nodes |-> (IF c.all THEN Anchored(c.nodes) ELSE c.nodes) \o extra]

-----------------------------------------------------------------------------
(* The tables.                                                             *)

There == {r \in Rules : rules[r] # Nothing}
Live == {r \in There : rules[r].live}

\* The words a scan looks for: load_context_runtime_overrides, exact_terms.
Spotted(table) ==
    {table[i].word : i \in {k \in DOMAIN table : table[k].on /\ table[k].type = "secret"}}

InForce(table) == {<<r, table[r].cond>> :
                      r \in {q \in Rules : table[q] # Nothing /\ table[q].live}}

Current(c) == IF c = "rules" THEN InForce(rules) ELSE Spotted(terms)

\* The rows of an identity.
RowsOf(t, table) ==
    {i \in DOMAIN table : table[i].word = t.word /\ table[i].type = t.type}

\* Mutant: words are excluded whatever their type.
AutoByWord(c, manual) ==
    {[word |-> x, type |-> "secret", on |-> TRUE] :
        x \in Keywords(c) \ {t.word : t \in manual}}

\* Mutant: the rows get no type.
AutoUntyped(c, manual) == {[word |-> x, type |-> Nothing, on |-> TRUE] : x \in Keywords(c)}

\* _build_auto_context_terms_from_conditions, without the identities that are
\* given by hand.
Automatic(c, manual) ==
    {t \in {[word |-> x, type |-> "secret", on |-> TRUE] : x \in Keywords(c)} :
        \A u \in manual : ~(u.word = t.word /\ u.type = t.type)}

\* _upsert_company_context_terms: the latest row of the identity in the table
\* as read takes the flag, if it differs; without one a row is inserted.
Upserted(table, seen, ts) ==
    LET new == {t \in ts : RowsOf(t, seen) = {}}
        Set(i) == {t \in ts : RowsOf(t, seen) # {} /\ i = Max(RowsOf(t, seen))}
    IN  [i \in DOMAIN table |->
            IF \E t \in Set(i) : t.on # seen[i].on
            THEN [table[i] EXCEPT !.on = (CHOOSE t \in Set(i) : TRUE).on]
            ELSE table[i]] \o SetToSeq(new)

\* The rows that the terms have after that.
IdsOf(ts, seen, after) ==
    {IF RowsOf(t, seen) # {} THEN Max(RowsOf(t, seen)) ELSE Max(RowsOf(t, after)) : t \in ts}

Linked(r, src, links_) == {l \in links_ : l.rule = r /\ l.source = src}

\* _list_linked_context_terms_for_rule
LinkedTerms(r, src) ==
    {terms[l.term] : l \in {k \in Linked(r, src, links) : terms[k.term].on}}

\* Mutant: what was linked goes, also if it is wanted.
RelinkedAfresh(r, src, ids, table) ==
    LET seen == Linked(r, src, table)
        wanted == {[rule |-> r, term |-> i, source |-> src] : i \in ids}
    IN  [gone |-> seen, come |-> wanted \ seen]

\* Both syncs of _sync_rule_context_term_links: the links of the source become
\* the given ones, as far as the request can tell.
Relinked(r, src, ids, table) ==
    LET seen == Linked(r, src, table)
        wanted == {[rule |-> r, term |-> i, source |-> src] : i \in ids}
    IN  [gone |-> seen \ wanted, come |-> wanted \ seen]

\* create_company_custom_rule, and the application of a suggestion: the latter
\* adds no semantic terms, does not spare the identities given by hand, and
\* finds the rows it has just written for these again.  The tables as it leaves
\* them, from the terms it has seen.
Created(j, now, seen) ==
    LET created == j.kind = "create"
        cond == IF created THEN Rebuilt(j.cond, j.mode, j.terms) ELSE j.cond
        auto == Automatic(cond, IF created THEN j.terms ELSE {})
        manual == {t \in j.terms : created \/ [t EXCEPT !.on = TRUE] \notin auto}
        table == Upserted(now, seen, manual \cup auto)
        Links(src, ts) == Relinked(j.rule, src, IdsOf(ts, seen, table), {}).come
    IN  [row |-> [live |-> TRUE, cond |-> cond, mode |-> j.mode, embedded |-> cond],
         terms |-> table,
         links |-> Links("manual", j.terms) \cup Links("auto", auto),
         off |-> Off(manual)]

\* The tables are empty, or one rule has been created.
Init ==
    /\ \/ /\ rules = [r \in Rules |-> Nothing] /\ terms = <<>>
          /\ links = {} /\ dark = {}
       \/ \E j \in {k \in Jobs : k.kind = "create"} :
             LET made == Created(j, <<>>, <<>>) IN
             /\ rules = [r \in Rules |-> IF r = j.rule THEN made.row ELSE Nothing]
             /\ terms = made.terms /\ links = made.links /\ dark = made.off
    /\ job = [w \in Writers |-> Nothing]
    /\ stage = [w \in Writers |-> "new"]
    /\ due = [w \in Writers |-> <<>>]
    /\ read = [w \in Writers |-> Nothing]
    /\ cache = [p \in Processes |-> [c \in Caches |-> Nothing]]
    /\ load = [l \in Loaders |-> Nothing]
    /\ embedding = [e \in Embedders |-> Nothing]
    /\ modeOnly = {} /\ raced = {}

-----------------------------------------------------------------------------
(* Requests.                                                               *)

Asks(w, kind) == job[w].kind = kind
Rule(w) == job[w].rule

\* The rule is there, or it is not when it is to be created (its id stands for
\* its stable key, too).
Read(w) ==
    /\ stage[w] = "new"
    /\ \E j \in Jobs :
          /\ j.rule \in IF j.kind \in {"create", "apply"} THEN Rules \ There ELSE Live
          /\ job' = [job EXCEPT ![w] = j]
          /\ read' = [read EXCEPT ![w] =
                [row |-> rules[j.rule], terms |-> terms, links |-> links,
                 manual |-> LinkedTerms(j.rule, "manual"), overtaken |-> FALSE]]
    /\ stage' = [stage EXCEPT ![w] = "read"]
    /\ UNCHANGED <<tables, due, embedding, cache, load, history>>

Given(x, otherwise) == IF x = Nothing THEN otherwise ELSE x

\* What an UPDATE leaves of a column that was loaded as was.  A vector is always
\* written: the list that is assigned never equals the array that was loaded.
Column(was, to, now) == IF to = was THEN now ELSE to

\* History: what w has committed, and whom it has overtaken.
Remembered(w, off, partial) ==
    LET r == Rule(w) IN
    /\ dark' = dark \cup off
    /\ modeOnly' = partial
    /\ raced' = IF read[w].overtaken THEN raced \cup {r} ELSE raced
    /\ read' = [v \in Writers |->
          IF v # w /\ stage[v] = "read" /\ Rule(v) = r
          THEN [read[v] EXCEPT !.overtaken = TRUE] ELSE read[v]]
    /\ embedding' = [e \in Embedders |->
          IF embedding[e] # Nothing /\ r \in DOMAIN embedding[e].conds
          THEN [embedding[e] EXCEPT !.late = @ \cup {r}] ELSE embedding[e]]

\* Mutant: a change of the conditions drops the rules alone.
DropsRules(mutated) == IF mutated THEN <<"rules">> ELSE <<"rules">>

\* The caches that an update drops.
Drops(mutated) == IF mutated THEN <<"rules", "words">> ELSE <<"rules">>

\* w has committed, and will drop the caches in this order.  Loads that it makes
\* old are marked, and so are entries: those of other processes, and the words
\* when the rules in force stay what they were (manual terms changed alone).
Commits(w, order) ==
    /\ stage' = [stage EXCEPT ![w] = "committed"]
    /\ due' = [due EXCEPT ![w] = order]
    /\ LET Changed(c) == IF c = "rules" THEN InForce(rules) # InForce(rules')
                                        ELSE Spotted(terms) # Spotted(terms')
       IN
       /\ cache' = [p \in Processes |-> [c \in Caches |->
             IF cache[p][c] # Nothing /\ Changed(c)
                  /\ (p # RunsIn[w] \/ (InForce(rules) = InForce(rules') /\ ~Contains(order, c)))
             THEN [cache[p][c] EXCEPT !.overtaken = TRUE] ELSE cache[p][c]]]
       /\ load' = [l \in Loaders |->
             IF load[l] # Nothing /\ Changed(load[l].of)
             THEN [load[l] EXCEPT !.overtaken = TRUE] ELSE load[l]]
    /\ UNCHANGED job

Create(w) ==
    /\ stage[w] = "read"
    /\ Asks(w, "create") \/ Asks(w, "apply")
    /\ Rule(w) \notin There               \* uq_rules_company_stable_key
    /\ LET made == Created(job[w], terms, read[w].terms) IN
       /\ rules' = [rules EXCEPT ![Rule(w)] = made.row]
       /\ terms' = made.terms
       /\ links' = links \cup made.links
       /\ Remembered(w, made.off, modeOnly)
       /\ Commits(w, IF Asks(w, "create") THEN <<"rules", "words">> ELSE <<"words", "rules">>)

\* update_company_rule: what it makes of the rule it has read.
Updated(w) ==
    LET j == job[w]
        was == read[w].row
        manual == Given(j.terms, read[w].manual)
        own == Given(j.cond, was.cond)
        resync == j.cond # Nothing \/ j.terms # Nothing
        mode == Given(j.mode, was.mode)
        cond == IF resync \/ j.mode # Nothing THEN Rebuilt(own, mode, manual) ELSE own
    IN  [cond |-> cond, mode |-> mode, resync |-> resync,
         mutated |-> j.cond # Nothing \/ cond # was.cond,
         manual |-> Given(j.terms, {}),
         auto |-> IF resync THEN Automatic(cond, manual) ELSE {}]

Unchanged == [gone |-> {}, come |-> {}]

\* The links of both sources that an update deletes and inserts.
LinkChanges(w, up, table) ==
    LET Of(src, ts) == Relinked(Rule(w), src, IdsOf(ts, read[w].terms, table), read[w].links)
        byHand == IF job[w].terms = Nothing THEN Unchanged ELSE Of("manual", up.manual)
        byItself == IF up.resync THEN Of("auto", up.auto) ELSE Unchanged
    IN  [gone |-> byHand.gone \cup byItself.gone, come |-> byHand.come \cup byItself.come]

UpdatedTerms(w, up) == Upserted(terms, read[w].terms, up.manual \cup up.auto)

\* The unique key of rule_context_term_links.
LinksCollide(w) ==
    read[w].overtaken /\
        LET up == Updated(w) IN LinkChanges(w, up, UpdatedTerms(w, up)).come \cap links # {}

Update(w) ==
    /\ stage[w] = "read"
    /\ Asks(w, "update")
    /\ ~LinksCollide(w)
    /\ LET up == Updated(w)
           was == read[w].row
           table == UpdatedTerms(w, up)
           change == LinkChanges(w, up, table)
       IN
       /\ rules' = [rules EXCEPT
             ![Rule(w)].cond = Column(was.cond, up.cond, @),
             ![Rule(w)].mode = Column(was.mode, up.mode, @),
             ![Rule(w)].embedded = IF up.mutated THEN up.cond ELSE @]
       /\ terms' = table
       /\ links' = (links \ change.gone) \cup change.come
       /\ Remembered(w, Off(up.manual),
             CASE ~up.resync /\ up.mutated -> modeOnly \cup {Rule(w)}
               [] up.resync /\ ~read[w].overtaken -> modeOnly \ {Rule(w)}
               [] OTHER -> modeOnly)
       /\ Commits(w, Drops(up.mutated))

\* soft_delete_company_rule: links and terms stay.
Delete(w) ==
    /\ stage[w] = "read"
    /\ Asks(w, "delete")
    /\ rules' = [rules EXCEPT ![Rule(w)].live = FALSE]
    /\ UNCHANGED <<terms, links>>
    /\ Remembered(w, {}, modeOnly)
    /\ Commits(w, <<"rules">>)

\* A unique key is violated: everything is rolled back.
Fails(w) ==
    /\ stage[w] = "read"
    /\ \/ (Asks(w, "create") \/ Asks(w, "apply")) /\ Rule(w) \in There
       \/ Asks(w, "update") /\ LinksCollide(w)
    /\ stage' = [stage EXCEPT ![w] = "failed"]
    /\ UNCHANGED <<tables, job, due, read, embedding, cache, load, history>>

\* RuleEngine.invalidate_cache, invalidate_context_runtime_cache
Invalidate(w) ==
    /\ due[w] # <<>>
    /\ cache' = [cache EXCEPT ![RunsIn[w]][Head(due[w])] = Nothing]
    /\ due' = [due EXCEPT ![w] = Tail(@)]
    /\ UNCHANGED <<tables, job, stage, read, embedding, load, history>>

-----------------------------------------------------------------------------
(* Scans.                                                                  *)

\* The entry is not there, or expired: the tables are read.
Miss(l) ==
    /\ load[l] = Nothing
    /\ \E c \in Caches :
          /\ cache[RunsIn[l]][c] = Nothing
          /\ load' = [load EXCEPT ![l] =
                         [of |-> c, value |-> Current(c), overtaken |-> FALSE]]
    /\ UNCHANGED <<tables, job, stage, due, read, embedding, cache, history>>

\* _set_cached, whatever has been invalidated meanwhile.
Fill(l) ==
    /\ load[l] # Nothing
    /\ cache' = [cache EXCEPT ![RunsIn[l]][load[l].of] =
                    [value |-> load[l].value, overtaken |-> load[l].overtaken]]
    /\ load' = [load EXCEPT ![l] = Nothing]
    /\ UNCHANGED <<tables, job, stage, due, read, embedding, history>>

\* Mutant: an entry stays until it is dropped.
ExpireNever(p, c) == FALSE /\ UNCHANGED vars

\* Five seconds after it was filled an entry is no longer served.
Expire(p, c) ==
    /\ cache[p][c] # Nothing
    /\ cache' = [cache EXCEPT ![p][c] = Nothing]
    /\ UNCHANGED <<tables, job, stage, due, read, embedding, load, history>>

-----------------------------------------------------------------------------
(* Searches for duplicates and RAG scans.                                  *)

\* build_duplicate_check selects the live rules, and
\* retrieve_related_rules_for_runtime those in force, of the scan's scope, that
\* do not switch RAG off.
LoadRules(e) ==
    /\ embedding[e] = Nothing
    /\ \E S \in SUBSET Live \ {{}} :
          embedding' = [embedding EXCEPT ![e] =
                           [conds |-> [r \in S |-> rules[r].cond], late |-> {}]]
    /\ UNCHANGED <<tables, job, stage, due, read, cache, load, history>>

\* upsert_rule_embedding for each of them, from the rows as they were loaded.
\* generate_rule_suggestion, confirm_rule_suggestion and the log entry of
\* RagVerifier.decide commit it; a rule's embedding is locked from its upsert on.
Embed(e) ==
    /\ embedding[e] # Nothing
    /\ LET conds == embedding[e].conds IN
       rules' = [r \in Rules |-> IF r \in DOMAIN conds
                                 THEN [rules[r] EXCEPT !.embedded = conds[r]]
                                 ELSE rules[r]]
    /\ raced' = raced \cup embedding[e].late
    /\ embedding' = [embedding EXCEPT ![e] = Nothing]
    /\ UNCHANGED <<terms, links, job, stage, due, read, cache, load, dark, modeOnly>>

\* It is rolled back: a suggestion was only looked at, the draft duplicates a
\* rule exactly (409), a lock ended in a deadlock, the session failed later on.
ForgetRules(e) ==
    /\ embedding[e] # Nothing
    /\ embedding' = [embedding EXCEPT ![e] = Nothing]
    /\ UNCHANGED <<tables, job, stage, due, read, cache, load, history>>

Request(w) == Read(w) \/ Create(w) \/ Update(w) \/ Delete(w) \/ Fails(w) \/ Invalidate(w)

Next ==
    \/ \E w \in Writers : Request(w)
    \/ \E l \in Loaders : Miss(l) \/ Fill(l)
    \/ \E e \in Embedders : LoadRules(e) \/ Embed(e) \/ ForgetRules(e)
    \/ \E p \in Processes, c \in Caches : Expire(p, c)

\* Time passes; requests and loads may hang, and nobody has to scan.
Fairness == \A p \in Processes, c \in Caches : WF_vars(Expire(p, c))

Spec == Init /\ [][Next]_vars
FairSpec == Spec /\ Fairness

-----------------------------------------------------------------------------
(* Properties.                                                             *)

\* Every variable has its shape, and a link joins rows that are there.
TypeOK ==
    /\ rules \in [Rules -> Row \cup {Nothing}]
    /\ terms \in Seq(Term)
    /\ links \subseteq [rule: There, term: DOMAIN terms, source: Sources]
    /\ due \in [Writers -> Seq(Caches)]
    /\ \A e \in Embedders : embedding[e] = Nothing \/
          DOMAIN embedding[e].conds \subseteq There
    /\ dark \subseteq Words /\ modeOnly \subseteq There /\ raced \subseteq There

\* The keywords a rule in force asks for are looked for in every text, whatever
\* requests to this and other rules overlapped - unless some request switched
\* the word off for the whole company, or a change of match_mode alone put it
\* into the conditions.
KeywordsSpotted ==
    \A r \in Live : \A x \in Keywords(rules[r].cond) :
        x \in Spotted(terms) \/ x \in dark \/ r \in modeOnly

\* A rule is of a piece: its embedding is of its conditions, and its keywords are
\* linked to it - unless a request has written it, or a search for duplicates or
\* a RAG scan embedded it, after another commit to the rule had overtaken it.
\* Those tear it apart and nothing mends it: the embedding of the conditions that
\* were replaced stays until the rule is embedded again.
UnracedRuleIsWhole ==
    \A r \in Live \ raced :
        /\ rules[r].embedded = rules[r].cond
        /\ r \notin modeOnly =>
              \A x \in Keywords(rules[r].cond) :
                 \E l \in links : l.rule = r /\ terms[l.term].word = x
                                             /\ terms[l.term].type = "secret"

\* A cache only serves what is no longer so while a request of its process has
\* still to drop it, or when a commit overtook the load that filled it, came from
\* another process, or changed nothing but terms given by hand.
CachesStaleOnlyByRace ==
    \A p \in Processes, c \in Caches :
        cache[p][c] # Nothing /\ cache[p][c].value # Current(c) =>
            \/ cache[p][c].overtaken
            \/ \E w \in Writers : RunsIn[w] = p /\ Contains(due[w], c)

\* However requests and loads overlap, in the end every process scans with the
\* rules that are in force and the words that are enabled, for good: what a load
\* brings back too late is served for one more lifetime of an entry.
CachesConverge ==
    <>[](\A p \in Processes, c \in Caches :
            cache[p][c] # Nothing => cache[p][c].value = Current(c))
=============================================================================
