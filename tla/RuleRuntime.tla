----------------------------- MODULE RuleRuntime -----------------------------
(***************************************************************************)
(* Which rules are in force: the tables rules, company_rule_overrides and   *)
(* user_rule_overrides, the requests that change them, and RuleEngine's      *)
(* cache of the answer, one in every server process.                        *)
(*                                                                         *)
(* Each request runs in a worker thread: it reads, commits, and only then    *)
(* drops its own process's cache entry.  A load that misses the cache reads  *)
(* the tables one after the other (READ COMMITTED) and fills the entry.      *)
(* Nothing orders the two.                                                  *)
(*                                                                         *)
(* Of a rule only "enabled" is modelled; what else an update may set goes    *)
(* the same way.  A refused request changes nothing and is left out.         *)
(***************************************************************************)
EXTENDS Naturals, Sequences, FiniteSets

CONSTANTS
    Writers,        \* the requests that change a rule
    Loaders,        \* the threads that call load_rules, again and again
    Processes,      \* uvicorn (compose.yml) or gunicorn's workers (compose.prod.yml)
    RunsIn,         \* the process each request and loader runs in
    Globals,        \* the stable keys of global rules
    Customs,        \* stable keys no global rule has
    Jobs,           \* the requests considered
    Initially,      \* the ids of the rows that are there from the start
    Nothing

Scopes == {"company", "personal"}
Keys == Globals \cup Customs
Ids == Writers \cup Initially       \* a request's row bears its name

Row == [key: Keys, enabled: BOOLEAN, live: BOOLEAN]
Override == [id: Writers \cup {Nothing}, enabled: BOOLEAN]

\* toggle_global_rule_for_company and toggle_personal_rule_enabled, and the
\* creation, update and deletion of a company's own rows.
Job == [kind: {"toggle"}, scope: Scopes, key: Globals, to: BOOLEAN]
         \cup [kind: {"create"}, scope: {"company"}, key: Customs, to: BOOLEAN]
         \cup [kind: {"update"}, scope: {"company"}, row: Initially, to: BOOLEAN]
         \cup [kind: {"delete"}, scope: {"company"}, row: Initially]

ASSUME ConstantsAssumption ==
    /\ Jobs \subseteq Job
    /\ Globals \cap Customs = {}
    /\ Nothing \notin Row \cup Override
    /\ Writers \cap Initially = {}
    /\ RunsIn \in [Writers \cup Loaders -> Processes]

VARIABLES
    \* PostgreSQL
    default,        \* rules.enabled of the global rules
    rows,           \* the company's rows of rules, by id
    override,       \* the override rows of either scope
    logged,         \* the latest rule_change_logs row of each key
    \* the requests
    job,
    stage,
    read,           \* the override or the row a request has loaded
    before,         \* whether its key was in force then
    \* the cache and its users
    cache,          \* RuleEngine._rules_cache of each process
    load,           \* each loader's place in load_rules
    \* history
    raced           \* another request committed to the key after the read

tables == <<default, rows, override, logged>>
vars == <<tables, job, stage, read, before,
          cache, load, raced>>

-----------------------------------------------------------------------------
(* What is in force.                                                       *)

\* The live rows of a key.
Live(table, k) == {i \in Ids : table[i] # Nothing /\ table[i].live /\ table[i].key = k}

\* _load_rules_uncached: an override decides, then - for a company - a row of
\* its own that bears the key of a global rule, then the global rule.
InForce(scope, table, over) ==
    {k \in Globals :
        IF over[k] # Nothing THEN over[k].enabled
        ELSE IF scope = "company" /\ Live(table, k) # {}
             THEN \E i \in Live(table, k) : table[i].enabled
             ELSE default[k]}
      \cup {k \in Customs : scope = "company"
                              /\ \E i \in Live(table, k) : table[i].enabled}

Effective(scope) == InForce(scope, rows, override[scope])

\* The key a request is about.
KeyOf(w) ==
    IF job[w].kind \in {"toggle", "create"} THEN job[w].key
                                            ELSE rows[job[w].row].key

Idle == [at |-> "idle"]

Init ==
    /\ default \in [Globals -> BOOLEAN]
    /\ rows \in [Ids -> Row \cup {Nothing}]
    /\ \A i \in Ids : rows[i] # Nothing <=> i \in Initially
    /\ \A i \in Initially : rows[i].live
    /\ \A i, j \in Initially : rows[i].key = rows[j].key => i = j
    /\ \E ov \in [Scopes -> [Globals -> [id: {Nothing}, enabled: BOOLEAN]
                                           \cup {Nothing}]] : override = ov
    /\ \A k \in Globals : Live(rows, k) # {} => override["company"][k] = Nothing
    /\ logged = [k \in Keys |-> Nothing]
    /\ job \in [Writers -> Jobs]
    /\ stage = [w \in Writers |-> "new"]
    /\ read = [w \in Writers |-> Nothing]
    /\ before = [w \in Writers |-> FALSE]
    /\ cache = [p \in Processes |-> [s \in Scopes |-> Nothing]]
    /\ load = [l \in Loaders |-> Idle]
    /\ raced = [w \in Writers |-> FALSE]

-----------------------------------------------------------------------------
(* Requests.                                                               *)

Kind(w, kind) == job[w].kind = kind
Scope(w) == job[w].scope

\* What the request loads first: the override row, or the row it changes.
Loads(w) ==
    CASE Kind(w, "toggle") -> override[Scope(w)][KeyOf(w)]
      [] Kind(w, "create") -> Nothing
      [] OTHER             -> rows[job[w].row]

\* "Rule not found", "stable_key already exists in this rule set",
\* "Only custom rule can be deleted".
Refused(w) ==
    \/ Kind(w, "create") /\ Live(rows, KeyOf(w)) # {}
    \/ Kind(w, "update") /\ ~Loads(w).live
    \/ Kind(w, "delete") /\ (~Loads(w).live \/ KeyOf(w) \in Globals)

\* Before anything is written.  A toggle reads the override and the company's
\* own row one after the other; a commit between the two counts as a race.
Read(w) ==
    /\ stage[w] = "new"
    /\ read' = [read EXCEPT ![w] = Loads(w)]
    /\ before' = [before EXCEPT ![w] = KeyOf(w) \in Effective(Scope(w))]
    /\ stage' = [stage EXCEPT ![w] = IF Refused(w) THEN "refused" ELSE "read"]
    /\ UNCHANGED <<tables, job, cache, load, raced>>

\* The loads under way in the scope live through the change.
Witnessed(scope) ==
    LET now == InForce(scope, rows', override'[scope]) IN
    [l \in Loaders |->
        IF load[l].at = "idle" \/ load[l].scope # scope THEN load[l]
        ELSE [load[l] EXCEPT !.ever = @ \cup now, !.steady = @ \cap now]]

\* History: a commit overtakes the cache entries of the other processes.
Outdated(w) ==
    [p \in Processes |->
        IF p = RunsIn[w] \/ cache[p][Scope(w)] = Nothing THEN cache[p]
        ELSE [cache[p] EXCEPT ![Scope(w)] = [rules |-> @.rules, raced |-> TRUE]]]

\* Mutant: the change log gets the row instead of its flag.
CommitsRow(w, after) ==
    /\ stage' = [stage EXCEPT ![w] = "committed"]
    /\ logged' = IF Scope(w) = "personal" THEN logged
                 ELSE [logged EXCEPT ![KeyOf(w)] =
                          [before |-> before[w], after |-> read[w]]]
    /\ raced' = [v \in Writers |->
                    \/ raced[v]
                    \/ v # w /\ stage[v] = "read" /\ Scope(v) = Scope(w)
                             /\ KeyOf(v) = KeyOf(w)]
    /\ load' = Witnessed(Scope(w))
    /\ cache' = Outdated(w)
    /\ UNCHANGED <<default, job, read, before>>

\* w commits, with its rule_change_logs row; whoever has read the key and not
\* committed yet is overtaken.
Commits(w, after) ==
    /\ stage' = [stage EXCEPT ![w] = "committed"]
    /\ logged' = IF Scope(w) = "personal" THEN logged
                 ELSE [logged EXCEPT ![KeyOf(w)] =
                          [before |-> before[w], after |-> after]]
    /\ raced' = [v \in Writers |->
                    \/ raced[v]
                    \/ v # w /\ stage[v] = "read" /\ Scope(v) = Scope(w)
                             /\ KeyOf(v) = KeyOf(w)]
    /\ load' = Witnessed(Scope(w))
    /\ cache' = Outdated(w)
    /\ UNCHANGED <<default, job, read, before>>

Now(w) == override[Scope(w)][KeyOf(w)]

\* The override row w has loaded is still there.
Kept(w) == read[w] # Nothing /\ Now(w) # Nothing /\ Now(w).id = read[w].id

\* session.delete of a row that has gone deletes nothing; an INSERT needs the
\* unique key free, an UPDATE the row it loaded, and an attribute that is set
\* to the value it has is not written.
Overridden(w) ==
    /\ Kind(w, "toggle")
    /\ \/ /\ job[w].to = default[KeyOf(w)]
          /\ override' = IF Kept(w)
                         THEN [override EXCEPT ![Scope(w)][KeyOf(w)] = Nothing]
                         ELSE override
       \/ /\ job[w].to # default[KeyOf(w)]
          /\ read[w] = Nothing /\ Now(w) = Nothing
          /\ override' = [override EXCEPT ![Scope(w)][KeyOf(w)] =
                             [id |-> w, enabled |-> job[w].to]]
       \/ /\ job[w].to # default[KeyOf(w)]
          /\ read[w] # Nothing /\ read[w].enabled # job[w].to /\ Kept(w)
          /\ override' = [override EXCEPT ![Scope(w)][KeyOf(w)] =
                             [id |-> read[w].id, enabled |-> job[w].to]]
       \/ /\ job[w].to # default[KeyOf(w)]
          /\ read[w] # Nothing /\ read[w].enabled = job[w].to
          /\ UNCHANGED override

\* Mutant: the company's own rows of the key stay.
RetiredNever(w) == rows

\* "Retire legacy rule-row overrides"
Retired(w) ==
    [i \in Ids |->
        IF Scope(w) = "company" /\ i \in Live(rows, KeyOf(w))
        THEN [key |-> KeyOf(w), enabled |-> FALSE, live |-> FALSE]
        ELSE rows[i]]

CommitToggle(w) ==
    /\ stage[w] = "read"
    /\ Overridden(w)
    /\ rows' = Retired(w)
    /\ Commits(w, job[w].to)

\* Mutant: no unique index.
FreeAlways(k) == TRUE

\* uq_rules_company_stable_key
Free(k) == Live(rows, k) = {}

CommitCreate(w) ==
    /\ stage[w] = "read"
    /\ Kind(w, "create")
    /\ Free(KeyOf(w))
    /\ rows' = [rows EXCEPT ![w] =
                   [key |-> KeyOf(w), enabled |-> job[w].to, live |-> TRUE]]
    /\ UNCHANGED override
    /\ Commits(w, job[w].to)

\* An UPDATE names the columns that differ from what was loaded.
CommitUpdate(w) ==
    /\ stage[w] = "read"
    /\ Kind(w, "update")
    /\ rows' = IF read[w].enabled = job[w].to THEN rows
               ELSE [rows EXCEPT ![job[w].row].enabled = job[w].to]
    /\ UNCHANGED override
    /\ Commits(w, job[w].to)

CommitDelete(w) ==
    /\ stage[w] = "read"
    /\ Kind(w, "delete")
    /\ rows' = [rows EXCEPT ![job[w].row].live = FALSE,
                            ![job[w].row].enabled = @ /\ ~read[w].enabled]
    /\ UNCHANGED override
    /\ Commits(w, FALSE)

\* IntegrityError or StaleDataError: everything is rolled back.
Fails(w) ==
    /\ stage[w] = "read"
    /\ \/ /\ Kind(w, "toggle")
          /\ job[w].to # default[KeyOf(w)]
          /\ \/ read[w] = Nothing /\ Now(w) # Nothing
             \/ read[w] # Nothing /\ read[w].enabled # job[w].to /\ ~Kept(w)
       \/ Kind(w, "create") /\ ~Free(KeyOf(w))
    /\ stage' = [stage EXCEPT ![w] = "failed"]
    /\ UNCHANGED <<tables, job, read, before, cache, load, raced>>

\* Mutant: the request does not touch the cache.
InvalidateNot(w) ==
    /\ stage[w] = "committed"
    /\ stage' = [stage EXCEPT ![w] = "done"]
    /\ UNCHANGED <<tables, job, read, before, cache, load, raced>>

\* RuleEngine.invalidate_cache, on the way out.
Invalidate(w) ==
    /\ stage[w] = "committed"
    /\ stage' = [stage EXCEPT ![w] = "done"]
    /\ cache' = [cache EXCEPT ![RunsIn[w]][Scope(w)] = Nothing]
    /\ UNCHANGED <<tables, job, read, before, load, raced>>

-----------------------------------------------------------------------------
(* load_rules.                                                             *)

\* Mutant: the overrides are read first.
QueryOrderSwapped == <<"overrides", "rows">>

\* The company's rows are read before its overrides.
QueryOrder == <<"rows", "overrides">>

\* The cache has nothing (a hit changes nothing).
Miss(l) ==
    /\ load[l] = Idle
    /\ \E s \in Scopes :
          /\ cache[RunsIn[l]][s] = Nothing
          /\ load' = [load EXCEPT ![l] =
                [at |-> "loading", done |-> 0, scope |-> s,
                 table |-> rows, over |-> override[s],
                 ever |-> Effective(s), steady |-> Effective(s)]]
    /\ UNCHANGED <<tables, job, stage, read, before, cache, raced>>

\* One query of _load_rules_uncached; the result of each replaces a place
\* holder.
Query(l) ==
    /\ load[l].at = "loading"
    /\ load[l].done < Len(QueryOrder)
    /\ load' = [load EXCEPT ![l].done = @ + 1,
                            ![l].table = IF QueryOrder[load[l].done + 1] = "rows"
                                         THEN rows ELSE @,
                            ![l].over = IF QueryOrder[load[l].done + 1] = "overrides"
                                        THEN override[load[l].scope] ELSE @]
    /\ UNCHANGED <<tables, job, stage, read, before, cache, raced>>

Answer(l) == InForce(load[l].scope, load[l].table, load[l].over)

\* _set_cached_rules, whatever has been invalidated meanwhile.
Fill(l) ==
    /\ load[l].at = "loading"
    /\ load[l].done = Len(QueryOrder)
    /\ cache' = [cache EXCEPT ![RunsIn[l]][load[l].scope] =
                    [rules |-> Answer(l), raced |-> load[l].ever # load[l].steady]]
    /\ load' = [load EXCEPT ![l] = Idle]
    /\ UNCHANGED <<tables, job, stage, read, before, raced>>

\* Five seconds after it was filled the entry is no longer served.
Expire(p, s) ==
    /\ cache[p][s] # Nothing
    /\ cache' = [cache EXCEPT ![p][s] = Nothing]
    /\ UNCHANGED <<tables, job, stage, read, before, load, raced>>

Request(w) ==
    \/ Read(w)
    \/ CommitToggle(w) \/ CommitCreate(w) \/ CommitUpdate(w) \/ CommitDelete(w)
    \/ Fails(w) \/ Invalidate(w)

Loading(l) == Query(l) \/ Fill(l)

Next ==
    \/ \E w \in Writers : Request(w)
    \/ \E l \in Loaders : Miss(l) \/ Loading(l)
    \/ \E p \in Processes, s \in Scopes : Expire(p, s)

Spec == Init /\ [][Next]_vars

-----------------------------------------------------------------------------
(* Properties.                                                             *)

Stages == {"new", "read", "refused", "failed", "committed", "done"}

\* Every variable has its shape.
TypeOK ==
    /\ default \in [Globals -> BOOLEAN]
    /\ rows \in [Ids -> Row \cup {Nothing}]
    /\ override \in [Scopes -> [Globals -> Override \cup {Nothing}]]
    /\ logged \in [Keys -> [before: BOOLEAN, after: BOOLEAN] \cup {Nothing}]
    /\ job \in [Writers -> Jobs]
    /\ stage \in [Writers -> Stages]
    /\ read \in [Writers -> Row \cup Override \cup {Nothing}]
    /\ before \in [Writers -> BOOLEAN]
    /\ cache \in [Processes -> [Scopes -> [rules: SUBSET Keys, raced: BOOLEAN]
                                             \cup {Nothing}]]
    /\ raced \in [Writers -> BOOLEAN]
    /\ \A l \in Loaders :
          \/ load[l] = Idle
          \/ /\ load[l].at = "loading"
             /\ load[l].done \in 0..2
             /\ load[l].scope \in Scopes
             /\ load[l].table \in [Ids -> Row \cup {Nothing}]
             /\ load[l].over \in [Globals -> Override \cup {Nothing}]
             /\ load[l].ever \subseteq Keys /\ load[l].steady \subseteq Keys

\* Whether a key is in force is said in one place: a company has at most one
\* live row of a key, and none where it has an override - whatever creations,
\* toggles and updates of the key overlap.
OneSource ==
    /\ \A k \in Keys : \A i, j \in Live(rows, k) : i = j
    /\ \A k \in Globals : override["company"][k] # Nothing => Live(rows, k) = {}

\* A load that reads the tables in two statements answers, for every key, with
\* a value that was in force during the load: a toggle that moves the decision
\* from a company's own row to an override is never seen half way.
LoadsAnswerCurrent ==
    \A l \in Loaders :
        load[l].at = "loading" /\ load[l].done = Len(QueryOrder)
            => load[l].steady \subseteq Answer(l) /\ Answer(l) \subseteq load[l].ever

\* A cache only serves what is no longer in force while a request of the same
\* process has committed and not yet invalidated, or when a commit overtook the
\* load that filled the entry, or came from another process after it (the
\* entry's five seconds bound either).
StaleOnlyByRace ==
    \A p \in Processes, s \in Scopes :
        cache[p][s] # Nothing /\ cache[p][s].rules # Effective(s) =>
            \/ cache[p][s].raced
            \/ \E w \in Writers :
                  stage[w] = "committed" /\ Scope(w) = s /\ RunsIn[w] = p

\* A request that nobody overtook between its read and its commit puts its
\* rule in or out of force as asked, whatever other keys do, and the change log
\* holds what was in force before and what is now.
TakesEffect(w) ==
    stage[w] = "read" /\ stage'[w] = "committed" /\ ~raced[w] =>
        LET to == ~Kind(w, "delete") /\ job[w].to IN
        /\ (KeyOf(w) \in Effective(Scope(w))') = to
        /\ Scope(w) = "company" =>
              logged'[KeyOf(w)] =
                 [before |-> KeyOf(w) \in Effective(Scope(w)), after |-> to]

RequestsTakeEffect == [][\A w \in Writers : TakesEffect(w)]_vars
=============================================================================
