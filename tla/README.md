# Formal models of the AI compliance gateway

The repository is a chat gateway that scans what users send to a language
model: a FastAPI application (`app/`), a background worker that ingests policy
documents, PostgreSQL, Redis, and a React client (`sentinel-ui/`). This
directory holds TLA+ modules of its core logic, TLC configurations that check
them on small instances, and proofs, checked by TLAPS, that hold for every
size of instance.

## 1. The system

### Processes and what they share

| process | runs | shares |
|---|---|---|
| API (`compose.yml`: one uvicorn; `compose.prod.yml`: gunicorn with 2 workers) | an event loop for `async def` endpoints, a thread pool for `def` endpoints and dependencies | PostgreSQL (READ COMMITTED), Redis, in-process caches (`RuleEngine._rules_cache`, context terms) |
| `policy-worker` | a loop: pop a job id, process the job | PostgreSQL, Redis list `policy_ingest_jobs` |
| LLM / embedding providers | HTTP | - |

The database session is synchronous. A coroutine that waits for a row lock
therefore keeps the event loop (ARCHITECTURE.md:198 lists "Sync DB session
inside async flow" as a trade-off); it gives the loop up only where it awaits
an HTTP call.

### Components

| component | state | operations | interacts with | what makes it correct |
|---|---|---|---|---|
| conversation append (`app/conversation/service.py`) | `conversations.last_sequence_number`, `.status`, `messages`, row locks, each request's session and identity map | guard, lock, scan, save user message, call provider, scan, save assistant message; edits of the status | scan decision (which may commit or roll back the session it is lent), chat providers | gapless numbers in commit order; only vetted text leaves; answers after questions; every send ends |
| scan decision (`app/decision/scan_engine_local.py`) | none of its own; the signals of one scan | two evaluations of the rules, semantic verification, RAG decision | rule runtime, RAG verifier | restrictions have grounds; assistance cannot overrule a steady rule; failures of a model are harmless |
| rule runtime and lifecycle (`app/rule/`) | `rules`, `company_rule_overrides`, `user_rule_overrides`, `rule_change_logs`, one cache per process | create, update, delete, toggle (company, personal), load, invalidate, expire | every scan loads rules | one source per key; a request does what it answers; loads are not torn; caches converge |
| context terms (`app/rule/service.py`, `app/decision/context_term_runtime.py`) | `context_terms`, `rule_context_term_links`, rule embeddings, a cache per process | written with the rule, in one commit; load, invalidate, expire | rule lifecycle, suggestions, scan | every keyword of a rule in force is looked for; a rule, its links and its embedding are of a piece |
| policy ingest (`app/policy/`) | jobs, items, documents, chunks, the Redis list | create, retry, process; toggle and delete a document | embedding provider | a document's chunks are those of its content; a verdict matches its items; every job ends |
| suggestions (`app/suggestion/service.py`) | `rule_suggestions` with version and expiry, logs | generate, edit, confirm, reject, apply, expire | rule lifecycle (apply), drafting | what becomes a rule is what was confirmed; applied means the rule exists |
| drafting (`suggestion_generation.py`, `suggestion_postprocess.py`) | none: a function of the request and the model's answer | fallback drafts, a dozen passes, normalisation, confirmation | chat providers, suggestions | a later pass does not undo an earlier one; the draft is about what was asked |
| duplicate check (`duplicate_checker.py`) | none | hashes, scores, the model's opinion, corrections | suggestions (confirmation may be refused) | refused only for a rule that does the same |
| authentication (`app/auth/`) | users, refresh tokens | register, login, refresh, logout | - | a refresh token is used once |
| companies (`app/company/`) | companies, members | create the rule set, set the system prompt | rule lifecycle | one rule set per user |
| chat providers (`app/chat/`, `app/llm/`) | - | route, retry, fall back | - | a failure means that all were tried; few and orderly calls |
| detectors, merger, masking (`app/decision/`, `app/masking/`) | - | report spans, merge them, replace some | scan | a span that wins where it stands is hidden |
| retrieval, embeddings | - | pure | scan | - |

### What is hard here

* **Interleaving**: the event loop, the worker threads and several processes
  meet in the same rows and caches; `SELECT ... FOR UPDATE` locks but does not
  refresh the identity map.
* **Atomicity**: a session lent to a callee that commits or rolls it back;
  reads of several tables in one READ COMMITTED transaction.
* **Stale state**: rules loaded before an await and used after it; a cache
  filled after it was invalidated; a status read by a guard.
* **Waiting**: a coroutine that blocks the event loop on a row whose holder
  needs the event loop.
* **Failure**: a process that dies between two commits; a provider that does
  not answer; a log row that cannot be written.

`PROJECT.json` lists each hazard at its line, with the properties that watch it.

## 2. Modules

| module | models | abstract state and actions |
|---|---|---|
| `ConversationAppend` | `append_user_message_async` and all it calls | below |
| `ConversationAppendProofs` | theorems about it | section 4 |
| `ScanDecision` | `ScanEngineLocal.scan`, `DecisionResolver`, `compact_matches` | below |
| `RuleRuntime` | `RuleEngine.load_rules` and its cache, the rule requests of `app/rule/service.py` | below |
| `PolicyIngest` | `app/policy/service.py`, `queue.py`, `worker.py` | below |
| `IngestLifeCycle` | what a job's status promises; `PolicyIngest` implements it | below |
| `SuggestionLifecycle` | generation, edit, confirmation, rejection, application and expiry in `app/suggestion/service.py` | below |
| `SuggestionReview` | what the review promises; `SuggestionLifecycle` implements it | below |
| `SuggestionLifecycleProofs`, `SuggestionReviewProofs` | theorems about the suggestions, the second module extends the first | section 4 |
| `ContextTerms` | rules with their keywords, terms, links and embeddings, and both caches | below |
| `TextGeneration`, `EntityMasking`, `DuplicateCheck`, `Drafting` | algorithms without a state, as operators | below |
| `MCAlgorithms` | asks these four every question within bounds | below |
| `PolicyIngestProofs`, `ScanDecisionProofs`, `RuleRuntimeProofs`, `ContextTermsProofs` | theorems about these modules | section 4 |
| `AlgorithmProofs` | theorems about the answers of the algorithms, for inputs of every size | section 4 |
| `MC...` | model values and definitions for TLC | - |

**ConversationAppend.** PostgreSQL is `counter`, `status`, `messages` and
`rowLock`; each send has its `stage`, its session's view (`cached`,
`cachedStatus`, `number`, `pending`) and the verdict of its latest scan; `loop`
is the send whose coroutine has the event loop. One action stands for a stretch
of code between two points at which anything else can run: a database call that
may wait, an await, a commit. `Guard` runs in a worker thread, without the loop.
`LockRow` is the `FOR UPDATE` that does not refresh: the number comes from what
the guard cached. The scan inside is four awaits and resumptions
(`AwaitVerify` ... `ResumeRag`) that may leave the session alone, commit it
(`RagVerifier.decide` saves its log row with the caller's session) or roll it
back. `SaveUser`, `SaveAssistant` and `SaveDuplicate` are the flushes and
commits, `StartClose` and `CloseSession` the end of a session after an exception.
`Crash` kills the process. `EditGuard` and `EditCommit` are the PATCH and
DELETE requests, which write the status only if it differs from the one they
read. One API process is modelled; with several, each would have a `loop`
of its own.

**ScanDecision.** One scan of one text. The rules live in `table`, those that
`load_rules` answers with in `view`; what the detectors find is chosen at the
start (`hit`, `sec`, `gate`, `simple`). The steps are the code's own:
`EvaluateLocal` (phase 1), `Assist`, `VerifyAnswers`, `ReadToggles`,
`RagAnswers`, `EvaluateAll` (phase 2). `RulesChange` may toggle any rule
between them. `Called` compares the spelling of the action the way the code
does, which is why `Called(M, "block")` is always empty (see Findings). The values `allow` and `warn` of a rule's action are
distinct here; in `ConversationAppend`, where they are treated alike, `allow`
stands for both.

**RuleRuntime.** The tables are `default` (the global rules' flag), `rows` (a
company's own rows, by id: custom rules, and legacy rows that bear a global
rule's key) and `override`. A request reads, commits and invalidates, in three
steps; what a commit does depends on what was read before, as SQLAlchemy does
it: an attribute set to the value it has is not written, a row that has gone is
deleted silently but cannot be updated, an insert may violate a unique key. A
load misses, runs its two queries in order and fills the cache of its process.
`raced` (of a request and of a cache entry) is history for the properties.

**PolicyIngest.** PostgreSQL is `payload`, `item`, `job`, `tally` and `doc`
(a document is named by the item that inserted it); `lock` is the worker whose
transaction has written a document and not committed. Redis is `queue`. A job
request has two steps, the commit of the rows (`Create`, or `Retry` with the
failed items of another job) and the push; `PushFails` leaves the id on the
list or not, and `MarkFailed` writes the status of a job the request remembers
as pending. Each worker pops, loads, starts, and takes its items one
transaction each: `StartItem`, `LoadDocument`, then `Skip`, `Collide` (the
unique key) or `Flush`, after which the embedding call is made with the row
locked, and `Save` or `Fail`. A document is loaded some time before it is
written, and only the columns that differ from what was loaded are written
(`Written`); `EditLoad` and `EditCommit` are the toggle and delete requests,
which do the same. The chunks of a document are represented by the content they
were cut from. `WorkerCrash` and `ApiCrash` may come between any two commits;
`lost` records the jobs they hit. `lossy` says whether a reply of Redis may be
lost.

**IngestLifeCycle.** A job is worked on at most once, each item is decided at
most once, the worker's verdict comes when all items are decided and is theirs.
`PolicyIngest` implements it with its own `job` and `item`; where `lossy` is TRUE
the abstract job may read "failed" while a worker has it, which is exactly what
the code then does.

**SuggestionLifecycle.** `sug` is the table `rule_suggestions`, `old` the rows
whose `expires_at` has passed, `rules` the rules that suggestions have become.
Each worker serves one request after another; what it has loaded, and how far it
is, is in `req`. `Load` reads the row and makes the checks of status and
`expected_version` (an outdated row goes to `Expire`, which commits by itself);
`Search` and `VetConfirmation` are the reads between; `WriteEdit`,
`WriteConfirmation`, `WriteRejection` and `WriteApplication` write the columns
that differ from what was loaded (`Saved`), whatever has been committed since.
`Generate` begins when the model's draft is there: it looks for an active twin,
may expire it on the way (`FindOutdated`), after which it looks again (`Search`, which
an edit goes through as well), and inserts when none is in its way (`VetDraft`,
`WriteGenerated`). Drafts are told apart by their
key and their body; `Canonical` is what confirmation makes of them.
`contested` (suggestions that an overtaken request has written) and `confirmed`
are history.

**SuggestionReview.** One suggestion at a time: proposed, revised, approved,
enacted, or rejected or expired on the way, each step but expiry with a new
version; enacted is what was approved. The refinement maps `phase`, `version`,
`content` and `made` from the rows; a contested suggestion maps to the phase
"contested", of which nothing is promised. So `Reviewed` says how far the version
check carries: to every suggestion no two requests have written over each other.

**ContextTerms.** A condition is a list of nodes with words, as deep as
`_build_semantic_conditions` looks. `terms` is a sequence of rows in order of
creation, without a unique key, as in the database; two requests that have read
the table may both insert. `Created` and `Updated` are what
`create_company_custom_rule`, `_apply_rule_draft` and `update_company_rule` make
of the rule they have read: conditions rebuilt with semantic terms, terms upserted
from the conditions ("auto") and by hand ("manual"), links of either source
synchronised. `Commits` records which cache entries a commit has overtaken, and
which caches the request has still to drop, in which order. `Embedders` are the sessions
that write embeddings of rules they do not own (the search for duplicates, of which
generation and confirmation commit what it wrote, and the RAG of a scan): one reads the
rules (`LoadRules`), later writes for a live rule the embedding of the conditions it has
read (`Embed`) and commits, or ends without a commit (`ForgetRules`).

**The algorithms.** `TextGeneration`: what a caller gets from a world that says
how each provider answers, with the trace of POSTs. `EntityMasking`: the spans
detectors report for a number, `EntityMerger.merge`, and the choice of
`MaskService.mask`. The loops of both are recursive functions of the index, into the
chain of providers or the sorted spans, so that they can be reasoned about. `DuplicateCheck`: `build_duplicate_check` on rules as
records and matches as sets, with the code's weights and thresholds as integers. `Drafting`: the draft as a
set of leaves and terms over a handful of words, one for each thing the passes
tell apart (code-like, abstract, part of a token, noise, said in the request, not said in
it...); a leaf says whether it stands under a "not", where the guards look and from where
the normalisation stores nothing. Patterns of words (`startswith`, `regex`), objects with
two of the keys the walk tells apart, and words that merely overlap "payroll" or "gmail" are left out;
`Passed` composes the passes in the code's order. Each module ends in the predicate
that its answers should satisfy. `MCAlgorithms` is a state machine only in so far
as a call's input arrives in up to three steps, which lets TLC enumerate it.

## 3. Runs

Deadlock is checked in `append_lossless`, both `decision_` runs, `rules_cache`,
both `ingest_` runs and `terms`. It is not in `append_rag` and `append_wedged`,
where the modelled program really does stop (see Findings); in the runs of
suggestions, where the bounds on ids and versions are used up in the end; and in
`algorithms`, where a call is over.

| run | instance | shows |
|---|---|---|
| `append_lossless` | 3 sends, local scans, fairness | TypeOK, Gapless, DuplicateMeansOvertaken, NumbersFollowCommits, EverySendEnds |
| `append_rag` | 2 sends, 2 edits, 1 crash; verification, RAG, failing logs and raising scans | AnswerAfterQuestion, OnlyVettedTextLeaves, StallsOnlyBehindSuspendedSend, ArchivedSeenNothingSaved |
| `append_wedged` | 2 sends, RAG on | violation of NextNumberIsFree |
| `decision_grounded` | 4 rules: one of the rule set's own or global, one global, both RAG toggles; all actions, two priority orders; 1 change of the rules | TypeOK, Grounded, OnlyAskedTogglesAct, SteadyTopDecides |
| `decision_block_wins` | the same | violation of BlockWins |
| `rules_cache` | 2 requests of any kind in two processes, 1 loader, 1 global and 1 custom key | TypeOK, OneSource, LoadsAnswerCurrent, StaleOnlyByRace, RequestsTakeEffect |
| `ingest_jobs` | 2 jobs, 2 keys, 2 contents, 2 workers, 1 edit, 1 crash; symmetric in all but the edit | TypeOK, ChunksMatchContent, OneLiveDocument, VerdictMatchesItems, NoJobForgotten, DeletedStaysDeleted, KeepsLifeCycle |
| `ingest_ends` | 2 jobs, 1 key, 2 workers, 1 crash, fairness | EveryJobEnds |
| `suggestions` | 2 workers without end, 2 suggestions, 3 drafts of which 2 are offered, 2 prompts, 2 rules | TypeOK, AppliedHasRule, RulesWereConfirmed, Reviewed |
| `suggestions_unreviewed` | the same with 1 suggestion and one version more | violation of AppliedAsConfirmed |
| `terms` | 2 requests out of nine, in two processes, 1 scanning thread, 1 session that embeds, 2 rules, 4 words, fairness | TypeOK, KeywordsSpotted, UnracedRuleIsWhole, CachesStaleOnlyByRace, CachesConverge |
| `algorithms` | all inputs within the bounds below | FallbacksInOrder, LocalWinnersAreMasked, NearestNameWins, RefusalIsFounded, GuardsSurvive |

Bounds. Sends to different conversations share only the event loop, so one
conversation carries the races; three sends let one hold the row, one wait and
one have finished in between, which is the longest chain the stale counter
needs. One crash reaches every point between two commits. The requests of
`RuleRuntime` meet only on one key; two of them exhibit each pair of kinds;
chains of three are not checked. Two jobs and two workers let a document be
inserted, overwritten, retried and deleted while another worker has it loaded; two keys let the items
of one job end differently. `ingest_jobs` asks for enabled documents only: what
an edit switches off, a later job switches on again.
In `suggestions`, a request is begun on a version of at most `MaxVersion`, so that
a suggestion is written up to three times, enough for an overtaken write on a
confirmed row; `Aging` makes only the first suggestion grow old, which is the one
a generation can find as an outdated twin. All drafts share a key, so that two rules
are always in each other's way; d1 is canonical and d2 is not: its canonical form, d3,
only comes about by a confirmation. That a live rule with the body of a draft but another
key refuses a confirmation is therefore not met in the run as a case of its own: it
refuses no more than `Refuse` may at any time. `MaxRules` is 2, a second rule from one
suggestion or one from each.
In `terms`, `Limit` is 1 where the code has 2, so that two eligible terms already
exceed it; the nine jobs are chosen to share one word between two rules, by
hand and by condition, on and off, in both modes.
In `algorithms`: every first and second answer of three providers; texts of five
characters with up to three spans of three types; numbers of nine to twenty digits
with words near or far and a space behind or not; two rules that differ from a draft in any part; requests
about at most one PII type, one code and one topic with model drafts of one or two
leaves, among them a keyword under a "not" and one that is part of a token. Three spans are the fewest with which a displaced span can matter; two rules
the fewest of which the correction looks at the wrong one.

Fairness. `EverySendEnds` assumes weak fairness of each send and edit: asyncio
runs ready tasks in turn, every provider call has a timeout, PostgreSQL grants
a free row. No scan of that run is suspended while it holds a row: with RAG on one may be,
of the conversation (see Findings) or of `rule_embeddings` (section 6). `CachesConverge` assumes only that time passes (an entry is five
seconds old at some point): requests and loads may hang, and nobody is obliged to
scan. `EveryJobEnds` assumes that a request that has committed a job goes
on to push it, and that each worker goes on: `BRPOP` returns what is on the
list, and the embedding call has a timeout.

### Findings

* `append_wedged`: with a RAG rule enabled the log of the RAG decision commits
  the caller's counter; after a collision the counter can lag behind, and the
  next send fails as well, without any concurrency.
* `decision_block_wins`: the resolver's lists of blocking and masking matches
  are always empty (`str(RuleAction.block)` is `"RuleAction.block"`).
* `suggestions_unreviewed`: status and version are compared with the row as loaded
  and the UPDATE names only the id; an edit that loaded a draft before its
  confirmation and writes after it leaves the suggestion approved with a draft
  nobody has confirmed, and the application makes a rule of it.
* With semantic verification or RAG on, `EverySendEnds` does not hold: a send
  suspended in its scan holds the row, the next one blocks the event loop on
  it, and the first is never resumed. No document claims otherwise, so there is
  no run for it; `StallsOnlyBehindSuspendedSend` says exactly when it happens,
  and the runs with those options do not check for deadlock.

What the models also show about the code, where no document says otherwise:

* The number of a message is computed from what the guard read before the row was
  locked: a send that waited collides on `uq_messages_convo_seq` and ends in a 500.
  `DuplicateMeansOvertaken` is what remains true.
* An answer need not stand behind its question. Two RAG scans, one writing a counter
  it read long ago and one rolling a newer value back, and a third send that fails
  leave the counter in front of a number nobody used; a fourth send is then
  answered below its own question. It takes four sends and does not show with three:
  `AnswerAfterQuestion` therefore excepts conversations in which a send that failed
  or died has left a number without a message (`NumberSkipped`), and no others.
* A RAG decision that cannot be had counts as ALLOW.
* A term that one rule's request writes as disabled switches the same word off for
  every other rule of the company, since terms are shared (`dark` in
  `KeywordsSpotted`); applying a suggestion, on the other hand, enables what its
  draft had disabled. A change of `match_mode` alone puts a word into the conditions
  without the term that makes the scan look for it (`modeOnly`).
* A session that searches for duplicates or retrieves context may write the embedding of
  a rule from conditions it read before an update of the rule committed; the rule then
  has an embedding of its old conditions until somebody reads it anew. `UnracedRuleIsWhole`
  says that nothing else leads there (`raced`).
* The resolver's description has a block win over everything; by the priorities that decide
  instead, a mask rule may decide although a lower block rule matches. `SteadyTopDecides`
  speaks of a top rule that description leaves to decide (`Undisputed`), and
  `decision_block_wins` shows the rest.
* The guards of a literal secret look for its token among all keywords, under a "not" too,
  and take a keyword that is part of the token, or contains it, for the token
  (`suggestion_postprocess.py:1427-1458`); the normalisation drops what stands under
  a "not" (332-335). A model answer with the token there, or with a fragment of it,
  passes every guard and ends as a draft that does not ask for the token.
  `GuardsSurvive` promises the token only for answers without either (`Straight`).
* With more eligible terms by hand than the limit, each save of a rule
  rebuilds its conditions from the ones it added the last time, and adds others; of
  two keyword leaves under `all` the second is dropped by the rebuild.
* A rule with the key of a draft hides, in the duplicate check, another rule that
  duplicates it; a confirmation is then not refused for the duplicate but left to
  the check of keys.
* When a literal must be protected, the grounding pass removes the terms that the
  runtime check had asked for, so that the stored draft is reported as not usable.
  A minimal draft takes its action from letters in the request ("allowance")
  rather than from the action the request names. Confirming a draft that combines
  a known PII type with keywords replaces its conditions by the type alone.
* In the masker, replacing the last chosen span by a later one of higher rank
  uncovers the first span's beginning; `LocalWinnersAreMasked` is what remains true.

## 4. Proofs

See the module of each theorem for the argument in full.

`ConversationAppendProofs` holds, for any number of sends, edits, conversations
and crashes:

* **TypeCorrect**: `Spec => []TypeOK`, one step per action.
* **NumbersAreGapless**: `Spec => []Gapless`, assuming `LosslessScan` (no RAG
  rule, no failing log write). `Gapless` is not inductive by itself. The invariant adds that no
  send's number is further than one beyond the counter and that a cached
  counter is never ahead of the real one (`NeverAhead`): then a number that is
  not taken can only be the next one. The row lock is not used: the unique
  key carries the argument.
* **NumbersInCommitOrder**: `[][FiledLast]_vars` from the same invariant.
* **OnlyVettedLeaves**: without the assumption. The strengthening ties each
  stage after the commit to a message of that send with its verdict.
* **LoopStallsOnlyBehindSuspended**: the strengthening says in which stages a
  send may hold its row, and that a coroutine in such a stage that is not
  suspended has the loop itself.
* **ArchivedReceivesNothing**: a send whose guard saw an archived conversation has
  no stage from which a message could come.
* **AnswersFollowQuestions**, without `LosslessScan`: `OrderInv` says that
  where no number was skipped, counter and remembered counters may lag behind the
  messages but never point into a gap: each number up to them is a message's, or in the
  hands of a send whose scan has committed it already. TLC checked it with two to four
  sends before the proof; the four-send
  counterexample to the first version of the property was found this way.
* **DuplicatesWereOvertaken**, under `LosslessScan`: by `OwnInv` a send has no
  message before it files its question, and none beyond the counter it remembers while
  it prepares its answer.

The suggestions, for any number of workers, suggestions, rules and versions
(assumptions, in `ConstantsAssumption`: the canonical form of a draft is its own
canonical form and keeps the draft's key, as `_canonicalize_known_pii_draft_for_runtime`
updates everything of the rule but `stable_key`, and what it leaves are terms from
a fixed list, which no later pass takes for a literal; the rest says that the constants
have their types). `IInv` and `CInv` below were checked
by TLC on the instance of `suggestions` before they were proved:

* **AppliedSuggestionsHaveRules** (`SuggestionLifecycleProofs`): `Spec => []AppliedHasRule`,
  with overtaken requests and all. The invariant `IInv` gives every request its
  shape and adds that a result stays with its row whatever the status becomes,
  that it is a rule made from this row, and that the result an application has
  read, if any, is a rule as well: since the application makes a new one, the column
  differs from what was read and is written along with the status.
* **SuggestionTypes** and **RulesComeFromConfirmations** (`SuggestionReviewProofs`): from
  `IInv /\ CInv`. The heart of `CInv` is `ReadsCurrent`: a request that nobody has
  overtaken still has the row as it is, in a status that its kind may start from. With it,
  `ApprovedAsConfirmed` and `Origins` say what an uncontested suggestion has in common
  with its confirmation and its rule, and `ConfirmedFirst` what is true of contested ones too.
* **SuggestionsAreReviewed** (`SuggestionReviewProofs`): `Spec => Reviewed`, the
  refinement of `SuggestionReview`. A write is the abstract step of its kind if the
  request is current and the suggestion uncontested (`PlainWrite`), `Contest` if the
  request was the first to be overtaken, and invisible if the suggestion is contested
  already (`WriteSeen`); an application needs `ApprovedAsConfirmed` for the rule, made of the
  canonical form, to be the draft that was approved. A new rule never has the id of one that is
  the result of another suggestion, so that what the review sees of the others stays
  (`UnseenRow`).

`PolicyIngestProofs`, for any number of jobs, items, keys, contents, workers, edits and
crashes (the set of keys is finite: a job names a finite number of documents). The
invariant has three layers, each proved with the one before:

* `IInv`: who has a job. Its id is on the list at most once and never on the list and
  with a worker, two workers never have the same, and what a worker has still to do of
  its items is what their statuses say. **IngestTypes**.
* `DInv`: documents. Among the workers in an embedding call one at most inserts a
  document of a key, which is free until it commits; a document comes with the item that
  has been decided. **ChunksAreTheDocuments** and **KeysHaveOneDocument**;
  **DeletionsLast** needs of `IInv` only that what was loaded exists.
* `JInv`: statuses. The status of a job follows from where its id is (up to the
  failure a lost reply of Redis leaves), and a job with a verdict is in nobody's hands,
  so that no item of it changes any more. **VerdictsMatch**, **JobsAreRemembered**
  (a pending or running job is forgotten only by a crash) and
  **IngestKeepsLifeCycle**, the simulation of `IngestLifeCycle`.

`ScanDecisionProofs`, for any table of rules with any actions and priorities
(**ScanTypes**, **DecisionsAreGrounded**, **TogglesAreAsked**, **SteadyTopWins**). The
invariant `SInv` adds to the properties that the rules looked at were in force at some
time of the scan, that those in force throughout are among them, and that a steady rule
which outranks all others, undisputed, and meets the text has ended the scan at the first
evaluation. The resolver takes a first match of a finite set under a total order, and
that there is one needs an argument: a smallest set of matches without a first would
have a smaller one (the library's well-foundedness of strict subsets). Rules are finite
in number, as the rows of a table are.

`RuleRuntimeProofs`, for any number of requests, loaders, processes and keys:
**RuleTypes** and **OneSourceOfAKey** from `RInv`, where the rows that were there stay,
dead or alive, and a new one comes only with the commit of its request;
**LoadsAreCurrent** from `LInv`: between its two queries a load has, for each key, either
rows that said what was in force at some time since it began, or no rows, and then none
will come; **StaleIsExplained** from both; **RequestsDoAsAsked** from `UInv`: what a
request that nobody overtook has read is what it would read now. TLC checked each of
the three.

`ContextTermsProofs`, for any number of requests, scans, processes, rules, terms and
words: **TermTypes** from `SInv`, by which the rows a request has read of `terms` are still
there under their identity (rows are never deleted), and what it has read of its own
rule is so until it is overtaken; **KeywordsAreSpotted** from `KInv`: a keyword has a
row, and a row that is off is of a word switched off; **UnracedRulesAreWhole** from
`WInv`, the same property of deleted rules as well, where what an embedder has read of a
rule is so until a commit overtakes it; **StaleCachesAreExplained**
from `CInv`, by which a cache entry is current, overtaken, or about to be dropped. TLC
checked all four on the 526,599 states of `terms`. The set of words is finite, as a
stored text column is.

`AlgorithmProofs` goes beyond the enumerated inputs:

* **RefusalsHaveGrounds**: any draft, any finite set of rules, any scores and any reply
  of the model. How many of the best matches are shown to the model plays no part.
  **RefusalsAreFounded** is the instance `algorithms` checks.
* **WinnersAreHidden**: any set of spans, in whatever order the merge gets them (so long
  as it gets them all) and in any order from left to right for the mask: how either sort
  treats equals does not matter. A loop over a sequence is reasoned about by
  `Throughout`: a first index at which a predicate fails would have a predecessor.
  What the merge and the choice have kept up to an index is such a predicate
  (`MergeRun`, `ChooseRun`); a winner stays, as a span that overlaps it either comes
  later and loses against it or stands last and loses to it. **ReportsAreMasked**:
  `EntityMerger.merge` and `MaskService.mask` with their sorts, for any finite report of
  which no two spans have the same key. **LocalWinners** is the instance.
* **PassesKeepTheirWord**: any request whose words are those the passes tell apart, and
  whatever the model sends, in any number of conditions on any words. One lemma per
  pass says what it establishes and what it leaves alone; the order of the passes
  then carries `Guarded` (no PII stands in for the secret asked for and, of a straight
  answer, the secret is among the keywords), `About` (every word occurs in the request) and
  `Personal` (the key) to the end. Conditions may stand under a "not" and hold parts of
  tokens: of such an answer everything is proved but that the secret is asked for. Confirming
  twice is confirming once, since realignment and normalisation of a confirmed draft
  are the identity (`RealignedStays`, `NormalizedStays`, `CanonicalStays`).
  **GuardsHold** is the instance.
* **TextsAsPromised** and **RepliesAsPromised**: any answer to either POST, any keys
  and any preference or model. One argument serves both loops. Before a provider's
  turn the trace is about earlier providers of the chain and holds no text (`Told`);
  a turn appends a block of POSTs to one provider of which at most the last is final
  (`Turn`); and no provider stands twice in a chain (`ChainIs`, `ReplyChainIs`), so
  that the trace with the block is orderly again (`TurnTold`) and the POSTs to the
  others are as they were. `TextRun` and `ReplyRun` add who has failed so far. That a
  reply fails only if nobody returns anything needs that its chain has all three
  providers; for a text it holds of the chain only, as a preference for Ollama leaves
  no fallback. **FallbacksHold** is the instance.
* **NumbersAreMasked**: any number of digits, filler words of any length behind it, and
  words at any of the distances the detectors tell apart. All spans of one number start
  where it does and so overlap strongly; the merge keeps one at a time, and once it has
  seen a span of a set whose members win against all others, it keeps one of that set
  (`Kept`, `LeaderIsMasked`). A card is such a set; so are, of ten digits, the phones or
  the tax numbers, whichever word is nearer. That winning is strict is
  `GreaterIsStrict`; that no two spans of a number have the same key for the sort, which
  **ReportsAreMasked** asks of a report, is `FoundIs`. **NearestNames** is the instance.

Model-checked only: liveness (`EverySendEnds`, `EveryJobEnds`, `CachesConverge`), which
is out of the prover's reach. Every other property that a passing run checks is a
theorem.

## 5. Plan

1. *Done*: conversation append, scan decision, rule runtime, policy ingest with
   its abstract life cycle; first theorems.
2. *Done*: suggestions with the review they implement; context terms with the
   caches a scan reads; the algorithms.
3. *Done*: every safety invariant and action property of the state machines, the two
   refinements, and the five properties of the algorithms, proved.
4. Tokens and the creation of rule sets (both read and then insert), two API
   processes in `ConversationAppend`, a bound on the connection pool.

## 6. Not modelled

Presidio, the address, e-mail, secret and injection detectors, embeddings and
retrieval are functions of texts and vectors: they enter the models as arbitrary
results, and so do the phrases extracted from a request. Exact terms that are
masked between the labels are left out of `EntityMasking`. A RAG scan and a search for
duplicates lock the rows of `rule_embeddings` they write until their session ends, and two
may wait for each other; the locks are not modelled (PostgreSQL breaks a cycle of them, not
one that passes through the event loop), only what is written. How long retries and fallbacks of
the chat providers take together is not modelled, only their number and order. Prompts, names,
severities and priorities of drafts are left out of `Drafting`, where no property
tells them apart. Weights and windows of terms go the way of their enabled flag.
Conversations exist from the start in `ConversationAppend`; listings, simulation
and monitoring only read. Authentication and the creation of rule sets are single
reads followed by single writes, whose one race each is a hazard in
`PROJECT.json`. Migrations, seeding and evaluation scripts run by hand; a seeding
script that changes a global rule bypasses the caches, which then lag by up to five
seconds. The web client keeps no state of the system's own. `PROJECT.json` has the
full list.
