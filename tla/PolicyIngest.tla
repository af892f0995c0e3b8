---------------------------- MODULE PolicyIngest ----------------------------
(***************************************************************************)
(* Policy documents and the jobs that ingest them: the API creates a job    *)
(* with its items, pushes its id on a Redis list, and edits documents; a    *)
(* worker process pops an id and processes the items one transaction each,  *)
(* calling the embedding provider inside.                                   *)
(*                                                                         *)
(* An id that was popped is on no list any more; the commit of a job and     *)
(* its push are two steps; and an API request that got no answer from Redis  *)
(* does not know whether the id was pushed.                                  *)
(***************************************************************************)
EXTENDS Naturals, Sequences, FiniteSets

CONSTANTS
    Jobs,
    Keys,           \* stable keys of documents
    Contents,
    Payloads,       \* what an item may ask for
    Workers,        \* policy-worker processes
    Edits,          \* PATCH and DELETE requests for a document
    MaxCrashes,     \* of a worker, or of the API between commit and push
    Nothing

Items == Jobs \X Keys

Document == [content: Contents, chunks: Contents, enabled: BOOLEAN, live: BOOLEAN]

\* The items of a request are a list: finitely many keys.
ASSUME ConstantsAssumption ==
    /\ IsFiniteSet(Keys)
    /\ Payloads \subseteq [content: Contents, enabled: BOOLEAN]
    /\ MaxCrashes \in Nat
    /\ Nothing \notin Payloads \cup Document \cup Jobs \cup Items \cup Workers

VARIABLES
    \* PostgreSQL
    payload,        \* what each item asks for; Nothing: there is no such item
    item,           \* policy_ingest_job_items.status
    job,            \* policy_ingest_jobs.status; "none": not created
    tally,          \* success_items, failed_items, skipped_items
    doc,            \* policy_documents, by the item that created them
    lock,           \* the worker that has written a row and not committed
    \* Redis
    queue,
    lossy,          \* the reply to a push may be lost
    \* the API's requests
    request,        \* of each job
    edit,
    \* each worker
    stage,
    current,        \* its job
    todo,           \* item_ids still to come
    task,           \* the item at hand
    found,          \* the document loaded for it: id and row, or Nothing
    \* history
    crashes,
    lost            \* the jobs a crash hit

database == <<payload, item, job, tally, doc, lock>>
worker == <<stage, current, todo, task, found>>
api == <<request, edit>>
vars == <<database, queue, lossy, api, worker, crashes, lost>>

ItemStatuses == {"none", "pending", "running", "success", "failed", "skipped"}
JobStatuses == {"none", "pending", "running", "success", "failed"}
NoTally == [success |-> 0, failed |-> 0, skipped |-> 0]

Init ==
    /\ payload = [i \in Items |-> Nothing]
    /\ item = [i \in Items |-> "none"]
    /\ job = [j \in Jobs |-> "none"]
    /\ tally = [j \in Jobs |-> NoTally]
    /\ doc = [i \in Items |-> Nothing]
    /\ lock = [i \in Items |-> Nothing]
    /\ queue = <<>>
    /\ lossy \in BOOLEAN
    /\ request = [j \in Jobs |-> "new"]
    /\ edit = [e \in Edits |-> Nothing]
    /\ stage = [w \in Workers |-> "idle"]
    /\ current = [w \in Workers |-> Nothing]
    /\ todo = [w \in Workers |-> {}]
    /\ task = [w \in Workers |-> Nothing]
    /\ found = [w \in Workers |-> Nothing]
    /\ crashes = 0
    /\ lost = {}

Of(j) == {i \in Items : i[1] = j /\ payload[i] # Nothing}
With(j, status) == {i \in Of(j) : item[i] = status}
Exists(i) == doc[i] # Nothing
Live(k) == {i \in Items : i[2] = k /\ Exists(i) /\ doc[i].live}

-----------------------------------------------------------------------------
(* The API: jobs.                                                          *)

\* _create_job_rows: the job and its items, in one commit.
CreateRows(j, wanted) ==
    /\ payload' = [i \in Items |-> IF i[1] = j THEN wanted[i[2]] ELSE payload[i]]
    /\ item' = [i \in Items |-> IF i[1] = j /\ wanted[i[2]] # Nothing
                                THEN "pending" ELSE item[i]]
    /\ job' = [job EXCEPT ![j] = "pending"]
    /\ request' = [request EXCEPT ![j] = "committed"]
    /\ UNCHANGED <<lossy, tally, doc, lock, queue, edit, worker, crashes, lost>>

Create(j) ==
    /\ request[j] = "new"
    /\ \E wanted \in [Keys -> Payloads \cup {Nothing}] :
          /\ \E k \in Keys : wanted[k] # Nothing
          /\ CreateRows(j, wanted)

\* "No failed items to retry"
Retriable(source) == With(source, "failed")

\* retry_policy_ingest_job: the failed items of a job, as they were.
Retry(j, source) ==
    /\ request[j] = "new"
    /\ Retriable(source) # {}
    /\ CreateRows(j, [k \in Keys |-> IF <<source, k>> \in Retriable(source)
                                     THEN payload[<<source, k>>] ELSE Nothing])

\* enqueue_policy_ingest_job
Push(j) ==
    /\ request[j] = "committed"
    /\ queue' = Append(queue, j)
    /\ request' = [request EXCEPT ![j] = "done"]
    /\ UNCHANGED <<lossy, database, edit, worker, crashes, lost>>

\* The push fails - or has happened and its reply is lost.
PushFails(j) ==
    /\ request[j] = "committed"
    /\ \/ UNCHANGED queue
       \/ lossy /\ queue' = Append(queue, j)
    /\ request' = [request EXCEPT ![j] = "failing"]
    /\ UNCHANGED <<lossy, database, edit, worker, crashes, lost>>

\* Mutant: a status of its own.
MarkFailedOtherwise(j) ==
    /\ request[j] = "failing"
    /\ job' = [job EXCEPT ![j] = "enqueue_failed"]
    /\ request' = [request EXCEPT ![j] = "done"]
    /\ UNCHANGED <<lossy, payload, item, tally, doc, lock, queue, edit, worker,
                   crashes, lost>>

\* Mutant: the exception is passed on at once.
MarkFailedNot(j) ==
    /\ request[j] = "failing"
    /\ request' = [request EXCEPT ![j] = "done"]
    /\ UNCHANGED <<lossy, database, queue, edit, worker, crashes, lost>>

\* The job in the request's session still reads "pending": the status is
\* written, whatever has become of the row.
MarkFailed(j) ==
    /\ request[j] = "failing"
    /\ job' = [job EXCEPT ![j] = "failed"]
    /\ request' = [request EXCEPT ![j] = "done"]
    /\ UNCHANGED <<lossy, payload, item, tally, doc, lock, queue, edit, worker,
                   crashes, lost>>

-----------------------------------------------------------------------------
(* The API: documents.                                                     *)

\* A request loads a live document ...
EditLoad(e) ==
    /\ edit[e] = Nothing
    /\ \E i \in Items, what \in {"on", "off", "delete"} :
          /\ Exists(i) /\ doc[i].live
          /\ edit' = [edit EXCEPT ![e] =
                        [id |-> i, what |-> what, enabled |-> doc[i].enabled,
                         done |-> FALSE]]
    /\ UNCHANGED <<lossy, database, queue, request, worker, crashes, lost>>

\* ... and updates the columns that differ from what it has loaded, once the
\* row is free.
EditCommit(e) ==
    /\ edit[e] # Nothing
    /\ ~edit[e].done
    /\ LET i == edit[e].id
           target == edit[e].what = "on"
           writes == edit[e].what = "delete" \/ target # edit[e].enabled IN
       /\ writes => lock[i] = Nothing
       /\ doc' = [doc EXCEPT
                    ![i].enabled = IF target # edit[e].enabled THEN target ELSE @,
                    ![i].live = IF edit[e].what = "delete" THEN FALSE ELSE @]
    /\ edit' = [edit EXCEPT ![e].done = TRUE]
    /\ UNCHANGED <<lossy, payload, item, job, tally, lock, queue, request, worker,
                   crashes, lost>>

-----------------------------------------------------------------------------
(* A worker: run_worker_loop and process_policy_ingest_job.                *)

Pop(w) ==
    /\ stage[w] = "idle"
    /\ queue # <<>>
    /\ current' = [current EXCEPT ![w] = Head(queue)]
    /\ queue' = Tail(queue)
    /\ stage' = [stage EXCEPT ![w] = "popped"]
    /\ UNCHANGED <<lossy, database, api, todo, task, found, crashes, lost>>

\* Back to the queue, with all local variables gone.
Rest(w) ==
    /\ stage' = [stage EXCEPT ![w] = "idle"]
    /\ current' = [current EXCEPT ![w] = Nothing]
    /\ todo' = [todo EXCEPT ![w] = {}]
    /\ task' = [task EXCEPT ![w] = Nothing]
    /\ found' = [found EXCEPT ![w] = Nothing]

LoadJob(w) ==
    /\ stage[w] = "popped"
    /\ IF job[current[w]] = "pending"
       THEN /\ stage' = [stage EXCEPT ![w] = "loaded"]
            /\ UNCHANGED <<current, todo, task, found>>
       ELSE Rest(w)
    /\ UNCHANGED <<lossy, database, queue, api, crashes, lost>>

StartJob(w) ==
    /\ stage[w] = "loaded"
    /\ job' = [job EXCEPT ![current[w]] = "running"]
    /\ todo' = [todo EXCEPT ![w] = Of(current[w])]
    /\ stage' = [stage EXCEPT ![w] = "running"]
    /\ UNCHANGED <<lossy, payload, item, tally, doc, lock, queue, api, current,
                   task, found, crashes, lost>>

\* The items of a job have the same created_at: any order.
StartItem(w) ==
    /\ stage[w] = "running"
    /\ \E i \in todo[w] :
          /\ task' = [task EXCEPT ![w] = i]
          /\ todo' = [todo EXCEPT ![w] = @ \ {i}]
          /\ item' = [item EXCEPT ![i] = "running"]
    /\ stage' = [stage EXCEPT ![w] = "item"]
    /\ UNCHANGED <<lossy, payload, job, tally, doc, lock, queue, api, current,
                   found, crashes, lost>>

Wanted(w) == payload[task[w]]

\* The live document of the key.
LoadDocument(w) ==
    /\ stage[w] = "item"
    /\ LET live == Live(task[w][2]) IN
       found' = [found EXCEPT ![w] =
                   IF live = {} THEN Nothing
                   ELSE LET i == CHOOSE i \in live : TRUE
                        IN  [id |-> i, row |-> doc[i]]]
    /\ stage' = [stage EXCEPT ![w] = "found"]
    /\ UNCHANGED <<lossy, database, queue, api, current, todo, task, crashes, lost>>

EndItem(w, status) ==
    /\ item' = [item EXCEPT ![task[w]] = status]
    /\ stage' = [stage EXCEPT ![w] = "running"]
    /\ found' = [found EXCEPT ![w] = Nothing]

\* Nothing has changed.
Skip(w) ==
    /\ stage[w] = "found"
    /\ found[w] # Nothing
    /\ found[w].row.content = Wanted(w).content
    /\ found[w].row.enabled = Wanted(w).enabled
    /\ EndItem(w, "skipped")
    /\ UNCHANGED <<lossy, payload, job, tally, doc, lock, queue, api, current,
                   todo, task, crashes, lost>>

\* The row this item writes.
Row(w) == IF found[w] = Nothing THEN task[w] ELSE found[w].id

\* Mutant: no unique index.
FreeAlways(k) == TRUE

\* uq_policy_documents_company_stable_key
Free(k) == Live(k) = {}

\* The flush: an INSERT waits for the same key in another transaction, and an
\* UPDATE for the row.
Flush(w) ==
    /\ stage[w] = "found"
    /\ \/ /\ found[w] = Nothing
          /\ \A i \in Items : i[2] = task[w][2] /\ ~Exists(i) => lock[i] = Nothing
          /\ Free(task[w][2])
       \/ /\ found[w] # Nothing
          /\ \/ found[w].row.content # Wanted(w).content
             \/ found[w].row.enabled # Wanted(w).enabled
          /\ lock[Row(w)] = Nothing
    /\ lock' = [lock EXCEPT ![Row(w)] = w]
    /\ stage' = [stage EXCEPT ![w] = "embedding"]
    /\ UNCHANGED <<lossy, payload, item, job, tally, doc, queue, api, current,
                   todo, task, found, crashes, lost>>

\* The unique key is taken: IntegrityError.
Collide(w) ==
    /\ stage[w] = "found"
    /\ found[w] = Nothing
    /\ ~Free(task[w][2])
    /\ EndItem(w, "failed")
    /\ UNCHANGED <<lossy, payload, job, tally, doc, lock, queue, api, current,
                   todo, task, crashes, lost>>

\* Mutant: the chunks are left as they were.
ChunksKept(w) == IF found[w] = Nothing THEN Wanted(w).content
                                       ELSE doc[Row(w)].chunks

\* _replace_document_chunks_and_embeddings, when the content has changed.
Chunks(w) ==
    IF found[w] = Nothing \/ found[w].row.content # Wanted(w).content
    THEN Wanted(w).content ELSE doc[Row(w)].chunks

\* Mutant: all columns are written back.
WrittenWhole(w) ==
    [content |-> Wanted(w).content, chunks |-> Chunks(w),
     enabled |-> Wanted(w).enabled, live |-> TRUE]

\* Columns that equal what was loaded are not written.
Written(w) ==
    IF found[w] = Nothing
    THEN [content |-> Wanted(w).content, chunks |-> Chunks(w),
          enabled |-> Wanted(w).enabled, live |-> TRUE]
    ELSE LET now == doc[Row(w)] IN
         [content |-> IF found[w].row.content # Wanted(w).content
                      THEN Wanted(w).content ELSE now.content,
          chunks |-> Chunks(w),
          enabled |-> IF found[w].row.enabled # Wanted(w).enabled
                      THEN Wanted(w).enabled ELSE now.enabled,
          live |-> now.live]

\* The embeddings are there: document, chunks and item are committed at once.
Save(w) ==
    /\ stage[w] = "embedding"
    /\ doc' = [doc EXCEPT ![Row(w)] = Written(w)]
    /\ lock' = [lock EXCEPT ![Row(w)] = Nothing]
    /\ EndItem(w, "success")
    /\ UNCHANGED <<lossy, payload, job, tally, queue, api, current, todo, task, crashes, lost>>

\* Mutant: no rollback.
FailKeepsLock(w) ==
    /\ stage[w] = "embedding"
    /\ EndItem(w, "failed")
    /\ UNCHANGED <<lossy, payload, job, tally, doc, lock, queue, api, current,
                   todo, task, crashes, lost>>

\* The provider fails: rollback, and the item says so.
Fail(w) ==
    /\ stage[w] = "embedding"
    /\ lock' = [lock EXCEPT ![Row(w)] = Nothing]
    /\ EndItem(w, "failed")
    /\ UNCHANGED <<lossy, payload, job, tally, doc, queue, api, current, todo,
                   task, crashes, lost>>

\* Mutant: the verdict is that of the last item.
VerdictLast(w) == IF item[task[w]] = "failed" THEN "failed" ELSE "success"

Verdict(w) == IF With(current[w], "failed") # {} THEN "failed" ELSE "success"

\* Mutant: the job is finished after its first item.
ThroughAtOnce(w) == task[w] \in Of(current[w])

Through(w) == todo[w] = {}

\* _finalize_job
FinishJob(w) ==
    /\ stage[w] = "running"
    /\ Through(w)
    /\ job' = [job EXCEPT ![current[w]] = Verdict(w)]
    /\ tally' = [tally EXCEPT ![current[w]] =
                   [success |-> Cardinality(With(current[w], "success")),
                    failed |-> Cardinality(With(current[w], "failed")),
                    skipped |-> Cardinality(With(current[w], "skipped"))]]
    /\ Rest(w)
    /\ UNCHANGED <<lossy, payload, item, doc, lock, queue, api,
                   crashes, lost>>

-----------------------------------------------------------------------------
(* Crashes.                                                                *)

\* The worker dies, or a database error leaves process_policy_ingest_job; it
\* comes back with the next id.
WorkerCrash(w) ==
    /\ crashes < MaxCrashes
    /\ crashes' = crashes + 1
    /\ stage[w] # "idle"
    /\ lost' = lost \cup {current[w]}
    /\ lock' = [i \in Items |-> IF lock[i] = w THEN Nothing ELSE lock[i]]
    /\ Rest(w)
    /\ UNCHANGED <<lossy, payload, item, job, tally, doc, queue, api>>

\* The API dies between the commit and the push, or before it could say that
\* the push has failed.
ApiCrash(j) ==
    /\ crashes < MaxCrashes
    /\ crashes' = crashes + 1
    /\ request[j] \in {"committed", "failing"}
    /\ lost' = lost \cup {j}
    /\ request' = [request EXCEPT ![j] = "done"]
    /\ UNCHANGED <<lossy, database, queue, edit, worker>>

Request(j) ==
    \/ Create(j) \/ (\E source \in Jobs : Retry(j, source))
    \/ Push(j) \/ PushFails(j) \/ MarkFailed(j)

Edit(e) == EditLoad(e) \/ EditCommit(e)

Work(w) ==
    \/ Pop(w) \/ LoadJob(w) \/ StartJob(w) \/ StartItem(w) \/ LoadDocument(w)
    \/ Skip(w) \/ Flush(w) \/ Collide(w) \/ Save(w) \/ Fail(w) \/ FinishJob(w)

\* Everything has been answered and done.
Quiescent ==
    /\ \A j \in Jobs : request[j] = "done"
    /\ queue = <<>>
    /\ \A w \in Workers : stage[w] = "idle"
    /\ \A e \in Edits : edit[e] # Nothing => edit[e].done
    /\ UNCHANGED vars

Next ==
    \/ \E j \in Jobs : Request(j) \/ ApiCrash(j)
    \/ \E e \in Edits : Edit(e)
    \/ \E w \in Workers : Work(w) \/ WorkerCrash(w)
    \/ Quiescent

Spec == Init /\ [][Next]_vars

\* Nobody has to create jobs or edit documents, but a request that has begun
\* goes on, and so do the workers: the embedding calls have a timeout.
Fairness ==
    /\ \A j \in Jobs : WF_vars(Push(j) \/ PushFails(j) \/ MarkFailed(j))
    /\ \A e \in Edits : WF_vars(EditCommit(e))
    /\ \A w \in Workers : WF_vars(Work(w))

FairSpec == Spec /\ Fairness

-----------------------------------------------------------------------------
(* Properties.                                                             *)

Stages == {"idle", "popped", "loaded", "running", "item", "found", "embedding"}

\* Every variable has its shape.
TypeOK ==
    /\ payload \in [Items -> Payloads \cup {Nothing}]
    /\ item \in [Items -> ItemStatuses]
    /\ job \in [Jobs -> JobStatuses]
    /\ tally \in [Jobs -> [success: Nat, failed: Nat, skipped: Nat]]
    /\ doc \in [Items -> Document \cup {Nothing}]
    /\ lock \in [Items -> Workers \cup {Nothing}]
    /\ queue \in Seq(Jobs)
    /\ lossy \in BOOLEAN
    /\ request \in [Jobs -> {"new", "committed", "failing", "done"}]
    /\ edit \in [Edits -> [id: Items, what: {"on", "off", "delete"},
                           enabled: BOOLEAN, done: BOOLEAN] \cup {Nothing}]
    /\ stage \in [Workers -> Stages]
    /\ current \in [Workers -> Jobs \cup {Nothing}]
    /\ todo \in [Workers -> SUBSET Items]
    /\ task \in [Workers -> Items \cup {Nothing}]
    /\ found \in [Workers -> [id: Items, row: Document] \cup {Nothing}]
    /\ crashes \in Nat
    /\ lost \subseteq Jobs

\* The chunks that retrieval searches are those of the document's content:
\* whatever fails, crashes or overlaps, no reader finds one without the other.
ChunksMatchContent ==
    \A i \in Items : Exists(i) => doc[i].chunks = doc[i].content

\* A key has one live document, with several workers and deletions in between.
OneLiveDocument == \A k \in Keys : \A i, n \in Live(k) : i = n

\* A document that was deleted stays so, also when the worker had loaded it
\* before and writes it after.
DeletedStaysDeleted ==
    [][\A i \in Items : Exists(i) /\ ~doc[i].live => ~doc'[i].live]_vars

\* A job reads "success" only if each of its items succeeded or was skipped,
\* and the counters of a job that a worker has finished add up to its items as
\* they are now.
VerdictMatchesItems ==
    \A j \in Jobs :
        /\ job[j] = "success" => \A i \in Of(j) : item[i] \in {"success", "skipped"}
        /\ tally[j] # NoTally =>
              \A s \in {"success", "failed", "skipped"} :
                  tally[j][s] = Cardinality(With(j, s))

\* A job that is pending or running is on the queue, in a worker's hands, about
\* to be pushed, or was hit by a crash: nothing else leaves a job behind.
NoJobForgotten ==
    \A j \in Jobs : job[j] \in {"pending", "running"} =>
        \/ request[j] \in {"committed", "failing"}
        \/ \E n \in DOMAIN queue : queue[n] = j
        \/ \E w \in Workers : current[w] = j
        \/ j \in lost

\* A job whose rows are committed ends, unless a crash hits it.
EveryJobEnds ==
    \A j \in Jobs :
        (job[j] = "pending") ~> (job[j] \in {"success", "failed"} \/ j \in lost)

LifeCycle == INSTANCE IngestLifeCycle
                 WITH Jobs <- Jobs, Keys <- Keys, lossy <- lossy, job <- job, item <- item

\* The jobs and items keep the life cycle of IngestLifeCycle.
KeepsLifeCycle == LifeCycle!Spec
=============================================================================
