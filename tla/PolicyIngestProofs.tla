-------------------------- MODULE PolicyIngestProofs --------------------------
(***************************************************************************)
(* What holds of policy documents and ingest jobs for every number of jobs,  *)
(* keys, workers, edits and crashes.                                        *)
(*                                                                         *)
(* The argument is in three layers.  IInv is about who has a job: its id is  *)
(* in one place only - a request that has not pushed it, the queue or one     *)
(* worker - and so each item is at the point its holder has brought it to.   *)
(* DInv, over it, is about the documents: a worker that is about to insert    *)
(* one holds the lock by which every other insert of the key would see it.   *)
(* JInv is about the statuses of the jobs.                                   *)
(***************************************************************************)
EXTENDS PolicyIngest, FiniteSetTheorems, SequenceTheorems, TLAPS

Queued(j) == \E n \in DOMAIN queue : queue[n] = j
Held(j) == \E w \in Workers : current[w] = j
Away(j) == ~Queued(j) /\ ~Held(j)
Untouched(j) == \A i \in Of(j) : item[i] = "pending"

AtItem == {"item", "found", "embedding"}
Busy == AtItem \cup {"running"}
Decided == {"success", "failed", "skipped"}

\* The id of a job is in one place at a time.
Distinct == \A m, n \in DOMAIN queue : queue[m] = queue[n] => m = n

Places ==
    /\ Distinct
    /\ \A v, w \in Workers : current[v] # Nothing /\ current[v] = current[w] => v = w
    /\ \A j \in Jobs : ~(Queued(j) /\ Held(j))
    /\ \A j \in Jobs : request[j] \in {"new", "committed"} => Away(j)

\* What a worker has in its local variables.
Holding(w) ==
    /\ stage[w] = "idle" <=> current[w] = Nothing
    /\ stage[w] \in Busy => todo[w] \subseteq Of(current[w])
    /\ stage[w] \in AtItem => task[w] \in Of(current[w]) \ todo[w]
    /\ stage[w] \notin {"found", "embedding"} => found[w] = Nothing
    /\ found[w] # Nothing => Exists(found[w].id)

Holdings == \A w \in Workers : Holding(w)

EditsThere == \A e \in Edits : edit[e] # Nothing => Exists(edit[e].id)

\* How far a worker has brought the items of its job.
Reached(w) ==
    /\ stage[w] \in {"popped", "loaded"} => Untouched(current[w])
    /\ stage[w] \in Busy => \A i \in Of(current[w]) :
          \/ i \in todo[w] /\ item[i] = "pending"
          \/ stage[w] \in AtItem /\ i = task[w] /\ item[i] = "running"
          \/ i \notin todo[w] /\ (stage[w] \in AtItem => i # task[w]) /\ item[i] \in Decided

Progress ==
    /\ \A i \in Items : payload[i] = Nothing <=> item[i] = "none"
    /\ \A j \in Jobs : request[j] = "new" => Of(j) = {}
    /\ \A j \in Jobs : request[j] = "committed" \/ Queued(j) => Untouched(j)
    /\ \A w \in Workers : Reached(w)

IInv == TypeOK /\ Places /\ Holdings /\ EditsThere /\ Progress

\* A document comes with the item that has been decided.
Fresh == \A i \in Items : item[i] \in {"none", "pending", "running"} => ~Exists(i)

Locked == \A w \in Workers : stage[w] = "embedding" => lock[Row(w)] = w

Inserting(w, k) == stage[w] = "embedding" /\ found[w] = Nothing /\ task[w][2] = k

\* Among the workers, one at most inserts a document of a key, and the key is free.
Inserts ==
    \A k \in Keys : \A v, w \in Workers :
        Inserting(v, k) => Free(k) /\ (Inserting(w, k) => v = w)

DInv == Fresh /\ Locked /\ Inserts /\ ChunksMatchContent /\ OneLiveDocument

\* The status of a job, by the place its id is in.
Statuses(j) ==
    /\ request[j] = "new" <=> job[j] = "none"
    /\ request[j] = "committed" => job[j] = "pending"
    /\ request[j] = "failing" /\ ~lossy => job[j] = "pending" /\ Away(j)
    /\ Queued(j) => job[j] = "pending" \/ (lossy /\ job[j] = "failed")
    /\ \A w \in Workers : current[w] = j =>
          /\ stage[w] \in {"popped", "loaded"} =>
                job[j] = "pending" \/ (lossy /\ job[j] = "failed")
          /\ stage[w] \in Busy => job[j] = "running" \/ (lossy /\ job[j] = "failed")

\* A job with a verdict is in nobody's hands.
Settled(j) ==
    job[j] = "success" \/ tally[j] # NoTally =>
        request[j] \in {"failing", "done"} /\ Away(j)

\* VerdictMatchesItems and NoJobForgotten, of one job.
Counted(j) ==
    /\ job[j] = "success" => \A i \in Of(j) : item[i] \in {"success", "skipped"}
    /\ tally[j] # NoTally =>
          \A s \in {"success", "failed", "skipped"} :
              tally[j][s] = Cardinality(With(j, s))

Remembered(j) ==
    job[j] \in {"pending", "running"} =>
        request[j] \in {"committed", "failing"} \/ Queued(j) \/ Held(j) \/ j \in lost

JobInv(j) == Statuses(j) /\ Settled(j) /\ Counted(j) /\ Remembered(j)

JInv == \A j \in Jobs : JobInv(j)

-----------------------------------------------------------------------------
(* The pieces the steps are made of.                                       *)

LEMMA FiniteItems ==
    ASSUME NEW j \in Jobs
    PROVE  IsFiniteSet(Of(j)) /\ \A s : /\ IsFiniteSet(With(j, s))
                                       /\ Cardinality(With(j, s)) \in Nat
<1>. DEFINE f == [k \in Keys |-> <<j, k>>]
            S == {<<j, k>> : k \in Keys}
<1>1. f \in Surjection(Keys, S)
  BY DEF Surjection
<1>2. IsFiniteSet(S)
  BY <1>1, FS_Surjection, ConstantsAssumption
<1>3. Of(j) \in SUBSET S
  BY DEF Of, Items
<1>4. IsFiniteSet(Of(j))
  BY <1>2, <1>3, FS_Subset
<1>5. \A s : With(j, s) \in SUBSET Of(j)
  BY DEF With
<1>6. ASSUME NEW s PROVE IsFiniteSet(With(j, s)) /\ Cardinality(With(j, s)) \in Nat
  <2>1. IsFiniteSet(With(j, s))
    BY <1>4, <1>5, FS_Subset
  <2>2. QED
    BY <2>1, FS_CardinalityType
<1>7. QED
  BY <1>4, <1>6

LEMMA Pushed ==
    ASSUME TypeOK, NEW j \in Jobs, queue' = Append(queue, j)
    PROVE  /\ queue' \in Seq(Jobs)
           /\ \A x : Queued(x)' <=> Queued(x) \/ x = j
           /\ Distinct /\ ~Queued(j) => Distinct'
<1>1. queue \in Seq(Jobs)
  BY DEF TypeOK
<1>2. /\ queue' \in Seq(Jobs)
      /\ Len(queue') = Len(queue) + 1
      /\ \A n \in 1..Len(queue) : queue'[n] = queue[n]
      /\ queue'[Len(queue) + 1] = j
  BY <1>1, AppendProperties
<1>3. Len(queue) \in Nat /\ DOMAIN queue = 1..Len(queue) /\ DOMAIN queue' = 1..Len(queue')
  BY <1>1, <1>2, LenProperties
<1>4. DOMAIN queue' = DOMAIN queue \cup {Len(queue) + 1}
  BY <1>2, <1>3
<1>5. \A x : Queued(x)' <=> Queued(x) \/ x = j
  BY <1>2, <1>3, <1>4 DEF Queued
<1>6. Distinct /\ ~Queued(j) => Distinct'
  BY <1>2, <1>3, <1>4 DEF Queued, Distinct
<1>7. QED
  BY <1>2, <1>5, <1>6

LEMMA Popped ==
    ASSUME TypeOK, Distinct, queue # <<>>, queue' = Tail(queue)
    PROVE  /\ queue' \in Seq(Jobs) /\ Distinct'
           /\ Head(queue) \in Jobs /\ Queued(Head(queue))
           /\ \A x : Queued(x)' <=> Queued(x) /\ x # Head(queue)
<1>1. queue \in Seq(Jobs)
  BY DEF TypeOK
<1>2. /\ queue' \in Seq(Jobs) /\ Head(queue) \in Jobs
      /\ Len(queue') = Len(queue) - 1
      /\ \A n \in 1..Len(queue') : queue'[n] = queue[n + 1]
  BY <1>1, HeadTailProperties
<1>3. /\ Len(queue) \in Nat \ {0} /\ DOMAIN queue = 1..Len(queue)
      /\ DOMAIN queue' = 1..Len(queue')
  BY <1>1, <1>2, LenProperties, EmptySeq
<1>4. Head(queue) = queue[1]
  BY <1>1
<1>5. \A n \in DOMAIN queue : n # 1 => n - 1 \in DOMAIN queue' /\ queue'[n - 1] = queue[n]
  BY <1>2, <1>3
<1>6. \A n \in DOMAIN queue' : n + 1 \in DOMAIN queue /\ n + 1 # 1 /\ n \in Int
  BY <1>2, <1>3
<1>7. 1 \in DOMAIN queue
  BY <1>3
<1>8. \A n \in DOMAIN queue' : queue'[n] = queue[n + 1]
  BY <1>2, <1>3
<1>9. Distinct'
  BY <1>6, <1>8 DEF Distinct
<1>10. ASSUME NEW x PROVE Queued(x)' <=> Queued(x) /\ x # Head(queue)
  <2>1. Queued(x)' => Queued(x) /\ x # Head(queue)
    BY <1>4, <1>6, <1>7, <1>8 DEF Distinct, Queued
  <2>2. Queued(x) /\ x # Head(queue) => Queued(x)'
    BY <1>4, <1>5 DEF Queued
  <2>3. QED
    BY <2>1, <2>2
<1>11. QED
  BY <1>2, <1>4, <1>7, <1>9, <1>10 DEF Queued

\* Both ways a request makes a job.
Wants == [Keys -> Payloads \cup {Nothing}]

LEMMA Created ==
    ASSUME TypeOK, NEW j \in Jobs, Create(j) \/ \E source \in Jobs : Retry(j, source)
    PROVE  /\ request[j] = "new"
           /\ \E wanted \in Wants :
                 (\E k \in Keys : wanted[k] # Nothing) /\ CreateRows(j, wanted)
<1>1. CASE Create(j)
  BY <1>1 DEF Create, Wants
<1>2. ASSUME NEW source \in Jobs, Retry(j, source)
      PROVE  /\ request[j] = "new"
             /\ \E wanted \in Wants :
                   (\E k \in Keys : wanted[k] # Nothing) /\ CreateRows(j, wanted)
  <2>. DEFINE again == [k \in Keys |-> IF <<source, k>> \in Retriable(source)
                                       THEN payload[<<source, k>>] ELSE Nothing]
  <2>1. \A k \in Keys : <<source, k>> \in Items
    BY DEF Items
  <2>2. again \in Wants
    BY <2>1 DEF TypeOK, Wants
  <2>3. PICK i \in Items : i \in Retriable(source)
    BY <1>2 DEF Retry, Retriable, With, Of
  <2>4. i = <<source, i[2]>> /\ i[2] \in Keys /\ payload[i] # Nothing
    BY <2>3 DEF Retriable, With, Of, Items
  <2>5. again[i[2]] # Nothing
    BY <2>3, <2>4
  <2>6. CreateRows(j, again)
    BY <1>2 DEF Retry
  <2>7. QED
    BY <1>2, <2>2, <2>4, <2>5, <2>6 DEF Retry
<1>3. QED
  BY <1>1, <1>2

LEMMA Loaded ==
    ASSUME TypeOK, NEW k, Live(k) # {}
    PROVE  LET i == CHOOSE i \in Live(k) : TRUE IN
           i \in Items /\ Exists(i) /\ doc[i] \in Document
  BY DEF TypeOK, Live, Exists

\* What a worker writes is a document.
LEMMA WritesDocument ==
    ASSUME IInv, NEW w \in Workers, stage[w] = "embedding"
    PROVE  /\ Row(w) \in Items
           /\ Written(w) \in Document /\ Written(w) # Nothing
<1>1. task[w] \in Items /\ payload[task[w]] \in Payloads
  BY DEF IInv, Holdings, Holding, AtItem, Of, TypeOK
<1>2. Wanted(w).content \in Contents /\ Wanted(w).enabled \in BOOLEAN
  BY <1>1, ConstantsAssumption DEF Wanted
<1>3. CASE found[w] = Nothing
  <2>1. Row(w) \in Items /\ Written(w) \in Document
    BY <1>1, <1>2, <1>3 DEF Row, Written, Chunks, Document
  <2>2. QED
    BY <2>1, ConstantsAssumption
<1>4. CASE found[w] # Nothing
  <2>1. Row(w) \in Items /\ doc[Row(w)] \in Document
    BY <1>4 DEF Row, IInv, TypeOK, Holdings, Holding, Exists
  <2>2. Written(w) \in Document
    BY <1>2, <1>4, <2>1 DEF Written, Chunks, Document
  <2>3. QED
    BY <2>1, <2>2, ConstantsAssumption
<1>5. QED
  BY <1>3, <1>4

LEMMA StartTypes == Init => TypeOK
<1>. SUFFICES ASSUME Init PROVE TypeOK
  OBVIOUS
<1>1. queue \in Seq(Jobs)
  BY EmptySeq DEF Init
<1>2. tally \in [Jobs -> [success: Nat, failed: Nat, skipped: Nat]]
  BY DEF Init, NoTally
<1>3. QED
  BY <1>1, <1>2 DEF Init, TypeOK, ItemStatuses, JobStatuses, Stages

LEMMA RowsType ==
    ASSUME IInv, NEW j \in Jobs, NEW wanted \in Wants, CreateRows(j, wanted)
    PROVE  TypeOK'
<1>. TypeOK
  BY DEF IInv
<1>1. payload' \in [Items -> Payloads \cup {Nothing}]
  BY DEF CreateRows, TypeOK, Wants, Items
<1>2. item' \in [Items -> ItemStatuses]
  BY DEF CreateRows, TypeOK, ItemStatuses
<1>3. job' \in [Jobs -> JobStatuses]
  BY DEF CreateRows, TypeOK, JobStatuses
<1>4. QED
  BY <1>1, <1>2, <1>3 DEF CreateRows, TypeOK, worker

LEMMA RequestType ==
    ASSUME IInv, NEW j \in Jobs, Request(j) \/ ApiCrash(j)
    PROVE  TypeOK'
<1>. TypeOK
  BY DEF IInv
<1>1. CASE Create(j) \/ \E source \in Jobs : Retry(j, source)
  BY <1>1, Created, RowsType
<1>2. CASE Push(j)
  <2>1. queue' \in Seq(Jobs)
    BY <1>2, Pushed DEF Push
  <2>2. QED
    BY <1>2, <2>1 DEF Push, TypeOK, database, worker
<1>3. CASE PushFails(j)
  <2>1. queue' \in Seq(Jobs)
    BY <1>3, Pushed DEF PushFails, TypeOK
  <2>2. QED
    BY <1>3, <2>1 DEF PushFails, TypeOK, database, worker
<1>4. CASE MarkFailed(j)
  BY <1>4 DEF MarkFailed, TypeOK, worker, JobStatuses
<1>5. CASE ApiCrash(j)
  BY <1>5 DEF ApiCrash, TypeOK, database, worker
<1>6. QED
  BY <1>1, <1>2, <1>3, <1>4, <1>5 DEF Request

LEMMA EditType ==
    ASSUME IInv, NEW e \in Edits, Edit(e)
    PROVE  TypeOK'
<1>. TypeOK
  BY DEF IInv
<1>1. CASE EditLoad(e)
  <2>1. PICK i \in Items, what \in {"on", "off", "delete"} :
           /\ Exists(i)
           /\ edit' = [edit EXCEPT ![e] = [id |-> i, what |-> what,
                                          enabled |-> doc[i].enabled, done |-> FALSE]]
    BY <1>1 DEF EditLoad
  <2>2. doc[i].enabled \in BOOLEAN
    BY <2>1 DEF TypeOK, Exists, Document
  <2>3. QED
    BY <1>1, <2>1, <2>2 DEF EditLoad, TypeOK, database, worker
<1>2. CASE EditCommit(e)
  <2>1. edit[e] \in [id: Items, what: {"on", "off", "delete"},
                     enabled: BOOLEAN, done: BOOLEAN]
    BY <1>2 DEF EditCommit, TypeOK
  <2>2. doc[edit[e].id] \in Document
    BY <1>2, <2>1 DEF EditCommit, TypeOK, IInv, EditsThere, Exists
  <2>3. doc' \in [Items -> Document \cup {Nothing}]
    BY <1>2, <2>1, <2>2 DEF EditCommit, TypeOK, Document
  <2>4. edit' \in [Edits -> [id: Items, what: {"on", "off", "delete"},
                             enabled: BOOLEAN, done: BOOLEAN] \cup {Nothing}]
    BY <1>2, <2>1 DEF EditCommit, TypeOK
  <2>5. QED
    BY <1>2, <2>3, <2>4 DEF EditCommit, TypeOK, worker
<1>3. QED
  BY <1>1, <1>2 DEF Edit

LEMMA WorkType ==
    ASSUME IInv, NEW w \in Workers, Work(w) \/ WorkerCrash(w)
    PROVE  TypeOK'
<1>. TypeOK /\ Holding(w)
  BY DEF IInv, Holdings
<1>1. CASE Pop(w)
  <2>1. queue' \in Seq(Jobs) /\ Head(queue) \in Jobs
    BY <1>1, Popped DEF Pop, IInv, Places
  <2>2. QED
    BY <1>1, <2>1 DEF Pop, TypeOK, Stages, database, api
<1>2. CASE LoadJob(w)
  BY <1>2 DEF LoadJob, Rest, TypeOK, Stages, database, api
<1>3. CASE StartJob(w)
  <2>1. current[w] \in Jobs /\ Of(current[w]) \subseteq Items
    BY <1>3 DEF StartJob, TypeOK, Holding, Of
  <2>2. QED
    BY <1>3, <2>1 DEF StartJob, TypeOK, Stages, JobStatuses, api
<1>4. CASE StartItem(w)
  BY <1>4 DEF StartItem, TypeOK, Stages, ItemStatuses, api
<1>5. CASE LoadDocument(w)
  <2>1. found' \in [Workers -> [id: Items, row: Document] \cup {Nothing}]
    BY <1>5, Loaded DEF LoadDocument, TypeOK
  <2>2. QED
    BY <1>5, <2>1 DEF LoadDocument, TypeOK, Stages, database, api
<1>6. CASE Skip(w)
  BY <1>6 DEF Skip, EndItem, TypeOK, Stages, ItemStatuses, api
<1>7. CASE Flush(w)
  BY <1>7 DEF Flush, TypeOK, Stages, api
<1>8. CASE Collide(w)
  BY <1>8 DEF Collide, EndItem, TypeOK, Stages, ItemStatuses, api
<1>9. CASE Save(w)
  <2>1. Row(w) \in Items /\ Written(w) \in Document
    BY <1>9, WritesDocument DEF Save
  <2>2. QED
    BY <1>9, <2>1 DEF Save, EndItem, TypeOK, Stages, ItemStatuses, api
<1>10. CASE Fail(w)
  BY <1>10 DEF Fail, EndItem, TypeOK, Stages, ItemStatuses, api
<1>11. CASE FinishJob(w)
  <2>1. current[w] \in Jobs
    BY <1>11 DEF FinishJob, TypeOK, Holding
  <2>2. tally' \in [Jobs -> [success: Nat, failed: Nat, skipped: Nat]]
    BY <1>11, <2>1, FiniteItems DEF FinishJob, TypeOK
  <2>3. job' \in [Jobs -> JobStatuses]
    BY <1>11 DEF FinishJob, TypeOK, Verdict, JobStatuses
  <2>4. QED
    BY <1>11, <2>2, <2>3 DEF FinishJob, Rest, TypeOK, Stages, api
<1>12. CASE WorkerCrash(w)
  <2>1. current[w] \in Jobs
    BY <1>12 DEF WorkerCrash, TypeOK, Holding
  <2>2. QED
    BY <1>12, <2>1 DEF WorkerCrash, Rest, TypeOK, Stages, api
<1>13. QED
  BY <1>1, <1>2, <1>3, <1>4, <1>5, <1>6, <1>7, <1>8, <1>9, <1>10, <1>11, <1>12 DEF Work

-----------------------------------------------------------------------------
(* Who has a job, and how far.                                             *)

LEMMA OfJob == \A j \in Jobs : \A i \in Of(j) : i \in Items /\ i[1] = j /\ payload[i] # Nothing
  BY DEF Of

\* A worker whose variables, items and documents are left alone.
LEMMA WorkerKept ==
    ASSUME TypeOK, NEW v \in Workers, Holding(v), Reached(v),
           stage'[v] = stage[v], current'[v] = current[v], todo'[v] = todo[v],
           task'[v] = task[v], found'[v] = found[v],
           \A i \in Items : i[1] = current[v] => payload'[i] = payload[i] /\ item'[i] = item[i],
           \A i \in Items : Exists(i) => Exists(i)'
    PROVE  Holding(v)' /\ Reached(v)'
<1>1. \A i : i \in Of(current[v])' <=> i \in Of(current[v])
  BY DEF Of
<1>2. \A i \in Of(current[v]) : item'[i] = item[i]
  BY DEF Of
<1>3. found[v] # Nothing => found[v].id \in Items
  BY DEF TypeOK
<1>4. Holding(v)'
  BY <1>1, <1>3 DEF Holding, Exists
<1>5. Reached(v)'
  BY <1>1, <1>2 DEF Reached, Untouched
<1>6. QED
  BY <1>4, <1>5

LEMMA RowsPlaced ==
    ASSUME IInv, NEW j \in Jobs, NEW wanted \in Wants, request[j] = "new",
           CreateRows(j, wanted)
    PROVE  (Places /\ Holdings /\ EditsThere /\ Progress)'
<1>. TypeOK /\ Places /\ Holdings /\ EditsThere /\ Progress
  BY DEF IInv
<1>1. /\ UNCHANGED <<queue, doc, edit, stage, current, todo, task, found>>
      /\ request' = [request EXCEPT ![j] = "committed"]
  BY DEF CreateRows, worker
<1>2. Away(j)
  BY DEF Places
<1>3. \A x : /\ (Queued(x)' <=> Queued(x)) /\ (Held(x)' <=> Held(x))
             /\ (Away(x)' <=> Away(x)) /\ (Exists(x)' <=> Exists(x))
  BY <1>1 DEF Queued, Away, Held, Exists
<1>4. Places'
  BY <1>1, <1>2, <1>3 DEF Places, Distinct, TypeOK
<1>5. \A i \in Items : i[1] # j => payload'[i] = payload[i] /\ item'[i] = item[i]
  BY DEF CreateRows
<1>6. \A v \in Workers : current[v] # j
  BY <1>2 DEF Away, Held
<1>7. ASSUME NEW v \in Workers PROVE Holding(v)' /\ Reached(v)'
  BY <1>1, <1>3, <1>5, <1>6, WorkerKept DEF Holdings, Progress
<1>8. EditsThere'
  BY <1>1, <1>3 DEF EditsThere
<1>9. \A i \in Items : i[1] = j =>
         /\ payload'[i] = wanted[i[2]]
         /\ wanted[i[2]] # Nothing => item'[i] = "pending"
         /\ wanted[i[2]] = Nothing => item'[i] = item[i]
  BY DEF CreateRows
<1>10. \A i \in Items : i[1] = j => item[i] = "none"
  BY DEF Progress, Of
<1>11. \A i \in Items : payload'[i] = Nothing <=> item'[i] = "none"
  BY <1>5, <1>9, <1>10 DEF Progress
<1>12. \A x \in Jobs : x # j =>
          /\ \A i : i \in Of(x)' <=> i \in Of(x)
          /\ \A i \in Of(x) : item'[i] = item[i]
  BY <1>5 DEF Of
<1>13. \A i : i \in Of(j)' => item'[i] = "pending"
  BY <1>9 DEF Of
<1>14. ASSUME NEW x \in Jobs, request'[x] = "new" PROVE Of(x)' = {}
  <2>1. x # j /\ request[x] = "new"
    BY <1>1, <1>14 DEF TypeOK
  <2>2. QED
    BY <2>1, <1>12 DEF Progress
<1>15. ASSUME NEW x \in Jobs, request'[x] = "committed" \/ Queued(x)' PROVE Untouched(x)'
  <2>1. CASE x = j
    BY <1>13, <2>1 DEF Untouched
  <2>2. CASE x # j
    <3>1. Untouched(x)
      BY <1>1, <1>3, <1>15, <2>2 DEF Progress, TypeOK
    <3>2. QED
      BY <3>1, <1>12, <2>2 DEF Untouched
  <2>3. QED
    BY <2>1, <2>2
<1>16. Progress'
  BY <1>7, <1>11, <1>14, <1>15 DEF Progress
<1>17. QED
  BY <1>4, <1>7, <1>8, <1>16 DEF Holdings

\* A step that only moves the id of a job.
LEMMA RequestPlaced ==
    ASSUME IInv, NEW j \in Jobs, Request(j) \/ ApiCrash(j)
    PROVE  (Places /\ Holdings /\ EditsThere /\ Progress)'
<1>. TypeOK /\ Places /\ Holdings /\ EditsThere /\ Progress
  BY DEF IInv
<1>1. CASE Create(j) \/ \E source \in Jobs : Retry(j, source)
  BY <1>1, Created, RowsPlaced
<1>2. CASE Push(j) \/ PushFails(j) \/ MarkFailed(j) \/ ApiCrash(j)
  <2>1. UNCHANGED <<payload, item, doc, edit, stage, current, todo, task, found>>
    BY <1>2 DEF Push, PushFails, MarkFailed, ApiCrash, database, worker
  <2>2. /\ request[j] # "new"
        /\ \E r \in {"failing", "done"} : request' = [request EXCEPT ![j] = r]
    BY <1>2 DEF Push, PushFails, MarkFailed, ApiCrash
  <2>3. queue' = queue \/ (request[j] = "committed" /\ queue' = Append(queue, j))
    BY <1>2 DEF Push, PushFails, MarkFailed, ApiCrash, database
  <2>4. /\ Distinct'
        /\ \A x : Queued(x)' => Queued(x) \/ (x = j /\ request[j] = "committed")
    <3>1. CASE queue' = queue
      BY <3>1 DEF Queued, Distinct, Places
    <3>2. CASE request[j] = "committed" /\ queue' = Append(queue, j)
      BY <3>2, Pushed DEF Places, Away
    <3>3. QED
      BY <2>3, <3>1, <3>2
  <2>5. \A x \in Jobs : request'[x] \in {"new", "committed"} => x # j /\ request'[x] = request[x]
    BY <2>2 DEF TypeOK
  <2>6. \A x : Held(x)' <=> Held(x)
    BY <2>1 DEF Held
  <2>7. Places'
    <3>1. \A x \in Jobs : ~(Queued(x)' /\ Held(x)')
      BY <2>4, <2>6 DEF Places, Away
    <3>2. \A x \in Jobs : request'[x] \in {"new", "committed"} => Away(x)'
      BY <2>4, <2>5, <2>6 DEF Places, Away
    <3>3. QED
      BY <2>1, <2>4, <3>1, <3>2 DEF Places
  <2>8. \A x : Exists(x)' <=> Exists(x)
    BY <2>1 DEF Exists
  <2>9. ASSUME NEW v \in Workers PROVE Holding(v)' /\ Reached(v)'
    BY <2>1, <2>8, WorkerKept DEF Holdings, Progress
  <2>10. EditsThere'
    BY <2>1, <2>8 DEF EditsThere
  <2>11. \A x : Of(x)' = Of(x) /\ (Untouched(x)' <=> Untouched(x))
    BY <2>1 DEF Of, Untouched
  <2>12. Progress'
    BY <2>1, <2>4, <2>5, <2>9, <2>11 DEF Progress
  <2>13. QED
    BY <2>7, <2>9, <2>10, <2>12 DEF Holdings
<1>3. QED
  BY <1>1, <1>2 DEF Request

LEMMA EditPlaced ==
    ASSUME IInv, NEW e \in Edits, Edit(e)
    PROVE  /\ (Places /\ Holdings /\ EditsThere /\ Progress)'
           /\ \A x \in Items : Exists(x) => Exists(x)'
<1>. TypeOK /\ Places /\ Holdings /\ EditsThere /\ Progress
  BY DEF IInv
<1>1. UNCHANGED <<payload, item, queue, request, stage, current, todo, task, found>>
  BY DEF Edit, EditLoad, EditCommit, database, worker
<1>2. /\ \A x \in Items : Exists(x) => Exists(x)'
      /\ EditsThere'
  <2>1. CASE EditLoad(e)
    <3>1. \A x : Exists(x)' <=> Exists(x)
      BY <2>1 DEF EditLoad, database, Exists
    <3>2. PICK i \in Items, what \in {"on", "off", "delete"} :
             /\ Exists(i)
             /\ edit' = [edit EXCEPT ![e] = [id |-> i, what |-> what,
                                            enabled |-> doc[i].enabled, done |-> FALSE]]
      BY <2>1 DEF EditLoad
    <3>3. edit'[e].id = i /\ \A d \in Edits : d # e => edit'[d] = edit[d]
      BY <3>2 DEF TypeOK
    <3>4. \A d \in Edits : edit'[d] # Nothing => Exists(edit'[d].id)
      BY <3>2, <3>3 DEF EditsThere
    <3>5. EditsThere'
      BY <3>1, <3>4 DEF EditsThere, Exists
    <3>6. QED
      BY <3>1, <3>5
  <2>2. CASE EditCommit(e)
    <3>1. edit[e] \in [id: Items, what: {"on", "off", "delete"},
                       enabled: BOOLEAN, done: BOOLEAN]
      BY <2>2 DEF EditCommit, TypeOK
    <3>2. PICK i \in Items : i = edit[e].id
      BY <3>1
    <3>3. doc[i] \in Document
      BY <2>2, <3>2 DEF EditCommit, EditsThere, Exists, TypeOK
    <3>4. doc'[i] \in Document /\ \A x \in Items : x # i => doc'[x] = doc[x]
      BY <2>2, <3>1, <3>2, <3>3 DEF EditCommit, TypeOK, Document
    <3>5. \A x \in Items : Exists(x) => Exists(x)'
      BY <3>4, ConstantsAssumption DEF Exists
    <3>6. \A d \in Edits : edit'[d] # Nothing =>
             edit[d] # Nothing /\ edit'[d].id = edit[d].id /\ edit[d].id \in Items
      BY <2>2, <3>1 DEF EditCommit, TypeOK
    <3>7. EditsThere'
      BY <3>5, <3>6 DEF EditsThere, Exists
    <3>8. QED
      BY <3>5, <3>7
  <2>3. QED
    BY <2>1, <2>2 DEF Edit
<1>3. ASSUME NEW v \in Workers PROVE Holding(v)' /\ Reached(v)'
  BY <1>1, <1>2, WorkerKept DEF Holdings, Progress
<1>4. \A x : /\ Of(x)' = Of(x) /\ (Untouched(x)' <=> Untouched(x))
             /\ (Queued(x)' <=> Queued(x)) /\ (Held(x)' <=> Held(x))
             /\ (Away(x)' <=> Away(x))
  BY <1>1 DEF Of, Untouched, Queued, Away, Held
<1>5. Places'
  BY <1>1, <1>4 DEF Places, Distinct
<1>6. Progress'
  BY <1>1, <1>3, <1>4 DEF Progress
<1>7. QED
  BY <1>2, <1>3, <1>5, <1>6 DEF Holdings

\* What a worker leaves alone.
LEMMA WorkFrame ==
    ASSUME IInv, NEW w \in Workers, Work(w) \/ WorkerCrash(w)
    PROVE  /\ UNCHANGED <<payload, request, edit, lossy>>
           /\ \A v \in Workers \ {w} :
                 /\ stage'[v] = stage[v] /\ current'[v] = current[v]
                 /\ todo'[v] = todo[v] /\ task'[v] = task[v] /\ found'[v] = found[v]
           /\ \A x \in Items : item'[x] # item[x] =>
                 x \in Of(current[w]) /\ stage[w] \in Busy /\ item'[x] # "none"
<1>. TypeOK /\ Holding(w)
  BY DEF IInv, Holdings
<1>1. stage[w] \in Busy => current[w] \in Jobs
  BY DEF TypeOK, Holding, Busy, AtItem
<1>2. CASE Pop(w)
  BY <1>2 DEF Pop, database, api, TypeOK
<1>3. CASE LoadJob(w)
  BY <1>3 DEF LoadJob, Rest, database, api, TypeOK
<1>4. CASE StartJob(w)
  BY <1>4 DEF StartJob, api, TypeOK
<1>5. CASE StartItem(w)
  BY <1>5 DEF StartItem, api, TypeOK, Busy, Holding
<1>6. CASE LoadDocument(w)
  BY <1>6 DEF LoadDocument, database, api, TypeOK
<1>7. CASE Flush(w)
  BY <1>7 DEF Flush, api, TypeOK
<1>8. CASE Skip(w) \/ Collide(w) \/ Save(w) \/ Fail(w)
  <2>1. stage[w] \in AtItem /\ \E s \in Decided : EndItem(w, s)
    BY <1>8 DEF Skip, Collide, Save, Fail, AtItem, Decided
  <2>2. UNCHANGED <<payload, request, edit, lossy, current, todo, task>>
    BY <1>8 DEF Skip, Collide, Save, Fail, api
  <2>3. task[w] \in Of(current[w])
    BY <2>1 DEF Holding
  <2>4. QED
    BY <2>1, <2>2, <2>3 DEF EndItem, TypeOK, Busy, Decided
<1>9. CASE FinishJob(w)
  BY <1>9 DEF FinishJob, Rest, api, TypeOK
<1>10. CASE WorkerCrash(w)
  BY <1>10 DEF WorkerCrash, Rest, api, TypeOK
<1>11. QED
  BY <1>2, <1>3, <1>4, <1>5, <1>6, <1>7, <1>8, <1>9, <1>10 DEF Work

\* A document that is there stays there.
LEMMA WorkKeepsDocuments ==
    ASSUME IInv, NEW w \in Workers, Work(w) \/ WorkerCrash(w)
    PROVE  \A x \in Items : Exists(x) => Exists(x)'
<1>1. CASE Save(w)
  <2>1. Row(w) \in Items /\ Written(w) # Nothing
    BY <1>1, WritesDocument DEF Save
  <2>2. QED
    BY <1>1, <2>1 DEF Save, Exists, IInv, TypeOK
<1>2. CASE ~Save(w)
  <2>1. doc' = doc
    BY <1>2 DEF Work, WorkerCrash, Pop, LoadJob, StartJob, StartItem, LoadDocument,
                Skip, Flush, Collide, Fail, FinishJob, database
  <2>2. QED
    BY <2>1 DEF Exists
<1>3. QED
  BY <1>1, <1>2

\* Where a worker's job comes from, and where it goes.
LEMMA WorkMovesId ==
    ASSUME IInv, NEW w \in Workers, Work(w) \/ WorkerCrash(w)
    PROVE  /\ Distinct'
           /\ \/ /\ current'[w] \in {current[w], Nothing}
                 /\ \A x : Queued(x)' <=> Queued(x)
              \/ /\ Pop(w) /\ current'[w] = Head(queue)
                 /\ Head(queue) \in Jobs /\ Queued(Head(queue))
                 /\ \A x : Queued(x)' <=> Queued(x) /\ x # Head(queue)
<1>. TypeOK /\ Distinct
  BY DEF IInv, Places
<1>1. CASE Pop(w)
  BY <1>1, Popped DEF Pop, TypeOK
<1>2. CASE ~Pop(w)
  <2>1. current'[w] \in {current[w], Nothing} /\ queue' = queue
    BY <1>2 DEF Work, WorkerCrash, LoadJob, StartJob, StartItem, LoadDocument,
                Skip, Flush, Collide, Save, Fail, FinishJob, Rest, EndItem, TypeOK
  <2>2. QED
    BY <2>1 DEF Queued, Distinct
<1>3. QED
  BY <1>1, <1>2

LEMMA WorkPlaces ==
    ASSUME IInv, NEW w \in Workers, Work(w) \/ WorkerCrash(w)
    PROVE  Places'
<1>. TypeOK /\ Places
  BY DEF IInv
<1>1. \A v \in Workers \ {w} : current'[v] = current[v]
  BY WorkFrame
<1>2. request' = request
  BY WorkFrame
<1>3. CASE /\ current'[w] \in {current[w], Nothing}
           /\ \A x : Queued(x)' <=> Queued(x)
  <2>1. \A v \in Workers : current'[v] # Nothing => current'[v] = current[v]
    BY <1>1, <1>3
  <2>2. \A u, v \in Workers : current'[u] # Nothing /\ current'[u] = current'[v] => u = v
    BY <2>1 DEF Places
  <2>3. \A x \in Jobs : Held(x)' => Held(x)
    BY <2>1, ConstantsAssumption DEF Held
  <2>4. \A x \in Jobs : ~(Queued(x)' /\ Held(x)') /\ (Away(x) => Away(x)')
    BY <1>3, <2>3 DEF Places, Away
  <2>5. QED
    BY <1>2, <2>2, <2>4, WorkMovesId DEF Places
<1>4. CASE /\ Pop(w) /\ current'[w] = Head(queue)
           /\ Head(queue) \in Jobs /\ Queued(Head(queue))
           /\ \A x : Queued(x)' <=> Queued(x) /\ x # Head(queue)
  <2>1. \A v \in Workers \ {w} : current'[v] = current[v] /\ current[v] # Head(queue)
    BY <1>1, <1>4 DEF Places, Held
  <2>2. \A u, v \in Workers : current'[u] # Nothing /\ current'[u] = current'[v] => u = v
    BY <1>4, <2>1 DEF Places
  <2>3. \A x \in Jobs : Held(x)' => x = Head(queue) \/ Held(x)
    BY <1>4, <2>1 DEF Held
  <2>4. \A x \in Jobs : ~(Queued(x)' /\ Held(x)') /\ (Away(x) => Away(x)')
    BY <1>4, <2>3 DEF Places, Away
  <2>5. QED
    BY <1>2, <2>2, <2>4, WorkMovesId DEF Places
<1>5. QED
  BY <1>3, <1>4, WorkMovesId

\* The worker that moves.
LEMMA WorkHolds ==
    ASSUME IInv, NEW w \in Workers, Work(w) \/ WorkerCrash(w)
    PROVE  Holding(w)' /\ Reached(w)'
<1>. TypeOK /\ Places /\ Holding(w) /\ Reached(w)
  BY DEF IInv, Holdings, Progress
<1>. USE DEF AtItem, Busy
<1>1. payload' = payload /\ \A x : Of(x)' = Of(x)
  BY WorkFrame DEF Of
<1>2. \A x \in Items : Exists(x) => Exists(x)'
  BY WorkKeepsDocuments
<1>3. \A x \in Of(current[w]) : x \in Items /\ payload[x] # Nothing
  BY DEF Of
<1>4. CASE Pop(w)
  <2>1. Head(queue) \in Jobs /\ Queued(Head(queue))
    BY <1>4, Popped DEF Pop, Places
  <2>2. PICK h \in Jobs : h = Head(queue)
    BY <2>1
  <2>3. Untouched(h)
    BY <2>1, <2>2 DEF IInv, Progress
  <2>4. /\ stage'[w] = "popped" /\ current'[w] = h /\ found'[w] = found[w]
        /\ item' = item /\ found[w] = Nothing
    BY <1>4, <2>2 DEF Pop, TypeOK, Holding, database
  <2>5. h # Nothing
    BY ConstantsAssumption
  <2>6. Untouched(current[w])'
    BY <1>1, <2>3, <2>4 DEF Untouched
  <2>7. QED
    BY <2>4, <2>5, <2>6 DEF Holding, Reached
<1>5. CASE stage'[w] = "idle" /\ current'[w] = Nothing /\ found'[w] = Nothing
  BY <1>5 DEF Holding, Reached
<1>6. CASE LoadJob(w) \/ FinishJob(w) \/ WorkerCrash(w)
  <2>1. CASE Rest(w)
    BY <1>5, <2>1 DEF Rest, TypeOK
  <2>2. CASE LoadJob(w) /\ ~Rest(w)
    <3>1. /\ stage[w] = "popped" /\ stage'[w] = "loaded"
          /\ UNCHANGED <<current, todo, task, found, item>>
      BY <2>2 DEF LoadJob, TypeOK, database
    <3>2. QED
      BY <1>1, <3>1 DEF Holding, Reached, Untouched
  <2>3. QED
    BY <1>6, <2>1, <2>2 DEF FinishJob, WorkerCrash
<1>7. CASE StartJob(w)
  <2>1. /\ stage[w] = "loaded" /\ stage'[w] = "running"
        /\ todo'[w] = Of(current[w])
        /\ UNCHANGED <<current, task, found, item>>
    BY <1>7 DEF StartJob, TypeOK
  <2>2. QED
    BY <1>1, <2>1 DEF Holding, Reached, Untouched
<1>8. CASE StartItem(w)
  <2>1. PICK i \in todo[w] : /\ task'[w] = i /\ todo'[w] = todo[w] \ {i}
                             /\ item' = [item EXCEPT ![i] = "running"]
    BY <1>8 DEF StartItem, TypeOK
  <2>2. stage[w] = "running" /\ stage'[w] = "item" /\ UNCHANGED <<current, found>>
    BY <1>8 DEF StartItem, TypeOK
  <2>3. i \in Of(current[w]) /\ i \in Items
    BY <1>3, <2>1, <2>2 DEF Holding
  <2>4. item'[i] = "running" /\ \A x \in Of(current[w]) : x # i => item'[x] = item[x]
    BY <1>3, <2>1, <2>3 DEF TypeOK
  <2>5. Holding(w)'
    BY <1>1, <2>1, <2>2, <2>3 DEF Holding
  <2>6. Reached(w)'
    BY <1>1, <2>1, <2>2, <2>3, <2>4 DEF Reached
  <2>7. QED
    BY <2>5, <2>6
<1>9. CASE LoadDocument(w)
  <2>1. /\ stage[w] = "item" /\ stage'[w] = "found"
        /\ UNCHANGED <<current, todo, task, item, doc>>
    BY <1>9 DEF LoadDocument, TypeOK, database
  <2>2. found'[w] # Nothing => Exists(found'[w].id)
    BY <1>9, Loaded DEF LoadDocument, TypeOK
  <2>3. Holding(w)'
    BY <1>1, <2>1, <2>2 DEF Holding, Exists
  <2>4. Reached(w)'
    BY <1>1, <2>1 DEF Reached
  <2>5. QED
    BY <2>3, <2>4
<1>10. CASE Flush(w)
  <2>1. /\ stage[w] = "found" /\ stage'[w] = "embedding"
        /\ UNCHANGED <<current, todo, task, found, item, doc>>
    BY <1>10 DEF Flush, TypeOK
  <2>2. QED
    BY <1>1, <2>1 DEF Holding, Reached, Exists
<1>11. CASE Skip(w) \/ Collide(w) \/ Save(w) \/ Fail(w)
  <2>1. stage[w] \in {"found", "embedding"} /\ UNCHANGED <<current, todo, task>>
    BY <1>11 DEF Skip, Collide, Save, Fail
  <2>2. PICK s \in Decided : EndItem(w, s)
    BY <1>11 DEF Skip, Collide, Save, Fail, Decided
  <2>3. stage'[w] = "running" /\ found'[w] = Nothing
    BY <2>2 DEF EndItem, TypeOK
  <2>4. task[w] \in Of(current[w]) \ todo[w]
    BY <2>1 DEF Holding
  <2>5. item'[task[w]] \in Decided /\ \A x \in Of(current[w]) : x # task[w] => item'[x] = item[x]
    BY <1>3, <2>2, <2>4 DEF EndItem, TypeOK
  <2>6. Holding(w)'
    BY <1>1, <2>1, <2>3 DEF Holding
  <2>7. Reached(w)'
    BY <1>1, <2>1, <2>3, <2>4, <2>5 DEF Reached
  <2>8. QED
    BY <2>6, <2>7
<1>12. QED
  BY <1>4, <1>6, <1>7, <1>8, <1>9, <1>10, <1>11 DEF Work

LEMMA WorkPlaced ==
    ASSUME IInv, NEW w \in Workers, Work(w) \/ WorkerCrash(w)
    PROVE  (Places /\ Holdings /\ EditsThere /\ Progress)'
<1>. TypeOK /\ Places /\ Holdings /\ EditsThere /\ Progress
  BY DEF IInv
<1>1. /\ UNCHANGED <<payload, request, edit>>
      /\ \A x : Of(x)' = Of(x)
  BY WorkFrame DEF Of
<1>2. \A x \in Items : Exists(x) => Exists(x)'
  BY WorkKeepsDocuments
<1>3. EditsThere'
  BY <1>1, <1>2 DEF EditsThere, TypeOK, Exists
<1>4. \A x \in Items : item'[x] # item[x] => x[1] = current[w] /\ Held(x[1]) /\ item'[x] # "none"
                                             /\ payload[x] # Nothing
  BY WorkFrame DEF Of, Held
<1>5. ASSUME NEW v \in Workers PROVE Holding(v)' /\ Reached(v)'
  <2>1. CASE v = w
    BY <2>1, WorkHolds
  <2>2. CASE v # w
    <3>1. \A i \in Items : i[1] = current[v] => item'[i] = item[i]
      BY <1>4, <2>2, ConstantsAssumption DEF Places, Items
    <3>2. /\ stage'[v] = stage[v] /\ current'[v] = current[v]
          /\ todo'[v] = todo[v] /\ task'[v] = task[v] /\ found'[v] = found[v]
      BY <2>2, WorkFrame
    <3>3. QED
      BY <1>1, <1>2, <3>1, <3>2, WorkerKept DEF Holdings, Progress
  <2>3. QED
    BY <2>1, <2>2
<1>6. \A i \in Items : payload'[i] = Nothing <=> item'[i] = "none"
  BY <1>1, <1>4 DEF Progress
<1>7. ASSUME NEW x \in Jobs, request'[x] = "committed" \/ Queued(x)' PROVE Untouched(x)'
  <2>1. Untouched(x) /\ ~Held(x)
    <3>1. Queued(x)' => Queued(x)
      BY WorkMovesId
    <3>2. QED
      BY <1>1, <1>7, <3>1 DEF Progress, Places, Away
  <2>2. \A i \in Of(x) : item'[i] = item[i]
    BY <1>4, <2>1 DEF Of
  <2>3. QED
    BY <1>1, <2>1, <2>2 DEF Untouched
<1>8. Progress'
  BY <1>1, <1>5, <1>6, <1>7 DEF Progress
<1>9. Places'
  BY WorkPlaces
<1>10. QED
  BY <1>3, <1>5, <1>8, <1>9 DEF Holdings

-----------------------------------------------------------------------------
LEMMA InvStarts == Init => IInv
<1>. SUFFICES ASSUME Init PROVE IInv
  OBVIOUS
<1>1. TypeOK
  BY StartTypes
<1>2. \A x : ~Queued(x)
  BY DEF Init, Queued
<1>3. \A x \in Jobs : Of(x) = {} /\ ~Held(x)
  BY ConstantsAssumption DEF Init, Of, Held
<1>4. Places
  BY <1>2, <1>3 DEF Init, Places, Distinct, Away
<1>5. Holdings /\ EditsThere
  BY DEF Init, Holdings, Holding, EditsThere, Busy, AtItem
<1>6. Progress
  BY <1>2, <1>3 DEF Init, Progress, Reached, Busy, AtItem
<1>7. QED
  BY <1>1, <1>4, <1>5, <1>6 DEF IInv

LEMMA InvStutters == IInv /\ UNCHANGED vars => IInv'
<1>. SUFFICES ASSUME IInv, UNCHANGED vars PROVE IInv'
  OBVIOUS
<1>1. UNCHANGED <<payload, item, job, tally, doc, lock, queue, lossy, request, edit,
                  stage, current, todo, task, found, crashes, lost>>
  BY DEF vars, database, worker, api
<1>2. \A x : /\ (Queued(x)' <=> Queued(x)) /\ (Held(x)' <=> Held(x)) /\ (Away(x)' <=> Away(x))
             /\ (Exists(x)' <=> Exists(x)) /\ Of(x)' = Of(x) /\ (Untouched(x)' <=> Untouched(x))
  BY <1>1 DEF Queued, Held, Away, Exists, Of, Untouched
<1>3. TypeOK'
  BY <1>1 DEF IInv, TypeOK
<1>4. Places'
  BY <1>1, <1>2 DEF IInv, Places, Distinct
<1>5. \A v \in Workers : Holding(v)' /\ Reached(v)'
  BY <1>1, <1>2, WorkerKept DEF IInv, Holdings, Progress
<1>6. EditsThere'
  BY <1>1 DEF IInv, EditsThere, Exists
<1>7. Progress'
  BY <1>1, <1>2, <1>5 DEF IInv, Progress
<1>8. QED
  BY <1>3, <1>4, <1>5, <1>6, <1>7 DEF IInv, Holdings

\* The steps of Next, by who takes them.
LEMMA Steps ==
    ASSUME [Next]_vars
    PROVE  \/ \E j \in Jobs : Request(j) \/ ApiCrash(j)
           \/ \E e \in Edits : Edit(e)
           \/ \E w \in Workers : Work(w) \/ WorkerCrash(w)
           \/ UNCHANGED vars
  BY DEF Next, Quiescent

LEMMA InvKept == IInv /\ [Next]_vars => IInv'
<1>. SUFFICES ASSUME IInv, [Next]_vars PROVE IInv'
  OBVIOUS
<1>1. ASSUME NEW j \in Jobs, Request(j) \/ ApiCrash(j) PROVE IInv'
  BY <1>1, RequestType, RequestPlaced DEF IInv
<1>2. ASSUME NEW e \in Edits, Edit(e) PROVE IInv'
  BY <1>2, EditType, EditPlaced DEF IInv
<1>3. ASSUME NEW w \in Workers, Work(w) \/ WorkerCrash(w) PROVE IInv'
  BY <1>3, WorkType, WorkPlaced DEF IInv
<1>4. QED
  BY <1>1, <1>2, <1>3, Steps, InvStutters

LEMMA Placed == Spec => []IInv
  BY InvStarts, InvKept, PTL DEF Spec

\* Every variable of the ingest keeps its shape: among others an edit and an update
\* always write on a document that is there.
THEOREM IngestTypes == Spec => []TypeOK
<1>1. IInv => TypeOK
  BY DEF IInv
<1>2. QED
  BY <1>1, Placed, PTL

-----------------------------------------------------------------------------
(* Documents.                                                              *)

\* An item at hand has no document of its own yet.
LEMMA AtHand ==
    ASSUME IInv, NEW w \in Workers, stage[w] \in AtItem
    PROVE  /\ task[w] \in Items /\ task[w][2] \in Keys
           /\ item[task[w]] = "running"
           /\ Fresh => ~Exists(task[w])
           /\ found[w] # Nothing => found[w].id \in Items /\ Exists(found[w].id)
<1>1. task[w] \in Of(current[w]) \ todo[w]
  BY DEF IInv, Holdings, Holding
<1>2. item[task[w]] = "running"
  BY <1>1 DEF IInv, Progress, Reached, Busy, Decided
<1>3. task[w] \in Items /\ task[w][2] \in Keys
  BY <1>1 DEF Of, Items
<1>4. found[w] # Nothing => found[w].id \in Items /\ Exists(found[w].id)
  BY DEF IInv, TypeOK, Holdings, Holding
<1>5. QED
  BY <1>2, <1>3, <1>4 DEF Fresh

LEMMA FreshKept ==
    ASSUME Fresh,
           \A x \in Items : item'[x] \in {"none", "pending", "running"} =>
               item[x] \in {"none", "pending", "running"} /\ (Exists(x)' => Exists(x))
    PROVE  Fresh'
  BY DEF Fresh

LEMMA LiveIs ==
    \A k : \A i : i \in Live(k) <=> i \in Items /\ i[2] = k /\ Exists(i) /\ doc[i].live
  BY DEF Live

\* A step that neither writes documents nor takes locks: no worker begins to
\* embed, and the locks of those that go on are theirs.
LEMMA QuietKeeps ==
    ASSUME IInv, DInv, doc' = doc, Fresh',
           \A v \in Workers : stage'[v] = "embedding" =>
               /\ stage[v] = "embedding" /\ task'[v] = task[v] /\ found'[v] = found[v]
               /\ lock'[Row(v)] = lock[Row(v)]
    PROVE  DInv'
<1>1. \A x : (Exists(x)' <=> Exists(x)) /\ Live(x)' = Live(x) /\ (Free(x)' <=> Free(x))
  BY DEF Exists, Live, Free
<1>2. Locked'
  BY DEF DInv, Locked, Row
<1>3. \A v \in Workers, k \in Keys : Inserting(v, k)' => Inserting(v, k)
  BY DEF Inserting
<1>4. Inserts'
  BY <1>1, <1>3 DEF DInv, Inserts
<1>5. ChunksMatchContent' /\ OneLiveDocument'
  BY <1>1 DEF DInv, ChunksMatchContent, OneLiveDocument
<1>6. QED
  BY <1>2, <1>4, <1>5 DEF DInv

LEMMA RequestDocuments ==
    ASSUME IInv, DInv, NEW j \in Jobs, Request(j) \/ ApiCrash(j)
    PROVE  DInv'
<1>1. UNCHANGED <<doc, lock, stage, task, found>>
  BY DEF Request, Create, Retry, CreateRows, Push, PushFails, MarkFailed, ApiCrash,
         database, worker
<1>2. \A x : Exists(x)' <=> Exists(x)
  BY <1>1 DEF Exists
<1>3. \A x \in Items : item'[x] # item[x] => item[x] = "none"
  <2>1. CASE Create(j) \/ \E source \in Jobs : Retry(j, source)
    <3>1. PICK wanted \in Wants : request[j] = "new" /\ CreateRows(j, wanted)
      BY <2>1, Created DEF IInv
    <3>2. \A x \in Items : item'[x] # item[x] => x[1] = j
      BY <3>1 DEF CreateRows
    <3>3. QED
      BY <3>1, <3>2 DEF IInv, Progress, Of
  <2>2. CASE Push(j) \/ PushFails(j) \/ MarkFailed(j) \/ ApiCrash(j)
    BY <2>2 DEF Push, PushFails, MarkFailed, ApiCrash, database
  <2>3. QED
    BY <2>1, <2>2 DEF Request
<1>4. Fresh'
  BY <1>2, <1>3, FreshKept DEF DInv
<1>5. QED
  BY <1>1, <1>4, QuietKeeps

LEMMA EditDocuments ==
    ASSUME IInv, DInv, NEW e \in Edits, Edit(e)
    PROVE  DInv'
<1>1. UNCHANGED <<item, lock, stage, task, found>>
  BY DEF Edit, EditLoad, EditCommit, database, worker
<1>2. CASE EditLoad(e)
  <2>1. doc' = doc
    BY <1>2 DEF EditLoad, database
  <2>2. Fresh'
    BY <1>1, <2>1 DEF DInv, Fresh, Exists
  <2>3. QED
    BY <1>1, <2>1, <2>2, QuietKeeps
<1>3. CASE EditCommit(e)
  <2>1. edit[e] # Nothing /\ edit[e].id \in Items /\ Exists(edit[e].id)
    BY <1>3 DEF EditCommit, IInv, TypeOK, EditsThere
  <2>2. PICK i \in Items : i = edit[e].id
    BY <2>1
  <2>3. doc[i] \in Document
    BY <2>1, <2>2 DEF IInv, TypeOK, Exists
  <2>4. /\ \A x \in Items : x # i => doc'[x] = doc[x]
        /\ doc'[i].content = doc[i].content /\ doc'[i].chunks = doc[i].chunks
        /\ doc'[i].live => doc[i].live
    BY <1>3, <2>2, <2>3 DEF EditCommit, IInv, TypeOK, Document
  <2>5. \A x \in Items : Exists(x)' => Exists(x)
    BY <2>1, <2>2, <2>4 DEF Exists
  <2>6. \A k : Live(k)' \subseteq Live(k)
    BY <2>4, <2>5 DEF Live
  <2>7. Fresh'
    BY <1>1, <2>5, FreshKept DEF DInv
  <2>8. Locked'
    BY <1>1 DEF DInv, Locked, Row
  <2>9. Inserts'
    <3>1. \A k : (Free(k) => Free(k)') /\ \A v \in Workers : Inserting(v, k)' = Inserting(v, k)
      BY <1>1, <2>6 DEF Free, Inserting
    <3>2. QED
      BY <3>1 DEF DInv, Inserts
  <2>10. ChunksMatchContent'
    BY <2>4, <2>5 DEF DInv, ChunksMatchContent
  <2>11. OneLiveDocument'
    BY <2>6 DEF DInv, OneLiveDocument
  <2>12. QED
    BY <2>7, <2>8, <2>9, <2>10, <2>11 DEF DInv
<1>4. QED
  BY <1>2, <1>3 DEF Edit

LEMMA WorkFresh ==
    ASSUME IInv, DInv, NEW w \in Workers, Work(w) \/ WorkerCrash(w)
    PROVE  Fresh'
<1>. TypeOK /\ Fresh
  BY DEF IInv, DInv
<1>1. CASE Save(w)
  <2>1. /\ task[w] \in Items /\ Row(w) \in Items
        /\ Row(w) # task[w] => Exists(Row(w))
    BY <1>1, AtHand DEF Save, AtItem, Row
  <2>2. item'[task[w]] = "success" /\ \A x \in Items : x # task[w] => item'[x] = item[x]
    BY <1>1, <2>1 DEF Save, EndItem, TypeOK
  <2>3. \A x \in Items : x # Row(w) => doc'[x] = doc[x]
    BY <1>1 DEF Save, TypeOK
  <2>4. \A x \in Items : item'[x] \in {"none", "pending", "running"} =>
               item[x] \in {"none", "pending", "running"} /\ (Exists(x)' => Exists(x))
    BY <2>1, <2>2, <2>3 DEF Exists
  <2>5. QED
    BY <2>4, FreshKept
<1>2. CASE ~Save(w)
  <2>1. doc' = doc
    BY <1>2 DEF Work, WorkerCrash, Pop, LoadJob, StartJob, StartItem, LoadDocument,
                Skip, Flush, Collide, Fail, FinishJob, database
  <2>2. \A x \in Items : item'[x] # item[x] =>
           item[x] = "pending" \/ item'[x] \in Decided
    <3>1. CASE StartItem(w)
      <4>1. PICK i \in todo[w] : item' = [item EXCEPT ![i] = "running"]
        BY <3>1 DEF StartItem
      <4>2. item[i] = "pending"
        <5>1. i \in Of(current[w]) /\ stage[w] = "running"
          BY <3>1, <4>1 DEF StartItem, IInv, Holdings, Holding, Busy
        <5>2. QED
          BY <4>1, <5>1 DEF IInv, Progress, Reached, Busy, AtItem
      <4>3. QED
        BY <4>1, <4>2 DEF TypeOK
    <3>2. CASE \E s \in Decided : EndItem(w, s)
      BY <3>2 DEF EndItem, TypeOK
    <3>3. CASE item' = item
      BY <3>3
    <3>4. QED
      BY <1>2, <3>1, <3>2, <3>3
      DEF Work, WorkerCrash, Pop, LoadJob, StartJob, LoadDocument, Skip, Flush,
          Collide, Fail, FinishJob, database, Decided
  <2>3. \A x \in Items : item'[x] \in {"none", "pending", "running"} =>
               item[x] \in {"none", "pending", "running"} /\ (Exists(x)' => Exists(x))
    BY <2>1, <2>2 DEF Exists, Decided
  <2>4. QED
    BY <2>3, FreshKept
<1>3. QED
  BY <1>1, <1>2

\* An insert begins when the key is free and nobody else is inserting it.
LEMMA FlushDocuments ==
    ASSUME IInv, DInv, NEW w \in Workers, Flush(w)
    PROVE  DInv'
<1>. TypeOK /\ Fresh /\ Locked
  BY DEF IInv, DInv
<1>1. /\ UNCHANGED <<doc, item, task, found>>
      /\ stage[w] = "found" /\ stage'[w] = "embedding"
      /\ \A v \in Workers \ {w} : stage'[v] = stage[v]
  BY DEF Flush, TypeOK
<1>2. /\ task[w] \in Items /\ task[w][2] \in Keys /\ ~Exists(task[w])
      /\ Row(w) \in Items
  BY <1>1, AtHand DEF AtItem, Row
<1>3. lock[Row(w)] = Nothing
  BY <1>2 DEF Flush, Row
<1>4. lock' = [lock EXCEPT ![Row(w)] = w]
  BY DEF Flush
<1>5. \A v \in Workers \ {w} : stage[v] = "embedding" => Row(v) # Row(w)
  BY <1>3, ConstantsAssumption DEF Locked
<1>6. \A v \in Workers : Row(v)' = Row(v)
  BY <1>1 DEF Row
<1>7. Locked'
  BY <1>1, <1>2, <1>4, <1>5, <1>6 DEF Locked, TypeOK
<1>8. \A x : Live(x)' = Live(x) /\ (Free(x)' <=> Free(x)) /\ (Exists(x)' <=> Exists(x))
  BY <1>1 DEF Live, Free, Exists
<1>9. \A v \in Workers \ {w}, k \in Keys : Inserting(v, k)' <=> Inserting(v, k)
  BY <1>1 DEF Inserting
<1>10. ASSUME NEW k \in Keys, Inserting(w, k)' PROVE Free(k) /\ \A v \in Workers \ {w} : ~Inserting(v, k)
  <2>1. found[w] = Nothing /\ task[w][2] = k
    BY <1>1, <1>10 DEF Inserting
  <2>2. Free(k) /\ \A i \in Items : i[2] = k /\ ~Exists(i) => lock[i] = Nothing
    BY <2>1 DEF Flush
  <2>3. ASSUME NEW v \in Workers \ {w}, Inserting(v, k) PROVE FALSE
    <3>1. task[v] \in Items /\ ~Exists(task[v]) /\ task[v][2] = k /\ Row(v) = task[v]
      BY <2>3, AtHand DEF Inserting, AtItem, Row
    <3>2. lock[task[v]] = v
      BY <2>3, <3>1 DEF Locked, Inserting
    <3>3. QED
      BY <2>2, <3>1, <3>2, ConstantsAssumption
  <2>4. QED
    BY <2>2, <2>3
<1>11. Inserts'
  BY <1>8, <1>9, <1>10 DEF DInv, Inserts
<1>12. Fresh' /\ ChunksMatchContent' /\ OneLiveDocument'
  BY <1>1, <1>8 DEF DInv, Fresh, ChunksMatchContent, OneLiveDocument
<1>13. QED
  BY <1>7, <1>11, <1>12 DEF DInv

\* The row of another worker that embeds is another row.
LEMMA RowsApart ==
    ASSUME IInv, DInv, NEW v \in Workers, NEW w \in Workers, v # w,
           stage[v] = "embedding", stage[w] = "embedding"
    PROVE  Row(v) # Row(w)
  BY DEF DInv, Locked

LEMMA SaveDocuments ==
    ASSUME IInv, DInv, NEW w \in Workers, Save(w)
    PROVE  DInv'
<1>. TypeOK
  BY DEF IInv
<1>1. PICK r \in Items : r = Row(w)
  BY WritesDocument DEF Save
<1>2. PICK d \in Document : d = Written(w) /\ d # Nothing
  BY WritesDocument DEF Save
<1>3. /\ stage[w] = "embedding" /\ stage'[w] = "running"
      /\ task' = task
      /\ \A v \in Workers \ {w} : stage'[v] = stage[v] /\ found'[v] = found[v]
  BY DEF Save, EndItem, TypeOK
<1>4. /\ doc'[r] = d /\ \A x \in Items : x # r => doc'[x] = doc[x]
      /\ \A x \in Items : x # r => lock'[x] = lock[x]
  BY <1>1, <1>2 DEF Save, TypeOK
<1>5. Fresh'
  BY WorkFresh DEF Work
<1>6. d.chunks = d.content
  <2>1. found[w] # Nothing => Exists(r)
    BY <1>1, <1>3, AtHand DEF Row, AtItem
  <2>2. found[w] # Nothing => doc[r].chunks = doc[r].content
    BY <2>1 DEF DInv, ChunksMatchContent
  <2>3. QED
    BY <1>1, <1>2, <2>2 DEF Written, Chunks
<1>7. ChunksMatchContent'
  BY <1>4, <1>6 DEF DInv, ChunksMatchContent, Exists
<1>8. Locked'
  <2>1. ASSUME NEW v \in Workers, stage'[v] = "embedding" PROVE lock'[Row(v)'] = v
    <3>1. v # w /\ stage[v] = "embedding"
      BY <1>3, <2>1
    <3>2. Row(v) # r /\ Row(v) \in Items /\ Row(v)' = Row(v)
      BY <1>1, <1>3, <3>1, RowsApart, AtHand DEF Row, AtItem
    <3>3. QED
      BY <1>4, <3>1, <3>2 DEF DInv, Locked
  <2>2. QED
    BY <2>1 DEF Locked
<1>9. \A v \in Workers, k \in Keys : Inserting(v, k)' => v # w /\ Inserting(v, k)
  BY <1>3 DEF Inserting
<1>10. CASE found[w] = Nothing
  <2>1. PICK k \in Keys : k = r[2]
    BY <1>1 DEF Items
  <2>2. Inserting(w, k) /\ Free(k)
    BY <1>1, <1>3, <1>10, <2>1 DEF Inserting, Row, DInv, Inserts
  <2>3. \A v \in Workers : ~Inserting(v, k)'
    BY <1>9, <2>2 DEF DInv, Inserts
  <2>4. \A x \in Keys : x # k => Live(x)' \subseteq Live(x)
    BY <1>4, <2>1 DEF Live, Exists
  <2>5. Live(k)' \subseteq {r}
    BY <1>4, <2>2 DEF Live, Exists, Free
  <2>6. Inserts'
    BY <1>9, <2>3, <2>4 DEF DInv, Inserts, Free
  <2>7. OneLiveDocument'
    BY <2>4, <2>5 DEF DInv, OneLiveDocument
  <2>8. QED
    BY <1>5, <1>7, <1>8, <2>6, <2>7 DEF DInv
<1>11. CASE found[w] # Nothing
  <2>1. Exists(r) /\ d.live = doc[r].live
    BY <1>1, <1>2, <1>3, <1>11, AtHand DEF Row, AtItem, Written
  <2>2. \A x : Live(x)' \subseteq Live(x)
    BY <1>4, <2>1 DEF Live, Exists
  <2>3. Inserts'
    BY <1>9, <2>2 DEF DInv, Inserts, Free
  <2>4. OneLiveDocument'
    BY <2>2 DEF DInv, OneLiveDocument
  <2>5. QED
    BY <1>5, <1>7, <1>8, <2>3, <2>4 DEF DInv
<1>12. QED
  BY <1>10, <1>11

LEMMA WorkDocuments ==
    ASSUME IInv, DInv, NEW w \in Workers, Work(w) \/ WorkerCrash(w)
    PROVE  DInv'
<1>. TypeOK /\ Fresh'
  BY WorkFresh DEF IInv
<1>1. CASE Save(w) \/ Flush(w)
  BY <1>1, SaveDocuments, FlushDocuments
<1>2. CASE ~Save(w) /\ ~Flush(w)
  <2>1. /\ doc' = doc
        /\ stage'[w] # "embedding"
    BY <1>2 DEF Work, WorkerCrash, Pop, LoadJob, StartJob, StartItem, LoadDocument,
                Skip, Collide, Fail, FinishJob, Rest, EndItem, database, TypeOK
  <2>2. \A v \in Workers \ {w} :
           stage'[v] = stage[v] /\ task'[v] = task[v] /\ found'[v] = found[v]
    BY WorkFrame
  <2>3. ASSUME NEW v \in Workers \ {w}, stage[v] = "embedding"
        PROVE  lock'[Row(v)] = lock[Row(v)]
    <3>1. lock[Row(v)] = v /\ Row(v) \in Items
      BY <2>3, AtHand DEF DInv, Locked, Row, AtItem
    <3>2. CASE Fail(w)
      <4>1. Row(w) # Row(v)
        BY <2>3, <3>2, RowsApart DEF Fail
      <4>2. QED
        BY <3>1, <3>2, <4>1 DEF Fail, TypeOK
    <3>3. CASE WorkerCrash(w)
      BY <3>1, <3>3 DEF WorkerCrash
    <3>4. CASE lock' = lock
      BY <3>4
    <3>5. QED
      BY <1>2, <3>2, <3>3, <3>4
      DEF Work, WorkerCrash, Pop, LoadJob, StartJob, StartItem, LoadDocument,
          Skip, Collide, FinishJob, database
  <2>4. QED
    BY <2>1, <2>2, <2>3, QuietKeeps
<1>3. QED
  BY <1>1, <1>2

LEMMA DocumentsStart == Init => DInv
<1>. SUFFICES ASSUME Init PROVE DInv
  OBVIOUS
<1>1. \A x \in Items : ~Exists(x)
  BY DEF Init, Exists
<1>2. \A w \in Workers : stage[w] # "embedding"
  BY DEF Init
<1>3. QED
  BY <1>1, <1>2 DEF DInv, Fresh, Locked, Inserts, Inserting, ChunksMatchContent,
                    OneLiveDocument, Live

LEMMA DocumentsKept == IInv /\ DInv /\ [Next]_vars => DInv'
<1>. SUFFICES ASSUME IInv, DInv, [Next]_vars PROVE DInv'
  OBVIOUS
<1>1. CASE UNCHANGED vars
  <2>1. UNCHANGED <<item, doc, lock, stage, task, found>>
    BY <1>1 DEF vars, database, worker
  <2>2. Fresh'
    BY <2>1 DEF DInv, Fresh, Exists
  <2>3. QED
    BY <2>1, <2>2, QuietKeeps
<1>2. QED
  BY <1>1, Steps, RequestDocuments, EditDocuments, WorkDocuments

LEMMA DocumentsHold == Spec => [](IInv /\ DInv)
<1>1. Init => IInv /\ DInv
  BY InvStarts, DocumentsStart
<1>2. IInv /\ DInv /\ [Next]_vars => (IInv /\ DInv)'
  BY InvKept, DocumentsKept
<1>3. QED
  BY <1>1, <1>2, PTL DEF Spec

\* No reader finds a document with the chunks of another content.
THEOREM ChunksAreTheDocuments == Spec => []ChunksMatchContent
<1>1. DInv => ChunksMatchContent
  BY DEF DInv
<1>2. QED
  BY <1>1, DocumentsHold, PTL

\* A key has one live document at most: an insert holds the lock by which every
\* other insert of the key would see it, from the check of the index to the commit.
THEOREM KeysHaveOneDocument == Spec => []OneLiveDocument
<1>1. DInv => OneLiveDocument
  BY DEF DInv
<1>2. QED
  BY <1>1, DocumentsHold, PTL

StaysDeleted == \A i \in Items : Exists(i) /\ ~doc[i].live => ~doc'[i].live

LEMMA DeletionKept ==
    ASSUME IInv, DInv, [Next]_vars
    PROVE  StaysDeleted
<1>. TypeOK
  BY DEF IInv
<1>1. ASSUME NEW e \in Edits, EditCommit(e) PROVE StaysDeleted
  <2>1. PICK i \in Items : i = edit[e].id /\ Exists(i)
    BY <1>1 DEF EditCommit, IInv, TypeOK, EditsThere
  <2>2. doc[i] \in Document
    BY <2>1 DEF TypeOK, Exists
  <2>3. (doc'[i].live => doc[i].live) /\ \A x \in Items : x # i => doc'[x] = doc[x]
    BY <1>1, <2>1, <2>2 DEF EditCommit, TypeOK, Document
  <2>4. QED
    BY <2>3 DEF StaysDeleted
<1>2. ASSUME NEW w \in Workers, Save(w) PROVE StaysDeleted
  <2>1. PICK r \in Items : r = Row(w)
    BY <1>2, WritesDocument DEF Save
  <2>2. doc'[r] = Written(w) /\ \A x \in Items : x # r => doc'[x] = doc[x]
    BY <1>2, <2>1 DEF Save, TypeOK
  <2>3. Exists(r) => Written(w).live = doc[r].live
    <3>1. found[w] = Nothing => ~Exists(r)
      BY <1>2, <2>1, AtHand DEF Save, AtItem, Row, DInv
    <3>2. QED
      BY <2>1, <3>1 DEF Written
  <2>4. QED
    BY <2>2, <2>3 DEF StaysDeleted
<1>3. CASE doc' = doc
  BY <1>3 DEF StaysDeleted
<1>4. QED
  BY <1>1, <1>2, <1>3, Steps
  DEF Request, Create, Retry, CreateRows, Push, PushFails, MarkFailed, ApiCrash,
      Edit, EditLoad, Work, WorkerCrash, Pop, LoadJob, StartJob, StartItem,
      LoadDocument, Skip, Flush, Collide, Fail, FinishJob, database, vars

\* A worker that loaded a document before it was deleted does not bring it back.
THEOREM DeletionsLast == Spec => DeletedStaysDeleted
<1>1. IInv /\ DInv /\ [Next]_vars => [\A i \in Items : Exists(i) /\ ~doc[i].live => ~doc'[i].live]_vars
  BY DeletionKept DEF StaysDeleted
<1>2. QED
  BY <1>1, DocumentsHold, PTL DEF Spec, DeletedStaysDeleted

-----------------------------------------------------------------------------
(* Jobs.                                                                   *)

\* A job whose id is where it was, in the same hands; its items may have
\* changed if a worker is busy with it.
LEMMA JobKept ==
    ASSUME NEW j \in Jobs, JobInv(j),
           lossy' = lossy, lost \subseteq lost',
           request'[j] = request[j], job'[j] = job[j], tally'[j] = tally[j],
           Queued(j)' <=> Queued(j),
           \A w \in Workers :
               /\ current'[w] = j <=> current[w] = j
               /\ current[w] = j =>
                     stage'[w] = stage[w] \/ (stage[w] \in Busy /\ stage'[w] \in Busy),
           \/ Held(j)
           \/ \A i \in Items : i[1] = j => payload'[i] = payload[i] /\ item'[i] = item[i]
    PROVE  JobInv(j)'
<1>1. (Held(j)' <=> Held(j)) /\ (Away(j)' <=> Away(j))
  BY DEF Held, Away
<1>2. \A w \in Workers : current[w] = j =>
         /\ stage'[w] \in {"popped", "loaded"} => stage[w] \in {"popped", "loaded"}
         /\ stage'[w] \in Busy => stage[w] \in Busy
  BY DEF Busy, AtItem
<1>3. Statuses(j)'
  BY <1>1, <1>2 DEF JobInv, Statuses
<1>4. Settled(j)'
  BY <1>1 DEF JobInv, Settled
<1>5. Counted(j)'
  <2>1. CASE Held(j)
    <3>1. job[j] # "success" /\ tally[j] = NoTally
      BY <2>1 DEF JobInv, Settled, Away
    <3>2. QED
      BY <3>1 DEF Counted, NoTally
  <2>2. CASE \A i \in Items : i[1] = j => payload'[i] = payload[i] /\ item'[i] = item[i]
    <3>1. Of(j)' = Of(j)
      BY <2>2 DEF Of
    <3>2. \A i \in Of(j) : item'[i] = item[i]
      BY <2>2 DEF Of
    <3>3. \A s : With(j, s)' = With(j, s)
      BY <3>1, <3>2 DEF With
    <3>4. QED
      BY <3>1, <3>2, <3>3 DEF JobInv, Counted, NoTally
  <2>3. QED
    BY <2>1, <2>2
<1>6. Remembered(j)'
  BY <1>1 DEF JobInv, Remembered
<1>7. QED
  BY <1>3, <1>4, <1>5, <1>6 DEF JobInv

LEMMA RequestJobs ==
    ASSUME IInv, JInv, NEW j \in Jobs, Request(j) \/ ApiCrash(j)
    PROVE  JInv'
<1>. TypeOK /\ Places
  BY DEF IInv
<1>1. /\ UNCHANGED <<lossy, tally, stage, current>> /\ lost \subseteq lost'
      /\ \A x \in Jobs \ {j} : request'[x] = request[x] /\ job'[x] = job[x]
  BY DEF Request, Create, Retry, CreateRows, Push, PushFails, MarkFailed, ApiCrash,
         database, worker, TypeOK
<1>2. \A x \in Jobs \ {j} :
         /\ Queued(x)' <=> Queued(x)
         /\ \A i \in Items : i[1] = x => payload'[i] = payload[i] /\ item'[i] = item[i]
  <2>1. CASE Create(j) \/ \E source \in Jobs : Retry(j, source)
    <3>1. PICK wanted \in Wants : CreateRows(j, wanted)
      BY <2>1, Created
    <3>2. QED
      BY <3>1 DEF CreateRows, Queued
  <2>2. CASE queue' = Append(queue, j) /\ UNCHANGED <<payload, item>>
    BY <2>2, Pushed
  <2>3. CASE UNCHANGED <<queue, payload, item>>
    BY <2>3 DEF Queued
  <2>4. QED
    BY <2>1, <2>2, <2>3 DEF Request, Push, PushFails, MarkFailed, ApiCrash, database
<1>3. \A x \in Jobs \ {j} : JobInv(x)'
  BY <1>1, <1>2, JobKept DEF JInv
<1>4. JobInv(j) /\ (Held(j)' <=> Held(j))
  BY <1>1 DEF JInv, Held
<1>5. CASE Create(j) \/ \E source \in Jobs : Retry(j, source)
  <2>1. PICK wanted \in Wants : request[j] = "new" /\ CreateRows(j, wanted)
    BY <1>5, Created
  <2>2. Away(j) /\ tally[j] = NoTally
    BY <1>4, <2>1 DEF Places, JobInv, Settled
  <2>3. Away(j)' /\ ~Queued(j)'
    BY <1>4, <2>1, <2>2 DEF CreateRows, Away, Queued
  <2>4. \A w \in Workers : current'[w] # j
    BY <2>3 DEF Away, Held
  <2>5. request'[j] = "committed" /\ job'[j] = "pending" /\ tally'[j] = NoTally
    BY <1>1, <2>1, <2>2 DEF CreateRows, TypeOK
  <2>6. Statuses(j)'
    BY <2>3, <2>4, <2>5 DEF Statuses
  <2>7. Settled(j)' /\ Counted(j)' /\ Remembered(j)'
    BY <2>5 DEF Settled, Counted, Remembered, NoTally
  <2>8. QED
    BY <1>3, <2>6, <2>7 DEF JobInv, JInv
<1>6. CASE Push(j) \/ PushFails(j)
  <2>1. /\ request[j] = "committed" /\ Away(j)
        /\ job'[j] = "pending" /\ tally'[j] = NoTally
    <3>1. request[j] = "committed" /\ job' = job /\ tally' = tally
      BY <1>6 DEF Push, PushFails, database
    <3>2. QED
      BY <1>4, <3>1 DEF Places, JobInv, Statuses, Settled
  <2>2. \A w \in Workers : current'[w] # j
    BY <1>1, <2>1 DEF Away, Held
  <2>3. \/ request'[j] = "done" /\ Queued(j)'
        \/ request'[j] = "failing" /\ (~lossy => Away(j)')
    <3>1. CASE Push(j)
      BY <3>1, Pushed DEF Push, TypeOK
    <3>2. CASE PushFails(j)
      <4>1. queue' = queue => Away(j)'
        BY <1>4, <2>1 DEF Away, Queued
      <4>2. QED
        BY <3>2, <4>1 DEF PushFails, TypeOK
    <3>3. QED
      BY <1>6, <3>1, <3>2
  <2>4. Statuses(j)'
    BY <1>1, <2>1, <2>2, <2>3 DEF Statuses
  <2>5. Settled(j)' /\ Counted(j)' /\ Remembered(j)'
    BY <2>1, <2>3 DEF Settled, Counted, Remembered, NoTally
  <2>6. QED
    BY <1>3, <2>4, <2>5 DEF JobInv, JInv
<1>7. CASE MarkFailed(j) \/ ApiCrash(j)
  <2>1. UNCHANGED <<payload, item, queue>> /\ request'[j] = "done"
    BY <1>7 DEF MarkFailed, ApiCrash, database, TypeOK
  <2>2. /\ Queued(j)' <=> Queued(j)
        /\ Away(j)' <=> Away(j)
        /\ Of(j)' = Of(j) /\ \A s : With(j, s)' = With(j, s)
    BY <1>4, <2>1 DEF Queued, Away, Of, With
  <2>3. \/ request[j] = "failing" /\ job'[j] = "failed"
        \/ request[j] \in {"committed", "failing"} /\ job' = job /\ j \in lost'
    BY <1>7 DEF MarkFailed, ApiCrash, database, TypeOK
  <2>4. Settled(j)'
    BY <1>1, <1>4, <2>1, <2>2, <2>3 DEF JobInv, Settled
  <2>5. Counted(j)'
    BY <1>1, <1>4, <2>1, <2>2, <2>3 DEF JobInv, Counted, NoTally
  <2>6. Remembered(j)'
    BY <1>4, <2>2, <2>3 DEF Remembered
  <2>7. Statuses(j)'
    <3>1. job'[j] # "none"
      BY <1>4, <2>3 DEF JobInv, Statuses
    <3>2. lossy \/ job'[j] = job[j] \/ Away(j)
      BY <1>4, <2>3 DEF JobInv, Statuses
    <3>3. (lossy /\ job'[j] = "failed") \/ job'[j] = job[j] \/ Away(j)
      BY <2>3, <3>2
    <3>4. Away(j) => ~Queued(j) /\ \A w \in Workers : current[w] # j
      BY DEF Away, Held
    <3>5. QED
      BY <1>1, <1>4, <2>1, <2>2, <3>1, <3>3, <3>4 DEF JobInv, Statuses
  <2>8. QED
    BY <1>3, <2>4, <2>5, <2>6, <2>7 DEF JobInv, JInv
<1>8. QED
  BY <1>5, <1>6, <1>7 DEF Request

LEMMA EditJobs ==
    ASSUME IInv, JInv, NEW e \in Edits, Edit(e)
    PROVE  JInv'
<1>1. UNCHANGED <<payload, item, job, tally, queue, lossy, request, stage, current, lost>>
  BY DEF Edit, EditLoad, EditCommit, database, worker
<1>2. QED
  BY <1>1, JobKept DEF JInv, Queued

\* The items a worker has brought to the end of its job.
LEMMA AllDecided ==
    ASSUME IInv, NEW w \in Workers, stage[w] = "running", todo[w] = {}
    PROVE  \A i \in Of(current[w]) : item[i] \in Decided
  BY DEF IInv, Progress, Reached, Busy, AtItem

LEMMA FinishJobs ==
    ASSUME IInv, JInv, NEW w \in Workers, FinishJob(w), NEW j \in Jobs, j = current[w]
    PROVE  JobInv(j)'
<1>. TypeOK /\ Places
  BY DEF IInv
<1>1. /\ stage[w] = "running" /\ todo[w] = {}
      /\ job'[j] = Verdict(w)
      /\ \A s \in {"success", "failed", "skipped"} : tally'[j][s] = Cardinality(With(j, s))
      /\ UNCHANGED <<payload, item, queue, lossy, request>>
      /\ current'[w] = Nothing /\ \A v \in Workers \ {w} : current'[v] = current[v]
  BY DEF FinishJob, Through, Rest, api, TypeOK
<1>2. Held(j) /\ ~Queued(j) /\ request[j] \in {"failing", "done"}
  BY DEF Held, Places, Away, TypeOK
<1>3. lossy \/ request[j] # "failing"
  BY <1>2 DEF JInv, JobInv, Statuses, Away
<1>4. \A v \in Workers : current'[v] # j
  BY <1>1, ConstantsAssumption DEF Places
<1>5. ~Queued(j)' /\ Away(j)'
  BY <1>1, <1>2, <1>4 DEF Queued, Away, Held
<1>6. Of(j)' = Of(j) /\ \A s : With(j, s)' = With(j, s)
  BY <1>1 DEF Of, With
<1>7. Verdict(w) = "success" \/ Verdict(w) = "failed"
  BY DEF Verdict
<1>8. Statuses(j)'
  BY <1>1, <1>2, <1>3, <1>4, <1>5, <1>7 DEF Statuses
<1>9. Settled(j)'
  BY <1>1, <1>2, <1>5 DEF Settled
<1>10. Verdict(w) = "success" => \A i \in Of(j) : item[i] \in {"success", "skipped"}
  BY <1>1, AllDecided DEF Verdict, With, Decided
<1>11. Counted(j)'
  BY <1>1, <1>6, <1>10 DEF Counted
<1>12. Remembered(j)'
  BY <1>1, <1>7 DEF Remembered
<1>13. QED
  BY <1>8, <1>9, <1>11, <1>12 DEF JobInv

LEMMA WorkJobs ==
    ASSUME IInv, JInv, NEW w \in Workers, Work(w) \/ WorkerCrash(w)
    PROVE  JInv'
<1>. TypeOK /\ Places /\ Holding(w)
  BY DEF IInv, Holdings
<1>1. /\ UNCHANGED <<payload, request, lossy>>
      /\ \A v \in Workers \ {w} : current'[v] = current[v] /\ stage'[v] = stage[v]
      /\ \A i \in Items : item'[i] # item[i] => Held(i[1])
  BY WorkFrame DEF Of, Held
<1>2. lost \subseteq lost' /\ \A x \in Jobs : x # current[w] => job'[x] = job[x] /\ tally'[x] = tally[x]
  BY DEF Work, WorkerCrash, Pop, LoadJob, StartJob, StartItem, LoadDocument, Skip,
         Flush, Collide, Save, Fail, FinishJob, EndItem, database, TypeOK
<1>3. ASSUME NEW x \in Jobs, x # current[w], x # current'[w] PROVE JobInv(x)'
  <2>1. Queued(x)' <=> Queued(x)
    BY <1>3, WorkMovesId
  <2>2. \A i \in Items : i[1] = x => payload'[i] = payload[i] /\ (Held(x) \/ item'[i] = item[i])
    BY <1>1
  <2>3. QED
    BY <1>1, <1>2, <1>3, <2>1, <2>2, JobKept DEF JInv
<1>4. CASE Pop(w)
  <2>1. /\ stage[w] = "idle" /\ stage'[w] = "popped" /\ UNCHANGED <<payload, item, job, tally, lost>>
        /\ current[w] = Nothing
    BY <1>4 DEF Pop, database, TypeOK, Holding
  <2>2. PICK h \in Jobs : /\ h = Head(queue) /\ current'[w] = h
                          /\ Queued(h) /\ ~Queued(h)'
    BY <1>4, Popped DEF Pop, Places, TypeOK
  <2>3. JobInv(h) /\ ~Held(h) /\ request[h] \in {"failing", "done"}
    BY <2>2 DEF JInv, Places, Away, TypeOK
  <2>4. /\ lossy \/ request[h] # "failing"
        /\ job[h] = "pending" \/ (lossy /\ job[h] = "failed")
        /\ tally[h] = NoTally
    BY <2>2, <2>3 DEF JobInv, Statuses, Settled, Away
  <2>5. \A v \in Workers : current'[v] = h => v = w
    BY <1>1, <2>3 DEF Held
  <2>6. Held(h)'
    BY <2>2 DEF Held
  <2>7. Statuses(h)'
    BY <1>1, <2>1, <2>2, <2>3, <2>4, <2>5 DEF Statuses, Busy, AtItem
  <2>8. Settled(h)' /\ Counted(h)' /\ Remembered(h)'
    BY <2>1, <2>4, <2>6 DEF Settled, Counted, Remembered, NoTally
  <2>9. QED
    BY <1>3, <2>1, <2>2, <2>7, <2>8, ConstantsAssumption DEF JInv, JobInv
<1>5. CASE ~Pop(w)
  <2>1. stage[w] # "idle" /\ current[w] \in Jobs
    BY <1>5 DEF Work, WorkerCrash, LoadJob, StartJob, StartItem, LoadDocument, Skip,
                Flush, Collide, Save, Fail, FinishJob, Holding, TypeOK
  <2>2. PICK j \in Jobs : j = current[w]
    BY <2>1
  <2>3. JobInv(j) /\ Held(j) /\ ~Queued(j) /\ request[j] \in {"failing", "done"}
    BY <2>2 DEF JInv, Held, Places, Away, TypeOK
  <2>4. \A v \in Workers : current[v] = j => v = w
    BY <2>2, ConstantsAssumption DEF Places
  <2>5. /\ \A x : Queued(x)' <=> Queued(x)
        /\ current'[w] \in {j, Nothing}
    BY <1>5, <2>2, WorkMovesId
  <2>6. \A x \in Jobs : x # j => JobInv(x)'
    BY <1>3, <2>2, <2>5, ConstantsAssumption
  <2>7. /\ job[j] # "success" /\ tally[j] = NoTally
        /\ lossy \/ request[j] # "failing"
    BY <2>3 DEF JobInv, Statuses, Settled, Away
  <2>8. CASE StartItem(w) \/ LoadDocument(w) \/ Skip(w) \/ Flush(w) \/ Collide(w) \/ Save(w) \/ Fail(w)
    <3>1. /\ stage[w] \in Busy /\ stage'[w] \in Busy
          /\ UNCHANGED <<job, tally, lost, current>>
      BY <2>8 DEF StartItem, LoadDocument, Skip, Flush, Collide, Save, Fail, EndItem,
                  database, TypeOK, Busy, AtItem
    <3>2. JobInv(j)'
      BY <1>1, <2>2, <2>3, <2>4, <2>5, <3>1, JobKept
    <3>3. QED
      BY <2>6, <3>2 DEF JInv
  <2>9. CASE StartJob(w) \/ (LoadJob(w) /\ job[j] = "pending")
    <3>1. /\ UNCHANGED <<payload, item, tally, lost, current>>
          /\ \/ stage[w] = "loaded" /\ stage'[w] = "running" /\ job'[j] = "running"
             \/ stage'[w] = "loaded" /\ job'[j] = "pending"
      BY <2>2, <2>9 DEF StartJob, LoadJob, database, TypeOK
    <3>2. Held(j)' /\ ~Queued(j)' /\ \A v \in Workers : current'[v] = j => v = w
      BY <2>2, <2>3, <2>4, <2>5, <3>1 DEF Held
    <3>3. Statuses(j)'
      BY <1>1, <2>2, <2>3, <2>7, <3>1, <3>2 DEF Statuses, Busy, AtItem
    <3>4. Settled(j)' /\ Counted(j)' /\ Remembered(j)'
      BY <2>7, <3>1, <3>2 DEF Settled, Counted, Remembered, NoTally
    <3>5. QED
      BY <2>6, <3>3, <3>4 DEF JInv, JobInv
  <2>10. CASE WorkerCrash(w) \/ (LoadJob(w) /\ job[j] # "pending")
    <3>1. /\ UNCHANGED <<payload, item, job, tally>> /\ current'[w] = Nothing
          /\ j \in lost' \/ (stage[w] = "popped" /\ job[j] # "pending")
      BY <2>2, <2>10 DEF WorkerCrash, LoadJob, Rest, database, TypeOK
    <3>2. ~Queued(j)' /\ Away(j)' /\ \A v \in Workers : current'[v] # j
      BY <1>1, <2>3, <2>4, <2>5, <3>1, ConstantsAssumption DEF Away, Held
    <3>3. Statuses(j)'
      BY <1>1, <2>3, <2>7, <3>1, <3>2 DEF JobInv, Statuses
    <3>4. job[j] \in {"pending", "running"} => j \in lost'
      BY <2>2, <2>3, <3>1 DEF JobInv, Statuses
    <3>5. Settled(j)' /\ Counted(j)' /\ Remembered(j)'
      BY <2>7, <3>1, <3>4 DEF Settled, Counted, Remembered, NoTally
    <3>6. QED
      BY <2>6, <3>3, <3>5 DEF JInv, JobInv
  <2>11. CASE FinishJob(w)
    BY <2>2, <2>6, <2>11, FinishJobs DEF JInv
  <2>12. QED
    BY <1>5, <2>8, <2>9, <2>10, <2>11 DEF Work
<1>6. QED
  BY <1>4, <1>5

LEMMA JobsStart == Init => JInv
<1>. SUFFICES ASSUME Init, NEW j \in Jobs PROVE JobInv(j)
  BY DEF JInv
<1>1. /\ request[j] = "new" /\ job[j] = "none" /\ tally[j] = NoTally
      /\ ~Queued(j) /\ \A w \in Workers : current[w] # j
  BY ConstantsAssumption DEF Init, Queued
<1>2. QED
  BY <1>1 DEF JobInv, Statuses, Settled, Counted, Remembered

LEMMA JobsKept == IInv /\ JInv /\ [Next]_vars => JInv'
<1>. SUFFICES ASSUME IInv, JInv, [Next]_vars PROVE JInv'
  OBVIOUS
<1>1. CASE UNCHANGED vars
  <2>1. UNCHANGED <<payload, item, job, tally, queue, lossy, request, stage, current, lost>>
    BY <1>1 DEF vars, database, worker, api
  <2>2. QED
    BY <2>1, JobKept DEF JInv, Queued
<1>2. QED
  BY <1>1, Steps, RequestJobs, EditJobs, WorkJobs

LEMMA JobsHold == Spec => [](IInv /\ JInv)
<1>1. Init => IInv /\ JInv
  BY InvStarts, JobsStart
<1>2. IInv /\ JInv /\ [Next]_vars => (IInv /\ JInv)'
  BY InvKept, JobsKept
<1>3. QED
  BY <1>1, <1>2, PTL DEF Spec

\* A job that reads "success" has no failed or open item, and the counters of a
\* finished job are those of its items: after the verdict nobody has the job.
THEOREM VerdictsMatch == Spec => []VerdictMatchesItems
<1>1. JInv => VerdictMatchesItems
  BY DEF JInv, JobInv, Counted, VerdictMatchesItems
<1>2. QED
  BY <1>1, JobsHold, PTL

\* Only a crash leaves a pending or running job behind.
THEOREM JobsAreRemembered == Spec => []NoJobForgotten
<1>1. JInv => NoJobForgotten
  BY DEF JInv, JobInv, Remembered, Queued, Held, NoJobForgotten
<1>2. QED
  BY <1>1, JobsHold, PTL

-----------------------------------------------------------------------------
(***************************************************************************)
(* The ingest implements IngestLifeCycle: who reads the status of a job or    *)
(* of an item sees that life cycle, for every number of jobs, keys, workers   *)
(* and crashes.                                                             *)
(*                                                                         *)
(* The map is the identity on lossy, job and item.  That a step is one the    *)
(* life cycle allows is a matter of who has the job: the worker that begins   *)
(* it finds its items untouched, and the request that gives it up without a   *)
(* lost reply finds it pending (Reached and Statuses of PolicyIngestProofs).  *)
(***************************************************************************)

LEMMA ItemsAre ==
    ASSUME IInv, NEW j \in Jobs
    PROVE  LifeCycle!ItemsOf(j) = Of(j)
<1>1. \A i : i \in {j} \X Keys <=> i \in Items /\ i[1] = j
  BY DEF Items
<1>2. \A i \in Items : payload[i] = Nothing <=> item[i] = "none"
  BY DEF IInv, Progress
<1>3. QED
  BY <1>1, <1>2 DEF LifeCycle!ItemsOf, Of

LEMMA SubmitsJob ==
    ASSUME IInv, JInv, NEW j \in Jobs, Create(j) \/ \E source \in Jobs : Retry(j, source)
    PROVE  LifeCycle!Next
<1>1. PICK wanted \in Wants : /\ request[j] = "new" /\ CreateRows(j, wanted)
                              /\ \E k \in Keys : wanted[k] # Nothing
  BY Created DEF IInv
<1>2. job[j] = "none" /\ lossy' = lossy /\ job' = [job EXCEPT ![j] = "pending"]
  BY <1>1 DEF JInv, JobInv, Statuses, CreateRows
<1>. DEFINE S == {i \in {j} \X Keys : wanted[i[2]] # Nothing}
<1>3. S \in SUBSET ({j} \X Keys) /\ S # {}
  <2>1. PICK k \in Keys : wanted[k] # Nothing
    BY <1>1
  <2>2. <<j, k>> \in S
    BY <2>1
  <2>3. QED
    BY <2>2
<1>4. \A i \in Items : i \in S <=> i[1] = j /\ wanted[i[2]] # Nothing
  BY DEF Items
<1>5. item' = [i \in Jobs \X Keys |-> IF i \in S THEN "pending" ELSE item[i]]
  BY <1>1, <1>4 DEF CreateRows, Items
<1>. HIDE DEF S
<1>6. LifeCycle!Submit(j)
  BY <1>2, <1>3, <1>5 DEF LifeCycle!Submit
<1>7. QED
  BY <1>6 DEF LifeCycle!Next

LEMMA RequestMaps ==
    ASSUME IInv, JInv, NEW j \in Jobs, Request(j) \/ ApiCrash(j)
    PROVE  LifeCycle!Next \/ UNCHANGED <<lossy, job, item>>
<1>1. CASE MarkFailed(j)
  <2>1. job[j] = "pending" \/ (lossy /\ job[j] # "none")
    BY <1>1 DEF MarkFailed, JInv, JobInv, Statuses, IInv, TypeOK
  <2>2. LifeCycle!GiveUp(j)
    BY <1>1, <2>1 DEF MarkFailed, LifeCycle!GiveUp
  <2>3. QED
    BY <2>2 DEF LifeCycle!Next
<1>2. CASE Push(j) \/ PushFails(j) \/ ApiCrash(j)
  BY <1>2 DEF Push, PushFails, ApiCrash, database
<1>3. QED
  BY <1>1, <1>2, SubmitsJob DEF Request

\* A worker that is busy with a job is one of whom the life cycle knows.
LEMMA HolderWorks ==
    ASSUME IInv, JInv, NEW w \in Workers, stage[w] \in Busy
    PROVE  current[w] \in Jobs /\ LifeCycle!InWork(current[w])
<1>1. current[w] \in Jobs
  BY DEF IInv, TypeOK, Holdings, Holding, Busy, AtItem
<1>2. QED
  BY <1>1 DEF JInv, JobInv, Statuses, LifeCycle!InWork

LEMMA BeginsJob ==
    ASSUME IInv, JInv, NEW w \in Workers, StartJob(w)
    PROVE  LifeCycle!Next
<1>1. PICK j \in Jobs : j = current[w] /\ stage[w] = "loaded"
  BY DEF StartJob, IInv, TypeOK, Holdings, Holding
<1>2. job[j] = "pending" \/ (lossy /\ job[j] = "failed")
  BY <1>1 DEF JInv, JobInv, Statuses
<1>3. \A i \in LifeCycle!ItemsOf(j) : item[i] = "pending"
  BY <1>1, ItemsAre DEF IInv, Progress, Reached, Untouched
<1>4. LifeCycle!Begin(j)
  BY <1>1, <1>2, <1>3 DEF StartJob, LifeCycle!Begin
<1>5. QED
  BY <1>4 DEF LifeCycle!Next

LEMMA BeginsItem ==
    ASSUME IInv, JInv, NEW w \in Workers, StartItem(w)
    PROVE  LifeCycle!Next
<1>1. stage[w] = "running" /\ UNCHANGED <<lossy, job>>
  BY DEF StartItem
<1>2. PICK j \in Jobs : j = current[w] /\ LifeCycle!InWork(j)
  BY <1>1, HolderWorks DEF Busy
<1>3. PICK i \in todo[w] : item' = [item EXCEPT ![i] = "running"]
  BY DEF StartItem
<1>4. i \in Of(j) /\ item[i] = "pending"
  BY <1>1, <1>2, <1>3 DEF IInv, Holdings, Holding, Progress, Reached, Busy, AtItem
<1>5. i[2] \in Keys /\ i = <<j, i[2]>>
  BY <1>4 DEF Of, Items
<1>6. LifeCycle!BeginItem(j, i)
  BY <1>1, <1>2, <1>3, <1>4, ItemsAre DEF LifeCycle!BeginItem
<1>7. QED
  BY <1>5, <1>6 DEF LifeCycle!Next

LEMMA DecidesItem ==
    ASSUME IInv, JInv, NEW w \in Workers, Skip(w) \/ Collide(w) \/ Save(w) \/ Fail(w)
    PROVE  LifeCycle!Next
<1>1. stage[w] \in AtItem /\ UNCHANGED <<lossy, job>>
  BY DEF Skip, Collide, Save, Fail, AtItem
<1>2. PICK j \in Jobs : j = current[w] /\ LifeCycle!InWork(j)
  BY <1>1, HolderWorks DEF Busy
<1>3. PICK i \in Items : i = task[w] /\ i \in Of(j) /\ item[i] = "running"
  BY <1>1, <1>2, AtHand DEF IInv, Holdings, Holding
<1>4. \E s \in LifeCycle!Decided : item' = [item EXCEPT ![i] = s]
  BY <1>3 DEF Skip, Collide, Save, Fail, EndItem, LifeCycle!Decided
<1>5. i[2] \in Keys /\ i = <<j, i[2]>>
  BY <1>3 DEF Of, Items
<1>6. LifeCycle!DecideItem(j, i)
  BY <1>1, <1>2, <1>3, <1>4, ItemsAre DEF LifeCycle!DecideItem
<1>7. QED
  BY <1>5, <1>6 DEF LifeCycle!Next

LEMMA ConcludesJob ==
    ASSUME IInv, JInv, NEW w \in Workers, FinishJob(w)
    PROVE  LifeCycle!Next
<1>1. stage[w] = "running" /\ todo[w] = {} /\ UNCHANGED <<lossy, item>>
  BY DEF FinishJob, Through
<1>2. PICK j \in Jobs : j = current[w] /\ LifeCycle!InWork(j)
  BY <1>1, HolderWorks DEF Busy
<1>3. \A i \in LifeCycle!ItemsOf(j) : item[i] \in LifeCycle!Decided
  BY <1>1, <1>2, AllDecided, ItemsAre DEF Decided, LifeCycle!Decided
<1>4. Verdict(w) = IF \E i \in LifeCycle!ItemsOf(j) : item[i] = "failed"
                   THEN "failed" ELSE "success"
  BY <1>2, ItemsAre DEF Verdict, With
<1>5. LifeCycle!Conclude(j)
  BY <1>1, <1>2, <1>3, <1>4 DEF FinishJob, LifeCycle!Conclude
<1>6. QED
  BY <1>5 DEF LifeCycle!Next

LEMMA StepMaps ==
    ASSUME IInv, JInv, [Next]_vars
    PROVE  LifeCycle!Next \/ UNCHANGED <<lossy, job, item>>
<1>1. ASSUME NEW e \in Edits, Edit(e) PROVE UNCHANGED <<lossy, job, item>>
  BY <1>1 DEF Edit, EditLoad, EditCommit, database
<1>2. ASSUME NEW w \in Workers, Work(w) \/ WorkerCrash(w)
      PROVE  LifeCycle!Next \/ UNCHANGED <<lossy, job, item>>
  <2>1. CASE Pop(w) \/ LoadJob(w) \/ LoadDocument(w) \/ Flush(w) \/ WorkerCrash(w)
    BY <2>1 DEF Pop, LoadJob, LoadDocument, Flush, WorkerCrash, database
  <2>2. QED
    BY <1>2, <2>1, BeginsJob, BeginsItem, DecidesItem, ConcludesJob DEF Work
<1>3. CASE UNCHANGED vars
  BY <1>3 DEF vars, database
<1>4. QED
  BY <1>1, <1>2, <1>3, RequestMaps, Steps

\* Jobs and items keep the life cycle: each step of a request or a worker is one
\* of its steps, or is not seen by who reads the statuses.
THEOREM IngestKeepsLifeCycle == Spec => KeepsLifeCycle
<1>1. Init => LifeCycle!Init
  BY DEF Init, Items, LifeCycle!Init
<1>2. IInv /\ JInv /\ [Next]_vars => [LifeCycle!Next]_(LifeCycle!vars)
  BY StepMaps DEF LifeCycle!vars
<1>3. QED
  BY <1>1, <1>2, JobsHold, PTL DEF Spec, KeepsLifeCycle, LifeCycle!Spec
=============================================================================
