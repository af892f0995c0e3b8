--------------------------- MODULE IngestLifeCycle ---------------------------
(***************************************************************************)
(* What an ingest job promises to who reads its status: it is worked on at  *)
(* most once, each of its items is decided at most once, and the worker's    *)
(* verdict on the job is given when all items are decided and is that of its  *)
(* items.  A job that could not be queued may be given up - and, if Redis's   *)
(* reply can be lost, it may be given up although a worker has it.           *)
(***************************************************************************)
CONSTANTS Jobs, Keys

VARIABLES
    lossy,      \* Redis's reply can be lost
    job,
    item

vars == <<lossy, job, item>>

ItemsOf(j) == {i \in {j} \X Keys : item[i] # "none"}
Decided == {"success", "failed", "skipped"}

Init ==
    /\ lossy \in BOOLEAN
    /\ job = [j \in Jobs |-> "none"]
    /\ item = [i \in Jobs \X Keys |-> "none"]

Submit(j) ==
    /\ job[j] = "none"
    /\ job' = [job EXCEPT ![j] = "pending"]
    /\ \E S \in SUBSET ({j} \X Keys) :
          /\ S # {}
          /\ item' = [i \in Jobs \X Keys |-> IF i \in S THEN "pending" ELSE item[i]]
    /\ UNCHANGED lossy

\* Nothing has been done yet, or nobody knows.
GiveUp(j) ==
    /\ job[j] = "pending" \/ (lossy /\ job[j] # "none")
    /\ job' = [job EXCEPT ![j] = "failed"]
    /\ UNCHANGED <<lossy, item>>

Begin(j) ==
    /\ job[j] = "pending" \/ (lossy /\ job[j] = "failed")
    /\ \A i \in ItemsOf(j) : item[i] = "pending"
    /\ job' = [job EXCEPT ![j] = "running"]
    /\ UNCHANGED <<lossy, item>>

InWork(j) == job[j] = "running" \/ (lossy /\ job[j] = "failed")

BeginItem(j, i) ==
    /\ InWork(j)
    /\ i \in ItemsOf(j) /\ item[i] = "pending"
    /\ item' = [item EXCEPT ![i] = "running"]
    /\ UNCHANGED <<lossy, job>>

DecideItem(j, i) ==
    /\ InWork(j)
    /\ i \in ItemsOf(j) /\ item[i] = "running"
    /\ \E s \in Decided : item' = [item EXCEPT ![i] = s]
    /\ UNCHANGED <<lossy, job>>

Conclude(j) ==
    /\ InWork(j)
    /\ \A i \in ItemsOf(j) : item[i] \in Decided
    /\ job' = [job EXCEPT ![j] = IF \E i \in ItemsOf(j) : item[i] = "failed"
                                 THEN "failed" ELSE "success"]
    /\ UNCHANGED <<lossy, item>>

Next ==
    \E j \in Jobs :
        \/ Submit(j) \/ GiveUp(j) \/ Begin(j) \/ Conclude(j)
        \/ \E k \in Keys : BeginItem(j, <<j, k>>) \/ DecideItem(j, <<j, k>>)

Spec == Init /\ [][Next]_vars
=============================================================================
