-------------------------- MODULE RuleRuntimeProofs ---------------------------
(***************************************************************************)
(* What holds of the rules in force for every number of requests, loaders,    *)
(* processes, keys and rows.                                                *)
(*                                                                         *)
(* RInv is about the tables: a commit touches the rows and the override of    *)
(* its own key and scope only.  On it rest three arguments.  A load answers    *)
(* right although it reads the tables one after the other, because a live     *)
(* row excludes an override and rows of global keys only ever disappear       *)
(* (LInv).  An entry of the cache is what is in force unless somebody is about *)
(* to drop it (StaleOnlyByRace).  A request that nobody overtook commits on    *)
(* what it has read (Unovertaken).                                          *)
(***************************************************************************)
EXTENDS RuleRuntime, TLAPS

Commit(w) == CommitToggle(w) \/ CommitCreate(w) \/ CommitUpdate(w) \/ CommitDelete(w)

Load == [at: {"loading"}, done: 0..2, scope: Scopes,
         table: [Ids -> Row \cup {Nothing}],
         over: [Globals -> Override \cup {Nothing}],
         ever: SUBSET Keys, steady: SUBSET Keys]

\* The rows that are there from the start stay, dead or alive; a request's own
\* row comes with its commit.
RowsKnown ==
    /\ \A i \in Initially : rows[i] \in Row
    /\ \A w \in Writers : rows[w] # Nothing => stage[w] \in {"committed", "done"}

RInv == TypeOK /\ load \in [Loaders -> Load \cup {Idle}] /\ RowsKnown /\ OneSource

-----------------------------------------------------------------------------
LEMMA JobShape ==
    ASSUME NEW q \in Job
    PROVE  /\ q.kind \in {"toggle", "create", "update", "delete"}
           /\ q.scope \in Scopes
           /\ q.kind # "toggle" => q.scope = "company"
           /\ q.kind = "toggle" => q.key \in Globals /\ q.to \in BOOLEAN
           /\ q.kind = "create" => q.key \in Customs /\ q.to \in BOOLEAN
           /\ q.kind = "update" => q.row \in Initially /\ q.to \in BOOLEAN
           /\ q.kind = "delete" => q.row \in Initially
  BY DEF Job, Scopes

LEMMA Asked ==
    ASSUME RInv, NEW w \in Writers
    PROVE  /\ job[w] \in Job /\ Scope(w) \in Scopes /\ KeyOf(w) \in Keys
           /\ Kind(w, "toggle") => KeyOf(w) \in Globals /\ job[w].to \in BOOLEAN
           /\ Kind(w, "create") => KeyOf(w) \in Customs /\ job[w].to \in BOOLEAN
           /\ Kind(w, "update") => job[w].row \in Initially /\ job[w].to \in BOOLEAN
           /\ Kind(w, "delete") => job[w].row \in Initially
           /\ ~Kind(w, "toggle") => Scope(w) = "company"
<1>1. job[w] \in Job
  BY ConstantsAssumption DEF RInv, TypeOK
<1>2. job[w].kind \notin {"toggle", "create"} =>
         job[w].row \in Initially /\ rows[job[w].row].key \in Keys
  BY <1>1, JobShape DEF RInv, RowsKnown, Row
<1>3. KeyOf(w) \in Keys
  BY <1>1, <1>2, JobShape DEF KeyOf, Keys
<1>4. QED
  BY <1>1, <1>3, JobShape DEF Kind, Scope, KeyOf

LEMMA InForceIs ==
    ASSUME NEW scope, NEW table, NEW over, NEW k
    PROVE  /\ InForce(scope, table, over) \subseteq Keys
           /\ k \in Globals =>
                 (k \in InForce(scope, table, over) <=>
                    IF over[k] # Nothing THEN over[k].enabled
                    ELSE IF scope = "company" /\ Live(table, k) # {}
                         THEN \E i \in Live(table, k) : table[i].enabled
                         ELSE default[k])
           /\ k \in Customs =>
                 (k \in InForce(scope, table, over) <=>
                    scope = "company" /\ \E i \in Live(table, k) : table[i].enabled)
  BY ConstantsAssumption DEF InForce, Keys

LEMMA LiveIs ==
    ASSUME NEW table, NEW k, NEW i
    PROVE  i \in Live(table, k)
             <=> i \in Ids /\ table[i] # Nothing /\ table[i].live /\ table[i].key = k
  BY DEF Live

\* A step that changes neither the override of a key in a scope nor, as far as
\* the scope reads them, the rows of the key.
KeyKept(s, k) ==
    /\ k \in Globals => override'[s][k] = override[s][k]
    /\ s = "company" =>
          /\ \A i : i \in Live(rows, k)' <=> i \in Live(rows, k)
          /\ \A i \in Live(rows, k) : rows'[i] = rows[i]

LEMMA EffectKept ==
    ASSUME NEW s, NEW k \in Keys, default' = default, KeyKept(s, k)
    PROVE  k \in Effective(s)' <=> k \in Effective(s)
<1>1. CASE k \in Globals
  <2>1. /\ k \in Effective(s) <=>
              IF override[s][k] # Nothing THEN override[s][k].enabled
              ELSE IF s = "company" /\ Live(rows, k) # {}
                   THEN \E i \in Live(rows, k) : rows[i].enabled
                   ELSE default[k]
        /\ k \in Effective(s)' <=>
              IF override'[s][k] # Nothing THEN override'[s][k].enabled
              ELSE IF s = "company" /\ Live(rows, k)' # {}
                   THEN \E i \in Live(rows, k)' : rows'[i].enabled
                   ELSE default'[k]
    BY <1>1, InForceIs, ConstantsAssumption DEF Effective, InForce
  <2>2. QED
    BY <1>1, <2>1 DEF KeyKept
<1>2. CASE k \in Customs
  <2>1. /\ k \in Effective(s) <=>
              s = "company" /\ \E i \in Live(rows, k) : rows[i].enabled
        /\ k \in Effective(s)' <=>
              s = "company" /\ \E i \in Live(rows, k)' : rows'[i].enabled
    BY <1>2, ConstantsAssumption DEF Effective, InForce
  <2>2. QED
    BY <2>1 DEF KeyKept
<1>3. QED
  BY <1>1, <1>2 DEF Keys

-----------------------------------------------------------------------------
(* What a commit does to the tables.                                       *)

\* The rows that a commit writes bear its key, and are the company's.
Writes(w) ==
    \A i \in Ids : rows'[i] # rows[i] =>
        /\ Scope(w) = "company"
        /\ rows'[i] \in Row /\ rows'[i].key = KeyOf(w)
        /\ rows[i] # Nothing => rows[i].key = KeyOf(w)
        /\ rows[i] = Nothing => i = w

\* Rows of global keys only disappear.
Shrinks == \A k \in Globals : \A i : i \in Live(rows, k)' => i \in Live(rows, k)

Overrides(w) ==
    \A s \in Scopes, k \in Globals :
        override'[s][k] # override[s][k] => s = Scope(w) /\ k = KeyOf(w)

TableTypes ==
    /\ rows \in [Ids -> Row \cup {Nothing}]
    /\ override \in [Scopes -> [Globals -> Override \cup {Nothing}]]

LEMMA ToggleWrites ==
    ASSUME RInv, NEW w \in Writers, CommitToggle(w)
    PROVE  TableTypes' /\ Writes(w) /\ Shrinks /\ Overrides(w) /\ OneSource'
<1>. TypeOK /\ OneSource
  BY DEF RInv
<1>1. Kind(w, "toggle") /\ KeyOf(w) \in Globals /\ job[w].to \in BOOLEAN /\ Scope(w) \in Scopes
  BY Asked DEF CommitToggle, Overridden
<1>2. PICK s \in Scopes, k \in Globals : s = Scope(w) /\ k = KeyOf(w)
  BY <1>1
<1>3. \A i \in Ids : \/ rows'[i] = rows[i]
                     \/ /\ s = "company" /\ i \in Live(rows, k)
                        /\ rows'[i] = [key |-> k, enabled |-> FALSE, live |-> FALSE]
  BY <1>2 DEF CommitToggle, Retired
<1>4. s = "company" => \A i : i \notin Live(rows, k)'
  BY <1>2, LiveIs DEF CommitToggle, Retired, Live
<1>5. rows' \in [Ids -> Row \cup {Nothing}]
  BY <1>2, <1>3 DEF CommitToggle, Retired, TypeOK, Row, Keys
<1>6. Writes(w)
  <2>1. [key |-> k, enabled |-> FALSE, live |-> FALSE] \in Row
    BY DEF Row, Keys
  <2>2. ASSUME NEW i \in Ids, rows'[i] # rows[i]
        PROVE  /\ s = "company" /\ rows'[i] \in Row /\ rows'[i].key = k
               /\ rows[i] # Nothing /\ rows[i].key = k
    BY <1>3, <2>1, <2>2 DEF Live
  <2>3. QED
    BY <1>2, <2>2 DEF Writes
<1>7. \A x : \A i : i \in Live(rows, x)' => i \in Live(rows, x)
  BY <1>3 DEF Live
<1>8. Now(w) = override[s][k]
  BY <1>2 DEF Now
<1>9. PICK o \in Override \cup {Nothing} :
         override' = override \/ override' = [override EXCEPT ![s][k] = o]
  <2>1. CASE job[w].to = default[k]
    BY <1>2, <2>1 DEF CommitToggle, Overridden
  <2>2. CASE job[w].to # default[k] /\ read[w] = Nothing
    <3>1. [id |-> w, enabled |-> job[w].to] \in Override
      BY <1>1 DEF Override
    <3>2. override' = [override EXCEPT ![s][k] = [id |-> w, enabled |-> job[w].to]]
      BY <1>2, <2>2 DEF CommitToggle, Overridden
    <3>3. QED
      BY <3>1, <3>2
  <2>3. CASE job[w].to # default[k] /\ read[w] # Nothing
    <3>1. CASE Kept(w) /\ override' = [override EXCEPT ![s][k] =
                                         [id |-> read[w].id, enabled |-> job[w].to]]
      <4>1. override[s][k] \in Override
        BY <1>8, <3>1 DEF Kept, TypeOK
      <4>2. [id |-> read[w].id, enabled |-> job[w].to] \in Override
        BY <1>1, <1>8, <3>1, <4>1 DEF Kept, Override
      <4>3. QED
        BY <3>1, <4>2
    <3>2. CASE override' = override
      BY <3>2
    <3>3. QED
      BY <1>2, <2>3, <3>1, <3>2 DEF CommitToggle, Overridden
  <2>4. QED
    BY <2>1, <2>2, <2>3
<1>10. override' \in [Scopes -> [Globals -> Override \cup {Nothing}]]
  <2>. DEFINE O == Override \cup {Nothing}
  <2>. HIDE DEF O
  <2>1. override \in [Scopes -> [Globals -> O]] /\ o \in O
    BY DEF TypeOK, O
  <2>2. [override EXCEPT ![s][k] = o] \in [Scopes -> [Globals -> O]]
    BY <2>1
  <2>3. QED
    BY <1>9, <2>1, <2>2 DEF O
<1>11. Overrides(w)
  BY <1>2, <1>9 DEF Overrides, TypeOK
<1>12. OneSource'
  <2>1. \A x \in Keys : \A i, j : i \in Live(rows, x)' /\ j \in Live(rows, x)' => i = j
    BY <1>7 DEF OneSource
  <2>2. ASSUME NEW x \in Globals, override'["company"][x] # Nothing, NEW i, i \in Live(rows, x)'
        PROVE  FALSE
    <3>1. override["company"][x] = Nothing
      BY <1>7, <2>2 DEF OneSource
    <3>2. s = "company" /\ x = k
      BY <1>2, <1>11, <2>2, <3>1 DEF Overrides, Scopes
    <3>3. QED
      BY <1>4, <2>2, <3>2
  <2>3. QED
    BY <2>1, <2>2 DEF OneSource
<1>13. QED
  BY <1>5, <1>6, <1>7, <1>10, <1>11, <1>12 DEF TableTypes, Shrinks

LEMMA CreateWrites ==
    ASSUME RInv, NEW w \in Writers, CommitCreate(w)
    PROVE  TableTypes' /\ Writes(w) /\ Shrinks /\ Overrides(w) /\ OneSource'
<1>. TypeOK /\ OneSource
  BY DEF RInv
<1>1. /\ Scope(w) = "company" /\ KeyOf(w) \in Customs /\ job[w].to \in BOOLEAN
      /\ override' = override /\ w \in Ids
  BY Asked DEF CommitCreate, Kind, Ids
<1>2. PICK k \in Customs : k = KeyOf(w) /\ k \in Keys /\ k \notin Globals
  BY <1>1, ConstantsAssumption DEF Keys
<1>3. rows[w] = Nothing
  BY DEF RInv, RowsKnown, CommitCreate
<1>4. /\ rows'[w] = [key |-> k, enabled |-> job[w].to, live |-> TRUE]
      /\ \A i \in Ids : i # w => rows'[i] = rows[i]
  BY <1>1, <1>2 DEF CommitCreate, TypeOK
<1>5. rows'[w] \in Row
  BY <1>1, <1>2, <1>4 DEF Row
<1>6. rows' \in [Ids -> Row \cup {Nothing}]
  BY <1>1, <1>2 DEF CommitCreate, TypeOK, Row
<1>7. Writes(w)
  BY <1>1, <1>2, <1>3, <1>4, <1>5 DEF Writes
<1>8. /\ \A x : x # k => \A i : i \in Live(rows, x)' => i \in Live(rows, x)
      /\ \A i : i \in Live(rows, k)' => i = w
  <2>1. \A i : i \notin Live(rows, k)
    BY <1>2 DEF CommitCreate, Free
  <2>2. QED
    BY <1>4, <2>1 DEF Live
<1>9. OneSource'
  BY <1>1, <1>2, <1>8 DEF OneSource
<1>10. QED
  BY <1>1, <1>2, <1>6, <1>7, <1>8, <1>9 DEF TableTypes, Shrinks, Overrides, TypeOK

LEMMA ChangeWrites ==
    ASSUME RInv, NEW w \in Writers, CommitUpdate(w) \/ CommitDelete(w)
    PROVE  TableTypes' /\ Writes(w) /\ Shrinks /\ Overrides(w) /\ OneSource'
<1>. TypeOK /\ OneSource
  BY DEF RInv
<1>1. /\ Scope(w) = "company" /\ job[w].row \in Initially /\ override' = override
      /\ job[w].kind \in {"update", "delete"}
  BY Asked DEF CommitUpdate, CommitDelete, Kind
<1>2. PICK r \in Initially : r = job[w].row
  BY <1>1
<1>3. r \in Ids /\ rows[r] \in Row /\ KeyOf(w) = rows[r].key
  BY <1>1, <1>2 DEF RInv, RowsKnown, KeyOf, Ids
<1>4. /\ \A i \in Ids : i # r => rows'[i] = rows[i]
      /\ rows'[r] \in Row /\ rows'[r].key = rows[r].key
      /\ rows'[r].live => rows[r].live
      /\ rows' \in [Ids -> Row \cup {Nothing}]
  <2>1. CASE CommitUpdate(w)
    <3>1. job[w].to \in BOOLEAN
      BY <2>1, Asked DEF CommitUpdate
    <3>2. CASE rows' = rows
      BY <1>3, <3>2 DEF TypeOK
    <3>3. CASE rows' = [rows EXCEPT ![r].enabled = job[w].to]
      BY <1>3, <3>1, <3>3 DEF TypeOK, Row
    <3>4. QED
      BY <1>2, <2>1, <3>2, <3>3 DEF CommitUpdate
  <2>2. CASE CommitDelete(w)
    BY <1>2, <1>3, <2>2 DEF CommitDelete, TypeOK, Row
  <2>3. QED
    BY <2>1, <2>2
<1>5. rows[r] # Nothing
  BY <1>3, ConstantsAssumption
<1>6. Writes(w)
  BY <1>1, <1>3, <1>4, <1>5 DEF Writes
<1>7. \A x : \A i : i \in Live(rows, x)' => i \in Live(rows, x)
  BY <1>4, <1>5 DEF Live
<1>8. OneSource'
  <2>1. \A x : Live(rows, x) = {} => Live(rows, x)' = {}
    BY <1>7
  <2>2. QED
    BY <1>1, <1>7, <2>1 DEF OneSource
<1>9. QED
  BY <1>1, <1>4, <1>6, <1>7, <1>8 DEF TableTypes, Shrinks, Overrides, TypeOK

LEMMA CommitWrites ==
    ASSUME RInv, NEW w \in Writers, Commit(w)
    PROVE  TableTypes' /\ Writes(w) /\ Shrinks /\ Overrides(w) /\ OneSource'
  BY ToggleWrites, CreateWrites, ChangeWrites DEF Commit

LEMMA CommitIs ==
    ASSUME NEW w \in Writers, Commit(w)
    PROVE  /\ stage[w] = "read"
           /\ \E after : Commits(w, after)
           /\ UNCHANGED <<default, job, read, before>>
  BY DEF Commit, CommitToggle, CommitCreate, CommitUpdate, CommitDelete, Commits

LEMMA KeysStay ==
    ASSUME RInv, NEW w \in Writers, Commit(w)
    PROVE  \A v \in Writers : KeyOf(v)' = KeyOf(v)
<1>1. job' = job
  BY CommitIs
<1>2. ASSUME NEW v \in Writers PROVE KeyOf(v)' = KeyOf(v)
  <2>1. CASE job[v].kind \in {"toggle", "create"}
    BY <1>1, <2>1 DEF KeyOf
  <2>2. CASE job[v].kind \notin {"toggle", "create"}
    <3>1. PICK r \in Ids : r = job[v].row /\ rows[r] # Nothing
      BY <2>2, Asked, JobShape, ConstantsAssumption DEF RInv, RowsKnown, Ids
    <3>2. rows'[r].key = rows[r].key
      BY <3>1, CommitWrites DEF Writes
    <3>3. QED
      BY <1>1, <2>2, <3>1, <3>2 DEF KeyOf
  <2>3. QED
    BY <2>1, <2>2
<1>3. QED
  BY <1>2

LEMMA OthersKept ==
    ASSUME RInv, NEW w \in Writers, Commit(w), NEW s \in Scopes, NEW k \in Keys,
           s # Scope(w) \/ k # KeyOf(w)
    PROVE  KeyKept(s, k)
<1>1. k \in Globals => override'[s][k] = override[s][k]
  BY CommitWrites DEF Overrides
<1>2. CASE s # "company"
  BY <1>1, <1>2 DEF KeyKept
<1>3. CASE s = "company"
  <2>1. \A i \in Ids : rows'[i] # rows[i] =>
           rows'[i].key # k /\ (rows[i] # Nothing => rows[i].key # k)
    BY <1>3, CommitWrites DEF Writes
  <2>2. \A i : /\ i \in Live(rows, k)' <=> i \in Live(rows, k)
               /\ i \in Live(rows, k) => rows'[i] = rows[i]
    BY <2>1 DEF Live
  <2>3. QED
    BY <1>1, <2>2 DEF KeyKept
<1>4. QED
  BY <1>2, <1>3

\* The history of a load takes note of what is in force after the commit.
Noted(l, scope) ==
    load'[l] = IF load[l].at = "idle" \/ load[l].scope # scope THEN load[l]
               ELSE [load[l] EXCEPT !.ever = @ \cup Effective(scope)',
                                    !.steady = @ \cap Effective(scope)']

LEMMA CommitNoted ==
    ASSUME RInv, NEW w \in Writers, Commit(w), NEW s \in Scopes, s = Scope(w)
    PROVE  \A l \in Loaders : Noted(l, s)
<1>1. load' = Witnessed(s) /\ default' = default
  BY CommitIs DEF Commits
<1>2. Effective(s)' = InForce(s, rows', override'[s])
  BY <1>1 DEF Effective, InForce
<1>3. QED
  BY <1>1, <1>2 DEF Witnessed, Noted

LEMMA EffectType ==
    ASSUME NEW s
    PROVE  Effective(s) \subseteq Keys /\ Effective(s)' \subseteq Keys
  BY DEF Effective, InForce, Keys

LEMMA CommitLoads ==
    ASSUME RInv, NEW w \in Writers, Commit(w)
    PROVE  load' \in [Loaders -> Load \cup {Idle}]
<1>1. PICK s \in Scopes : s = Scope(w)
  BY Asked
<1>2. ASSUME NEW l \in Loaders PROVE load'[l] \in Load \cup {Idle}
  <2>1. Noted(l, s) /\ load[l] \in Load \cup {Idle}
    BY <1>1, CommitNoted DEF RInv
  <2>2. CASE load'[l] = load[l]
    BY <2>1, <2>2
  <2>3. CASE load[l] \in Load /\ load'[l] = [load[l] EXCEPT !.ever = @ \cup Effective(s)',
                                                         !.steady = @ \cap Effective(s)']
    <3>1. PICK E \in SUBSET Keys : E = Effective(s)'
      BY EffectType
    <3>2. QED
      BY <2>3, <3>1 DEF Load
  <2>4. QED
    BY <2>1, <2>2, <2>3 DEF Noted, Idle
<1>3. DOMAIN load' = Loaders /\ load' = [l \in Loaders |-> load'[l]]
  BY CommitIs DEF Commits, Witnessed
<1>4. QED
  BY <1>2, <1>3

LEMMA CommitType ==
    ASSUME RInv, NEW w \in Writers, Commit(w)
    PROVE  RInv'
<1>. TypeOK
  BY DEF RInv
<1>1. PICK s \in Scopes, k \in Keys : s = Scope(w) /\ k = KeyOf(w)
  BY Asked
<1>2. PICK after \in BOOLEAN : Commits(w, after)
  BY Asked DEF Commit, CommitToggle, CommitCreate, CommitUpdate, CommitDelete, Overridden
<1>3. TableTypes' /\ OneSource' /\ Writes(w) /\ load' \in [Loaders -> Load \cup {Idle}]
  BY CommitWrites, CommitLoads
<1>4. logged' \in [Keys -> [before: BOOLEAN, after: BOOLEAN] \cup {Nothing}]
  <2>1. [before |-> before[w], after |-> after] \in [before: BOOLEAN, after: BOOLEAN]
    BY DEF TypeOK
  <2>2. \/ logged' = logged
        \/ logged' = [logged EXCEPT ![k] = [before |-> before[w], after |-> after]]
    BY <1>1, <1>2 DEF Commits
  <2>3. QED
    BY <2>1, <2>2 DEF TypeOK
<1>5. cache' \in [Processes -> [Scopes -> [rules: SUBSET Keys, raced: BOOLEAN] \cup {Nothing}]]
  <2>1. \A p \in Processes : cache'[p] \in [Scopes -> [rules: SUBSET Keys, raced: BOOLEAN] \cup {Nothing}]
    BY <1>1, <1>2 DEF Commits, Outdated, TypeOK
  <2>2. QED
    BY <1>2, <2>1 DEF Commits, Outdated
<1>6. /\ stage' = [stage EXCEPT ![w] = "committed"] /\ UNCHANGED <<default, job, read, before>>
      /\ raced' \in [Writers -> BOOLEAN]
  BY <1>2 DEF Commits, TypeOK
<1>7. RowsKnown'
  <2>1. \A i \in Initially : rows'[i] \in Row
    BY <1>3 DEF Writes, RInv, RowsKnown, Ids
  <2>2. \A v \in Writers : rows'[v] # Nothing => stage'[v] \in {"committed", "done"}
    BY <1>3, <1>6 DEF Writes, RInv, RowsKnown, Ids, TypeOK
  <2>3. QED
    BY <2>1, <2>2 DEF RowsKnown
<1>8. \A l \in Loaders :
          \/ load'[l] = Idle
          \/ /\ load'[l].at = "loading"
             /\ load'[l].done \in 0..2
             /\ load'[l].scope \in Scopes
             /\ load'[l].table \in [Ids -> Row \cup {Nothing}]
             /\ load'[l].over \in [Globals -> Override \cup {Nothing}]
             /\ load'[l].ever \subseteq Keys /\ load'[l].steady \subseteq Keys
  BY <1>3 DEF Load
<1>9. TypeOK'
  BY <1>3, <1>4, <1>5, <1>6, <1>8 DEF TypeOK, TableTypes, Stages
<1>10. QED
  BY <1>3, <1>7, <1>9 DEF RInv

-----------------------------------------------------------------------------
(* The loads and the requests under way.                                   *)

\* Whether the rows of a key put it in force.
RowsSay(table, k) == \E i \in Live(table, k) : table[i].enabled

\* An answer for a key that was right at some time of the load.
Between(l, k, says) ==
    /\ says => k \in load[l].ever
    /\ k \in load[l].steady => says

\* From the first query on the rows of a company are right for the keys they
\* decide; of the other keys there are no rows, and none will come.
Decided(l, k) ==
    IF k \in Customs \/ Live(load[l].table, k) # {}
    THEN Between(l, k, RowsSay(load[l].table, k))
    ELSE Live(rows, k) = {}

Witnessing(l) ==
    /\ load[l].steady \subseteq Effective(load[l].scope)
    /\ Effective(load[l].scope) \subseteq load[l].ever

LoadRight(l) ==
    load[l] # Idle =>
        /\ Witnessing(l)
        /\ load[l].done >= 1 /\ load[l].scope = "company" => \A k \in Keys : Decided(l, k)
        /\ load[l].done = 2 => \A k \in Keys : Between(l, k, k \in Answer(l))

LInv == \A l \in Loaders : LoadRight(l)

\* A request that nobody overtook commits on what it has read.
Unovertaken(w) ==
    stage[w] = "read" /\ ~raced[w] =>
        /\ read[w] = Loads(w)
        /\ before[w] = (KeyOf(w) \in Effective(Scope(w)))
        /\ ~Refused(w)

UInv == \A w \in Writers : Unovertaken(w)

-----------------------------------------------------------------------------
(* RInv holds in every state.                                              *)

LEMMA RInvInit == Init => RInv
<1>. SUFFICES ASSUME Init PROVE RInv
  OBVIOUS
<1>1. TypeOK
  <2>1. PICK ov \in [Scopes -> [Globals -> [id: {Nothing}, enabled: BOOLEAN] \cup {Nothing}]] :
           override = ov
    BY DEF Init
  <2>2. override \in [Scopes -> [Globals -> Override \cup {Nothing}]]
    BY <2>1 DEF Override
  <2>3. stage \in [Writers -> Stages] /\ logged \in [Keys -> [before: BOOLEAN, after: BOOLEAN] \cup {Nothing}]
    BY DEF Init, Stages
  <2>4. /\ read \in [Writers -> Row \cup Override \cup {Nothing}] /\ before \in [Writers -> BOOLEAN]
        /\ raced \in [Writers -> BOOLEAN]
        /\ cache \in [Processes -> [Scopes -> [rules: SUBSET Keys, raced: BOOLEAN] \cup {Nothing}]]
    BY DEF Init
  <2>5. QED
    BY <2>2, <2>3, <2>4 DEF Init, TypeOK
<1>2. load \in [Loaders -> Load \cup {Idle}]
  BY DEF Init
<1>3. RowsKnown
  BY ConstantsAssumption DEF Init, RowsKnown, Ids
<1>4. OneSource
  <2>1. \A k : \A i \in Live(rows, k) : i \in Initially /\ rows[i].key = k
    BY DEF Init, Live
  <2>2. QED
    BY <2>1 DEF Init, OneSource
<1>5. QED
  BY <1>1, <1>2, <1>3, <1>4 DEF RInv

\* A step that is no commit, and what it leaves to look at.
LEMMA QuietKeeps ==
    ASSUME RInv, UNCHANGED <<tables, job>>,
           stage' \in [Writers -> Stages],
           read' \in [Writers -> Row \cup Override \cup {Nothing}],
           before' \in [Writers -> BOOLEAN],
           raced' = raced,
           cache' \in [Processes -> [Scopes -> [rules: SUBSET Keys, raced: BOOLEAN] \cup {Nothing}]],
           load' \in [Loaders -> Load \cup {Idle}],
           \A w \in Writers : stage[w] \in {"committed", "done"} => stage'[w] \in {"committed", "done"}
    PROVE  RInv'
<1>1. UNCHANGED <<default, rows, override, logged, job>>
  BY DEF tables
<1>2. \A l \in Loaders :
          \/ load'[l] = Idle
          \/ /\ load'[l].at = "loading"
             /\ load'[l].done \in 0..2
             /\ load'[l].scope \in Scopes
             /\ load'[l].table \in [Ids -> Row \cup {Nothing}]
             /\ load'[l].over \in [Globals -> Override \cup {Nothing}]
             /\ load'[l].ever \subseteq Keys /\ load'[l].steady \subseteq Keys
  BY DEF Load
<1>3. TypeOK'
  BY <1>1, <1>2 DEF RInv, TypeOK
<1>4. RowsKnown' /\ OneSource'
  BY <1>1 DEF RInv, RowsKnown, OneSource, Live
<1>5. QED
  BY <1>3, <1>4 DEF RInv

LEMMA ReadKeepsR ==
    ASSUME RInv, NEW w \in Writers, Read(w)
    PROVE  RInv'
<1>. TypeOK
  BY DEF RInv
<1>1. Loads(w) \in Row \cup Override \cup {Nothing}
  <2>1. PICK s \in Scopes : s = Scope(w)
    BY Asked
  <2>2. CASE Kind(w, "toggle")
    <3>1. PICK k \in Globals : k = KeyOf(w)
      BY <2>2, Asked
    <3>2. Loads(w) = override[s][k]
      BY <2>1, <2>2, <3>1 DEF Loads, Kind
    <3>3. QED
      BY <3>2 DEF TypeOK
  <2>3. CASE Kind(w, "create")
    BY <2>3 DEF Loads, Kind
  <2>4. CASE ~Kind(w, "toggle") /\ ~Kind(w, "create")
    <3>1. Loads(w) = rows[job[w].row]
      BY <2>4 DEF Loads
    <3>2. job[w].row \in Initially
      BY <2>4, Asked, JobShape DEF Kind
    <3>3. QED
      BY <3>1, <3>2 DEF RInv, RowsKnown
  <2>5. QED
    BY <2>2, <2>3, <2>4
<1>2. read' \in [Writers -> Row \cup Override \cup {Nothing}] /\ before' \in [Writers -> BOOLEAN]
  BY <1>1 DEF Read, TypeOK
<1>3. stage' \in [Writers -> Stages]
  BY DEF Read, TypeOK, Stages
<1>4. \A v \in Writers : stage[v] \in {"committed", "done"} => stage'[v] \in {"committed", "done"}
  BY DEF Read, TypeOK
<1>5. QED
  BY <1>2, <1>3, <1>4, QuietKeeps DEF Read, RInv, TypeOK

LEMMA StageKeepsR ==
    ASSUME RInv, NEW w \in Writers, Fails(w) \/ Invalidate(w)
    PROVE  RInv'
<1>. TypeOK
  BY DEF RInv
<1>1. /\ UNCHANGED <<tables, job, read, before, load, raced>>
      /\ stage' \in [Writers -> Stages]
  BY DEF Fails, Invalidate, TypeOK, Stages
<1>2. \A v \in Writers : stage[v] \in {"committed", "done"} => stage'[v] \in {"committed", "done"}
  BY DEF Fails, Invalidate, TypeOK
<1>3. cache' \in [Processes -> [Scopes -> [rules: SUBSET Keys, raced: BOOLEAN] \cup {Nothing}]]
  <2>1. PICK s \in Scopes, p \in Processes : s = Scope(w) /\ p = RunsIn[w]
    BY Asked, ConstantsAssumption
  <2>2. cache' = cache \/ cache' = [cache EXCEPT ![p][s] = Nothing]
    BY <2>1 DEF Fails, Invalidate
  <2>. DEFINE C == [rules: SUBSET Keys, raced: BOOLEAN] \cup {Nothing}
  <2>. HIDE DEF C
  <2>3. cache \in [Processes -> [Scopes -> C]] /\ Nothing \in C
    BY DEF TypeOK, C
  <2>4. cache' \in [Processes -> [Scopes -> C]]
    BY <2>2, <2>3
  <2>5. QED
    BY <2>4 DEF C
<1>4. QED
  BY <1>1, <1>2, <1>3, QuietKeeps DEF RInv, TypeOK

LEMMA LoadKeepsR ==
    ASSUME RInv, NEW l \in Loaders, Miss(l) \/ Query(l) \/ Fill(l)
    PROVE  RInv'
<1>. TypeOK /\ load \in [Loaders -> Load \cup {Idle}]
  BY DEF RInv
<1>1. UNCHANGED <<tables, job, stage, read, before, raced>>
  BY DEF Miss, Query, Fill
<1>2. load' \in [Loaders -> Load \cup {Idle}]
  <2>1. CASE Miss(l)
    <3>1. PICK s \in Scopes, E \in SUBSET Keys :
             /\ E = Effective(s)
             /\ load' = [load EXCEPT ![l] =
                   [at |-> "loading", done |-> 0, scope |-> s, table |-> rows,
                    over |-> override[s], ever |-> E, steady |-> E]]
      BY <2>1, EffectType DEF Miss
    <3>2. [at |-> "loading", done |-> 0, scope |-> s, table |-> rows,
           over |-> override[s], ever |-> E, steady |-> E] \in Load
      BY DEF Load, TypeOK
    <3>3. QED
      BY <3>1, <3>2
  <2>2. CASE Query(l)
    <3>1. load[l] \in Load /\ load[l].done \in 0..1
      BY <2>2 DEF Query, Load, Idle, QueryOrder
    <3>2. PICK t \in [Ids -> Row \cup {Nothing}], o \in [Globals -> Override \cup {Nothing}] :
             load' = [load EXCEPT ![l].done = @ + 1, ![l].table = t, ![l].over = o]
      <4>1. CASE load[l].done = 0
        <5>1. load' = [load EXCEPT ![l].done = @ + 1, ![l].table = rows, ![l].over = @]
          BY <2>2, <4>1 DEF Query, QueryOrder
        <5>2. QED
          BY <3>1, <5>1 DEF TypeOK, Load
      <4>2. CASE load[l].done = 1
        <5>1. load' = [load EXCEPT ![l].done = @ + 1, ![l].table = @,
                                   ![l].over = override[load[l].scope]]
          BY <2>2, <4>2 DEF Query, QueryOrder
        <5>2. load[l].scope \in Scopes
          BY <3>1 DEF Load
        <5>3. QED
          BY <3>1, <5>1, <5>2 DEF TypeOK, Load
      <4>3. load[l].done = 0 \/ load[l].done = 1
        BY <3>1
      <4>4. QED
        BY <4>1, <4>2, <4>3, Zenon
    <3>3. PICK x \in Load : x = load[l] /\ x.done \in 0..1
      BY <3>1
    <3>4. x.done + 1 \in 0..2
      BY <3>3
    <3>5. PICK n \in 0..2 : n = x.done + 1
      BY <3>4
    <3>6. [x EXCEPT !.done = n, !.table = t, !.over = o] \in Load
      BY DEF Load
    <3>7. load' = [load EXCEPT ![l] = [x EXCEPT !.done = n, !.table = t, !.over = o]]
      BY <3>2, <3>3, <3>5
    <3>8. QED
      BY <3>6, <3>7
  <2>3. CASE Fill(l)
    BY <2>3 DEF Fill
  <2>4. QED
    BY <2>1, <2>2, <2>3
<1>3. cache' \in [Processes -> [Scopes -> [rules: SUBSET Keys, raced: BOOLEAN] \cup {Nothing}]]
  <2>1. CASE Fill(l)
    <3>1. load[l] \in Load
      BY <2>1 DEF Fill, Idle
    <3>2. PICK s \in Scopes, p \in Processes, A \in SUBSET Keys, b \in BOOLEAN :
             cache' = [cache EXCEPT ![p][s] = [rules |-> A, raced |-> b]]
      <4>1. Answer(l) \in SUBSET Keys
        BY DEF Answer, InForce, Keys
      <4>2. load[l].scope \in Scopes /\ RunsIn[l] \in Processes
        BY <3>1, ConstantsAssumption DEF Load
      <4>3. QED
        BY <2>1, <4>1, <4>2 DEF Fill
    <3>3. QED
      BY <3>2 DEF TypeOK
  <2>2. CASE Miss(l) \/ Query(l)
    BY <2>2 DEF Miss, Query, TypeOK
  <2>3. QED
    BY <2>1, <2>2
<1>4. QED
  BY <1>1, <1>2, <1>3, QuietKeeps DEF TypeOK

LEMMA ExpireKeepsR ==
    ASSUME RInv, NEW p \in Processes, NEW s \in Scopes, Expire(p, s)
    PROVE  RInv'
<1>1. cache' \in [Processes -> [Scopes -> [rules: SUBSET Keys, raced: BOOLEAN] \cup {Nothing}]]
  BY DEF Expire, RInv, TypeOK
<1>2. QED
  BY <1>1, QuietKeeps DEF Expire, RInv, TypeOK

LEMMA RInvStep == RInv /\ [Next]_vars => RInv'
<1>. SUFFICES ASSUME RInv, [Next]_vars PROVE RInv'
  OBVIOUS
<1>1. ASSUME NEW w \in Writers, Request(w) PROVE RInv'
  BY <1>1, ReadKeepsR, CommitType, StageKeepsR DEF Request, Commit
<1>2. ASSUME NEW l \in Loaders, Miss(l) \/ Loading(l) PROVE RInv'
  BY <1>2, LoadKeepsR DEF Loading
<1>3. ASSUME NEW p \in Processes, NEW s \in Scopes, Expire(p, s) PROVE RInv'
  BY <1>3, ExpireKeepsR
<1>4. CASE UNCHANGED vars
  BY <1>4, QuietKeeps DEF vars, RInv, TypeOK
<1>5. QED
  BY <1>1, <1>2, <1>3, <1>4 DEF Next

\* Every variable keeps its shape: the rows a commit writes, the loads, the
\* entries of the cache.
THEOREM RuleTypes == Spec => []TypeOK
<1>1. RInv => TypeOK
  BY DEF RInv
<1>2. QED
  BY RInvInit, RInvStep, <1>1, PTL DEF Spec

\* However creations, toggles, updates and deletions overlap, a company has at
\* most one live row of a key, and none where it has an override.
THEOREM OneSourceOfAKey == Spec => []OneSource
<1>1. RInv => OneSource
  BY DEF RInv
<1>2. QED
  BY RInvInit, RInvStep, <1>1, PTL DEF Spec

-----------------------------------------------------------------------------
(* LInv: what a load has read was right at some time of it.                *)

LEMMA QueryOrderIs ==
    /\ Len(QueryOrder) = 2
    /\ QueryOrder[1] = "rows" /\ QueryOrder[2] = "overrides"
  BY DEF QueryOrder

LEMMA LoadFrame ==
    ASSUME NEW l \in Loaders, load'[l] = load[l], UNCHANGED tables, LoadRight(l)
    PROVE  LoadRight(l)'
<1>1. UNCHANGED <<default, rows, override>>
  BY DEF tables
<1>2. QED
  BY <1>1 DEF LoadRight, Witnessing, Decided, Between, RowsSay, Answer, Effective,
              InForce, Live

LEMMA MissLoad ==
    ASSUME RInv, NEW l \in Loaders, Miss(l)
    PROVE  LoadRight(l)'
<1>1. PICK s \in Scopes : load' = [load EXCEPT ![l] =
            [at |-> "loading", done |-> 0, scope |-> s, table |-> rows,
             over |-> override[s], ever |-> Effective(s), steady |-> Effective(s)]]
  BY DEF Miss
<1>2. /\ load'[l].done = 0 /\ load'[l].scope = s
      /\ load'[l].ever = Effective(s) /\ load'[l].steady = Effective(s)
  BY <1>1 DEF RInv
<1>3. Effective(s)' = Effective(s)
  BY DEF Miss, tables, Effective, InForce, Live
<1>4. QED
  BY <1>2, <1>3 DEF LoadRight, Witnessing

\* The rows of a key of a company are right for the key when they are read.
LEMMA RowsDecide ==
    ASSUME RInv, NEW k \in Keys, k \in Customs \/ Live(rows, k) # {}
    PROVE  k \in Effective("company") <=> RowsSay(rows, k)
<1>1. CASE k \in Customs
  BY <1>1, InForceIs DEF Effective, RowsSay
<1>2. CASE k \in Globals
  <2>1. Live(rows, k) # {} /\ override["company"][k] = Nothing
    BY <1>2, ConstantsAssumption DEF RInv, OneSource
  <2>2. QED
    BY <1>2, <2>1, InForceIs DEF Effective, RowsSay
<1>3. QED
  BY <1>1, <1>2 DEF Keys

\* So are the overrides, when the rows that were read before say nothing.
LEMMA OverridesDecide ==
    ASSUME RInv, NEW s \in Scopes, NEW k \in Globals, NEW table,
           s = "company" /\ Live(table, k) = {} => Live(rows, k) = {}
    PROVE  \/ k \in InForce(s, table, override[s]) <=> k \in Effective(s)
           \/ /\ s = "company" /\ Live(table, k) # {}
              /\ k \in InForce(s, table, override[s]) <=> RowsSay(table, k)
<1>1. /\ k \in InForce(s, table, override[s]) <=>
            IF override[s][k] # Nothing THEN override[s][k].enabled
            ELSE IF s = "company" /\ Live(table, k) # {}
                 THEN \E i \in Live(table, k) : table[i].enabled
                 ELSE default[k]
      /\ k \in Effective(s) <=>
            IF override[s][k] # Nothing THEN override[s][k].enabled
            ELSE IF s = "company" /\ Live(rows, k) # {}
                 THEN \E i \in Live(rows, k) : rows[i].enabled
                 ELSE default[k]
  BY InForceIs DEF Effective
<1>2. QED
  BY <1>1 DEF RowsSay

LEMMA QueryLoad ==
    ASSUME RInv, NEW l \in Loaders, Query(l), LoadRight(l)
    PROVE  LoadRight(l)'
<1>1. load[l] \in Load /\ load[l] # Idle /\ load[l].done \in {0, 1}
  BY QueryOrderIs DEF RInv, Query, Load, Idle
<1>2. PICK x \in Load : x = load[l]
  BY <1>1
<1>3. /\ load'[l].scope = x.scope /\ load'[l].done = x.done + 1
      /\ load'[l].ever = x.ever /\ load'[l].steady = x.steady
      /\ x.done = 0 => load'[l].table = rows
      /\ x.done = 1 => load'[l].table = x.table /\ load'[l].over = override[x.scope]
  BY <1>1, <1>2, QueryOrderIs DEF RInv, Query, Load
<1>4. UNCHANGED <<default, rows, override>>
  BY DEF Query, tables
<1>5. \A s : Effective(s)' = Effective(s)
  BY <1>4 DEF Effective, InForce, Live
<1>6. /\ x.steady \subseteq Effective(x.scope) /\ Effective(x.scope) \subseteq x.ever
      /\ Witnessing(l)'
  BY <1>1, <1>2, <1>3, <1>5 DEF LoadRight, Witnessing
<1>7. x.scope \in Scopes /\ x.done \in {0, 1}
  BY <1>1, <1>2 DEF Load
<1>8. ASSUME NEW k \in Keys, x.scope = "company" PROVE Decided(l, k)'
  <2>1. CASE x.done = 0
    <3>1. CASE k \in Customs \/ Live(rows, k) # {}
      <4>1. (k \in Effective("company")) <=> RowsSay(rows, k)
        BY <3>1, RowsDecide
      <4>2. (RowsSay(rows, k) => k \in x.ever) /\ (k \in x.steady => RowsSay(rows, k))
        BY <1>6, <1>8, <4>1
      <4>3. QED
        BY <1>3, <1>4, <2>1, <3>1, <4>2 DEF Decided, Between, RowsSay, Live
    <3>2. CASE k \notin Customs /\ Live(rows, k) = {}
      BY <1>3, <1>4, <2>1, <3>2 DEF Decided, Live
    <3>3. QED
      BY <3>1, <3>2
  <2>2. CASE x.done = 1
    <3>1. Decided(l, k)
      BY <1>1, <1>2, <1>8, <2>2 DEF LoadRight
    <3>2. load'[l].table = load[l].table /\ load'[l].ever = load[l].ever
          /\ load'[l].steady = load[l].steady
      BY <1>2, <1>3, <2>2
    <3>3. QED
      BY <1>4, <3>1, <3>2 DEF Decided, Between, RowsSay, Live
  <2>3. QED
    BY <1>7, <2>1, <2>2
<1>9. ASSUME NEW k \in Keys, x.done = 1 PROVE Between(l, k, k \in Answer(l))'
  <2>1. Answer(l)' = InForce(x.scope, x.table, override[x.scope])
    BY <1>3, <1>4, <1>9 DEF Answer, InForce, Live
  <2>2. PICK s, table : s \in Scopes /\ s = x.scope /\ table = x.table
    BY <1>7
  <2>3. PICK a \in BOOLEAN : a <=> k \in InForce(s, table, override[s])
    OBVIOUS
  <2>4. s = "company" => /\ k \in Customs \/ Live(table, k) # {} =>
                              /\ RowsSay(table, k) => k \in x.ever
                              /\ k \in x.steady => RowsSay(table, k)
                         /\ k \notin Customs /\ Live(table, k) = {} => Live(rows, k) = {}
    BY <1>1, <1>2, <1>9, <2>2 DEF LoadRight, Decided, Between
  <2>5. (a => k \in x.ever) /\ (k \in x.steady => a)
    <3>1. CASE k \in Globals
      <4>1. k \notin Customs
        BY <3>1, ConstantsAssumption
      <4>2. \/ a <=> k \in Effective(s)
            \/ s = "company" /\ Live(table, k) # {} /\ (a <=> RowsSay(table, k))
        BY <2>2, <2>3, <2>4, <3>1, <4>1, OverridesDecide
      <4>3. QED
        BY <1>6, <2>2, <2>4, <4>2
    <3>2. CASE k \in Customs
      <4>1. a <=> s = "company" /\ RowsSay(table, k)
        BY <2>3, <3>2, InForceIs DEF RowsSay
      <4>2. s # "company" => k \notin Effective(s)
        BY <3>2, InForceIs DEF Effective
      <4>3. QED
        BY <1>6, <2>2, <2>4, <3>2, <4>1, <4>2
    <3>3. QED
      BY <3>1, <3>2 DEF Keys
  <2>6. QED
    BY <1>3, <2>1, <2>2, <2>3, <2>5 DEF Between
<1>10. load'[l].done >= 1 /\ (load'[l].done = 2 => x.done = 1)
  BY <1>3, <1>7
<1>11. QED
  BY <1>3, <1>6, <1>8, <1>9, <1>10 DEF LoadRight

LEMMA FillLoad ==
    ASSUME RInv, NEW l \in Loaders, Fill(l)
    PROVE  LoadRight(l)'
  BY DEF Fill, RInv, LoadRight

\* A commit in the scope of a load adds to its history, one in the other scope
\* changes nothing it reads.
LEMMA CommitLoad ==
    ASSUME RInv, NEW w \in Writers, Commit(w), NEW l \in Loaders, LoadRight(l)
    PROVE  LoadRight(l)'
<1>1. PICK s \in Scopes : s = Scope(w)
  BY Asked
<1>2. Noted(l, s) /\ load[l] \in Load \cup {Idle} /\ default' = default
  BY <1>1, CommitNoted, CommitIs DEF RInv
<1>3. CASE load[l] = Idle
  BY <1>2, <1>3 DEF Noted, Idle, LoadRight
<1>4. CASE load[l] # Idle
  <2>1. PICK x \in Load : x = load[l]
    BY <1>2, <1>4
  <2>2. x.at = "loading" /\ x.scope \in Scopes
    BY <2>1 DEF Load
  <2>3. x.steady \subseteq Effective(x.scope) /\ Effective(x.scope) \subseteq x.ever
    BY <1>4, <2>1 DEF LoadRight, Witnessing
  <2>4. /\ load'[l].scope = x.scope /\ load'[l].done = x.done
        /\ load'[l].table = x.table /\ load'[l].over = x.over
        /\ x.ever \subseteq load'[l].ever /\ load'[l].steady \subseteq x.steady
        /\ Witnessing(l)'
    <3>1. CASE x.scope = s
      <4>1. load'[l] = [x EXCEPT !.ever = @ \cup Effective(s)', !.steady = @ \cap Effective(s)']
        BY <1>2, <2>1, <2>2, <3>1 DEF Noted
      <4>2. PICK E \in SUBSET Keys : E = Effective(s)'
        BY EffectType
      <4>3. PICK y \in Load : /\ y = load'[l] /\ y.scope = s /\ y.done = x.done
                              /\ y.table = x.table /\ y.over = x.over
                              /\ y.ever = x.ever \cup E /\ y.steady = x.steady \cap E
        BY <3>1, <4>1, <4>2 DEF Load
      <4>4. Witnessing(l)'
        BY <4>2, <4>3 DEF Witnessing
      <4>5. QED
        BY <3>1, <4>3, <4>4
    <3>2. CASE x.scope # s
      <4>1. load'[l] = x
        BY <1>2, <2>1, <2>2, <3>2 DEF Noted
      <4>2. \A k \in Keys : k \in Effective(x.scope)' <=> k \in Effective(x.scope)
        BY <1>1, <1>2, <2>2, <3>2, OthersKept, EffectKept
      <4>3. Effective(x.scope)' = Effective(x.scope)
        BY <4>2, EffectType
      <4>4. QED
        BY <2>3, <4>1, <4>3 DEF Witnessing
    <3>3. QED
      BY <3>1, <3>2
  <2>5. ASSUME NEW k \in Keys, Decided(l, k) PROVE Decided(l, k)'
    <3>1. k \notin Customs => k \in Globals
      BY DEF Keys
    <3>2. k \notin Customs /\ Live(rows, k) = {} => Live(rows, k)' = {}
      BY <3>1, CommitWrites DEF Shrinks
    <3>3. QED
      BY <2>1, <2>4, <2>5, <3>2 DEF Decided, Between, RowsSay, Live
  <2>6. ASSUME NEW k \in Keys, Between(l, k, k \in Answer(l))
        PROVE  Between(l, k, k \in Answer(l))'
    <3>1. Answer(l)' = Answer(l)
      BY <1>2, <2>1, <2>4 DEF Answer, InForce, Live
    <3>2. QED
      BY <2>1, <2>4, <2>6, <3>1 DEF Between
  <2>7. QED
    BY <1>4, <2>1, <2>4, <2>5, <2>6 DEF LoadRight
<1>5. QED
  BY <1>3, <1>4

LEMMA LInvInit == Init => LInv
  BY DEF Init, LInv, LoadRight

LEMMA LInvStep == RInv /\ LInv /\ [Next]_vars => LInv'
<1>. SUFFICES ASSUME RInv, LInv, [Next]_vars, NEW l \in Loaders PROVE LoadRight(l)'
  BY DEF LInv
<1>. LoadRight(l)
  BY DEF LInv
<1>1. ASSUME NEW w \in Writers, Request(w) PROVE LoadRight(l)'
  <2>1. CASE Commit(w)
    BY <2>1, CommitLoad
  <2>2. CASE Read(w) \/ Fails(w) \/ Invalidate(w)
    BY <2>2, LoadFrame DEF Read, Fails, Invalidate
  <2>3. QED
    BY <1>1, <2>1, <2>2 DEF Request, Commit
<1>2. ASSUME NEW m \in Loaders, Miss(m) \/ Loading(m) PROVE LoadRight(l)'
  <2>1. CASE m = l
    BY <1>2, <2>1, MissLoad, QueryLoad, FillLoad DEF Loading
  <2>2. CASE m # l
    <3>1. load'[l] = load[l] /\ UNCHANGED tables
      BY <1>2, <2>2 DEF Loading, Miss, Query, Fill, RInv
    <3>2. QED
      BY <3>1, LoadFrame
  <2>3. QED
    BY <2>1, <2>2
<1>3. ASSUME NEW p \in Processes, NEW s \in Scopes, Expire(p, s) PROVE LoadRight(l)'
  BY <1>3, LoadFrame DEF Expire
<1>4. CASE UNCHANGED vars
  BY <1>4, LoadFrame DEF vars
<1>5. QED
  BY <1>1, <1>2, <1>3, <1>4 DEF Next

LEMMA AnswerBetween ==
    ASSUME RInv, LInv, NEW l \in Loaders, load[l].at = "loading", load[l].done = 2
    PROVE  /\ load[l].steady \subseteq Answer(l) /\ Answer(l) \subseteq load[l].ever
           /\ Witnessing(l) /\ load[l].scope \in Scopes
<1>1. load[l] \in Load /\ load[l] # Idle
  BY DEF RInv, Idle
<1>2. load[l].steady \subseteq Keys /\ load[l].scope \in Scopes /\ Answer(l) \subseteq Keys
  BY <1>1 DEF Load, Answer, InForce, Keys
<1>3. LoadRight(l)
  BY DEF LInv
<1>4. QED
  BY <1>1, <1>2, <1>3 DEF LoadRight, Between

\* A load answers, for every key, with a value that was in force during the
\* load, although a commit may come between its two queries.
THEOREM LoadsAreCurrent == Spec => []LoadsAnswerCurrent
<1>1. RInv /\ LInv => LoadsAnswerCurrent
  BY AnswerBetween, QueryOrderIs DEF LoadsAnswerCurrent
<1>2. QED
  BY RInvInit, RInvStep, LInvInit, LInvStep, <1>1, PTL DEF Spec

-----------------------------------------------------------------------------
(* The cache.                                                              *)

\* StaleOnlyByRace, of one entry.
Explained(p, s) ==
    cache[p][s] # Nothing /\ cache[p][s].rules # Effective(s) =>
        \/ cache[p][s].raced
        \/ \E w \in Writers : stage[w] = "committed" /\ Scope(w) = s /\ RunsIn[w] = p

\* An entry that a step leaves alone, or drops.
LEMMA EntryFrame ==
    ASSUME NEW p \in Processes, NEW s \in Scopes, Explained(p, s),
           cache'[p][s] = cache[p][s] \/ cache'[p][s] = Nothing,
           Effective(s)' = Effective(s), job' = job,
           \A w \in Writers : stage[w] = "committed" /\ Scope(w) = s /\ RunsIn[w] = p
                                 => stage'[w] = "committed"
    PROVE  Explained(p, s)'
  BY DEF Explained, Scope

LEMMA TablesKeep ==
    ASSUME UNCHANGED tables, NEW s
    PROVE  Effective(s)' = Effective(s)
  BY DEF tables, Effective, InForce, Live

LEMMA CommitEntry ==
    ASSUME RInv, NEW w \in Writers, Commit(w),
           NEW p \in Processes, NEW s \in Scopes, Explained(p, s)
    PROVE  Explained(p, s)'
<1>. TypeOK
  BY DEF RInv
<1>1. PICK c \in Scopes : c = Scope(w)
  BY Asked
<1>2. /\ stage' = [stage EXCEPT ![w] = "committed"] /\ job' = job /\ default' = default
      /\ cache' = Outdated(w)
  BY CommitIs DEF Commits
<1>3. CASE s # c
  <2>1. \A k \in Keys : k \in Effective(s)' <=> k \in Effective(s)
    BY <1>1, <1>2, <1>3, OthersKept, EffectKept
  <2>2. Effective(s)' = Effective(s)
    BY <2>1, EffectType
  <2>3. cache'[p][s] = cache[p][s]
    BY <1>1, <1>2, <1>3 DEF Outdated, TypeOK
  <2>4. \A v \in Writers : stage[v] = "committed" => stage'[v] = "committed"
    BY <1>2 DEF TypeOK
  <2>5. QED
    BY <1>2, <2>2, <2>3, <2>4, EntryFrame
<1>4. CASE s = c /\ p = RunsIn[w]
  <2>1. stage'[w] = "committed" /\ Scope(w)' = s
    BY <1>1, <1>2, <1>4 DEF TypeOK, Scope
  <2>2. QED
    BY <1>4, <2>1 DEF Explained
<1>5. CASE s = c /\ p # RunsIn[w]
  <2>1. cache'[p][s] = Nothing \/ cache'[p][s].raced
    BY <1>1, <1>2, <1>5 DEF Outdated, TypeOK
  <2>2. QED
    BY <2>1 DEF Explained
<1>6. QED
  BY <1>3, <1>4, <1>5

LEMMA RequestEntry ==
    ASSUME RInv, NEW w \in Writers, Read(w) \/ Fails(w) \/ Invalidate(w),
           NEW p \in Processes, NEW s \in Scopes, Explained(p, s)
    PROVE  Explained(p, s)'
<1>. TypeOK
  BY DEF RInv
<1>1. Effective(s)' = Effective(s) /\ job' = job
  BY TablesKeep DEF Read, Fails, Invalidate
<1>2. CASE Read(w) \/ Fails(w)
  <2>1. cache' = cache /\ \A v \in Writers : stage[v] = "committed" => stage'[v] = "committed"
    BY <1>2 DEF Read, Fails, TypeOK
  <2>2. QED
    BY <1>1, <2>1, EntryFrame
<1>3. CASE Invalidate(w)
  <2>1. PICK q \in Processes, c \in Scopes : q = RunsIn[w] /\ c = Scope(w)
    BY Asked, ConstantsAssumption
  <2>2. cache' = [cache EXCEPT ![q][c] = Nothing] /\ \A v \in Writers : v # w => stage'[v] = stage[v]
    BY <1>3, <2>1 DEF Invalidate, TypeOK
  <2>3. CASE p = q /\ s = c
    BY <2>2, <2>3, EntryFrame DEF TypeOK, Explained
  <2>4. CASE ~(p = q /\ s = c)
    <3>1. cache'[p][s] = cache[p][s]
      BY <2>2, <2>4 DEF TypeOK
    <3>2. QED
      BY <1>1, <2>1, <2>2, <2>4, <3>1, EntryFrame
  <2>5. QED
    BY <2>3, <2>4
<1>4. QED
  BY <1>2, <1>3

LEMMA FillEntry ==
    ASSUME RInv, LInv, NEW l \in Loaders, Fill(l),
           NEW p \in Processes, NEW s \in Scopes, Explained(p, s)
    PROVE  Explained(p, s)'
<1>. TypeOK
  BY DEF RInv
<1>1. PICK q \in Processes, c \in Scopes : q = RunsIn[l] /\ c = load[l].scope
  BY AnswerBetween, QueryOrderIs, ConstantsAssumption DEF Fill
<1>2. PICK e : e = [rules |-> Answer(l), raced |-> load[l].ever # load[l].steady]
  OBVIOUS
<1>3. /\ cache' = [cache EXCEPT ![q][c] = e]
      /\ UNCHANGED <<tables, job, stage>>
  BY <1>1, <1>2 DEF Fill
<1>4. Effective(s)' = Effective(s)
  BY <1>3, TablesKeep
<1>5. CASE p = q /\ s = c
  <2>1. cache'[p][s] = e
    BY <1>3, <1>5 DEF TypeOK
  <2>2. ~e.raced => e.rules = Effective(s)
    BY <1>1, <1>2, <1>5, AnswerBetween, QueryOrderIs DEF Fill, Witnessing
  <2>3. QED
    BY <1>4, <2>1, <2>2 DEF Explained
<1>6. CASE ~(p = q /\ s = c)
  <2>1. cache'[p][s] = cache[p][s]
    BY <1>3, <1>6 DEF TypeOK
  <2>2. QED
    BY <1>3, <1>4, <2>1, EntryFrame
<1>7. QED
  BY <1>5, <1>6

\* What a cache serves is in force, unless a request of its process has
\* committed and not invalidated yet, or a commit overtook the load that filled
\* the entry, or came from another process after it.
THEOREM StaleIsExplained == Spec => []StaleOnlyByRace
<1>1. Init => StaleOnlyByRace
  BY DEF Init, StaleOnlyByRace
<1>2. RInv /\ LInv /\ StaleOnlyByRace /\ [Next]_vars => StaleOnlyByRace'
  <2>. SUFFICES ASSUME RInv, LInv, StaleOnlyByRace, [Next]_vars,
                       NEW p \in Processes, NEW s \in Scopes
                PROVE  Explained(p, s)'
    BY DEF StaleOnlyByRace, Explained
  <2>. Explained(p, s)
    BY DEF StaleOnlyByRace, Explained
  <2>1. ASSUME NEW w \in Writers, Request(w) PROVE Explained(p, s)'
    BY <2>1, CommitEntry, RequestEntry DEF Request, Commit
  <2>2. ASSUME NEW l \in Loaders, Miss(l) \/ Loading(l) PROVE Explained(p, s)'
    <3>1. CASE Miss(l) \/ Query(l)
      BY <3>1, TablesKeep, EntryFrame DEF Miss, Query
    <3>2. CASE Fill(l)
      BY <3>2, FillEntry
    <3>3. QED
      BY <2>2, <3>1, <3>2 DEF Loading
  <2>3. ASSUME NEW q \in Processes, NEW c \in Scopes, Expire(q, c) PROVE Explained(p, s)'
    <3>1. cache'[p][s] = cache[p][s] \/ cache'[p][s] = Nothing
      BY <2>3 DEF Expire, RInv, TypeOK
    <3>2. UNCHANGED <<tables, job, stage>>
      BY <2>3 DEF Expire
    <3>3. QED
      BY <3>1, <3>2, TablesKeep, EntryFrame
  <2>4. CASE UNCHANGED vars
    BY <2>4, TablesKeep, EntryFrame DEF vars
  <2>5. QED
    BY <2>1, <2>2, <2>3, <2>4 DEF Next
<1>3. QED
  BY RInvInit, RInvStep, LInvInit, LInvStep, <1>1, <1>2, PTL DEF Spec

-----------------------------------------------------------------------------
(* UInv: a request that nobody overtook commits on what it has read.       *)

\* A step that changes nothing the request has read.
LEMMA UnovertakenFrame ==
    ASSUME NEW w \in Writers, Unovertaken(w), UNCHANGED <<tables, job, raced>>,
           read'[w] = read[w], before'[w] = before[w],
           stage'[w] = stage[w] \/ stage'[w] # "read"
    PROVE  Unovertaken(w)'
<1>1. UNCHANGED <<default, rows, override>>
  BY DEF tables
<1>2. /\ KeyOf(w)' = KeyOf(w) /\ Scope(w)' = Scope(w) /\ Loads(w)' = Loads(w)
      /\ Refused(w)' = Refused(w)
  BY <1>1 DEF KeyOf, Scope, Loads, Refused, Kind, Live
<1>3. (KeyOf(w) \in Effective(Scope(w)))' = (KeyOf(w) \in Effective(Scope(w)))
  BY <1>1, <1>2 DEF Effective, InForce, Live
<1>4. QED
  BY <1>2, <1>3 DEF Unovertaken

LEMMA ReadUnovertaken ==
    ASSUME RInv, NEW w \in Writers, Read(w)
    PROVE  Unovertaken(w)'
<1>. TypeOK
  BY DEF RInv
<1>1. UNCHANGED <<default, rows, override, job>>
  BY DEF Read, tables
<1>2. /\ KeyOf(w)' = KeyOf(w) /\ Scope(w)' = Scope(w) /\ Loads(w)' = Loads(w)
      /\ Refused(w)' = Refused(w)
  BY <1>1 DEF KeyOf, Scope, Loads, Refused, Kind, Live
<1>3. (KeyOf(w) \in Effective(Scope(w)))' = (KeyOf(w) \in Effective(Scope(w)))
  BY <1>1, <1>2 DEF Effective, InForce, Live
<1>4. /\ read'[w] = Loads(w) /\ before'[w] = (KeyOf(w) \in Effective(Scope(w)))
      /\ stage'[w] = "read" => ~Refused(w)
  BY DEF Read, TypeOK
<1>5. QED
  BY <1>2, <1>3, <1>4 DEF Unovertaken

\* A commit to another key, or in the other scope, changes nothing that the
\* request has read; any other marks it.
LEMMA CommitUnovertaken ==
    ASSUME RInv, NEW v \in Writers, Commit(v), NEW w \in Writers, Unovertaken(w)
    PROVE  Unovertaken(w)'
<1>. TypeOK
  BY DEF RInv
<1>1. PICK s \in Scopes, k \in Keys : s = Scope(w) /\ k = KeyOf(w)
  BY Asked
<1>2. UNCHANGED <<default, job, read, before>>
  BY CommitIs
<1>3. /\ stage' = [stage EXCEPT ![v] = "committed"]
      /\ raced'[w] = (\/ raced[w]
                      \/ w # v /\ stage[w] = "read" /\ s = Scope(v) /\ k = KeyOf(v))
  BY <1>1, CommitIs DEF Commits
<1>4. SUFFICES ASSUME stage'[w] = "read", ~raced'[w] PROVE Unovertaken(w)'
  BY DEF Unovertaken
<1>5. /\ w # v /\ stage[w] = "read" /\ ~raced[w]
      /\ s # Scope(v) \/ k # KeyOf(v)
  BY <1>3, <1>4 DEF TypeOK
<1>6. KeyKept(s, k)
  BY <1>5, OthersKept
<1>7. KeyOf(w)' = k /\ Scope(w)' = s
  BY <1>1, <1>2, KeysStay DEF Scope
<1>8. (KeyOf(w) \in Effective(Scope(w)))' = (KeyOf(w) \in Effective(Scope(w)))
  <2>1. k \in Effective(s)' <=> k \in Effective(s)
    BY <1>2, <1>6, EffectKept
  <2>2. (KeyOf(w) \in Effective(Scope(w)))' <=> k \in Effective(s)'
    BY <1>7 DEF Effective, InForce
  <2>3. QED
    BY <1>1, <2>1, <2>2
<1>9. Loads(w)' = Loads(w)
  <2>1. CASE Kind(w, "toggle")
    <3>1. k \in Globals
      BY <1>1, <2>1, Asked
    <3>2. Loads(w) = override[s][k] /\ Loads(w)' = override'[s][k]
      BY <1>1, <1>2, <1>7, <2>1 DEF Loads, Kind
    <3>3. QED
      BY <1>6, <3>1, <3>2 DEF KeyKept
  <2>2. CASE Kind(w, "create")
    BY <1>2, <2>2 DEF Loads, Kind
  <2>3. CASE ~Kind(w, "toggle") /\ ~Kind(w, "create")
    <3>1. PICK r \in Ids : r = job[w].row /\ rows[r] # Nothing
      BY <2>3, Asked, JobShape, ConstantsAssumption DEF RInv, RowsKnown, Ids, Kind
    <3>2. s = "company" /\ k = rows[r].key
      BY <1>1, <2>3, <3>1, Asked DEF KeyOf, Kind
    <3>3. rows'[r] = rows[r]
      BY <1>5, <3>1, <3>2, CommitWrites DEF Writes
    <3>4. Loads(w) = rows[r] /\ Loads(w)' = rows'[r]
      BY <1>2, <2>3, <3>1 DEF Loads, Kind
    <3>5. QED
      BY <3>3, <3>4
  <2>4. QED
    BY <2>1, <2>2, <2>3
<1>10. ~Refused(w) => ~Refused(w)'
  <2>1. Kind(w, "create") /\ Live(rows, k) = {} => Live(rows, k)' = {}
    <3>1. Kind(w, "create") => s = "company"
      BY <1>1, Asked DEF Kind
    <3>2. QED
      BY <1>6, <3>1 DEF KeyKept
  <2>2. Live(rows, KeyOf(w))' = Live(rows, k)'
    BY <1>7 DEF Live
  <2>3. QED
    BY <1>1, <1>2, <1>7, <1>9, <2>1, <2>2 DEF Refused, Kind
<1>11. QED
  BY <1>2, <1>5, <1>8, <1>9, <1>10 DEF Unovertaken

LEMMA UInvInit == Init => UInv
  BY DEF Init, UInv, Unovertaken

LEMMA UInvStep == RInv /\ UInv /\ [Next]_vars => UInv'
<1>. SUFFICES ASSUME RInv, UInv, [Next]_vars, NEW w \in Writers PROVE Unovertaken(w)'
  BY DEF UInv
<1>. Unovertaken(w) /\ TypeOK
  BY DEF UInv, RInv
<1>1. ASSUME NEW v \in Writers, Request(v) PROVE Unovertaken(w)'
  <2>1. CASE Commit(v)
    BY <2>1, CommitUnovertaken
  <2>2. CASE Read(v) /\ v = w
    BY <2>2, ReadUnovertaken
  <2>3. CASE Read(v) /\ v # w
    <3>1. /\ UNCHANGED <<tables, job, raced>>
          /\ stage'[w] = stage[w] /\ read'[w] = read[w] /\ before'[w] = before[w]
      BY <2>3 DEF Read, TypeOK
    <3>2. QED
      BY <3>1, UnovertakenFrame
  <2>4. CASE Fails(v) \/ Invalidate(v)
    <3>1. UNCHANGED <<tables, job, read, before, raced>>
          /\ (stage'[w] = stage[w] \/ stage'[w] # "read")
      BY <2>4 DEF Fails, Invalidate, TypeOK
    <3>2. QED
      BY <3>1, UnovertakenFrame
  <2>5. QED
    BY <1>1, <2>1, <2>2, <2>3, <2>4 DEF Request, Commit
<1>2. ASSUME NEW l \in Loaders, Miss(l) \/ Loading(l) PROVE Unovertaken(w)'
  BY <1>2, UnovertakenFrame DEF Miss, Loading, Query, Fill
<1>3. ASSUME NEW p \in Processes, NEW s \in Scopes, Expire(p, s) PROVE Unovertaken(w)'
  BY <1>3, UnovertakenFrame DEF Expire
<1>4. CASE UNCHANGED vars
  BY <1>4, UnovertakenFrame DEF vars
<1>5. QED
  BY <1>1, <1>2, <1>3, <1>4 DEF Next

\* What the commit of a request that nobody overtook says of its key: the
\* override decides, or the rows, as the request asked.
Asks(w) == ~Kind(w, "delete") /\ job[w].to

LEMMA ToggleTakesEffect ==
    ASSUME RInv, NEW w \in Writers, CommitToggle(w), read[w] = Loads(w),
           NEW s \in Scopes, NEW k \in Keys, s = Scope(w), k = KeyOf(w)
    PROVE  k \in Effective(s)' <=> Asks(w)
<1>. TypeOK
  BY DEF RInv
<1>1. Kind(w, "toggle") /\ k \in Globals /\ job[w].to \in BOOLEAN /\ ~Kind(w, "delete")
  BY Asked DEF CommitToggle, Overridden, Kind
<1>2. default' = default
  BY CommitIs DEF Commit
<1>3. s = "company" => Live(rows, k)' = {}
  BY DEF CommitToggle, Retired, Live
<1>4. Now(w) = override[s][k] /\ read[w] = override[s][k]
  BY <1>1 DEF Now, Loads, Kind
<1>5. IF job[w].to = default[k] THEN override'[s][k] = Nothing
      ELSE override'[s][k] # Nothing /\ override'[s][k].enabled = job[w].to
  <2>1. CASE job[w].to = default[k]
    <3>1. override' = IF Kept(w) THEN [override EXCEPT ![s][k] = Nothing] ELSE override
      BY <2>1 DEF CommitToggle, Overridden
    <3>2. ~Kept(w) => override[s][k] = Nothing
      BY <1>4 DEF Kept
    <3>3. QED
      BY <1>1, <2>1, <3>1, <3>2 DEF TypeOK
  <2>2. CASE job[w].to # default[k]
    <3>1. ASSUME NEW i, override' = [override EXCEPT ![s][k] = [id |-> i, enabled |-> job[w].to]],
                 i \in Writers \cup {Nothing}
          PROVE  override'[s][k] # Nothing /\ override'[s][k].enabled = job[w].to
      <4>1. override'[s][k] = [id |-> i, enabled |-> job[w].to]
        BY <1>1, <3>1 DEF TypeOK
      <4>2. [id |-> i, enabled |-> job[w].to] \in Override
        BY <1>1, <3>1 DEF Override
      <4>3. QED
        BY <4>1, <4>2, ConstantsAssumption
    <3>2. CASE read[w] = Nothing
      <4>1. override' = [override EXCEPT ![s][k] = [id |-> w, enabled |-> job[w].to]]
        BY <2>2, <3>2 DEF CommitToggle, Overridden
      <4>2. QED
        BY <2>2, <3>1, <4>1
    <3>3. CASE read[w] # Nothing /\ read[w].enabled # job[w].to
      <4>1. override' = [override EXCEPT ![s][k] = [id |-> read[w].id, enabled |-> job[w].to]]
        BY <2>2, <3>3 DEF CommitToggle, Overridden
      <4>2. read[w] \in Override
        BY <1>1, <1>4, <3>3 DEF TypeOK
      <4>3. read[w].id \in Writers \cup {Nothing}
        BY <4>2 DEF Override
      <4>4. QED
        BY <2>2, <3>1, <4>1, <4>3
    <3>4. CASE read[w] # Nothing /\ read[w].enabled = job[w].to
      BY <1>4, <2>2, <3>4 DEF CommitToggle, Overridden
    <3>5. QED
      BY <3>2, <3>3, <3>4
  <2>3. QED
    BY <2>1, <2>2
<1>6. k \in Effective(s)' <=>
         IF override'[s][k] # Nothing THEN override'[s][k].enabled
         ELSE IF s = "company" /\ Live(rows, k)' # {}
              THEN \E i \in Live(rows, k)' : rows'[i].enabled
              ELSE default'[k]
  BY <1>1, InForceIs, ConstantsAssumption DEF Effective, InForce
<1>7. default[k] \in BOOLEAN
  BY <1>1 DEF TypeOK
<1>8. QED
  BY <1>1, <1>2, <1>3, <1>5, <1>6, <1>7 DEF Asks

\* Creations, updates and deletions are of rows of the company: where the key
\* is a global rule's, there is no override.
LEMMA RowDecides ==
    ASSUME RInv', NEW k \in Keys, k \in Customs \/ Live(rows, k)' # {}
    PROVE  k \in Effective("company")' <=> \E i \in Live(rows, k)' : rows'[i].enabled
<1>1. CASE k \in Customs
  BY <1>1, ConstantsAssumption DEF Effective, InForce
<1>2. CASE k \in Globals
  <2>1. Live(rows, k)' # {} /\ override'["company"][k] = Nothing
    BY <1>2, ConstantsAssumption DEF RInv, OneSource
  <2>2. QED
    BY <1>2, <2>1, ConstantsAssumption DEF Effective, InForce
<1>3. QED
  BY <1>1, <1>2 DEF Keys

LEMMA RowTakesEffect ==
    ASSUME RInv, RInv', NEW w \in Writers, CommitCreate(w) \/ CommitUpdate(w) \/ CommitDelete(w),
           read[w] = Loads(w), ~Refused(w),
           NEW s \in Scopes, NEW k \in Keys, s = Scope(w), k = KeyOf(w)
    PROVE  k \in Effective(s)' <=> Asks(w)
<1>. TypeOK /\ TypeOK' /\ OneSource'
  BY DEF RInv
<1>1. s = "company"
  BY Asked DEF CommitCreate, CommitUpdate, CommitDelete, Kind
<1>2. CASE CommitCreate(w)
  <2>1. k \in Customs /\ ~Kind(w, "delete") /\ job[w].to \in BOOLEAN /\ w \in Ids
    BY <1>2, Asked DEF CommitCreate, Kind, Ids
  <2>2. rows'[w] = [key |-> k, enabled |-> job[w].to, live |-> TRUE] /\ rows'[w] \in Row
    BY <1>2, <2>1 DEF CommitCreate, TypeOK, Row
  <2>3. w \in Live(rows, k)'
    BY <2>1, <2>2, ConstantsAssumption DEF Live
  <2>4. \A i \in Live(rows, k)' : i = w
    BY <2>3 DEF OneSource
  <2>5. QED
    BY <1>1, <2>1, <2>2, <2>3, <2>4, RowDecides DEF Asks
<1>3. CASE CommitUpdate(w) \/ CommitDelete(w)
  <2>1. PICK r \in Initially : r = job[w].row
    BY <1>3, Asked DEF CommitUpdate, CommitDelete
  <2>2. /\ r \in Ids /\ rows[r] \in Row /\ rows'[r] \in Row /\ k = rows[r].key /\ Loads(w) = rows[r]
        /\ rows[r].live
    BY <1>3, <2>1 DEF RInv, RowsKnown, Ids, KeyOf, Loads, Refused, Kind, CommitUpdate, CommitDelete
  <2>3. rows[r].enabled \in BOOLEAN
    BY <2>2 DEF Row
  <2>4. CASE CommitUpdate(w)
    <3>1. job[w].to \in BOOLEAN /\ ~Kind(w, "delete")
      BY <2>4, Asked DEF CommitUpdate, Kind
    <3>2. rows'[r].enabled = job[w].to /\ rows'[r].live /\ rows'[r].key = k
      <4>1. CASE rows[r].enabled = job[w].to
        BY <2>1, <2>2, <2>4, <4>1 DEF CommitUpdate
      <4>2. CASE rows[r].enabled # job[w].to
        <5>1. rows' = [rows EXCEPT ![r].enabled = job[w].to]
          BY <2>1, <2>2, <2>4, <4>2 DEF CommitUpdate
        <5>2. QED
          BY <2>2, <5>1 DEF TypeOK, Row
      <4>3. QED
        BY <4>1, <4>2
    <3>3. r \in Live(rows, k)'
      BY <2>2, <3>2, ConstantsAssumption DEF Live
    <3>4. \A i \in Live(rows, k)' : i = r
      BY <3>3 DEF OneSource
    <3>5. QED
      BY <1>1, <3>1, <3>2, <3>3, <3>4, RowDecides DEF Asks
  <2>5. CASE CommitDelete(w)
    <3>1. k \in Customs /\ Kind(w, "delete")
      BY <2>5 DEF Refused, CommitDelete, Keys
    <3>2. ~rows'[r].live /\ \A i \in Ids : i # r => rows'[i] = rows[i]
      BY <2>1, <2>2, <2>5 DEF CommitDelete, TypeOK, Row
    <3>3. \A i \in Live(rows, k) : i = r
      <4>1. r \in Live(rows, k)
        BY <2>2, ConstantsAssumption DEF Live
      <4>2. QED
        BY <4>1 DEF RInv, OneSource
    <3>4. Live(rows, k)' = {}
      BY <3>2, <3>3 DEF Live
    <3>5. QED
      BY <1>1, <3>1, <3>4, RowDecides DEF Asks
  <2>6. QED
    BY <1>3, <2>4, <2>5
<1>4. QED
  BY <1>2, <1>3

\* A request that nobody overtook between its read and its commit puts its rule
\* in or out of force as asked, and the change log holds what was in force
\* before and what is now.
THEOREM RequestsDoAsAsked == Spec => RequestsTakeEffect
<1>1. RInv /\ RInv' /\ UInv /\ [Next]_vars => [\A w \in Writers : TakesEffect(w)]_vars
  <2>. SUFFICES ASSUME RInv, RInv', UInv, Next, NEW w \in Writers,
                       stage[w] = "read", stage'[w] = "committed", ~raced[w]
                PROVE  TakesEffect(w)
    BY DEF TakesEffect
  <2>. TypeOK
    BY DEF RInv
  <2>1. Commit(w)
    <3>1. ASSUME NEW v \in Writers, Request(v) PROVE Commit(w)
      <4>1. CASE Commit(v)
        <5>1. stage' = [stage EXCEPT ![v] = "committed"]
          BY <4>1, CommitIs DEF Commits
        <5>2. v = w
          BY <5>1 DEF TypeOK
        <5>3. QED
          BY <4>1, <5>2
      <4>2. CASE Read(v) \/ Fails(v) \/ Invalidate(v)
        BY <4>2 DEF Read, Fails, Invalidate, TypeOK
      <4>3. QED
        BY <3>1, <4>1, <4>2 DEF Request, Commit
    <3>2. QED
      BY <3>1 DEF Next, Miss, Loading, Query, Fill, Expire
  <2>2. PICK s \in Scopes, k \in Keys : s = Scope(w) /\ k = KeyOf(w)
    BY Asked
  <2>3. read[w] = Loads(w) /\ before[w] = (k \in Effective(s)) /\ ~Refused(w)
    BY <2>2 DEF UInv, Unovertaken
  <2>4. k \in Effective(s)' <=> Asks(w)
    BY <2>1, <2>2, <2>3, ToggleTakesEffect, RowTakesEffect DEF Commit
  <2>5. Effective(Scope(w))' = Effective(s)'
    <3>1. Scope(w)' = s
      BY <2>1, <2>2, CommitIs DEF Scope
    <3>2. QED
      BY <3>1 DEF Effective, InForce
  <2>6. PICK after : Commits(w, after) /\ after = Asks(w)
    BY <2>1, Asked DEF Commit, CommitToggle, CommitCreate, CommitUpdate, CommitDelete,
                       Overridden, Asks, Kind
  <2>7. s = "company" => logged'[k] = [before |-> k \in Effective(s), after |-> Asks(w)]
    BY <2>2, <2>3, <2>6 DEF Commits, TypeOK
  <2>8. QED
    BY <2>2, <2>4, <2>5, <2>7 DEF TakesEffect, Asks
<1>2. QED
  BY RInvInit, RInvStep, UInvInit, UInvStep, <1>1, PTL DEF Spec, RequestsTakeEffect
=============================================================================
