-------------------------- MODULE ContextTermsProofs --------------------------
(***************************************************************************)
(* What holds of rules, keywords and caches for every number of requests,     *)
(* scans, processes, rules and words: rows that requests have read are still  *)
(* there (SInv), keywords have rows (KInv), rules nobody raced for are whole   *)
(* (WInv), and outdated entries of the caches are marked or due (CInv).        *)
(***************************************************************************)
EXTENDS ContextTerms, FiniteSetTheorems, SequenceTheorems, WellFoundedInduction, TLAPS

-----------------------------------------------------------------------------
(* Positions.                                                              *)

\* A finite set of numbers that is not empty has a greatest one: a smallest set without
\* would have one, namely that of the others or the one left out.
LEMMA MaxExists ==
    ASSUME NEW S \in SUBSET Nat, IsFiniteSet(S), S # {}
    PROVE  Max(S) \in S /\ \A y \in S : Max(S) >= y
<1>. DEFINE Top(T, x) == x \in T /\ \A y \in T : x >= y
            Bad == {T \in SUBSET S : T # {} /\ ~\E x \in T : Top(T, x)}
            R == StrictSubsetOrdering(S)
<1>1. Bad = {}
  <2>1. SUFFICES ASSUME Bad # {} PROVE FALSE
    OBVIOUS
  <2>2. Bad \subseteq FiniteSubsetsOf(S)
    BY FS_FiniteSubsetsOfFinite
  <2>3. IsWellFoundedOn(R, FiniteSubsetsOf(S))
    BY FS_StrictSubsetOrderingWellFounded
  <2>. HIDE DEF R
  <2>4. \E T \in Bad : \A U \in Bad : <<U, T>> \notin R
    <3>. HIDE DEF Bad
    <3>1. QED
      BY <2>1, <2>2, <2>3, WFMin
  <2>5. PICK T \in Bad : \A U \in Bad : <<U, T>> \notin R
    BY <2>4
  <2>6. PICK x \in T : x \in Nat
    BY <2>5
  <2>. DEFINE U == T \ {x}
  <2>7. <<U, T>> \in R
    BY <2>5, <2>6 DEF R, StrictSubsetOrdering
  <2>8. U \notin Bad /\ U \in SUBSET S /\ \A y \in T : y \in Nat
    BY <2>5, <2>7
  <2>9. CASE U = {}
    BY <2>5, <2>6, <2>9
  <2>10. CASE U # {}
    <3>1. PICK z \in U : Top(U, z)
      BY <2>8, <2>10
    <3>2. CASE z >= x
      <4>1. Top(T, z)
        BY <3>1, <3>2
      <4>2. QED
        BY <2>5, <4>1
    <3>3. CASE ~(z >= x)
      <4>1. \A y \in T : x >= y
        BY <2>6, <2>8, <3>1, <3>3
      <4>2. QED
        BY <2>5, <2>6, <4>1
    <3>4. QED
      BY <3>2, <3>3
  <2>11. QED
    BY <2>9, <2>10
<1>2. \E x \in S : \A y \in S : x >= y
  BY <1>1
<1>3. QED
  BY <1>2 DEF Max

\* Every element of a finite set of numbers has its place, every place its element.
LEMMA PlaceTaken ==
    ASSUME NEW S \in SUBSET Nat, IsFiniteSet(S), NEW n \in 1..Cardinality(S)
    PROVE  \E k \in S : Cardinality({j \in S : j < k}) = n - 1
<1>. DEFINE At(T, i) == \E k \in T : Cardinality({j \in T : j < k}) = i - 1
            Bad == {T \in SUBSET S : ~\A i \in 1..Cardinality(T) : At(T, i)}
            R == StrictSubsetOrdering(S)
<1>1. Bad = {}
  <2>1. SUFFICES ASSUME Bad # {} PROVE FALSE
    OBVIOUS
  <2>2. Bad \subseteq FiniteSubsetsOf(S)
    BY FS_FiniteSubsetsOfFinite
  <2>3. IsWellFoundedOn(R, FiniteSubsetsOf(S))
    BY FS_StrictSubsetOrderingWellFounded
  <2>. HIDE DEF R
  <2>4. \E T \in Bad : \A U \in Bad : <<U, T>> \notin R
    <3>. HIDE DEF Bad
    <3>1. QED
      BY <2>1, <2>2, <2>3, WFMin
  <2>5. PICK T \in Bad : \A U \in Bad : <<U, T>> \notin R
    BY <2>4
  <2>6. IsFiniteSet(T) /\ T \in SUBSET Nat /\ Cardinality(T) \in Nat
    BY <2>5, FS_Subset, FS_CardinalityType
  <2>7. PICK i \in 1..Cardinality(T) : ~At(T, i)
    BY <2>5
  <2>8. T # {}
    BY <2>7, FS_EmptySet
  <2>. DEFINE m == Max(T)
              U == T \ {m}
  <2>9. m \in T /\ \A y \in T : m >= y
    BY <2>6, <2>8, MaxExists
  <2>. HIDE DEF m
  <2>10. U \in SUBSET S /\ <<U, T>> \in R
    BY <2>5, <2>9 DEF R, StrictSubsetOrdering
  <2>11. \A x \in 1..Cardinality(U) : At(U, x)
    BY <2>5, <2>10
  <2>12. Cardinality(U) = Cardinality(T) - 1
    BY <2>6, <2>9, FS_RemoveElement
  <2>13. CASE i = Cardinality(T)
    <3>1. \A y \in T : y < m <=> y # m
      BY <2>6, <2>9
    <3>2. {j \in T : j < m} = U
      BY <3>1
    <3>3. QED
      BY <2>7, <2>9, <2>12, <2>13, <3>2
  <2>14. CASE i # Cardinality(T)
    <3>1. i \in 1..Cardinality(U)
      BY <2>6, <2>12, <2>14
    <3>2. PICK k \in U : Cardinality({j \in U : j < k}) = i - 1
      BY <2>11, <3>1
    <3>3. {j \in T : j < k} = {j \in U : j < k}
      BY <2>6, <2>9
    <3>4. QED
      BY <2>7, <3>2, <3>3
  <2>15. QED
    BY <2>13, <2>14
<1>2. QED
  BY <1>1

\* What is picked from a sequence is a sequence of its elements.
LEMMA PickedType ==
    ASSUME NEW X, NEW s \in Seq(X), NEW S \in SUBSET DOMAIN s
    PROVE  Picked(s, S) \in Seq(X)
<1>1. Len(s) \in Nat /\ DOMAIN s = 1..Len(s)
  BY LenProperties
<1>2. IsFiniteSet(S) /\ S \in SUBSET Nat
  <2>1. IsFiniteSet(1..Len(s)) /\ S \in SUBSET (1..Len(s))
    BY <1>1, FS_Interval
  <2>2. QED
    BY <2>1, FS_Subset
<1>3. Cardinality(S) \in Nat
  BY <1>2, FS_CardinalityType
<1>. DEFINE place(i) == CHOOSE k \in S : Cardinality({j \in S : j < k}) = i - 1
<1>4. ASSUME NEW i \in 1..Cardinality(S) PROVE s[place(i)] \in X
  <2>1. place(i) \in S
    BY <1>2, PlaceTaken
  <2>. HIDE DEF place
  <2>2. QED
    BY <1>1, <2>1, ElementOfSeq
<1>5. Picked(s, S) = [i \in 1..Cardinality(S) |-> s[place(i)]]
  BY DEF Picked
<1>. HIDE DEF place
<1>6. Picked(s, S) \in [1..Cardinality(S) -> X]
  BY <1>4, <1>5
<1>7. QED
  BY <1>3, <1>6, SeqDef

\* A finite set as a sequence: all of its elements and no others.
LEMMA SetAsSequence ==
    ASSUME NEW S, IsFiniteSet(S)
    PROVE  /\ SetToSeq(S) \in Seq(S)
           /\ \A x \in S : \E i \in 1..Len(SetToSeq(S)) : SetToSeq(S)[i] = x
<1>1. Cardinality(S) \in Nat /\ ExistsBijection(1..Cardinality(S), S)
  BY FS_CardinalityType
<1>2. \E f \in [1..Cardinality(S) -> S] : IsInjective(f)
  BY <1>1 DEF ExistsBijection, Bijection, Injection
<1>. DEFINE f == SetToSeq(S)
<1>3. f \in [1..Cardinality(S) -> S] /\ IsInjective(f)
  BY <1>2 DEF SetToSeq
<1>. HIDE DEF f
<1>4. f \in Seq(S) /\ Len(f) = Cardinality(S)
  BY <1>1, <1>3, SeqDef
<1>5. IsFiniteSet(1..Cardinality(S)) /\ Cardinality(1..Cardinality(S)) = Cardinality(S)
  BY <1>1, FS_Interval
<1>6. f \in Injection(1..Cardinality(S), S)
  BY <1>3 DEF Injection
<1>7. f \in Surjection(1..Cardinality(S), S)
  BY <1>5, <1>6, FS_Injection
<1>8. QED
  BY <1>4, <1>7 DEF f, Surjection

-----------------------------------------------------------------------------
(* Conditions and terms.                                                   *)

\* A condition asks for words.
LEMMA KeywordsAreWords ==
    ASSUME NEW c \in Condition PROVE Keywords(c) \subseteq Words
<1>1. c.nodes \in Seq(Node)
  BY DEF Condition
<1>2. \A i \in DOMAIN c.nodes : c.nodes[i] \in Node
  BY <1>1, LenProperties, ElementOfSeq
<1>3. QED
  BY <1>2 DEF Keywords, Node

\* The semantic terms that are selected are words.
LEMMA SelectedType ==
    ASSUME NEW known, NEW ts PROVE Selected(known, ts) \in Seq(Words)
<1>. DEFINE e == Eligible(known, ts)
<1>1. Ranking \in Seq(Words)
  BY ConstantsAssumption
<1>2. e \in Seq(Words)
  BY <1>1, PickedType DEF Eligible
<1>. HIDE DEF e
<1>3. Len(e) \in Nat /\ Limit \in Nat /\ \A i \in 1..Len(e) : e[i] \in Words
  BY <1>2, LenProperties, ElementOfSeq, ConstantsAssumption
<1>4. \E x \in {Limit, Len(e)} : \A y \in {Limit, Len(e)} : x =< y
  BY <1>3
<1>5. Min({Limit, Len(e)}) \in Nat /\ Min({Limit, Len(e)}) =< Len(e)
  BY <1>3, <1>4 DEF Min
<1>6. ASSUME NEW n \in Nat, n =< Len(e) PROVE SubSeq(e, 1, n) \in Seq(Words)
  <2>1. \A i \in 1..n : e[i] \in Words
    BY <1>3, <1>6
  <2>2. 1 \in Int /\ n \in Int
    OBVIOUS
  <2>3. QED
    BY <2>1, <2>2, SubSeqProperties
<1>7. QED
  BY <1>5, <1>6 DEF Selected, e

\* A condition with semantic terms is a condition.
LEMMA RebuiltType ==
    ASSUME NEW c \in Condition, NEW mode, NEW ts PROVE Rebuilt(c, mode, ts) \in Condition
<1>. DEFINE chosen == Selected(Keywords(c), ts)
            extra == [i \in DOMAIN chosen |-> [leaf |-> TRUE, words |-> {chosen[i]}]]
            nodes == IF c.all THEN Anchored(c.nodes) ELSE c.nodes
<1>1. chosen \in Seq(Words)
  BY SelectedType
<1>. HIDE DEF chosen
<1>2. Len(chosen) \in Nat /\ DOMAIN chosen = 1..Len(chosen)
      /\ \A i \in 1..Len(chosen) : chosen[i] \in Words
  BY <1>1, LenProperties, ElementOfSeq
<1>3. extra \in [1..Len(chosen) -> Node]
  BY <1>2 DEF Node
<1>4. extra \in Seq(Node)
  BY <1>2, <1>3, SeqDef
<1>5. c.nodes \in Seq(Node) /\ c.all \in BOOLEAN
  BY DEF Condition
<1>6. Anchored(c.nodes) \in Seq(Node)
  BY <1>5, PickedType DEF Anchored
<1>7. nodes \in Seq(Node)
  BY <1>5, <1>6
<1>. HIDE DEF extra, nodes
<1>8. nodes \o extra \in Seq(Node)
  BY <1>4, <1>7, ConcatProperties
<1>9. [all |-> TRUE, nodes |-> nodes \o extra] \in Condition
  BY <1>8 DEF Condition
<1>10. Rebuilt(c, mode, ts) \in {c, [all |-> TRUE, nodes |-> nodes \o extra]}
  BY DEF Rebuilt, chosen, extra, nodes
<1>11. QED
  BY <1>9, <1>10

Same(t, u) == t.word = u.word /\ t.type = u.type

Secret(x) == [word |-> x, type |-> "secret", on |-> TRUE]

\* The terms that a condition asks for are its keywords, but for those given by hand.
LEMMA AutoTerms ==
    ASSUME NEW c \in Condition, NEW manual
    PROVE  /\ Automatic(c, manual) \in SUBSET Term
           /\ \A t \in Automatic(c, manual) : t.on
           /\ \A x \in Keywords(c) :
                 \/ Secret(x) \in Automatic(c, manual)
                 \/ \E u \in manual : Same(u, Secret(x))
<1>1. Keywords(c) \subseteq Words
  BY KeywordsAreWords
<1>2. \A x \in Words : Secret(x) \in Term
  BY DEF Secret, Term, Types
<1>3. Automatic(c, manual) = {t \in {Secret(x) : x \in Keywords(c)} :
                            \A u \in manual : ~Same(u, t)}
  BY DEF Automatic, Secret, Same
<1>4. \A x : Secret(x).on
  BY DEF Secret
<1>5. QED
  BY <1>1, <1>2, <1>3, <1>4

\* Sets of terms are finite.
LEMMA TermsAreFinite == IsFiniteSet(Term)
<1>. DEFINE pairs == (Words \X Types) \X BOOLEAN
            f == [p \in pairs |-> [word |-> p[1][1], type |-> p[1][2], on |-> p[2]]]
<1>1. IsFiniteSet(Types) /\ IsFiniteSet(BOOLEAN)
  <2>1. Types = {"secret"} \cup {"other"} /\ BOOLEAN = {TRUE} \cup {FALSE}
    BY DEF Types
  <2>2. \A x : IsFiniteSet({x})
    BY FS_Singleton
  <2>3. IsFiniteSet({"secret"} \cup {"other"}) /\ IsFiniteSet({TRUE} \cup {FALSE})
    BY <2>2, FS_Union
  <2>4. QED
    BY <2>1, <2>3
<1>2. IsFiniteSet(Words \X Types)
  BY <1>1, FS_Product, ConstantsAssumption
<1>3. IsFiniteSet(pairs)
  BY <1>1, <1>2, FS_Product
<1>4. f \in Surjection(pairs, Term)
  <2>1. f \in [pairs -> Term]
    BY DEF Term
  <2>2. ASSUME NEW t \in Term PROVE \E p \in pairs : f[p] = t
    <3>1. /\ t.word \in Words /\ t.type \in Types /\ t.on \in BOOLEAN
          /\ t = [word |-> t.word, type |-> t.type, on |-> t.on]
      BY DEF Term
    <3>2. <<<<t.word, t.type>>, t.on>> \in pairs
      BY <3>1
    <3>3. f[<<<<t.word, t.type>>, t.on>>] = t
      BY <3>1, <3>2
    <3>4. QED
      BY <3>2, <3>3
  <2>. HIDE DEF f
  <2>3. QED
    BY <2>1, <2>2 DEF Surjection
<1>5. QED
  <2>. HIDE DEF f, pairs
  <2>1. QED
    BY <1>3, <1>4, FS_Surjection

-----------------------------------------------------------------------------
(* The rows of terms.                                                      *)

\* What was seen of the rows is still their identity.
Known(seen, table) ==
    /\ DOMAIN seen \subseteq DOMAIN table
    /\ \A i \in DOMAIN seen : Same(seen[i], table[i])

\* What the terms ts may make of a table: rows stay and keep their identity, take the
\* flag of one of ts at most, and each of ts has a row.
Extended(table, after, ts) ==
    /\ after \in Seq(Term)
    /\ DOMAIN table \subseteq DOMAIN after
    /\ \A i \in DOMAIN table :
          /\ Same(after[i], table[i])
          /\ \/ after[i].on = table[i].on
             \/ \E t \in ts : Same(t, after[i]) /\ t.on = after[i].on
    /\ \A i \in DOMAIN after \ DOMAIN table : after[i] \in ts
    /\ \A t \in ts : \E i \in DOMAIN after : Same(after[i], t)

\* The latest row of an identity is one of its rows.
LEMMA LatestRow ==
    ASSUME NEW table \in Seq(Term), NEW t, RowsOf(t, table) # {}
    PROVE  Max(RowsOf(t, table)) \in RowsOf(t, table)
<1>1. Len(table) \in Nat /\ DOMAIN table = 1..Len(table)
  BY LenProperties
<1>2. RowsOf(t, table) \in SUBSET (1..Len(table)) /\ IsFiniteSet(1..Len(table))
  BY <1>1, FS_Interval DEF RowsOf
<1>3. IsFiniteSet(RowsOf(t, table)) /\ RowsOf(t, table) \in SUBSET Nat
  BY <1>2, FS_Subset
<1>4. QED
  BY <1>3, MaxExists

\* An upsert extends the table, whatever has happened to it since it was read.
LEMMA UpsertExtends ==
    ASSUME NEW table \in Seq(Term), NEW seen \in Seq(Term), Known(seen, table),
           NEW ts \in SUBSET Term
    PROVE  Extended(table, Upserted(table, seen, ts), ts)
<1>. DEFINE new == {t \in ts : RowsOf(t, seen) = {}}
            Set(i) == {t \in ts : RowsOf(t, seen) # {} /\ i = Max(RowsOf(t, seen))}
            kept == [i \in DOMAIN table |->
                        IF \E t \in Set(i) : t.on # seen[i].on
                        THEN [table[i] EXCEPT !.on = (CHOOSE t \in Set(i) : TRUE).on]
                        ELSE table[i]]
            after == kept \o SetToSeq(new)
<1>1. after = Upserted(table, seen, ts)
  BY DEF Upserted
<1>2. /\ Len(table) \in Nat /\ DOMAIN table = 1..Len(table)
      /\ \A i \in 1..Len(table) : table[i] \in Term
  BY LenProperties, ElementOfSeq
<1>3. ASSUME NEW i \in DOMAIN table
      PROVE  /\ kept[i] \in Term /\ Same(kept[i], table[i])
             /\ \/ kept[i].on = table[i].on
                \/ \E t \in ts : Same(t, kept[i]) /\ t.on = kept[i].on
  <2>1. CASE ~\E t \in Set(i) : t.on # seen[i].on
    <3>1. kept[i] = table[i]
      BY <2>1
    <3>2. QED
      BY <1>2, <3>1 DEF Same
  <2>2. CASE \E t \in Set(i) : t.on # seen[i].on
    <3>. DEFINE u == CHOOSE t \in Set(i) : TRUE
    <3>1. u \in Set(i) /\ kept[i] = [table[i] EXCEPT !.on = u.on]
      BY <2>2
    <3>. HIDE DEF u
    <3>2. u \in ts /\ i \in RowsOf(u, seen)
      BY <3>1, LatestRow
    <3>3. Same(table[i], u)
      BY <3>2 DEF RowsOf, Known, Same
    <3>4. table[i] \in Term /\ u \in Term
      BY <1>2, <3>2
    <3>5. kept[i] = [word |-> table[i].word, type |-> table[i].type, on |-> u.on]
      BY <3>1, <3>4 DEF Term
    <3>6. QED
      BY <3>2, <3>3, <3>4, <3>5 DEF Term, Same
  <2>3. QED
    BY <2>1, <2>2
<1>. HIDE DEF Set
<1>4. DOMAIN kept = 1..Len(table)
  BY <1>2
<1>5. kept \in [1..Len(table) -> Term]
  BY <1>2, <1>3
<1>6. kept \in Seq(Term) /\ Len(kept) = Len(table)
  BY <1>2, <1>4, <1>5, SeqDef
<1>7. IsFiniteSet(new) /\ new \subseteq ts
  BY TermsAreFinite, FS_Subset
<1>. DEFINE tail == SetToSeq(new)
<1>8. /\ tail \in Seq(ts) /\ tail \in Seq(Term) /\ Len(tail) \in Nat
      /\ \A x \in new : \E i \in 1..Len(tail) : tail[i] = x
      /\ \A i \in 1..Len(tail) : tail[i] \in ts
  <2>1. tail \in Seq(new) /\ \A x \in new : \E i \in 1..Len(tail) : tail[i] = x
    BY <1>7, SetAsSequence
  <2>. HIDE DEF tail, new
  <2>2. Len(tail) \in Nat /\ tail \in [1..Len(tail) -> new]
    BY <2>1, LenProperties
  <2>3. tail \in [1..Len(tail) -> ts] /\ tail \in [1..Len(tail) -> Term]
    BY <1>7, <2>2
  <2>4. tail \in Seq(ts)
    BY <2>2, <2>3, SeqDef
  <2>5. tail \in Seq(Term)
    BY <2>2, <2>3, SeqDef
  <2>6. QED
    BY <2>1, <2>2, <2>3, <2>4, <2>5
<1>9. after = kept \o tail
  OBVIOUS
<1>. HIDE DEF after, kept, tail
<1>10. /\ after \in Seq(Term) /\ Len(after) = Len(table) + Len(tail)
       /\ DOMAIN after = 1..Len(after)
       /\ \A i \in 1..(Len(table) + Len(tail)) :
             after[i] = IF i <= Len(table) THEN kept[i] ELSE tail[i - Len(table)]
  <2>1. /\ kept \o tail \in Seq(Term) /\ Len(kept \o tail) = Len(kept) + Len(tail)
        /\ \A i \in 1..(Len(kept) + Len(tail)) :
              (kept \o tail)[i] = IF i <= Len(kept) THEN kept[i] ELSE tail[i - Len(kept)]
    BY <1>6, <1>8, ConcatProperties
  <2>2. DOMAIN after = 1..Len(after)
    BY <1>9, <2>1, LenProperties
  <2>3. QED
    BY <1>6, <1>9, <2>1, <2>2
<1>11. \A i \in DOMAIN table : i \in DOMAIN after /\ after[i] = kept[i]
  BY <1>2, <1>8, <1>10
<1>12. \A i \in DOMAIN after \ DOMAIN table : after[i] \in ts
  BY <1>2, <1>8, <1>10
<1>13. ASSUME NEW t \in ts PROVE \E i \in DOMAIN after : Same(after[i], t)
  <2>1. CASE t \in new
    <3>1. PICK k \in 1..Len(tail) : tail[k] = t
      BY <1>8, <2>1
    <3>2. Len(table) + k \in DOMAIN after /\ after[Len(table) + k] = tail[k]
      BY <1>2, <1>8, <1>10, <3>1
    <3>3. QED
      BY <3>1, <3>2 DEF Same
  <2>2. CASE t \notin new
    <3>1. PICK i \in RowsOf(t, seen) : TRUE
      BY <2>2
    <3>2. i \in DOMAIN table /\ Same(table[i], t)
      BY <3>1 DEF RowsOf, Known, Same
    <3>3. QED
      BY <1>3, <1>11, <3>2 DEF Same
  <2>3. QED
    BY <2>1, <2>2
<1>14. Extended(table, after, ts)
  BY <1>3, <1>10, <1>11, <1>12, <1>13 DEF Extended
<1>15. QED
  BY <1>1, <1>14

\* The row that is found for a term bears its identity, and so it can be linked.
LEMMA IdsAreRows ==
    ASSUME NEW table \in Seq(Term), NEW seen \in Seq(Term), NEW after \in Seq(Term), NEW ts,
           Known(seen, table), Known(table, after),
           \A t \in ts : \E i \in DOMAIN after : Same(after[i], t)
    PROVE  /\ IdsOf(ts, seen, after) \subseteq DOMAIN after
           /\ \A t \in ts : \E i \in IdsOf(ts, seen, after) : Same(after[i], t)
<1>. DEFINE id(t) == IF RowsOf(t, seen) # {} THEN Max(RowsOf(t, seen)) ELSE Max(RowsOf(t, after))
<1>1. IdsOf(ts, seen, after) = {id(t) : t \in ts}
  BY DEF IdsOf
<1>2. ASSUME NEW t \in ts PROVE id(t) \in DOMAIN after /\ Same(after[id(t)], t)
  <2>1. CASE RowsOf(t, seen) # {}
    <3>1. id(t) \in RowsOf(t, seen)
      BY <2>1, LatestRow
    <3>. HIDE DEF id
    <3>2. QED
      BY <3>1 DEF RowsOf, Known, Same
  <2>2. CASE RowsOf(t, seen) = {}
    <3>1. RowsOf(t, after) # {}
      BY DEF RowsOf, Same
    <3>2. id(t) \in RowsOf(t, after)
      BY <2>2, <3>1, LatestRow
    <3>. HIDE DEF id
    <3>3. QED
      BY <3>2 DEF RowsOf, Same
  <2>3. QED
    BY <2>1, <2>2
<1>. HIDE DEF id
<1>3. QED
  BY <1>1, <1>2

-----------------------------------------------------------------------------
(* What requests have read.                                                *)

Stages == {"new", "read", "committed", "failed"}

Link == [rule: Rules, term: Nat, source: Sources]

Reading == [row: Row \cup {Nothing}, terms: Seq(Term), links: SUBSET Link,
            manual: SUBSET Term, overtaken: BOOLEAN]

\* The rows that w has read are still there, under their identity, and its manual terms
\* are linked; what it has read of its own rule is so until it is overtaken.
HasRead(w) ==
    /\ job[w] \in Jobs /\ read[w] \in Reading /\ due[w] = <<>>
    /\ Asks(w, "update") \/ Asks(w, "delete") => read[w].row \in Row /\ Rule(w) \in There
    /\ Known(read[w].terms, terms)
    /\ \A l \in read[w].links : l.term \in DOMAIN read[w].terms
    /\ \A u \in read[w].manual :
          \E l \in read[w].links : /\ l.rule = Rule(w) /\ l.source = "manual"
                                   /\ Same(read[w].terms[l.term], u)

\* The same rule, but for its embedding.
SameRule(a, b) ==
    /\ a = Nothing <=> b = Nothing
    /\ a # Nothing => a.live = b.live /\ a.cond = b.cond /\ a.mode = b.mode

UpToDate(w) ==
    read[w].overtaken \/ ( /\ SameRule(rules[Rule(w)], read[w].row)
                           /\ \A l : l.rule = Rule(w) => (l \in links <=> l \in read[w].links) )

\* The rules that e is about to embed are there, and have the conditions it has loaded
\* until it is overtaken.
Loaded(e) ==
    /\ embedding[e] = [conds |-> embedding[e].conds, late |-> embedding[e].late]
    /\ DOMAIN embedding[e].conds \subseteq There
    /\ embedding[e].late \subseteq DOMAIN embedding[e].conds
    /\ \A r \in DOMAIN embedding[e].conds :
          /\ embedding[e].conds[r] \in Condition
          /\ r \notin embedding[e].late => embedding[e].conds[r] = rules[r].cond

SInv ==
    /\ TypeOK
    /\ embedding = [e \in Embedders |-> embedding[e]]
    /\ \A e \in Embedders : embedding[e] # Nothing => Loaded(e)
    /\ stage \in [Writers -> Stages]
    /\ job \in [Writers -> Jobs \cup {Nothing}]
    /\ read \in [Writers -> Reading \cup {Nothing}]
    /\ \A w \in Writers : stage[w] = "new" => due[w] = <<>>
    /\ \A w \in Writers : stage[w] = "read" => HasRead(w) /\ UpToDate(w)

\* Keywords have rows, unless the conditions got them by a change of match_mode alone,
\* and a row that is off has been switched off.
KInv ==
    /\ \A r \in There \ modeOnly : \A x \in Keywords(rules[r].cond) :
          \E i \in DOMAIN terms : Same(terms[i], Secret(x))
    /\ \A i \in DOMAIN terms : terms[i].type = "secret" /\ ~terms[i].on => terms[i].word \in dark

\* The same of rules that are deleted as well.
WInv ==
    \A r \in There \ raced :
        /\ rules[r].embedded = rules[r].cond
        /\ r \notin modeOnly =>
              \A x \in Keywords(rules[r].cond) :
                 \E l \in links : l.rule = r /\ Same(terms[l.term], Secret(x))

\* Loads that bring what is no longer so are marked.
CInv ==
    /\ cache = [p \in Processes |-> [c \in Caches |-> cache[p][c]]]
    /\ load = [l \in Loaders |-> load[l]]
    /\ \A p \in Processes, c \in Caches : cache[p][c] # Nothing =>
          /\ cache[p][c] = [value |-> cache[p][c].value, overtaken |-> cache[p][c].overtaken]
          /\ \/ cache[p][c].value = Current(c)
             \/ cache[p][c].overtaken = TRUE
             \/ \E w \in Writers : RunsIn[w] = p /\ Contains(due[w], c)
    /\ \A l \in Loaders : load[l] # Nothing =>
          /\ load[l] = [of |-> load[l].of, value |-> load[l].value, overtaken |-> load[l].overtaken]
          /\ load[l].of \in Caches
          /\ load[l].value = Current(load[l].of) \/ load[l].overtaken = TRUE

-----------------------------------------------------------------------------
(* What requests write.                                                    *)

\* A created rule is of a piece: its row is a row, its terms extend the table, and its
\* keywords are linked to it.
LEMMA CreatedIsWhole ==
    ASSUME NEW j \in Jobs, j.kind \in {"create", "apply"},
           NEW now \in Seq(Term), NEW seen \in Seq(Term), Known(seen, now),
           NEW made, made = Created(j, now, seen)
    PROVE  /\ made.row \in Row /\ made.row.embedded = made.row.cond
           /\ \E ts \in SUBSET Term : /\ Extended(now, made.terms, ts)
                                      /\ \A t \in ts : ~t.on => t.word \in made.off
           /\ made.off \subseteq Words
           /\ made.links \subseteq [rule: {j.rule}, term: DOMAIN made.terms, source: Sources]
           /\ \A x \in Keywords(made.row.cond) :
                 \E l \in made.links : Same(made.terms[l.term], Secret(x))
<1>. DEFINE created == j.kind = "create"
            cond == IF created THEN Rebuilt(j.cond, j.mode, j.terms) ELSE j.cond
            auto == Automatic(cond, IF created THEN j.terms ELSE {})
            manual == {t \in j.terms : created \/ [t EXCEPT !.on = TRUE] \notin auto}
            table == Upserted(now, seen, manual \cup auto)
            come(src, ts) == Relinked(j.rule, src, IdsOf(ts, seen, table), {}).come
<1>1. /\ j.rule \in Rules /\ j.cond \in Condition /\ j.mode \in Modes
      /\ j.terms \in SUBSET Term
  BY ConstantsAssumption DEF IsJob, IsTerms
<1>2. made = [row |-> [live |-> TRUE, cond |-> cond, mode |-> j.mode, embedded |-> cond],
              terms |-> table,
              links |-> come("manual", j.terms) \cup come("auto", auto),
              off |-> Off(manual)]
  BY DEF Created
<1>. HIDE DEF come
<1>3. cond \in Condition
  BY <1>1, RebuiltType
<1>4. made.row \in Row /\ made.row.embedded = made.row.cond /\ made.row.cond = cond
  BY <1>1, <1>2, <1>3 DEF Row
<1>. HIDE DEF cond
<1>5. /\ auto \in SUBSET Term /\ \A t \in auto : t.on
      /\ \A x \in Keywords(cond) :
            \/ Secret(x) \in auto
            \/ created /\ \E u \in j.terms : Same(u, Secret(x))
  BY <1>3, AutoTerms
<1>. HIDE DEF auto
<1>6. manual \in SUBSET Term
  BY <1>1
<1>7. Extended(now, table, manual \cup auto)
  BY <1>5, <1>6, UpsertExtends
<1>8. /\ made.terms = table /\ made.off = Off(manual)
      /\ made.links = come("manual", j.terms) \cup come("auto", auto)
  BY <1>2
<1>9. \A t \in manual \cup auto : ~t.on => t.word \in made.off
  BY <1>5, <1>8 DEF Off
<1>10. made.off \subseteq Words
  BY <1>6, <1>8 DEF Off, Term
<1>11. ASSUME NEW t \in j.terms \cup auto PROVE \E i \in DOMAIN table : Same(table[i], t)
  <2>1. CASE t \in manual \cup auto
    BY <1>7, <2>1 DEF Extended
  <2>2. CASE t \notin manual \cup auto
    <3>1. t \in Term /\ [t EXCEPT !.on = TRUE] \in auto
      BY <1>1, <2>2
    <3>2. Same([t EXCEPT !.on = TRUE], t)
      BY <3>1 DEF Same, Term
    <3>3. PICK i \in DOMAIN table : Same(table[i], [t EXCEPT !.on = TRUE])
      BY <1>7, <3>1 DEF Extended
    <3>4. QED
      BY <3>2, <3>3 DEF Same
  <2>3. QED
    BY <2>1, <2>2
<1>12. table \in Seq(Term) /\ Known(now, table) /\ Known(seen, table)
  BY <1>7 DEF Extended, Known, Same
<1>. HIDE DEF table, manual
<1>13. ASSUME NEW src \in Sources, NEW ts \in SUBSET (j.terms \cup auto)
       PROVE  /\ come(src, ts) \subseteq [rule: {j.rule}, term: DOMAIN table, source: Sources]
              /\ \A t \in ts : \E l \in come(src, ts) : Same(table[l.term], t)
  <2>1. /\ IdsOf(ts, seen, table) \subseteq DOMAIN table
        /\ \A t \in ts : \E i \in IdsOf(ts, seen, table) : Same(table[i], t)
    <3>1. \A t \in ts : \E i \in DOMAIN table : Same(table[i], t)
      BY <1>11
    <3>2. Known(seen, table) /\ Known(table, table)
      BY <1>12 DEF Known, Same
    <3>3. QED
      BY <1>12, <3>1, <3>2, IdsAreRows
  <2>2. come(src, ts) = {[rule |-> j.rule, term |-> i, source |-> src] :
                            i \in IdsOf(ts, seen, table)}
    BY DEF come, Relinked, Linked
  <2>3. \A i \in DOMAIN table : [rule |-> j.rule, term |-> i, source |-> src]
                                 \in [rule: {j.rule}, term: DOMAIN table, source: Sources]
    OBVIOUS
  <2>4. \A i \in IdsOf(ts, seen, table) :
           \E l \in come(src, ts) : l.term = i
    <3>1. \A i : [rule |-> j.rule, term |-> i, source |-> src].term = i
      OBVIOUS
    <3>2. QED
      BY <2>2, <3>1
  <2>5. QED
    BY <2>1, <2>2, <2>3, <2>4
<1>14. made.links \subseteq [rule: {j.rule}, term: DOMAIN made.terms, source: Sources]
  BY <1>8, <1>13 DEF Sources
<1>15. ASSUME NEW x \in Keywords(cond)
       PROVE  \E l \in made.links : Same(made.terms[l.term], Secret(x))
  <2>1. CASE Secret(x) \in auto
    <3>1. \E l \in come("auto", auto) : Same(table[l.term], Secret(x))
      BY <1>13, <2>1 DEF Sources
    <3>2. QED
      BY <1>8, <3>1
  <2>2. CASE \E u \in j.terms : Same(u, Secret(x))
    <3>1. PICK u \in j.terms : Same(u, Secret(x))
      BY <2>2
    <3>2. PICK l \in come("manual", j.terms) : Same(table[l.term], u)
      BY <1>13 DEF Sources
    <3>3. Same(table[l.term], Secret(x))
      BY <3>1, <3>2 DEF Same
    <3>4. QED
      BY <1>8, <3>2, <3>3
  <2>3. QED
    BY <1>5, <2>1, <2>2
<1>16. QED
  <2>1. manual \cup auto \in SUBSET Term
    BY <1>5, <1>6
  <2>2. Extended(now, made.terms, manual \cup auto)
    BY <1>7, <1>8
  <2>3. QED
    BY <1>4, <1>9, <1>10, <1>14, <1>15, <2>1, <2>2

\* The row found for each of ts is linked to r in the end, if r's links of this source
\* were those that have been seen.
LEMMA LinksComeOrStay ==
    ASSUME NEW r, NEW src, NEW ids, NEW seen, NEW i \in ids,
           NEW l, l = [rule |-> r, term |-> i, source |-> src]
    PROVE  /\ l \in Relinked(r, src, ids, seen).come \/ l \in seen
           /\ l \notin Relinked(r, src, ids, seen).gone
<1>1. l \in {[rule |-> r, term |-> k, source |-> src] : k \in ids}
  OBVIOUS
<1>2. QED
  BY <1>1 DEF Relinked, Linked

\* What an update makes of its rule is a rule, its terms extend the table, and it touches
\* the links of its rule alone.  If it syncs the keywords they have rows, and links, too,
\* unless it has been overtaken.
LEMMA UpdatedIsWhole ==
    ASSUME SInv, NEW w \in Writers, stage[w] = "read", Asks(w, "update"),
           NEW up, up = Updated(w), NEW table, table = UpdatedTerms(w, up),
           NEW change, change = LinkChanges(w, up, table)
    PROVE  /\ up.cond \in Condition /\ up.mode \in Modes
           /\ up.resync \in BOOLEAN /\ up.mutated \in BOOLEAN
           /\ ~up.mutated => up.cond = read[w].row.cond
           /\ ~up.resync => change = Unchanged
           /\ Off(up.manual) \subseteq Words
           /\ \E ts \in SUBSET Term : /\ Extended(terms, table, ts)
                                      /\ \A t \in ts : ~t.on => t.word \in Off(up.manual)
           /\ change.come \subseteq [rule: {Rule(w)}, term: DOMAIN table, source: Sources]
           /\ \A l \in change.gone : l.rule = Rule(w)
           /\ up.resync => \A x \in Keywords(up.cond) :
                 \E i \in DOMAIN table : Same(table[i], Secret(x))
           /\ up.resync /\ ~read[w].overtaken => \A x \in Keywords(up.cond) :
                 \E l \in (links \ change.gone) \cup change.come :
                    l.rule = Rule(w) /\ Same(table[l.term], Secret(x))
<1>. DEFINE j == job[w]
            was == read[w].row
            seen == read[w].terms
            given == Given(j.terms, read[w].manual)
            own == Given(j.cond, was.cond)
            of(src, ts) == Relinked(Rule(w), src, IdsOf(ts, seen, table), read[w].links)
            byHand == IF j.terms = Nothing THEN Unchanged ELSE of("manual", up.manual)
            byItself == IF up.resync THEN of("auto", up.auto) ELSE Unchanged
<1>1. /\ HasRead(w) /\ UpToDate(w) /\ terms \in Seq(Term)
  BY DEF SInv, TypeOK
<1>2. /\ j \in Jobs /\ j.rule \in Rules /\ j.mode \in Modes \cup {Nothing}
      /\ j.cond = Nothing \/ j.cond \in Condition
      /\ j.terms = Nothing \/ j.terms \in SUBSET Term
  BY <1>1, ConstantsAssumption DEF HasRead, IsJob, IsTerms
<1>3. /\ was \in Row /\ seen \in Seq(Term) /\ read[w].manual \in SUBSET Term
      /\ Known(seen, terms)
  BY <1>1 DEF HasRead, Reading
<1>4. was.cond \in Condition /\ was.mode \in Modes
  BY <1>3 DEF Row
<1>5. own \in Condition /\ Given(j.mode, was.mode) \in Modes /\ given \in SUBSET Term
  BY <1>2, <1>3, <1>4 DEF Given
<1>. HIDE DEF own, given
<1>6. Rebuilt(own, Given(j.mode, was.mode), given) \in Condition
  BY <1>5, RebuiltType
<1>7. /\ up.cond = IF up.resync \/ j.mode # Nothing
                   THEN Rebuilt(own, Given(j.mode, was.mode), given) ELSE own
      /\ up.mode = Given(j.mode, was.mode)
      /\ up.resync = (j.cond # Nothing \/ j.terms # Nothing)
      /\ up.mutated = (j.cond # Nothing \/ up.cond # was.cond)
      /\ up.manual = Given(j.terms, {})
      /\ up.auto = IF up.resync THEN Automatic(up.cond, given) ELSE {}
  BY DEF Updated, own, given
<1>8. /\ up.cond \in Condition /\ up.mode \in Modes
      /\ up.resync \in BOOLEAN /\ up.mutated \in BOOLEAN
      /\ ~up.mutated => up.cond = was.cond
  BY <1>5, <1>6, <1>7
<1>9. /\ up.auto \in SUBSET Term /\ \A t \in up.auto : t.on
      /\ up.resync => \A x \in Keywords(up.cond) :
            Secret(x) \in up.auto \/ \E u \in given : Same(u, Secret(x))
  BY <1>7, <1>8, AutoTerms
<1>10. up.manual \in SUBSET Term
  BY <1>2, <1>7 DEF Given
<1>11. table = Upserted(terms, seen, up.manual \cup up.auto)
  BY DEF UpdatedTerms
<1>12. Extended(terms, table, up.manual \cup up.auto)
  BY <1>1, <1>3, <1>9, <1>10, <1>11, UpsertExtends
<1>13. /\ table \in Seq(Term) /\ Known(terms, table) /\ Known(seen, table)
       /\ Known(table, table)
  BY <1>3, <1>12 DEF Extended, Known, Same
<1>14. \A t \in up.manual \cup up.auto : ~t.on => t.word \in Off(up.manual)
  BY <1>9 DEF Off
<1>15. Off(up.manual) \subseteq Words
  BY <1>10 DEF Off, Term
<1>16. change = [gone |-> byHand.gone \cup byItself.gone,
                 come |-> byHand.come \cup byItself.come]
  BY DEF LinkChanges
<1>. HIDE DEF of
<1>17. ASSUME NEW src \in Sources, NEW ts \in SUBSET (up.manual \cup up.auto)
       PROVE  /\ of(src, ts).come \subseteq [rule: {Rule(w)}, term: DOMAIN table, source: Sources]
              /\ \A l \in of(src, ts).gone : l.rule = Rule(w) /\ l.source = src
              /\ \A t \in ts : \E l :
                    /\ l.rule = Rule(w) /\ l.source = src /\ Same(table[l.term], t)
                    /\ l \in of(src, ts).come \/ l \in read[w].links
                    /\ l \notin of(src, ts).gone
  <2>. DEFINE ids == IdsOf(ts, seen, table)
              link(i) == [rule |-> Rule(w), term |-> i, source |-> src]
  <2>1. ids \subseteq DOMAIN table /\ \A t \in ts : \E i \in ids : Same(table[i], t)
    <3>1. \A t \in ts : \E i \in DOMAIN table : Same(table[i], t)
      BY <1>12 DEF Extended
    <3>2. QED
      BY <1>3, <1>13, <3>1, IdsAreRows
  <2>. HIDE DEF ids
  <2>2. /\ of(src, ts).come \subseteq {link(i) : i \in ids}
        /\ \A l \in of(src, ts).gone : l.rule = Rule(w) /\ l.source = src
    BY DEF of, ids, Relinked, Linked
  <2>3. \A i : link(i).rule = Rule(w) /\ link(i).term = i /\ link(i).source = src
    OBVIOUS
  <2>4. \A i \in DOMAIN table : link(i) \in [rule: {Rule(w)}, term: DOMAIN table, source: Sources]
    OBVIOUS
  <2>5. ASSUME NEW i \in ids
        PROVE  /\ link(i) \in of(src, ts).come \/ link(i) \in read[w].links
               /\ link(i) \notin of(src, ts).gone
    BY LinksComeOrStay DEF of, ids
  <2>. HIDE DEF link
  <2>6. QED
    BY <2>1, <2>2, <2>3, <2>4, <2>5
<1>18. "manual" \in Sources /\ "auto" \in Sources /\ "manual" # "auto"
  BY DEF Sources
<1>19. /\ byHand.come \subseteq [rule: {Rule(w)}, term: DOMAIN table, source: Sources]
       /\ \A l \in byHand.gone : l.rule = Rule(w) /\ l.source = "manual"
  BY <1>17, <1>18 DEF Unchanged
<1>20. /\ byItself.come \subseteq [rule: {Rule(w)}, term: DOMAIN table, source: Sources]
       /\ \A l \in byItself.gone : l.rule = Rule(w) /\ l.source = "auto"
  BY <1>17, <1>18 DEF Unchanged
<1>21. ~up.resync => change = Unchanged
  BY <1>7, <1>16 DEF Unchanged
<1>22. ASSUME up.resync, NEW x \in Keywords(up.cond)
       PROVE  /\ \E i \in DOMAIN table : Same(table[i], Secret(x))
              /\ ~read[w].overtaken => \E l \in (links \ change.gone) \cup change.come :
                    l.rule = Rule(w) /\ Same(table[l.term], Secret(x))
  <2>1. CASE Secret(x) \in up.auto
    <3>1. \E i \in DOMAIN table : Same(table[i], Secret(x))
      BY <1>12, <2>1 DEF Extended
    <3>2. PICK l : /\ l.rule = Rule(w) /\ l.source = "auto" /\ Same(table[l.term], Secret(x))
                   /\ l \in of("auto", up.auto).come \/ l \in read[w].links
                   /\ l \notin of("auto", up.auto).gone
      BY <1>17, <1>18, <2>1
    <3>3. ~read[w].overtaken => l \in change.come \/ l \in links
      BY <1>1, <1>16, <1>22, <3>2 DEF UpToDate
    <3>4. l \notin change.gone
      BY <1>16, <1>18, <1>19, <1>22, <3>2
    <3>5. QED
      BY <3>1, <3>2, <3>3, <3>4
  <2>2. CASE \E u \in given : Same(u, Secret(x))
    <3>1. PICK u \in given : Same(u, Secret(x))
      BY <2>2
    <3>2. CASE j.terms # Nothing
      <4>1. u \in up.manual
        BY <1>7, <3>1, <3>2 DEF Given, given
      <4>2. PICK i \in DOMAIN table : Same(table[i], u)
        BY <1>12, <4>1 DEF Extended
      <4>3. PICK l : /\ l.rule = Rule(w) /\ l.source = "manual" /\ Same(table[l.term], u)
                     /\ l \in of("manual", up.manual).come \/ l \in read[w].links
                     /\ l \notin of("manual", up.manual).gone
        BY <1>17, <1>18, <4>1
      <4>4. ~read[w].overtaken => l \in change.come \/ l \in links
        BY <1>1, <1>16, <3>2, <4>3 DEF UpToDate
      <4>5. l \notin change.gone
        BY <1>16, <1>18, <1>20, <3>2, <4>3
      <4>6. QED
        BY <3>1, <4>2, <4>3, <4>4, <4>5 DEF Same
    <3>3. CASE j.terms = Nothing
      <4>1. u \in read[w].manual
        BY <3>1, <3>3 DEF Given, given
      <4>2. PICK l \in read[w].links : /\ l.rule = Rule(w) /\ l.source = "manual"
                                       /\ Same(seen[l.term], u)
        BY <1>1, <4>1 DEF HasRead
      <4>3. l.term \in DOMAIN seen
        BY <1>1, <4>2 DEF HasRead
      <4>4. l.term \in DOMAIN table /\ Same(table[l.term], Secret(x))
        BY <1>13, <3>1, <4>2, <4>3 DEF Known, Same
      <4>5. ~read[w].overtaken => l \in links
        BY <1>1, <4>2 DEF UpToDate
      <4>6. l \notin change.gone
        BY <1>16, <1>18, <1>20, <3>3, <4>2 DEF Unchanged
      <4>7. QED
        BY <4>2, <4>4, <4>5, <4>6
    <3>4. QED
      BY <3>2, <3>3
  <2>3. QED
    BY <1>9, <1>22, <2>1, <2>2
<1>23. change.come \subseteq [rule: {Rule(w)}, term: DOMAIN table, source: Sources]
       /\ \A l \in change.gone : l.rule = Rule(w)
  BY <1>16, <1>19, <1>20
<1>24. up.manual \cup up.auto \in SUBSET Term
  BY <1>9, <1>10
<1>25. QED
  BY <1>8, <1>12, <1>14, <1>15, <1>21, <1>22, <1>23, <1>24

\* What every commit leaves alone, and what it keeps.
Writes(w) ==
    /\ stage[w] = "read"
    /\ rules' \in [Rules -> Row \cup {Nothing}]
    /\ rules'[Rule(w)] # Nothing
    /\ \A r \in Rules \ {Rule(w)} : rules'[r] = rules[r]
    /\ \E ts \in SUBSET Term : /\ Extended(terms, terms', ts)
                               /\ \A t \in ts : ~t.on => t.word \in dark'
    /\ links' \subseteq [rule: Rules, term: DOMAIN terms', source: Sources]
    /\ \A l : l.rule # Rule(w) => (l \in links <=> l \in links')
    /\ dark \subseteq dark' /\ dark' \subseteq Words
    /\ modeOnly' \subseteq modeOnly \cup {Rule(w)} /\ modeOnly \subseteq modeOnly' \cup {Rule(w)}
    /\ raced' = IF read[w].overtaken THEN raced \cup {Rule(w)} ELSE raced
    /\ read' = [v \in Writers |->
          IF v # w /\ stage[v] = "read" /\ Rule(v) = Rule(w)
          THEN [read[v] EXCEPT !.overtaken = TRUE] ELSE read[v]]
    /\ embedding' = [e \in Embedders |->
          IF embedding[e] # Nothing /\ Rule(w) \in DOMAIN embedding[e].conds
          THEN [embedding[e] EXCEPT !.late = @ \cup {Rule(w)}] ELSE embedding[e]]
    /\ stage' = [stage EXCEPT ![w] = "committed"]
    /\ \E order \in Seq(Caches) : due' = [due EXCEPT ![w] = order]
    /\ job' = job

\* A creation is such a commit, and leaves a rule of a piece.
LEMMA CreateWrites ==
    ASSUME SInv, NEW w \in Writers, Create(w)
    PROVE  /\ Writes(w)
           /\ rules'[Rule(w)].embedded = rules'[Rule(w)].cond
           /\ \A x \in Keywords(rules'[Rule(w)].cond) :
                 \E l \in links' : l.rule = Rule(w) /\ Same(terms'[l.term], Secret(x))
<1>. DEFINE j == job[w]
            r == Rule(w)
            made == Created(j, terms, read[w].terms)
<1>1. /\ stage[w] = "read" /\ (Asks(w, "create") \/ Asks(w, "apply")) /\ r \notin There
      /\ rules' = [rules EXCEPT ![r] = made.row]
      /\ terms' = made.terms /\ links' = links \cup made.links
      /\ Remembered(w, made.off, modeOnly)
      /\ Commits(w, IF Asks(w, "create") THEN <<"rules", "words">> ELSE <<"words", "rules">>)
  BY DEF Create
<1>2. /\ TypeOK /\ HasRead(w)
  BY <1>1 DEF SInv
<1>3. /\ j \in Jobs /\ j.kind \in {"create", "apply"} /\ j.rule = r /\ r \in Rules
      /\ terms \in Seq(Term) /\ read[w].terms \in Seq(Term) /\ Known(read[w].terms, terms)
  BY <1>1, <1>2, ConstantsAssumption DEF HasRead, Asks, Rule, Reading, IsJob, TypeOK
<1>4. /\ made.row \in Row /\ made.row.embedded = made.row.cond
      /\ \E ts \in SUBSET Term : /\ Extended(terms, made.terms, ts)
                                 /\ \A t \in ts : ~t.on => t.word \in made.off
      /\ made.off \subseteq Words
      /\ made.links \subseteq [rule: {r}, term: DOMAIN made.terms, source: Sources]
      /\ \A x \in Keywords(made.row.cond) :
            \E l \in made.links : Same(made.terms[l.term], Secret(x))
  <2>1. made = Created(j, terms, read[w].terms)
    OBVIOUS
  <2>. HIDE DEF made, j, r
  <2>2. QED
    BY <1>3, <2>1, CreatedIsWhole
<1>. HIDE DEF made, j, r
<1>5. rules' \in [Rules -> Row \cup {Nothing}] /\ rules'[r] = made.row /\ rules'[r] # Nothing
      /\ \A q \in Rules \ {r} : rules'[q] = rules[q]
  BY <1>1, <1>2, <1>3, <1>4, ConstantsAssumption DEF TypeOK
<1>6. \A l \in made.links : l.rule = r
  BY <1>4
<1>7. dark' = dark \cup made.off /\ modeOnly' = modeOnly
  BY <1>1 DEF Remembered
<1>8. links \subseteq [rule: Rules, term: DOMAIN made.terms, source: Sources]
  BY <1>2, <1>4 DEF TypeOK, There, Extended
<1>9. links' \subseteq [rule: Rules, term: DOMAIN terms', source: Sources]
  BY <1>1, <1>3, <1>4, <1>8
<1>10. \E ts \in SUBSET Term : /\ Extended(terms, terms', ts)
                               /\ \A t \in ts : ~t.on => t.word \in dark'
  BY <1>1, <1>4, <1>7
<1>11. \E order \in Seq(Caches) : due' = [due EXCEPT ![w] = order]
  <2>1. <<"rules", "words">> \in Seq(Caches) /\ <<"words", "rules">> \in Seq(Caches)
    BY DEF Caches
  <2>2. QED
    BY <1>1, <2>1 DEF Commits
<1>12. \A l : l.rule # r => (l \in links <=> l \in links')
  BY <1>1, <1>6
<1>13. dark \subseteq dark' /\ dark' \subseteq Words
  BY <1>2, <1>4, <1>7 DEF TypeOK
<1>14. /\ raced' = IF read[w].overtaken THEN raced \cup {Rule(w)} ELSE raced
       /\ read' = [v \in Writers |->
             IF v # w /\ stage[v] = "read" /\ Rule(v) = Rule(w)
             THEN [read[v] EXCEPT !.overtaken = TRUE] ELSE read[v]]
       /\ embedding' = [e \in Embedders |->
             IF embedding[e] # Nothing /\ Rule(w) \in DOMAIN embedding[e].conds
             THEN [embedding[e] EXCEPT !.late = @ \cup {Rule(w)}] ELSE embedding[e]]
       /\ stage' = [stage EXCEPT ![w] = "committed"] /\ job' = job
  BY <1>1 DEF Remembered, Commits
<1>15. Writes(w)
  <2>1. modeOnly' \subseteq modeOnly \cup {r} /\ modeOnly \subseteq modeOnly' \cup {r}
    BY <1>7
  <2>2. stage[w] = "read"
    BY <1>1
  <2>3. r = Rule(w)
    BY DEF r
  <2>4. QED
    BY <1>5, <1>9, <1>10, <1>11, <1>12, <1>13, <1>14, <2>1, <2>2, <2>3 DEF Writes
<1>16. \A x \in Keywords(rules'[r].cond) :
          \E l \in links' : l.rule = r /\ Same(terms'[l.term], Secret(x))
  BY <1>1, <1>4, <1>5, <1>6
<1>17. QED
  BY <1>4, <1>5, <1>15, <1>16 DEF r

\* An update is such a commit.
LEMMA UpdateWrites ==
    ASSUME SInv, NEW w \in Writers, Update(w) PROVE Writes(w)
<1>. DEFINE r == Rule(w)
            up == Updated(w)
            was == read[w].row
            table == UpdatedTerms(w, up)
            change == LinkChanges(w, up, table)
            cond == Column(was.cond, up.cond, rules[r].cond)
            mode == Column(was.mode, up.mode, rules[r].mode)
            embedded == IF up.mutated THEN up.cond ELSE rules[r].embedded
            partial == CASE ~up.resync /\ up.mutated -> modeOnly \cup {r}
                         [] up.resync /\ ~read[w].overtaken -> modeOnly \ {r}
                         [] OTHER -> modeOnly
<1>1. /\ stage[w] = "read" /\ Asks(w, "update")
      /\ rules' = [rules EXCEPT
            ![r].cond = Column(was.cond, up.cond, @),
            ![r].mode = Column(was.mode, up.mode, @),
            ![r].embedded = IF up.mutated THEN up.cond ELSE @]
      /\ terms' = table /\ links' = (links \ change.gone) \cup change.come
      /\ Remembered(w, Off(up.manual), partial)
      /\ Commits(w, Drops(up.mutated))
  BY DEF Update
<1>2. TypeOK /\ HasRead(w)
  BY <1>1 DEF SInv
<1>3. r \in Rules /\ r \in There /\ was \in Row /\ rules[r] \in Row
  BY <1>1, <1>2 DEF HasRead, There, TypeOK
<1>4. /\ up.cond \in Condition /\ up.mode \in Modes
      /\ up.resync \in BOOLEAN /\ up.mutated \in BOOLEAN
      /\ Off(up.manual) \subseteq Words
      /\ \E ts \in SUBSET Term : /\ Extended(terms, table, ts)
                                 /\ \A t \in ts : ~t.on => t.word \in Off(up.manual)
      /\ change.come \subseteq [rule: {r}, term: DOMAIN table, source: Sources]
      /\ \A l \in change.gone : l.rule = r
  BY <1>1, UpdatedIsWhole
<1>. HIDE DEF up, table, change, was, r
<1>5. rules[r].cond \in Condition /\ rules[r].mode \in Modes /\ rules[r].embedded \in Condition
      /\ rules[r].live \in BOOLEAN
  BY <1>3 DEF Row
<1>6. cond \in Condition /\ mode \in Modes /\ embedded \in Condition
  BY <1>3, <1>4, <1>5 DEF Column
<1>7. rules[r] = [live |-> rules[r].live, cond |-> rules[r].cond, mode |-> rules[r].mode,
                  embedded |-> rules[r].embedded]
  BY <1>3 DEF Row
<1>8. DOMAIN rules = Rules
  BY <1>2 DEF TypeOK
<1>9. rules'[r] = [live |-> rules[r].live, cond |-> cond, mode |-> mode, embedded |-> embedded]
  BY <1>1, <1>3, <1>7, <1>8
<1>10. rules'[r] \in Row
  BY <1>5, <1>6, <1>9 DEF Row
<1>11. \A q \in Rules \ {r} : rules'[q] = rules[q]
  BY <1>1, <1>8
<1>12. rules' \in [Rules -> Row \cup {Nothing}] /\ rules'[r] # Nothing
  <2>1. DOMAIN rules' = Rules /\ rules' = [q \in Rules |-> rules'[q]]
    BY <1>1, <1>8
  <2>2. \A q \in Rules : rules'[q] \in Row \cup {Nothing}
    BY <1>2, <1>10, <1>11 DEF TypeOK
  <2>3. QED
    BY <1>10, <2>1, <2>2, ConstantsAssumption
<1>13. dark' = dark \cup Off(up.manual) /\ modeOnly' = partial
  BY <1>1 DEF Remembered, r
<1>14. modeOnly' \subseteq modeOnly \cup {r} /\ modeOnly \subseteq modeOnly' \cup {r}
  BY <1>13
<1>15. links' \subseteq [rule: Rules, term: DOMAIN terms', source: Sources]
  <2>1. links \subseteq [rule: Rules, term: DOMAIN table, source: Sources]
    BY <1>2, <1>4 DEF TypeOK, There, Extended
  <2>2. QED
    BY <1>1, <1>3, <1>4, <2>1
<1>16. \A l : l.rule # r => (l \in links <=> l \in links')
  BY <1>1, <1>4
<1>17. \E ts \in SUBSET Term : /\ Extended(terms, terms', ts)
                               /\ \A t \in ts : ~t.on => t.word \in dark'
  BY <1>1, <1>4, <1>13
<1>18. \E order \in Seq(Caches) : due' = [due EXCEPT ![w] = order]
  <2>1. <<"rules", "words">> \in Seq(Caches) /\ <<"rules">> \in Seq(Caches)
    BY DEF Caches
  <2>2. Drops(up.mutated) \in Seq(Caches)
    BY <2>1 DEF Drops
  <2>3. QED
    BY <1>1, <2>2 DEF Commits
<1>19. dark \subseteq dark' /\ dark' \subseteq Words
  BY <1>2, <1>4, <1>13 DEF TypeOK
<1>20. /\ raced' = IF read[w].overtaken THEN raced \cup {Rule(w)} ELSE raced
       /\ read' = [v \in Writers |->
             IF v # w /\ stage[v] = "read" /\ Rule(v) = Rule(w)
             THEN [read[v] EXCEPT !.overtaken = TRUE] ELSE read[v]]
       /\ embedding' = [e \in Embedders |->
             IF embedding[e] # Nothing /\ Rule(w) \in DOMAIN embedding[e].conds
             THEN [embedding[e] EXCEPT !.late = @ \cup {Rule(w)}] ELSE embedding[e]]
       /\ stage' = [stage EXCEPT ![w] = "committed"] /\ job' = job
  BY <1>1 DEF Remembered, Commits
<1>21. QED
  BY <1>1, <1>11, <1>12, <1>14, <1>15, <1>16, <1>17, <1>18, <1>19, <1>20 DEF Writes, r

\* A deletion is such a commit.
LEMMA DeleteWrites ==
    ASSUME SInv, NEW w \in Writers, Delete(w)
    PROVE  /\ Writes(w)
           /\ rules'[Rule(w)].cond = rules[Rule(w)].cond
           /\ rules'[Rule(w)].embedded = rules[Rule(w)].embedded
<1>. DEFINE r == Rule(w)
<1>1. /\ stage[w] = "read" /\ Asks(w, "delete")
      /\ rules' = [rules EXCEPT ![r].live = FALSE]
      /\ terms' = terms /\ links' = links
      /\ Remembered(w, {}, modeOnly)
      /\ Commits(w, <<"rules">>)
  BY DEF Delete
<1>2. TypeOK /\ HasRead(w)
  BY <1>1 DEF SInv
<1>3. r \in Rules /\ r \in There /\ rules[r] \in Row /\ DOMAIN rules = Rules
  BY <1>1, <1>2 DEF HasRead, There, TypeOK
<1>. HIDE DEF r
<1>4. rules'[r] = [rules[r] EXCEPT !.live = FALSE] /\ \A q \in Rules \ {r} : rules'[q] = rules[q]
  BY <1>1, <1>3
<1>5. /\ rules'[r] \in Row /\ rules'[r].cond = rules[r].cond
      /\ rules'[r].embedded = rules[r].embedded
  BY <1>3, <1>4 DEF Row
<1>6. rules' \in [Rules -> Row \cup {Nothing}] /\ rules'[r] # Nothing
  <2>1. DOMAIN rules' = Rules /\ rules' = [q \in Rules |-> rules'[q]]
    BY <1>1, <1>3
  <2>2. \A q \in Rules : rules'[q] \in Row \cup {Nothing}
    BY <1>2, <1>4, <1>5 DEF TypeOK
  <2>3. QED
    BY <1>5, <2>1, <2>2, ConstantsAssumption
<1>7. dark' = dark /\ modeOnly' = modeOnly
  BY <1>1 DEF Remembered
<1>8. Extended(terms, terms', {})
  BY <1>1, <1>2 DEF TypeOK, Extended, Same
<1>9. links' \subseteq [rule: Rules, term: DOMAIN terms', source: Sources]
  BY <1>1, <1>2 DEF TypeOK, There
<1>10. \E order \in Seq(Caches) : due' = [due EXCEPT ![w] = order]
  <2>1. <<"rules">> \in Seq(Caches)
    BY DEF Caches
  <2>2. QED
    BY <1>1, <2>1 DEF Commits
<1>11. dark \subseteq dark' /\ dark' \subseteq Words
  BY <1>2, <1>7 DEF TypeOK
<1>12. /\ raced' = IF read[w].overtaken THEN raced \cup {Rule(w)} ELSE raced
       /\ read' = [v \in Writers |->
             IF v # w /\ stage[v] = "read" /\ Rule(v) = Rule(w)
             THEN [read[v] EXCEPT !.overtaken = TRUE] ELSE read[v]]
       /\ embedding' = [e \in Embedders |->
             IF embedding[e] # Nothing /\ Rule(w) \in DOMAIN embedding[e].conds
             THEN [embedding[e] EXCEPT !.late = @ \cup {Rule(w)}] ELSE embedding[e]]
       /\ stage' = [stage EXCEPT ![w] = "committed"] /\ job' = job
  BY <1>1 DEF Remembered, Commits
<1>13. Writes(w)
  <2>1. \E ts \in SUBSET Term : /\ Extended(terms, terms', ts)
                                /\ \A t \in ts : ~t.on => t.word \in dark'
    BY <1>8
  <2>2. modeOnly' \subseteq modeOnly \cup {r} /\ modeOnly \subseteq modeOnly' \cup {r}
    BY <1>7
  <2>3. stage[w] = "read" /\ \A l : l.rule # r => (l \in links <=> l \in links')
    BY <1>1
  <2>4. r = Rule(w)
    BY DEF r
  <2>5. QED
    BY <1>4, <1>6, <1>9, <1>10, <1>11, <1>12, <2>1, <2>2, <2>3, <2>4 DEF Writes
<1>14. QED
  BY <1>5, <1>13 DEF r

-----------------------------------------------------------------------------
(* Shape.                                                                  *)

\* A commit keeps every row of terms, under its identity.
LEMMA WritesKeepRows ==
    ASSUME NEW w \in Writers, Writes(w)
    PROVE  terms' \in Seq(Term) /\ Known(terms, terms')
BY DEF Writes, Extended, Known, Same

\* A commit keeps the shape of what other requests have read, and it is current or marked.
LEMMA WritesKeepReading ==
    ASSUME SInv, NEW w \in Writers, Writes(w), NEW v \in Writers \ {w}, stage[v] = "read"
    PROVE  HasRead(v)' /\ UpToDate(v)'
<1>1. HasRead(v) /\ UpToDate(v) /\ TypeOK /\ HasRead(w)
  BY DEF SInv, Writes
<1>2. job' = job /\ due'[v] = due[v]
  BY <1>1 DEF Writes, TypeOK
<1>3. read'[v] = IF Rule(v) = Rule(w) THEN [read[v] EXCEPT !.overtaken = TRUE] ELSE read[v]
  BY DEF Writes
<1>4. read[v] \in Reading
  BY <1>1 DEF HasRead
<1>5. /\ read'[v] \in Reading
      /\ read'[v].row = read[v].row /\ read'[v].terms = read[v].terms
      /\ read'[v].links = read[v].links /\ read'[v].manual = read[v].manual
      /\ read'[v].overtaken = (Rule(v) = Rule(w) \/ read[v].overtaken)
  BY <1>3, <1>4 DEF Reading
<1>6. Known(terms, terms')
  BY WritesKeepRows
<1>7. Rule(v) \in Rules /\ job'[v] = job[v]
  BY <1>1, <1>2, ConstantsAssumption DEF HasRead, IsJob, Rule
<1>8. There \subseteq There'
  BY DEF There, Writes
<1>9. Known(read'[v].terms, terms')
  BY <1>1, <1>5, <1>6 DEF HasRead, Known, Same
<1>10. HasRead(v)'
  <2>1. \A u \in read'[v].manual : \E l \in read'[v].links :
           l.rule = job'[v].rule /\ l.source = "manual" /\ Same(read'[v].terms[l.term], u)
    BY <1>1, <1>5, <1>7 DEF HasRead, Rule
  <2>2. job'[v] \in Jobs /\ due'[v] = <<>>
    BY <1>1, <1>2 DEF HasRead
  <2>3. job'[v].kind = "update" \/ job'[v].kind = "delete" =>
           read'[v].row \in Row /\ job'[v].rule \in There'
    BY <1>1, <1>5, <1>7, <1>8 DEF HasRead, Asks, Rule
  <2>4. \A l \in read'[v].links : l.term \in DOMAIN read'[v].terms
    BY <1>1, <1>5 DEF HasRead
  <2>5. QED
    BY <1>5, <1>9, <2>1, <2>2, <2>3, <2>4 DEF HasRead, Asks, Rule
<1>11. UpToDate(v)'
  <2>1. CASE read'[v].overtaken
    BY <2>1 DEF UpToDate
  <2>2. CASE ~read'[v].overtaken
    <3>1. Rule(v) # Rule(w) /\ ~read[v].overtaken
      BY <1>5, <2>2
    <3>2. rules'[Rule(v)] = rules[Rule(v)] /\ SameRule(rules[Rule(v)], read[v].row)
      BY <1>1, <1>7, <3>1 DEF Writes, UpToDate
    <3>3. \A l : l.rule = Rule(v) => (l \in links' <=> l \in read[v].links)
      BY <1>1, <3>1 DEF Writes, UpToDate
    <3>4. job'[v].rule = Rule(v)
      BY <1>7 DEF Rule
    <3>5. SameRule(rules'[Rule(v)], read'[v].row)
      BY <1>5, <3>2
    <3>6. QED
      BY <1>5, <3>3, <3>4, <3>5 DEF UpToDate, Rule, SameRule
  <2>3. QED
    BY <2>1, <2>2
<1>12. QED
  BY <1>10, <1>11

\* A commit to a rule about to be embedded is marked.
LEMMA WritesKeepLoaded ==
    ASSUME SInv, NEW w \in Writers, Writes(w)
    PROVE  /\ embedding' = [e \in Embedders |-> embedding'[e]]
           /\ \A e \in Embedders : embedding'[e] # Nothing => Loaded(e)'
<1>1. embedding' = [e \in Embedders |->
          IF embedding[e] # Nothing /\ Rule(w) \in DOMAIN embedding[e].conds
          THEN [embedding[e] EXCEPT !.late = @ \cup {Rule(w)}] ELSE embedding[e]]
  BY DEF Writes
<1>2. embedding' = [e \in Embedders |-> embedding'[e]]
  BY <1>1
<1>3. There \subseteq There' /\ There \subseteq Rules
  BY DEF There, Writes
<1>4. \A r \in There : r # Rule(w) => rules'[r] = rules[r]
  BY DEF There, Writes
<1>5. ASSUME NEW e \in Embedders, embedding'[e] # Nothing PROVE Loaded(e)'
  <2>. DEFINE l == embedding[e]
              k == embedding'[e]
  <2>1. l # Nothing /\ k \in {l, [l EXCEPT !.late = @ \cup {Rule(w)}]}
        /\ (Rule(w) \in DOMAIN l.conds => k = [l EXCEPT !.late = @ \cup {Rule(w)}])
        /\ (Rule(w) \notin DOMAIN l.conds => k = l)
    BY <1>1, <1>5
  <2>2. /\ l = [conds |-> l.conds, late |-> l.late]
        /\ DOMAIN l.conds \subseteq There /\ l.late \subseteq DOMAIN l.conds
        /\ \A r \in DOMAIN l.conds : /\ l.conds[r] \in Condition
                                     /\ r \notin l.late => l.conds[r] = rules[r].cond
    BY <2>1 DEF SInv, Loaded
  <2>. HIDE DEF l, k
  <2>3. CASE Rule(w) \in DOMAIN l.conds
    <3>1. k = [conds |-> l.conds, late |-> l.late \cup {Rule(w)}]
      BY <2>1, <2>2, <2>3
    <3>2. k.conds = l.conds /\ k.late = l.late \cup {Rule(w)} /\ k = [conds |-> k.conds, late |-> k.late]
      BY <3>1
    <3>3. /\ DOMAIN k.conds \subseteq There' /\ k.late \subseteq DOMAIN k.conds
          /\ \A r \in DOMAIN k.conds : /\ k.conds[r] \in Condition
                                       /\ r \notin k.late => k.conds[r] = rules'[r].cond
      BY <1>3, <1>4, <2>2, <2>3, <3>2
    <3>4. QED
      BY <3>2, <3>3 DEF Loaded, k
  <2>4. CASE Rule(w) \notin DOMAIN l.conds
    <3>1. /\ k = [conds |-> k.conds, late |-> k.late]
          /\ DOMAIN k.conds \subseteq There' /\ k.late \subseteq DOMAIN k.conds
          /\ \A r \in DOMAIN k.conds : /\ k.conds[r] \in Condition
                                       /\ r \notin k.late => k.conds[r] = rules'[r].cond
      BY <1>3, <1>4, <2>1, <2>2, <2>4
    <3>2. QED
      BY <3>1 DEF Loaded, k
  <2>5. QED
    BY <2>3, <2>4
<1>6. QED
  BY <1>2, <1>5

\* A commit keeps the shape.
LEMMA WritesKeepShape ==
    ASSUME SInv, NEW w \in Writers, Writes(w) PROVE SInv'
<1>1. TypeOK /\ HasRead(w)
  BY DEF SInv, Writes
<1>2. Rule(w) \in Rules
  BY <1>1, ConstantsAssumption DEF HasRead, IsJob, Rule
<1>3. There' = There \cup {Rule(w)}
  BY <1>2 DEF There, Writes
<1>4. terms' \in Seq(Term)
  BY WritesKeepRows
<1>5. links' \subseteq [rule: There', term: DOMAIN terms', source: Sources]
  <2>1. ASSUME NEW l \in links' PROVE l.rule \in There'
    <3>1. CASE l.rule = Rule(w)
      BY <1>3, <3>1
    <3>2. CASE l.rule # Rule(w)
      BY <1>1, <1>3, <3>2 DEF Writes, TypeOK
    <3>3. QED
      BY <3>1, <3>2
  <2>2. links' \subseteq [rule: Rules, term: DOMAIN terms', source: Sources]
    BY DEF Writes
  <2>. DEFINE T == There'
  <2>3. \A l \in links' : l.rule \in T
    BY <2>1
  <2>. HIDE DEF T
  <2>4. links' \subseteq [rule: T, term: DOMAIN terms', source: Sources]
    BY <2>2, <2>3
  <2>5. QED
    BY <2>4 DEF T
<1>6. due' \in [Writers -> Seq(Caches)] /\ \A v \in Writers \ {w} : due'[v] = due[v]
  BY <1>1 DEF Writes, TypeOK
<1>7. /\ dark' \subseteq Words /\ modeOnly' \subseteq There' /\ raced' \subseteq There'
      /\ rules' \in [Rules -> Row \cup {Nothing}]
  BY <1>1, <1>3 DEF Writes, TypeOK
<1>8. TypeOK'
  <2>1. \A e \in Embedders : embedding'[e] = Nothing \/
           DOMAIN (embedding'[e]).conds \subseteq There'
    BY WritesKeepLoaded DEF Loaded
  <2>2. QED
    BY <1>4, <1>5, <1>6, <1>7, <2>1 DEF TypeOK
<1>9. stage' \in [Writers -> Stages] /\ stage'[w] = "committed"
      /\ \A v \in Writers \ {w} : stage'[v] = stage[v]
  BY DEF SInv, Writes, Stages
<1>10. job' \in [Writers -> Jobs \cup {Nothing}]
  BY DEF SInv, Writes
<1>11. read' \in [Writers -> Reading \cup {Nothing}]
  <2>1. ASSUME NEW v \in Writers PROVE read'[v] \in Reading \cup {Nothing}
    <3>1. CASE v # w /\ stage[v] = "read"
      BY <3>1, WritesKeepReading DEF HasRead
    <3>2. CASE ~(v # w /\ stage[v] = "read")
      BY <3>2 DEF SInv, Writes
    <3>3. QED
      BY <3>1, <3>2
  <2>2. read' = [v \in Writers |-> read'[v]]
    BY DEF Writes
  <2>3. QED
    BY <2>1, <2>2
<1>12. \A v \in Writers : stage'[v] = "new" => due'[v] = <<>>
  BY <1>6, <1>9 DEF SInv
<1>13. \A v \in Writers : stage'[v] = "read" => HasRead(v)' /\ UpToDate(v)'
  BY <1>9, WritesKeepReading
<1>14. QED
  BY <1>8, <1>9, <1>10, <1>11, <1>12, <1>13, WritesKeepLoaded DEF SInv

\* The tables are empty, or those of one created rule.
LEMMA InitShape ==
    ASSUME Init PROVE SInv /\ KInv /\ WInv
<1>1. /\ stage = [w \in Writers |-> "new"] /\ job = [w \in Writers |-> Nothing]
      /\ due = [w \in Writers |-> <<>>] /\ read = [w \in Writers |-> Nothing]
      /\ modeOnly = {} /\ raced = {}
      /\ embedding = [e \in Embedders |-> Nothing]
  BY DEF Init
<1>2. /\ due \in [Writers -> Seq(Caches)] /\ stage \in [Writers -> Stages]
      /\ job \in [Writers -> Jobs \cup {Nothing}] /\ read \in [Writers -> Reading \cup {Nothing}]
      /\ \A w \in Writers : stage[w] = "new" => due[w] = <<>>
      /\ \A w \in Writers : stage[w] # "read"
      /\ embedding = [e \in Embedders |-> embedding[e]]
      /\ \A e \in Embedders : embedding[e] = Nothing
  BY <1>1 DEF Stages
<1>3. ASSUME rules = [r \in Rules |-> Nothing], terms = <<>>, links = {}, dark = {}
      PROVE  TypeOK /\ KInv /\ WInv
  <2>1. There = {}
    BY <1>3 DEF There
  <2>2. terms \in Seq(Term) /\ DOMAIN terms = {}
    BY <1>3
  <2>3. TypeOK
    BY <1>1, <1>2, <1>3, <2>2 DEF TypeOK
  <2>4. QED
    BY <2>1, <2>2, <2>3 DEF KInv, WInv
<1>4. ASSUME NEW j \in Jobs, j.kind = "create", NEW made, made = Created(j, <<>>, <<>>),
             rules = [r \in Rules |-> IF r = j.rule THEN made.row ELSE Nothing],
             terms = made.terms, links = made.links, dark = made.off
      PROVE  TypeOK /\ KInv /\ WInv
  <2>1. <<>> \in Seq(Term) /\ Known(<<>>, <<>>)
    BY DEF Known
  <2>2. /\ made.row \in Row /\ made.row.embedded = made.row.cond
        /\ \E ts \in SUBSET Term : /\ Extended(<<>>, made.terms, ts)
                                   /\ \A t \in ts : ~t.on => t.word \in made.off
        /\ made.off \subseteq Words
        /\ made.links \subseteq [rule: {j.rule}, term: DOMAIN made.terms, source: Sources]
        /\ \A x \in Keywords(made.row.cond) :
              \E l \in made.links : Same(made.terms[l.term], Secret(x))
    <3>1. j.kind \in {"create", "apply"}
      BY <1>4
    <3>2. QED
      BY <1>4, <2>1, <3>1, CreatedIsWhole
  <2>3. j.rule \in Rules /\ made.row # Nothing
    BY <2>2, ConstantsAssumption DEF IsJob
  <2>4. There = {j.rule} /\ rules[j.rule] = made.row /\ rules \in [Rules -> Row \cup {Nothing}]
    BY <1>4, <2>2, <2>3 DEF There
  <2>5. terms \in Seq(Term)
    BY <1>4, <2>2 DEF Extended
  <2>6. links \subseteq [rule: There, term: DOMAIN terms, source: Sources]
    BY <1>4, <2>2, <2>4
  <2>7. TypeOK
    BY <1>1, <1>2, <1>4, <2>2, <2>4, <2>5, <2>6 DEF TypeOK
  <2>8. \A i \in DOMAIN terms : ~terms[i].on => terms[i].word \in dark
    <3>1. DOMAIN <<>> = {}
      OBVIOUS
    <3>2. QED
      BY <1>4, <2>2, <3>1 DEF Extended
  <2>9. \A x \in Keywords(rules[j.rule].cond) : \E l \in links :
           l.rule = j.rule /\ l.term \in DOMAIN terms /\ Same(terms[l.term], Secret(x))
    BY <1>4, <2>2, <2>4
  <2>10. rules[j.rule].embedded = rules[j.rule].cond
    BY <2>2, <2>4
  <2>11. KInv
    BY <2>4, <2>8, <2>9 DEF KInv
  <2>12. WInv
    BY <2>4, <2>9, <2>10 DEF WInv
  <2>13. QED
    BY <2>7, <2>11, <2>12
<1>5. TypeOK /\ KInv /\ WInv
  BY <1>3, <1>4 DEF Init
<1>6. QED
  BY <1>2, <1>5 DEF SInv

\* A request that reads knows what there is.
LEMMA ReadKeepsShape ==
    ASSUME SInv, NEW w \in Writers, Read(w) PROVE SInv'
<1>1. PICK j \in Jobs :
         /\ j.rule \in IF j.kind \in {"create", "apply"} THEN Rules \ There ELSE Live
         /\ job' = [job EXCEPT ![w] = j]
         /\ read' = [read EXCEPT ![w] =
               [row |-> rules[j.rule], terms |-> terms, links |-> links,
                manual |-> LinkedTerms(j.rule, "manual"), overtaken |-> FALSE]]
  BY DEF Read
<1>2. /\ stage[w] = "new" /\ stage' = [stage EXCEPT ![w] = "read"]
      /\ rules' = rules /\ terms' = terms /\ links' = links /\ due' = due
      /\ dark' = dark /\ modeOnly' = modeOnly /\ raced' = raced /\ embedding' = embedding
  BY DEF Read, tables, history
<1>3. TypeOK /\ due[w] = <<>>
  BY <1>2 DEF SInv
<1>4. There' = There /\ TypeOK'
  BY <1>2, <1>3 DEF There, TypeOK
<1>5. \A l \in links : terms[l.term] \in Term /\ l.term \in DOMAIN terms
  BY <1>3, LenProperties, ElementOfSeq DEF TypeOK
<1>6. LinkedTerms(j.rule, "manual") \in SUBSET Term
  BY <1>5 DEF LinkedTerms, Linked
<1>7. j.rule \in Rules
  BY <1>1 DEF Live, There
<1>8. links \in SUBSET Link
  <2>1. DOMAIN terms \subseteq Nat
    BY <1>3, LenProperties DEF TypeOK
  <2>2. QED
    BY <1>3, <2>1 DEF TypeOK, There, Link
<1>. DEFINE d == [row |-> rules[j.rule], terms |-> terms, links |-> links,
                  manual |-> LinkedTerms(j.rule, "manual"), overtaken |-> FALSE]
<1>9. d \in Reading
  BY <1>3, <1>6, <1>7, <1>8 DEF Reading, TypeOK
<1>10. /\ d.row = rules[j.rule] /\ d.terms = terms /\ d.links = links
       /\ d.manual = LinkedTerms(j.rule, "manual")
  OBVIOUS
<1>11. /\ job' \in [Writers -> Jobs \cup {Nothing}] /\ job'[w] = j
       /\ \A v \in Writers \ {w} : job'[v] = job[v]
  BY <1>1 DEF SInv
<1>12. /\ read' \in [Writers -> Reading \cup {Nothing}] /\ read'[w] = d
       /\ \A v \in Writers \ {w} : read'[v] = read[v]
  <2>1. read' = [read EXCEPT ![w] = d]
    BY <1>1
  <2>. HIDE DEF d
  <2>2. QED
    BY <1>9, <2>1 DEF SInv
<1>. HIDE DEF d
<1>13. /\ stage' \in [Writers -> Stages] /\ stage'[w] = "read"
       /\ \A v \in Writers \ {w} : stage'[v] = stage[v]
  BY <1>2 DEF SInv, Stages
<1>14. HasRead(w)'
  <2>1. (d.row \in Row /\ j.rule \in There') \/ j.kind \in {"create", "apply"}
    BY <1>1, <1>3, <1>4, <1>7, <1>10 DEF Live, There, TypeOK
  <2>2. j.kind = "update" \/ j.kind = "delete" => d.row \in Row /\ j.rule \in There'
    BY <2>1
  <2>3. \A u \in d.manual : \E l \in d.links : /\ l.rule = j.rule /\ l.source = "manual"
                                               /\ Same(d.terms[l.term], u)
    BY <1>10 DEF LinkedTerms, Linked, Same
  <2>4. Known(d.terms, terms')
    BY <1>2, <1>10 DEF Known, Same
  <2>5. \A l \in d.links : l.term \in DOMAIN d.terms
    BY <1>5, <1>10
  <2>6. due'[w] = <<>>
    BY <1>2, <1>3
  <2>7. QED
    BY <1>9, <1>11, <1>12, <2>2, <2>3, <2>4, <2>5, <2>6 DEF HasRead, Asks, Rule
<1>15. UpToDate(w)'
  BY <1>2, <1>10, <1>11, <1>12 DEF UpToDate, Rule, SameRule
<1>16. ASSUME NEW v \in Writers \ {w}, stage[v] = "read" PROVE HasRead(v)' /\ UpToDate(v)'
  <2>1. HasRead(v) /\ UpToDate(v)
    BY <1>16 DEF SInv
  <2>2. HasRead(v)'
    BY <1>2, <1>4, <1>11, <1>12, <2>1 DEF HasRead, Asks, Rule, Known
  <2>3. UpToDate(v)'
    BY <1>2, <1>11, <1>12, <2>1 DEF UpToDate, Rule, SameRule
  <2>4. QED
    BY <2>2, <2>3
<1>17. \A v \in Writers : stage'[v] = "read" => HasRead(v)' /\ UpToDate(v)'
  BY <1>13, <1>14, <1>15, <1>16
<1>18. \A v \in Writers : stage'[v] = "new" => due'[v] = <<>>
  BY <1>2, <1>13 DEF SInv
<1>19. \A e \in Embedders : embedding'[e] # Nothing => Loaded(e)'
  BY <1>2, <1>4 DEF SInv, Loaded
<1>20. QED
  BY <1>2, <1>4, <1>11, <1>12, <1>13, <1>17, <1>18, <1>19 DEF SInv

\* The steps that leave the tables, and what was read of them.
Idle == /\ UNCHANGED <<tables, job, read, embedding, history>>
        /\ due' \in [Writers -> Seq(Caches)] /\ stage' \in [Writers -> Stages]
        /\ \A v \in Writers : stage'[v] = stage[v] \/ stage'[v] = "failed"
        /\ \A v \in Writers : due[v] = <<>> => due'[v] = <<>>

\* They keep the shape.
LEMMA IdleKeepsShape ==
    ASSUME SInv, Idle PROVE SInv'
<1>1. /\ rules' = rules /\ terms' = terms /\ links' = links /\ job' = job /\ read' = read
      /\ dark' = dark /\ modeOnly' = modeOnly /\ raced' = raced /\ embedding' = embedding
  BY DEF Idle, tables, history
<1>2. There' = There /\ TypeOK'
  BY <1>1 DEF There, TypeOK, SInv, Idle
<1>3. ASSUME NEW v \in Writers, stage'[v] = "read" PROVE HasRead(v)' /\ UpToDate(v)'
  <2>1. HasRead(v) /\ UpToDate(v)
    BY <1>3 DEF SInv, Idle
  <2>2. due'[v] = <<>>
    BY <2>1 DEF HasRead, Idle
  <2>3. HasRead(v)'
    BY <1>1, <1>2, <2>1, <2>2 DEF HasRead, Asks, Rule, Known
  <2>4. UpToDate(v)'
    BY <1>1, <2>1 DEF UpToDate, Rule, SameRule
  <2>5. QED
    BY <2>3, <2>4
<1>4. \A v \in Writers : stage'[v] = "new" => due'[v] = <<>>
  BY DEF SInv, Idle
<1>5. \A e \in Embedders : embedding'[e] # Nothing => Loaded(e)'
  BY <1>1, <1>2 DEF SInv, Loaded
<1>6. QED
  BY <1>1, <1>2, <1>3, <1>4, <1>5 DEF SInv, Idle

\* To load rules and to forget them leaves the tables, and what requests have read.
LEMMA LookKeepsShape ==
    ASSUME SInv, NEW e \in Embedders, LoadRules(e) \/ ForgetRules(e)
    PROVE  SInv' /\ UNCHANGED <<tables, job, stage, due, read, cache, load, history>>
<1>1. /\ UNCHANGED <<tables, job, stage, due, read, cache, load, history>>
      /\ rules' = rules /\ terms' = terms /\ links' = links
      /\ dark' = dark /\ modeOnly' = modeOnly /\ raced' = raced
  BY DEF LoadRules, ForgetRules, tables, history
<1>2. There' = There
  BY <1>1 DEF There
<1>3. \/ embedding' = [embedding EXCEPT ![e] = Nothing]
      \/ \E S \in SUBSET Live : embedding' = [embedding EXCEPT ![e] =
                                   [conds |-> [r \in S |-> rules[r].cond], late |-> {}]]
  BY DEF LoadRules, ForgetRules
<1>4. embedding' = [d \in Embedders |-> embedding'[d]]
      /\ \A d \in Embedders \ {e} : embedding'[d] = embedding[d]
  BY <1>3 DEF SInv
<1>5. ASSUME NEW S \in SUBSET Live, NEW l, l = [conds |-> [r \in S |-> rules[r].cond], late |-> {}],
             embedding' = [embedding EXCEPT ![e] = l]
      PROVE  Loaded(e)'
  <2>1. embedding'[e] = l
    BY <1>5 DEF SInv
  <2>2. \A r \in S : r \in There /\ rules[r].cond \in Condition
    BY DEF Live, There, SInv, TypeOK, Row
  <2>3. /\ l.conds = [r \in S |-> rules[r].cond] /\ l.late = {}
        /\ l = [conds |-> l.conds, late |-> l.late]
    BY <1>5
  <2>4. DOMAIN l.conds = S /\ \A r \in S : l.conds[r] = rules[r].cond
    BY <2>3
  <2>5. QED
    BY <1>1, <1>2, <2>1, <2>2, <2>3, <2>4 DEF Loaded
<1>6. embedding'[e] # Nothing => Loaded(e)'
  <2>1. CASE embedding' = [embedding EXCEPT ![e] = Nothing]
    BY <2>1 DEF SInv
  <2>2. QED
    BY <1>3, <1>5, <2>1
<1>7. \A d \in Embedders : embedding'[d] # Nothing => Loaded(d)'
  BY <1>1, <1>2, <1>4, <1>6 DEF SInv, Loaded
<1>8. TypeOK'
  <2>1. \A d \in Embedders : embedding'[d] = Nothing \/ DOMAIN (embedding'[d]).conds \subseteq There'
    BY <1>7 DEF Loaded
  <2>2. QED
    BY <1>1, <1>2, <2>1 DEF SInv, TypeOK
<1>9. \A w \in Writers : stage'[w] = "read" => HasRead(w)' /\ UpToDate(w)'
  BY <1>1, <1>2 DEF SInv, HasRead, Asks, Rule, Known, UpToDate, SameRule
<1>10. QED
  BY <1>1, <1>4, <1>7, <1>8, <1>9 DEF SInv

\* To embed rules writes the embeddings of rules that are there and nothing else; those
\* that nobody has written since get that of their conditions.
LEMMA EmbedWrites ==
    ASSUME SInv, NEW e \in Embedders, Embed(e)
    PROVE  /\ rules' \in [Rules -> Row \cup {Nothing}]
           /\ \A r \in Rules : SameRule(rules'[r], rules[r])
           /\ There' = There /\ InForce(rules') = InForce(rules)
           /\ \A r \in There \ raced' : \/ rules'[r].embedded = rules[r].cond
                                        \/ rules'[r].embedded = rules[r].embedded
           /\ raced' \subseteq There /\ raced \subseteq raced'
<1>. DEFINE conds == embedding[e].conds
<1>1. /\ rules' = [r \in Rules |-> IF r \in DOMAIN conds
                                   THEN [rules[r] EXCEPT !.embedded = conds[r]] ELSE rules[r]]
      /\ raced' = raced \cup embedding[e].late /\ embedding[e] # Nothing
  BY DEF Embed
<1>2. Loaded(e) /\ TypeOK
  BY <1>1 DEF SInv
<1>3. /\ DOMAIN conds \subseteq There /\ embedding[e].late \subseteq DOMAIN conds
      /\ \A r \in DOMAIN conds : /\ conds[r] \in Condition
                                 /\ r \notin embedding[e].late => conds[r] = rules[r].cond
  BY <1>2 DEF Loaded
<1>4. \A r \in There : r \in Rules /\ rules[r] \in Row
  BY <1>2 DEF There, TypeOK
<1>. HIDE DEF conds
<1>5. ASSUME NEW r \in DOMAIN conds
      PROVE  /\ rules'[r] \in Row /\ SameRule(rules'[r], rules[r])
             /\ rules'[r].embedded = conds[r]
  <2>1. r \in There /\ conds[r] \in Condition
    BY <1>3
  <2>2. rules[r] \in Row /\ rules[r] # Nothing
    BY <1>4, <2>1 DEF There
  <2>3. rules'[r] = [rules[r] EXCEPT !.embedded = conds[r]]
    BY <1>1, <1>3, <1>4
  <2>4. rules'[r] = [live |-> rules[r].live, cond |-> rules[r].cond, mode |-> rules[r].mode,
                     embedded |-> conds[r]]
    BY <2>3, <2>2 DEF Row
  <2>5. rules'[r] \in Row
    BY <2>1, <2>4, <2>2 DEF Row
  <2>6. QED
    BY <2>4, <2>5, <2>2, ConstantsAssumption DEF SameRule
<1>6. \A r \in Rules : r \notin DOMAIN conds => rules'[r] = rules[r]
  BY <1>1
<1>7. rules' \in [Rules -> Row \cup {Nothing}]
  <2>1. \A r \in Rules : rules'[r] \in Row \cup {Nothing}
    BY <1>2, <1>5, <1>6 DEF TypeOK
  <2>2. rules' = [r \in Rules |-> rules'[r]]
    BY <1>1
  <2>3. QED
    BY <2>1, <2>2
<1>8. \A r \in Rules : SameRule(rules'[r], rules[r])
  BY <1>5, <1>6 DEF SameRule
<1>9. There' = There
  BY <1>8 DEF There, SameRule
<1>10. InForce(rules') = InForce(rules)
  <2>1. \A r \in Rules : rules[r] = Nothing => rules'[r] = rules[r]
    BY <1>3, <1>6 DEF There
  <2>2. \A r \in Rules : /\ rules'[r] # Nothing /\ rules'[r].live <=> rules[r] # Nothing /\ rules[r].live
                         /\ rules'[r].cond = rules[r].cond
    BY <1>8, <2>1 DEF SameRule
  <2>3. QED
    BY <2>2 DEF InForce
<1>11. \A r \in There \ raced' : \/ rules'[r].embedded = rules[r].cond
                                 \/ rules'[r].embedded = rules[r].embedded
  <2>1. ASSUME NEW r \in There \ raced'
        PROVE  rules'[r].embedded = rules[r].cond \/ rules'[r].embedded = rules[r].embedded
    <3>1. CASE r \in DOMAIN conds
      BY <1>1, <1>3, <1>5, <2>1, <3>1
    <3>2. CASE r \notin DOMAIN conds
      BY <1>4, <1>6, <2>1, <3>2
    <3>3. QED
      BY <3>1, <3>2
  <2>2. QED
    BY <2>1
<1>12. raced' \subseteq There /\ raced \subseteq raced'
  BY <1>1, <1>2, <1>3 DEF TypeOK
<1>13. QED
  BY <1>7, <1>8, <1>9, <1>10, <1>11, <1>12

\* It keeps the shape.
LEMMA EmbedKeepsShape ==
    ASSUME SInv, NEW e \in Embedders, Embed(e) PROVE SInv'
<1>1. /\ embedding' = [embedding EXCEPT ![e] = Nothing]
      /\ terms' = terms /\ links' = links /\ job' = job /\ stage' = stage /\ due' = due
      /\ read' = read /\ dark' = dark /\ modeOnly' = modeOnly
  BY DEF Embed
<1>2. /\ rules' \in [Rules -> Row \cup {Nothing}] /\ There' = There
      /\ \A r \in Rules : SameRule(rules'[r], rules[r])
      /\ raced' \subseteq There
  BY EmbedWrites
<1>3. embedding' = [d \in Embedders |-> embedding'[d]]
      /\ embedding'[e] = Nothing /\ \A d \in Embedders \ {e} : embedding'[d] = embedding[d]
  BY <1>1 DEF SInv
<1>4. ASSUME NEW d \in Embedders, embedding'[d] # Nothing PROVE Loaded(d)'
  <2>1. Loaded(d) /\ embedding'[d] = embedding[d]
    BY <1>3, <1>4 DEF SInv
  <2>2. \A r \in There : rules'[r].cond = rules[r].cond
    BY <1>2 DEF There, SameRule
  <2>3. QED
    BY <1>2, <2>1, <2>2 DEF Loaded
<1>5. TypeOK'
  <2>1. \A d \in Embedders : embedding'[d] = Nothing \/ DOMAIN (embedding'[d]).conds \subseteq There'
    BY <1>4 DEF Loaded
  <2>2. QED
    BY <1>1, <1>2, <2>1 DEF SInv, TypeOK
<1>6. ASSUME NEW w \in Writers, stage'[w] = "read" PROVE HasRead(w)' /\ UpToDate(w)'
  <2>1. HasRead(w) /\ UpToDate(w)
    BY <1>1, <1>6 DEF SInv
  <2>2. Rule(w) \in Rules
    BY <2>1, ConstantsAssumption DEF HasRead, IsJob, Rule
  <2>3. HasRead(w)'
    BY <1>1, <1>2, <2>1 DEF HasRead, Asks, Rule, Known
  <2>4. SameRule(rules[Rule(w)], read[w].row) => SameRule(rules'[Rule(w)], read[w].row)
    BY <1>2, <2>2 DEF SameRule
  <2>5. UpToDate(w)'
    BY <1>1, <2>1, <2>4 DEF UpToDate, Rule, SameRule
  <2>6. QED
    BY <2>3, <2>5
<1>7. QED
  BY <1>1, <1>3, <1>4, <1>5, <1>6 DEF SInv

\* What is not a reading, a commit or an embedding is idle.
LEMMA OtherStepsAreIdle ==
    ASSUME SInv,
           \/ \E w \in Writers : Fails(w) \/ Invalidate(w)
           \/ \E l \in Loaders : Miss(l) \/ Fill(l)
           \/ \E p \in Processes, c \in Caches : Expire(p, c)
           \/ UNCHANGED vars
    PROVE  Idle
<1>1. TypeOK /\ stage \in [Writers -> Stages]
  BY DEF SInv
<1>2. ASSUME NEW w \in Writers, Fails(w) PROVE Idle
  <2>1. stage' = [stage EXCEPT ![w] = "failed"] /\ due' = due
        /\ UNCHANGED <<tables, job, read, embedding, history>>
    BY <1>2 DEF Fails, tables, history
  <2>2. QED
    BY <1>1, <2>1 DEF Idle, TypeOK, Stages
<1>3. ASSUME NEW w \in Writers, Invalidate(w) PROVE Idle
  <2>1. stage' = stage /\ due[w] # <<>> /\ due' = [due EXCEPT ![w] = Tail(@)]
        /\ UNCHANGED <<tables, job, read, embedding, history>>
    BY <1>3 DEF Invalidate, tables, history
  <2>2. due[w] \in Seq(Caches)
    BY <1>1 DEF TypeOK
  <2>3. Tail(due[w]) \in Seq(Caches)
    BY <2>1, <2>2, HeadTailProperties
  <2>4. QED
    BY <1>1, <2>1, <2>3 DEF Idle, TypeOK
<1>4. ASSUME NEW l \in Loaders, Miss(l) \/ Fill(l) PROVE Idle
  BY <1>1, <1>4 DEF Miss, Fill, Idle, TypeOK, tables, history
<1>5. ASSUME NEW p \in Processes, NEW c \in Caches, Expire(p, c) PROVE Idle
  BY <1>1, <1>5 DEF Expire, Idle, TypeOK, tables, history
<1>6. ASSUME UNCHANGED vars PROVE Idle
  BY <1>1, <1>6 DEF vars, Idle, TypeOK, tables, history
<1>7. QED
  BY <1>2, <1>3, <1>4, <1>5, <1>6

\* Every step reads, commits, embeds or is idle.
LEMMA StepKeepsShape ==
    ASSUME SInv, [Next]_vars PROVE SInv'
<1>1. ASSUME NEW w \in Writers, Create(w) \/ Update(w) \/ Delete(w) PROVE SInv'
  <2>1. Writes(w)
    BY <1>1, CreateWrites, UpdateWrites, DeleteWrites
  <2>2. QED
    BY <2>1, WritesKeepShape
<1>2. ASSUME NEW w \in Writers, Read(w) PROVE SInv'
  BY <1>2, ReadKeepsShape
<1>3. ASSUME NEW e \in Embedders, LoadRules(e) \/ Embed(e) \/ ForgetRules(e) PROVE SInv'
  BY <1>3, LookKeepsShape, EmbedKeepsShape
<1>4. QED
  BY <1>1, <1>2, <1>3, OtherStepsAreIdle, IdleKeepsShape DEF Next, Request

\* The shape of the state (TypeOK): also after any mix of creations, updates and deletions
\* that have read before each other, every link joins a rule and a term that are there.
THEOREM TermTypes == Spec => []TypeOK
<1>1. Init => SInv
  BY InitShape
<1>2. SInv /\ [Next]_vars => SInv'
  BY StepKeepsShape
<1>3. SInv => TypeOK
  BY DEF SInv
<1>4. QED
  BY <1>1, <1>2, <1>3, PTL DEF Spec

-----------------------------------------------------------------------------
(* Keywords.                                                               *)

\* The keywords of the rule an update leaves have rows, or got there by a change of
\* match_mode alone.
LEMMA UpdateSpots ==
    ASSUME SInv, KInv, NEW w \in Writers, Update(w), Rule(w) \notin modeOnly'
    PROVE  \A x \in Keywords(rules'[Rule(w)].cond) :
              \E i \in DOMAIN terms' : Same(terms'[i], Secret(x))
<1>. DEFINE r == Rule(w)
            up == Updated(w)
            was == read[w].row
            table == UpdatedTerms(w, up)
            change == LinkChanges(w, up, table)
<1>1. /\ stage[w] = "read" /\ Asks(w, "update")
      /\ rules' = [rules EXCEPT
            ![r].cond = Column(was.cond, up.cond, @),
            ![r].mode = Column(was.mode, up.mode, @),
            ![r].embedded = IF up.mutated THEN up.cond ELSE @]
      /\ terms' = table
      /\ modeOnly' = CASE ~up.resync /\ up.mutated -> modeOnly \cup {r}
                       [] up.resync /\ ~read[w].overtaken -> modeOnly \ {r}
                       [] OTHER -> modeOnly
  BY DEF Update, Remembered
<1>2. TypeOK /\ HasRead(w) /\ UpToDate(w)
  BY <1>1 DEF SInv
<1>3. r \in There /\ r \in Rules /\ rules[r] \in Row /\ DOMAIN rules = Rules
  BY <1>1, <1>2 DEF HasRead, There, TypeOK
<1>4. /\ up.resync \in BOOLEAN /\ up.mutated \in BOOLEAN
      /\ ~up.mutated => up.cond = was.cond
      /\ up.resync => \A x \in Keywords(up.cond) :
            \E i \in DOMAIN table : Same(table[i], Secret(x))
  BY <1>1, UpdatedIsWhole
<1>5. ~read[w].overtaken => rules[r].cond = was.cond
  BY <1>2, <1>3 DEF UpToDate, SameRule, There
<1>6. Known(terms, terms')
  BY UpdateWrites, WritesKeepRows
<1>7. Rule(w) = r
  OBVIOUS
<1>. HIDE DEF up, table, change, was, r
<1>8. rules'[r].cond = Column(was.cond, up.cond, rules[r].cond)
  BY <1>1, <1>3 DEF Row
<1>9. ~(~up.resync /\ up.mutated)
  BY <1>1, <1>7
<1>10. CASE up.resync /\ (up.cond # was.cond \/ ~read[w].overtaken)
  <2>1. rules'[r].cond = up.cond
    BY <1>5, <1>8, <1>10 DEF Column
  <2>2. QED
    BY <1>1, <1>4, <1>7, <1>10, <2>1
<1>11. CASE up.cond = was.cond /\ (up.resync => read[w].overtaken)
  <2>1. rules'[r].cond = rules[r].cond
    BY <1>8, <1>11 DEF Column
  <2>2. modeOnly' = modeOnly
    BY <1>1, <1>9, <1>11
  <2>3. \A x \in Keywords(rules[r].cond) : \E i \in DOMAIN terms : Same(terms[i], Secret(x))
    BY <1>3, <1>7, <2>2 DEF KInv
  <2>4. QED
    BY <1>6, <1>7, <2>1, <2>3 DEF Known, Same
<1>12. QED
  BY <1>4, <1>9, <1>10, <1>11

\* A commit that leaves the keywords of its own rule with rows leaves every rule's so.
LEMMA WritesKeepKeywords ==
    ASSUME SInv, KInv, NEW w \in Writers, Writes(w),
           Rule(w) \in modeOnly' \/ \A x \in Keywords(rules'[Rule(w)].cond) :
              \E i \in DOMAIN terms' : Same(terms'[i], Secret(x))
    PROVE  KInv'
<1>1. Known(terms, terms')
  BY WritesKeepRows
<1>2. ASSUME NEW r \in There' \ modeOnly', NEW x \in Keywords(rules'[r].cond)
      PROVE  \E i \in DOMAIN terms' : Same(terms'[i], Secret(x))
  <2>1. CASE r = Rule(w)
    BY <1>2, <2>1
  <2>2. CASE r # Rule(w)
    <3>1. r \in Rules /\ rules'[r] # Nothing
      BY <1>2 DEF There
    <3>2. r \in There \ modeOnly /\ rules'[r] = rules[r]
      BY <1>2, <2>2, <3>1 DEF Writes, There
    <3>3. \E i \in DOMAIN terms : Same(terms[i], Secret(x))
      BY <1>2, <3>2 DEF KInv
    <3>4. QED
      BY <1>1, <3>3 DEF Known, Same
  <2>3. QED
    BY <2>1, <2>2
<1>3. ASSUME NEW i \in DOMAIN terms', terms'[i].type = "secret", ~terms'[i].on
      PROVE  terms'[i].word \in dark'
  <2>1. PICK ts \in SUBSET Term : /\ Extended(terms, terms', ts)
                                  /\ \A t \in ts : ~t.on => t.word \in dark'
    BY DEF Writes
  <2>2. CASE i \notin DOMAIN terms
    BY <1>3, <2>1, <2>2 DEF Extended
  <2>3. CASE i \in DOMAIN terms /\ terms'[i].on = terms[i].on
    <3>1. Same(terms'[i], terms[i])
      BY <2>1, <2>3 DEF Extended
    <3>2. terms[i].word \in dark
      BY <1>3, <2>3, <3>1 DEF KInv, Same
    <3>3. QED
      BY <3>1, <3>2 DEF Writes, Same
  <2>4. CASE i \in DOMAIN terms /\ terms'[i].on # terms[i].on
    <3>1. PICK t \in ts : Same(t, terms'[i]) /\ t.on = terms'[i].on
      BY <2>1, <2>4 DEF Extended
    <3>2. QED
      BY <1>3, <2>1, <3>1 DEF Same
  <2>5. QED
    BY <2>2, <2>3, <2>4
<1>4. QED
  BY <1>2, <1>3 DEF KInv

\* Every step keeps the keywords' rows.
LEMMA StepKeepsKeywords ==
    ASSUME SInv, KInv, [Next]_vars PROVE KInv'
<1>1. ASSUME NEW w \in Writers, Create(w) PROVE KInv'
  <2>1. Writes(w) /\ \A x \in Keywords(rules'[Rule(w)].cond) :
           \E l \in links' : l.rule = Rule(w) /\ Same(terms'[l.term], Secret(x))
    BY <1>1, CreateWrites
  <2>2. \A l \in links' : l.term \in DOMAIN terms'
    BY <2>1 DEF Writes
  <2>3. QED
    BY <2>1, <2>2, WritesKeepKeywords
<1>2. ASSUME NEW w \in Writers, Update(w) PROVE KInv'
  <2>1. Writes(w)
    BY <1>2, UpdateWrites
  <2>2. QED
    BY <1>2, <2>1, UpdateSpots, WritesKeepKeywords
<1>3. ASSUME NEW w \in Writers, Delete(w) PROVE KInv'
  <2>1. Writes(w) /\ rules'[Rule(w)].cond = rules[Rule(w)].cond
    BY <1>3, DeleteWrites
  <2>2. modeOnly' = modeOnly /\ HasRead(w) /\ Asks(w, "delete")
    BY <1>3 DEF Delete, Remembered, SInv
  <2>3. Rule(w) \in There /\ Known(terms, terms')
    BY <2>1, <2>2, WritesKeepRows DEF HasRead
  <2>4. Rule(w) \in modeOnly' \/ \A x \in Keywords(rules'[Rule(w)].cond) :
           \E i \in DOMAIN terms' : Same(terms'[i], Secret(x))
    BY <2>1, <2>2, <2>3 DEF KInv, Known, Same
  <2>5. QED
    BY <2>1, <2>4, WritesKeepKeywords
<1>4. ASSUME NEW w \in Writers, Read(w) PROVE KInv'
  BY <1>4 DEF Read, tables, history, KInv, There
<1>5. ASSUME Idle PROVE KInv'
  BY <1>5 DEF Idle, tables, history, KInv, There
<1>6. ASSUME NEW e \in Embedders, LoadRules(e) \/ ForgetRules(e) PROVE KInv'
  BY <1>6, LookKeepsShape DEF tables, history, KInv, There
<1>7. ASSUME NEW e \in Embedders, Embed(e) PROVE KInv'
  <2>1. There' = There /\ \A r \in There : rules'[r].cond = rules[r].cond
    BY <1>7, EmbedWrites DEF There, SameRule
  <2>2. terms' = terms /\ dark' = dark /\ modeOnly' = modeOnly
    BY <1>7 DEF Embed
  <2>3. QED
    BY <2>1, <2>2 DEF KInv
<1>8. QED
  BY <1>1, <1>2, <1>3, <1>4, <1>5, <1>6, <1>7, OtherStepsAreIdle DEF Next, Request

\* A row that is on is looked for, one that is off was switched off.
LEMMA RowsAreSpotted ==
    ASSUME SInv, KInv PROVE KeywordsSpotted
<1>1. SUFFICES ASSUME NEW r \in Live, NEW x \in Keywords(rules[r].cond), r \notin modeOnly
               PROVE  x \in Spotted(terms) \/ x \in dark
  BY DEF KeywordsSpotted
<1>2. PICK i \in DOMAIN terms : Same(terms[i], Secret(x))
  BY <1>1 DEF KInv, Live
<1>3. terms[i].word = x /\ terms[i].type = "secret"
  BY <1>2 DEF Same, Secret
<1>4. terms[i].on \in BOOLEAN
  <2>1. terms \in Seq(Term)
    BY DEF SInv, TypeOK
  <2>2. terms[i] \in Term
    BY <1>2, <2>1, LenProperties, ElementOfSeq
  <2>3. QED
    BY <2>2 DEF Term
<1>5. QED
  BY <1>3, <1>4 DEF KInv, Spotted

\* The keywords of a rule in force are looked for in every text (KeywordsSpotted), however
\* many requests upsert terms from tables they have read before each other's commits, but
\* for words switched off for the company and conditions that only a change of match_mode
\* has rewritten.
THEOREM KeywordsAreSpotted == Spec => []KeywordsSpotted
<1>1. Init => SInv /\ KInv
  BY InitShape
<1>2. SInv /\ KInv /\ [Next]_vars => SInv' /\ KInv'
  BY StepKeepsShape, StepKeepsKeywords
<1>3. SInv /\ KInv => KeywordsSpotted
  BY RowsAreSpotted
<1>4. QED
  BY <1>1, <1>2, <1>3, PTL DEF Spec

-----------------------------------------------------------------------------
(* Embeddings and links.                                                   *)

\* The rule that an update leaves is of a piece, if nobody has overtaken it.
LEMMA UpdateWhole ==
    ASSUME SInv, WInv, NEW w \in Writers, Update(w), Rule(w) \notin raced'
    PROVE  /\ rules'[Rule(w)].embedded = rules'[Rule(w)].cond
           /\ Rule(w) \notin modeOnly' => \A x \in Keywords(rules'[Rule(w)].cond) :
                 \E l \in links' : l.rule = Rule(w) /\ Same(terms'[l.term], Secret(x))
<1>. DEFINE r == Rule(w)
            up == Updated(w)
            was == read[w].row
            table == UpdatedTerms(w, up)
            change == LinkChanges(w, up, table)
<1>1. /\ stage[w] = "read" /\ Asks(w, "update")
      /\ rules' = [rules EXCEPT
            ![r].cond = Column(was.cond, up.cond, @),
            ![r].mode = Column(was.mode, up.mode, @),
            ![r].embedded = IF up.mutated THEN up.cond ELSE @]
      /\ terms' = table /\ links' = (links \ change.gone) \cup change.come
      /\ modeOnly' = CASE ~up.resync /\ up.mutated -> modeOnly \cup {r}
                       [] up.resync /\ ~read[w].overtaken -> modeOnly \ {r}
                       [] OTHER -> modeOnly
      /\ raced' = IF read[w].overtaken THEN raced \cup {r} ELSE raced
  BY DEF Update, Remembered
<1>2. TypeOK /\ HasRead(w) /\ UpToDate(w)
  BY <1>1 DEF SInv
<1>3. r \in There /\ r \in Rules /\ rules[r] \in Row /\ DOMAIN rules = Rules
  BY <1>1, <1>2 DEF HasRead, There, TypeOK
<1>4. /\ up.resync \in BOOLEAN /\ up.mutated \in BOOLEAN
      /\ ~up.mutated => up.cond = was.cond
      /\ ~up.resync => change = Unchanged
      /\ up.resync /\ ~read[w].overtaken => \A x \in Keywords(up.cond) :
            \E l \in (links \ change.gone) \cup change.come :
               l.rule = r /\ Same(table[l.term], Secret(x))
  BY <1>1, UpdatedIsWhole
<1>5. Known(terms, terms')
  BY UpdateWrites, WritesKeepRows
<1>6. Rule(w) = r
  OBVIOUS
<1>7. ~read[w].overtaken /\ r \notin raced
  BY <1>1
<1>8. rules[r].cond = was.cond
  BY <1>2, <1>3, <1>7 DEF UpToDate, SameRule, There
<1>9. rules[r].embedded = rules[r].cond
  BY <1>3, <1>7 DEF WInv
<1>. HIDE DEF up, table, change, was, r
<1>10. /\ rules'[r].cond = Column(was.cond, up.cond, rules[r].cond)
       /\ rules'[r].embedded = IF up.mutated THEN up.cond ELSE rules[r].embedded
  BY <1>1, <1>3 DEF Row
<1>11. rules'[r].cond = up.cond /\ rules'[r].embedded = up.cond
  BY <1>4, <1>8, <1>9, <1>10 DEF Column
<1>12. ASSUME r \notin modeOnly', NEW x \in Keywords(up.cond)
       PROVE  \E l \in links' : l.rule = r /\ Same(terms'[l.term], Secret(x))
  <2>1. CASE up.resync
    BY <1>1, <1>4, <1>7, <1>12, <2>1
  <2>2. CASE ~up.resync
    <3>1. ~up.mutated /\ r \notin modeOnly
      BY <1>1, <1>4, <1>12, <2>2
    <3>2. up.cond = rules[r].cond /\ links' = links
      BY <1>1, <1>4, <1>8, <2>2, <3>1 DEF Unchanged
    <3>3. PICK l \in links : l.rule = r /\ Same(terms[l.term], Secret(x))
      BY <1>3, <1>7, <1>12, <3>1, <3>2 DEF WInv
    <3>4. l.term \in DOMAIN terms
      BY <1>2, <3>3 DEF TypeOK
    <3>5. Same(terms'[l.term], Secret(x))
      BY <1>5, <3>3, <3>4 DEF Known, Same
    <3>6. QED
      BY <3>2, <3>3, <3>5
  <2>3. QED
    BY <1>4, <2>1, <2>2
<1>13. QED
  BY <1>6, <1>11, <1>12

\* A commit that leaves its own rule of a piece leaves every rule so.
LEMMA WritesKeepWhole ==
    ASSUME SInv, WInv, NEW w \in Writers, Writes(w),
           Rule(w) \in raced' \/
              /\ rules'[Rule(w)].embedded = rules'[Rule(w)].cond
              /\ Rule(w) \notin modeOnly' => \A x \in Keywords(rules'[Rule(w)].cond) :
                    \E l \in links' : l.rule = Rule(w) /\ Same(terms'[l.term], Secret(x))
    PROVE  WInv'
<1>1. Known(terms, terms')
  BY WritesKeepRows
<1>2. ASSUME NEW r \in There' \ raced', r # Rule(w)
      PROVE  /\ rules'[r].embedded = rules'[r].cond
             /\ r \notin modeOnly' => \A x \in Keywords(rules'[r].cond) :
                   \E l \in links' : l.rule = r /\ Same(terms'[l.term], Secret(x))
  <2>1. r \in Rules /\ rules'[r] # Nothing
    BY <1>2 DEF There
  <2>2. r \in There \ raced /\ rules'[r] = rules[r] /\ (r \notin modeOnly' => r \notin modeOnly)
    BY <1>2, <2>1 DEF Writes, There
  <2>3. ASSUME r \notin modeOnly', NEW x \in Keywords(rules'[r].cond)
        PROVE  \E l \in links' : l.rule = r /\ Same(terms'[l.term], Secret(x))
    <3>1. PICK l \in links : l.rule = r /\ Same(terms[l.term], Secret(x))
      BY <2>2, <2>3 DEF WInv
    <3>2. l \in links' /\ l.term \in DOMAIN terms
      BY <1>2, <3>1 DEF Writes, SInv, TypeOK
    <3>3. QED
      BY <1>1, <3>1, <3>2 DEF Known, Same
  <2>4. QED
    BY <2>2, <2>3 DEF WInv
<1>3. QED
  BY <1>2 DEF WInv

\* Every step leaves rules of a piece.
LEMMA StepKeepsWhole ==
    ASSUME SInv, WInv, [Next]_vars PROVE WInv'
<1>1. ASSUME NEW w \in Writers, Create(w) PROVE WInv'
  BY <1>1, CreateWrites, WritesKeepWhole
<1>2. ASSUME NEW w \in Writers, Update(w) PROVE WInv'
  <2>1. Writes(w)
    BY <1>2, UpdateWrites
  <2>2. QED
    BY <1>2, <2>1, UpdateWhole, WritesKeepWhole
<1>3. ASSUME NEW w \in Writers, Delete(w) PROVE WInv'
  <2>. DEFINE r == Rule(w)
  <2>1. /\ Writes(w) /\ rules'[r].cond = rules[r].cond /\ rules'[r].embedded = rules[r].embedded
    BY <1>3, DeleteWrites
  <2>2. /\ modeOnly' = modeOnly /\ HasRead(w) /\ Asks(w, "delete") /\ links' = links
        /\ \A l \in links : l.term \in DOMAIN terms
    BY <1>3 DEF Delete, Remembered, SInv, TypeOK
  <2>3. r \in There /\ Known(terms, terms') /\ raced \subseteq raced'
    BY <2>1, <2>2, WritesKeepRows DEF HasRead, Writes
  <2>4. CASE r \in raced'
    BY <2>1, <2>4, WritesKeepWhole
  <2>5. CASE r \notin raced'
    <3>1. /\ rules[r].embedded = rules[r].cond
          /\ r \notin modeOnly => \A x \in Keywords(rules[r].cond) :
                \E l \in links : l.rule = r /\ Same(terms[l.term], Secret(x))
      BY <2>3, <2>5 DEF WInv
    <3>2. /\ rules'[r].embedded = rules'[r].cond
          /\ r \notin modeOnly' => \A x \in Keywords(rules'[r].cond) :
                \E l \in links' : l.rule = r /\ Same(terms'[l.term], Secret(x))
      BY <2>1, <2>2, <2>3, <3>1 DEF Known, Same
    <3>3. QED
      BY <2>1, <3>2, WritesKeepWhole
  <2>6. QED
    BY <2>4, <2>5
<1>4. ASSUME NEW w \in Writers, Read(w) PROVE WInv'
  BY <1>4 DEF Read, tables, history, WInv, There
<1>5. ASSUME Idle PROVE WInv'
  BY <1>5 DEF Idle, tables, history, WInv, There
<1>6. ASSUME NEW e \in Embedders, LoadRules(e) \/ ForgetRules(e) PROVE WInv'
  BY <1>6, LookKeepsShape DEF tables, history, WInv, There
<1>7. ASSUME NEW e \in Embedders, Embed(e) PROVE WInv'
  <2>1. /\ There' = There /\ raced \subseteq raced'
        /\ \A r \in There : rules'[r].cond = rules[r].cond
        /\ \A r \in There \ raced' : \/ rules'[r].embedded = rules[r].cond
                                     \/ rules'[r].embedded = rules[r].embedded
    BY <1>7, EmbedWrites DEF There, SameRule
  <2>2. terms' = terms /\ links' = links /\ modeOnly' = modeOnly
    BY <1>7 DEF Embed
  <2>3. QED
    BY <2>1, <2>2 DEF WInv
<1>8. QED
  BY <1>1, <1>2, <1>3, <1>4, <1>5, <1>6, <1>7, OtherStepsAreIdle DEF Next, Request

\* A rule that no overtaken request has written and no overtaken search or RAG scan has
\* embedded has the embedding of its conditions, and its keywords are linked to it
\* (UnracedRuleIsWhole): a partial rewrite of a row, a sync of links from an old list, an
\* upsert to a row found long ago or an embedding written on the way does not tear it.
THEOREM UnracedRulesAreWhole == Spec => []UnracedRuleIsWhole
<1>1. Init => SInv /\ WInv
  BY InitShape
<1>2. SInv /\ WInv /\ [Next]_vars => SInv' /\ WInv'
  BY StepKeepsShape, StepKeepsWhole
<1>3. SInv /\ WInv => UnracedRuleIsWhole
  BY DEF WInv, UnracedRuleIsWhole, Live, Same, Secret
<1>4. QED
  BY <1>1, <1>2, <1>3, PTL DEF Spec

-----------------------------------------------------------------------------
(* Caches.                                                                 *)

\* A commit that drops the rules, and the words unless one of both stays as it was, marks
\* or drops what it makes old.
LEMMA CommitKeepsCaches ==
    ASSUME SInv, CInv, NEW w \in Writers, stage[w] = "read", NEW order, Commits(w, order),
           Contains(order, "rules"),
           Contains(order, "words") \/ InForce(rules') = InForce(rules) \/ terms' = terms
    PROVE  CInv'
<1>. DEFINE changed(c) == IF c = "rules" THEN InForce(rules) # InForce(rules')
                                         ELSE Spotted(terms) # Spotted(terms')
            marks(p, c) == /\ cache[p][c] # Nothing /\ changed(c)
                           /\ \/ p # RunsIn[w]
                              \/ InForce(rules) = InForce(rules') /\ ~Contains(order, c)
<1>1. due[w] = <<>> /\ due' = [due EXCEPT ![w] = order]
  BY DEF Commits, SInv, HasRead
<1>2. due \in [Writers -> Seq(Caches)]
  BY DEF SInv, TypeOK
<1>3. due'[w] = order /\ \A v \in Writers \ {w} : due'[v] = due[v]
  BY <1>1, <1>2
<1>4. cache' = [p \in Processes |-> [c \in Caches |->
         IF marks(p, c) THEN [cache[p][c] EXCEPT !.overtaken = TRUE] ELSE cache[p][c]]]
  BY DEF Commits
<1>5. load' = [l \in Loaders |->
         IF load[l] # Nothing /\ changed(load[l].of)
         THEN [load[l] EXCEPT !.overtaken = TRUE] ELSE load[l]]
  BY DEF Commits
<1>6. \A c : Current(c) = IF c = "rules" THEN InForce(rules) ELSE Spotted(terms)
  BY DEF Current
<1>. DEFINE now(c) == IF c = "rules" THEN InForce(rules') ELSE Spotted(terms')
<1>7. \A c : changed(c) <=> now(c) # Current(c)
  BY <1>6
<1>8. ASSUME NEW p \in Processes, NEW c \in Caches, cache'[p][c] # Nothing
      PROVE  /\ cache'[p][c] = [value |-> cache'[p][c].value, overtaken |-> cache'[p][c].overtaken]
             /\ \/ cache'[p][c].value = now(c)
                \/ cache'[p][c].overtaken = TRUE
                \/ \E v \in Writers : RunsIn[v] = p /\ Contains(due'[v], c)
  <2>1. cache'[p][c] = IF marks(p, c) THEN [cache[p][c] EXCEPT !.overtaken = TRUE] ELSE cache[p][c]
    BY <1>4
  <2>2. cache[p][c] # Nothing
    BY <1>8, <2>1
  <2>3. /\ cache[p][c] = [value |-> cache[p][c].value, overtaken |-> cache[p][c].overtaken]
        /\ \/ cache[p][c].value = Current(c)
           \/ cache[p][c].overtaken = TRUE
           \/ \E v \in Writers : RunsIn[v] = p /\ Contains(due[v], c)
    BY <2>2 DEF CInv
  <2>. HIDE DEF marks, changed, now
  <2>4. CASE marks(p, c)
    <3>1. cache'[p][c] = [value |-> cache[p][c].value, overtaken |-> TRUE]
      BY <2>1, <2>3, <2>4
    <3>2. QED
      BY <3>1
  <2>5. CASE ~marks(p, c)
    <3>1. cache'[p][c] = cache[p][c]
      BY <2>1, <2>5
    <3>2. CASE cache[p][c].overtaken = TRUE
      BY <2>3, <3>1, <3>2
    <3>3. CASE \E v \in Writers : RunsIn[v] = p /\ Contains(due[v], c)
      <4>1. PICK v \in Writers : RunsIn[v] = p /\ Contains(due[v], c)
        BY <3>3
      <4>2. v # w
        BY <1>1, <4>1 DEF Contains
      <4>3. RunsIn[v] = p /\ Contains(due'[v], c)
        BY <1>3, <4>1, <4>2
      <4>4. QED
        BY <2>3, <3>1, <4>3
    <3>4. CASE cache[p][c].value = Current(c) /\ ~changed(c)
      BY <1>7, <2>3, <3>1, <3>4
    <3>5. CASE changed(c)
      <4>1. p = RunsIn[w] /\ (InForce(rules) # InForce(rules') \/ Contains(order, c))
        BY <2>2, <2>5, <3>5 DEF marks
      <4>2. c = "rules" \/ (c = "words" /\ terms' # terms)
        BY <3>5 DEF Caches, changed
      <4>3. Contains(order, c)
        BY <4>1, <4>2
      <4>4. QED
        BY <1>3, <2>3, <3>1, <4>1, <4>3
    <3>6. QED
      BY <2>3, <3>2, <3>3, <3>4, <3>5
  <2>6. QED
    BY <2>4, <2>5
<1>9. ASSUME NEW l \in Loaders, load'[l] # Nothing
      PROVE  /\ load'[l] = [of |-> load'[l].of, value |-> load'[l].value,
                            overtaken |-> load'[l].overtaken]
             /\ load'[l].of \in Caches
             /\ load'[l].value = now(load'[l].of) \/ load'[l].overtaken = TRUE
  <2>1. load'[l] = IF load[l] # Nothing /\ changed(load[l].of)
                   THEN [load[l] EXCEPT !.overtaken = TRUE] ELSE load[l]
    BY <1>5
  <2>2. load[l] # Nothing
    BY <1>9, <2>1
  <2>3. /\ load[l] = [of |-> load[l].of, value |-> load[l].value, overtaken |-> load[l].overtaken]
        /\ load[l].of \in Caches
        /\ load[l].value = Current(load[l].of) \/ load[l].overtaken = TRUE
    BY <2>2 DEF CInv
  <2>. HIDE DEF changed, now
  <2>4. CASE changed(load[l].of)
    <3>1. load'[l] = [of |-> load[l].of, value |-> load[l].value, overtaken |-> TRUE]
      BY <2>1, <2>2, <2>3, <2>4
    <3>2. QED
      BY <2>3, <3>1
  <2>5. CASE ~changed(load[l].of)
    <3>1. load'[l] = load[l]
      BY <2>1, <2>5
    <3>2. QED
      BY <1>7, <2>3, <2>5, <3>1
  <2>6. QED
    BY <2>4, <2>5
<1>10. /\ cache' = [p \in Processes |-> [c \in Caches |-> cache'[p][c]]]
       /\ load' = [l \in Loaders |-> load'[l]]
  BY <1>4, <1>5
<1>. HIDE DEF changed, marks
<1>11. /\ \A p \in Processes, c \in Caches : cache'[p][c] # Nothing =>
             /\ cache'[p][c] = [value |-> cache'[p][c].value, overtaken |-> cache'[p][c].overtaken]
             /\ \/ cache'[p][c].value = now(c)
                \/ cache'[p][c].overtaken = TRUE
                \/ \E v \in Writers : RunsIn[v] = p /\ Contains(due'[v], c)
       /\ \A l \in Loaders : load'[l] # Nothing =>
             /\ load'[l] = [of |-> load'[l].of, value |-> load'[l].value,
                           overtaken |-> load'[l].overtaken]
             /\ load'[l].of \in Caches
             /\ load'[l].value = now(load'[l].of) \/ load'[l].overtaken = TRUE
  <2>. HIDE DEF now
  <2>1. QED
    BY <1>8, <1>9
<1>12. QED
  BY <1>10, <1>11 DEF CInv, Current

\* An update that says it changed nothing of the conditions changed no rule in force.
LEMMA UnmutatedKeepsRules ==
    ASSUME SInv, NEW w \in Writers, Update(w), ~Updated(w).mutated
    PROVE  InForce(rules') = InForce(rules)
<1>. DEFINE r == Rule(w)
            up == Updated(w)
            was == read[w].row
<1>1. /\ stage[w] = "read" /\ Asks(w, "update")
      /\ rules' = [rules EXCEPT
            ![r].cond = Column(was.cond, up.cond, @),
            ![r].mode = Column(was.mode, up.mode, @),
            ![r].embedded = IF up.mutated THEN up.cond ELSE @]
  BY DEF Update
<1>2. TypeOK /\ HasRead(w)
  BY <1>1 DEF SInv
<1>3. r \in There /\ r \in Rules /\ rules[r] \in Row /\ DOMAIN rules = Rules
  BY <1>1, <1>2 DEF HasRead, There, TypeOK
<1>4. up.cond = was.cond
  BY <1>1, UpdatedIsWhole
<1>5. rules'[r] # Nothing /\ \A q \in Rules \ {r} : rules'[q] = rules[q]
  BY <1>1, UpdateWrites DEF Writes
<1>. HIDE DEF r, up, was
<1>6. rules'[r].cond = Column(was.cond, up.cond, rules[r].cond) /\ rules'[r].live = rules[r].live
  BY <1>1, <1>3 DEF Row
<1>7. rules'[r].cond = rules[r].cond /\ rules[r] # Nothing
  BY <1>3, <1>4, <1>6 DEF Column, There
<1>8. \A q \in Rules : /\ rules'[q] # Nothing /\ rules'[q].live <=> rules[q] # Nothing /\ rules[q].live
                       /\ rules'[q].cond = rules[q].cond
  BY <1>5, <1>6, <1>7
<1>9. QED
  BY <1>8 DEF InForce

Table(C) == C = [p \in Processes |-> [c \in Caches |-> C[p][c]]]

Sets(C, D, q, k, e) == D = [C EXCEPT ![q][k] = e]

\* One entry is set, the others stay.
LEMMA EntrySet ==
    ASSUME NEW C, Table(C), NEW q \in Processes, NEW k \in Caches, NEW e,
           NEW D, Sets(C, D, q, k, e)
    PROVE  /\ Table(D)
           /\ \A p \in Processes, c \in Caches :
                 D[p][c] = IF p = q /\ c = k THEN e ELSE C[p][c]
<1>. DEFINE row == [C[q] EXCEPT ![k] = e]
<1>1. DOMAIN C = Processes
  BY DEF Table
<1>2. \A p \in Processes : C[p] = [c \in Caches |-> C[p][c]]
  BY DEF Table
<1>3. row = [c \in Caches |-> IF c = k THEN e ELSE C[q][c]]
  BY <1>2
<1>4. D = [C EXCEPT ![q] = row]
  BY DEF Sets
<1>. HIDE DEF row
<1>5. D = [p \in Processes |-> IF p = q THEN row ELSE C[p]]
  BY <1>1, <1>4
<1>6. \A p \in Processes : D[p] = [c \in Caches |-> IF p = q /\ c = k THEN e ELSE C[p][c]]
  BY <1>2, <1>3, <1>5
<1>7. \A p \in Processes : D[p] = [c \in Caches |-> D[p][c]]
  BY <1>6
<1>8. D = [p \in Processes |-> D[p]]
  BY <1>5
<1>9. QED
  BY <1>6, <1>7, <1>8 DEF Table

\* A step that leaves the tables has to leave entries and loads that are worth as much.
LEMMA CachesFounded ==
    ASSUME rules' = rules, terms' = terms,
           Table(cache'), load' = [l \in Loaders |-> load'[l]],
           \A p \in Processes, c \in Caches : cache'[p][c] # Nothing =>
              /\ cache'[p][c] = [value |-> cache'[p][c].value, overtaken |-> cache'[p][c].overtaken]
              /\ \/ cache'[p][c].value = Current(c)
                 \/ cache'[p][c].overtaken = TRUE
                 \/ \E w \in Writers : RunsIn[w] = p /\ Contains(due'[w], c),
           CInv, \A l \in Loaders : load'[l] \in {Nothing, load[l]}
    PROVE  CInv'
<1>. DEFINE now(c) == IF c = "rules" THEN InForce(rules') ELSE Spotted(terms')
<1>1. \A c : now(c) = Current(c)
  BY DEF Current
<1>. HIDE DEF now
<1>2. \A p \in Processes, c \in Caches : cache'[p][c] # Nothing =>
         /\ cache'[p][c] = [value |-> cache'[p][c].value, overtaken |-> cache'[p][c].overtaken]
         /\ \/ cache'[p][c].value = now(c)
            \/ cache'[p][c].overtaken = TRUE
            \/ \E w \in Writers : RunsIn[w] = p /\ Contains(due'[w], c)
  BY <1>1
<1>3. ASSUME NEW l \in Loaders, load'[l] # Nothing
      PROVE  /\ load'[l] = [of |-> load'[l].of, value |-> load'[l].value,
                            overtaken |-> load'[l].overtaken]
             /\ load'[l].of \in Caches
             /\ load'[l].value = now(load'[l].of) \/ load'[l].overtaken = TRUE
  <2>1. load'[l] = load[l] /\ load[l] # Nothing
    BY <1>3
  <2>2. /\ load[l] = [of |-> load[l].of, value |-> load[l].value, overtaken |-> load[l].overtaken]
        /\ load[l].of \in Caches
        /\ load[l].value = Current(load[l].of) \/ load[l].overtaken = TRUE
    BY <2>1 DEF CInv
  <2>3. QED
    BY <1>1, <2>1, <2>2
<1>4. \A l \in Loaders : load'[l] # Nothing =>
         /\ load'[l] = [of |-> load'[l].of, value |-> load'[l].value, overtaken |-> load'[l].overtaken]
         /\ load'[l].of \in Caches
         /\ load'[l].value = now(load'[l].of) \/ load'[l].overtaken = TRUE
  BY <1>3
<1>5. cache' = [p \in Processes |-> [c \in Caches |-> cache'[p][c]]]
  BY DEF Table
<1>6. QED
  BY <1>2, <1>4, <1>5 DEF CInv, Current, now

\* Every step keeps what entries and loads that are not marked are worth.
LEMMA StepKeepsCaches ==
    ASSUME SInv, CInv, [Next]_vars PROVE CInv'
<1>1. TypeOK /\ RunsIn \in [Writers \cup Loaders -> Processes]
  BY ConstantsAssumption DEF SInv
<1>0. Table(cache)
  BY DEF CInv, Table
<1>2. ASSUME NEW w \in Writers, Create(w) PROVE CInv'
  <2>. DEFINE order == IF Asks(w, "create") THEN <<"rules", "words">> ELSE <<"words", "rules">>
  <2>1. stage[w] = "read" /\ Commits(w, order)
    BY <1>2 DEF Create
  <2>2. \A c \in Caches : /\ \E i \in 1..2 : <<"rules", "words">>[i] = c
                          /\ \E i \in 1..2 : <<"words", "rules">>[i] = c
    <3>1. 1 \in 1..2 /\ 2 \in 1..2
      OBVIOUS
    <3>2. /\ <<"rules", "words">>[1] = "rules" /\ <<"rules", "words">>[2] = "words"
          /\ <<"words", "rules">>[1] = "words" /\ <<"words", "rules">>[2] = "rules"
      OBVIOUS
    <3>3. QED
      BY <3>1, <3>2 DEF Caches
  <2>3. Contains(<<"rules", "words">>, "rules") /\ Contains(<<"rules", "words">>, "words")
    BY <2>2 DEF Contains, Caches
  <2>4. Contains(<<"words", "rules">>, "rules") /\ Contains(<<"words", "rules">>, "words")
    BY <2>2 DEF Contains, Caches
  <2>5. Contains(order, "rules") /\ Contains(order, "words")
    BY <2>3, <2>4
  <2>. HIDE DEF order
  <2>6. QED
    BY <2>1, <2>5, CommitKeepsCaches
<1>3. ASSUME NEW w \in Writers, Update(w) PROVE CInv'
  <2>. DEFINE up == Updated(w)
              order == Drops(up.mutated)
  <2>1. stage[w] = "read" /\ Commits(w, order)
    BY <1>3 DEF Update
  <2>2. 1 \in 1..2 /\ 2 \in 1..2 /\ 1 \in 1..1
    OBVIOUS
  <2>3. /\ Contains(<<"rules", "words">>, "rules") /\ Contains(<<"rules", "words">>, "words")
        /\ Contains(<<"rules">>, "rules")
    BY <2>2 DEF Contains
  <2>4. Contains(order, "rules") /\ (up.mutated => Contains(order, "words"))
    BY <2>3 DEF Drops
  <2>5. ~up.mutated => InForce(rules') = InForce(rules)
    BY <1>3, UnmutatedKeepsRules
  <2>. HIDE DEF order, up
  <2>6. QED
    BY <2>1, <2>4, <2>5, CommitKeepsCaches
<1>4. ASSUME NEW w \in Writers, Delete(w) PROVE CInv'
  <2>1. stage[w] = "read" /\ Commits(w, <<"rules">>) /\ terms' = terms
    BY <1>4 DEF Delete
  <2>2. 1 \in 1..1
    OBVIOUS
  <2>3. Contains(<<"rules">>, "rules")
    BY <2>2 DEF Contains
  <2>4. QED
    BY <2>1, <2>3, CommitKeepsCaches
<1>5. ASSUME NEW w \in Writers, Invalidate(w) PROVE CInv'
  <2>. DEFINE s == due[w]
  <2>1. /\ s # <<>> /\ due' = [due EXCEPT ![w] = Tail(s)]
        /\ cache' = [cache EXCEPT ![RunsIn[w]][Head(s)] = Nothing]
        /\ rules' = rules /\ terms' = terms /\ load' = load
    BY <1>5 DEF Invalidate, tables
  <2>2. s \in Seq(Caches) /\ due \in [Writers -> Seq(Caches)]
    BY <1>1 DEF TypeOK
  <2>. HIDE DEF s
  <2>3. /\ Len(s) \in Nat /\ Len(s) > 0 /\ Head(s) = s[1] /\ Head(s) \in Caches
        /\ Len(Tail(s)) = Len(s) - 1
        /\ \A i \in 1..Len(Tail(s)) : Tail(s)[i] = s[i + 1]
    <3>1. Len(s) \in Nat /\ Len(s) # 0
      BY <2>1, <2>2, EmptySeq, LenProperties
    <3>2. Head(s) = s[1] /\ Head(s) \in Caches
      BY <2>1, <2>2, HeadTailProperties
    <3>3. Len(Tail(s)) = Len(s) - 1 /\ \A i \in 1..Len(Tail(s)) : Tail(s)[i] = s[i + 1]
      BY <2>1, <2>2, HeadTailProperties
    <3>4. QED
      BY <3>1, <3>2, <3>3
  <2>4. ASSUME NEW c \in Caches, Contains(s, c), c # Head(s) PROVE Contains(Tail(s), c)
    <3>1. PICK i \in 1..Len(s) : s[i] = c
      BY <2>4 DEF Contains
    <3>2. i # 1
      BY <2>3, <2>4, <3>1
    <3>3. i - 1 \in 1..Len(Tail(s)) /\ Tail(s)[i - 1] = c
      BY <2>3, <3>1, <3>2
    <3>4. QED
      BY <3>3 DEF Contains
  <2>5. due'[w] = Tail(s) /\ \A v \in Writers \ {w} : due'[v] = due[v]
    BY <2>1, <2>2
  <2>6. RunsIn[w] \in Processes /\ Head(s) \in Caches
    BY <1>1, <2>3
  <2>7. /\ \A p \in Processes, c \in Caches :
              cache'[p][c] = IF p = RunsIn[w] /\ c = Head(s) THEN Nothing ELSE cache[p][c]
        /\ Table(cache')
    <3>1. Sets(cache, cache', RunsIn[w], Head(s), Nothing)
      BY <2>1 DEF Sets
    <3>2. QED
      BY <1>0, <2>6, <3>1, EntrySet
  <2>8. ASSUME NEW p \in Processes, NEW c \in Caches, cache'[p][c] # Nothing,
               NEW v \in Writers, RunsIn[v] = p, Contains(due[v], c)
        PROVE  Contains(due'[v], c)
    <3>1. CASE v # w
      BY <2>5, <2>8, <3>1
    <3>2. CASE v = w
      <4>1. c # Head(s)
        BY <2>7, <2>8, <3>2
      <4>2. QED
        BY <2>4, <2>5, <2>8, <3>2, <4>1 DEF s
    <3>3. QED
      BY <3>1, <3>2
  <2>9. \A p \in Processes, c \in Caches : cache'[p][c] # Nothing => cache'[p][c] = cache[p][c]
    BY <2>7
  <2>10. ASSUME NEW p \in Processes, NEW c \in Caches, cache'[p][c] # Nothing
         PROVE  /\ cache'[p][c] = [value |-> cache'[p][c].value, overtaken |-> cache'[p][c].overtaken]
                /\ \/ cache'[p][c].value = Current(c)
                   \/ cache'[p][c].overtaken = TRUE
                   \/ \E v \in Writers : RunsIn[v] = p /\ Contains(due'[v], c)
    <3>1. cache[p][c] # Nothing /\ cache'[p][c] = cache[p][c]
      BY <2>9, <2>10
    <3>2. /\ cache[p][c] = [value |-> cache[p][c].value, overtaken |-> cache[p][c].overtaken]
          /\ \/ cache[p][c].value = Current(c)
             \/ cache[p][c].overtaken = TRUE
             \/ \E v \in Writers : RunsIn[v] = p /\ Contains(due[v], c)
      BY <3>1 DEF CInv
    <3>3. \A v \in Writers : RunsIn[v] = p /\ Contains(due[v], c) => Contains(due'[v], c)
      BY <2>8, <2>10
    <3>4. QED
      BY <3>1, <3>2, <3>3
  <2>11. load' = [l \in Loaders |-> load'[l]] /\ \A l \in Loaders : load'[l] \in {Nothing, load[l]}
    BY <2>1 DEF CInv
  <2>12. QED
    BY <2>1, <2>7, <2>10, <2>11, CachesFounded
<1>6. ASSUME NEW l \in Loaders, Miss(l) PROVE CInv'
  <2>1. PICK k \in Caches :
           load' = [load EXCEPT ![l] = [of |-> k, value |-> Current(k), overtaken |-> FALSE]]
    BY <1>6 DEF Miss
  <2>2. rules' = rules /\ terms' = terms /\ cache' = cache /\ due' = due
    BY <1>6 DEF Miss, tables
  <2>. DEFINE new == [of |-> k, value |-> Current(k), overtaken |-> FALSE]
  <2>3. new.of = k /\ new.value = Current(k)
        /\ new = [of |-> new.of, value |-> new.value, overtaken |-> new.overtaken]
    OBVIOUS
  <2>4. load' = [load EXCEPT ![l] = new]
    BY <2>1
  <2>. HIDE DEF new
  <2>5. load' = [m \in Loaders |-> load'[m]] /\ \A m \in Loaders : load'[m] = IF m = l THEN new ELSE load[m]
    BY <2>4 DEF CInv
  <2>6. QED
    BY <2>2, <2>3, <2>5 DEF CInv, Current
<1>7. ASSUME NEW l \in Loaders, Fill(l) PROVE CInv'
  <2>. DEFINE q == RunsIn[l]
              k == load[l].of
              new == [value |-> load[l].value, overtaken |-> load[l].overtaken]
  <2>1. /\ load[l] # Nothing /\ cache' = [cache EXCEPT ![q][k] = new]
        /\ load' = [load EXCEPT ![l] = Nothing]
        /\ rules' = rules /\ terms' = terms /\ due' = due
    BY <1>7 DEF Fill, tables
  <2>2. k \in Caches /\ (new.value = Current(k) \/ new.overtaken = TRUE) /\ q \in Processes
        /\ new = [value |-> new.value, overtaken |-> new.overtaken]
    BY <1>1, <2>1 DEF CInv
  <2>. HIDE DEF new, k, q
  <2>3. /\ Table(cache')
        /\ \A p \in Processes, c \in Caches :
              cache'[p][c] = IF p = q /\ c = k THEN new ELSE cache[p][c]
    <3>1. Sets(cache, cache', q, k, new)
      BY <2>1 DEF Sets
    <3>2. QED
      BY <1>0, <2>2, <3>1, EntrySet
  <2>4. load' = [m \in Loaders |-> load'[m]] /\ \A m \in Loaders : load'[m] \in {Nothing, load[m]}
    BY <2>1 DEF CInv
  <2>5. ASSUME NEW p \in Processes, NEW c \in Caches, cache'[p][c] # Nothing
        PROVE  /\ cache'[p][c] = [value |-> cache'[p][c].value, overtaken |-> cache'[p][c].overtaken]
               /\ \/ cache'[p][c].value = Current(c)
                  \/ cache'[p][c].overtaken = TRUE
                  \/ \E v \in Writers : RunsIn[v] = p /\ Contains(due[v], c)
    <3>1. CASE p = q /\ c = k
      BY <2>2, <2>3, <3>1
    <3>2. CASE ~(p = q /\ c = k)
      <4>1. cache'[p][c] = cache[p][c]
        BY <2>3, <3>2
      <4>2. QED
        BY <2>5, <4>1 DEF CInv
    <3>3. QED
      BY <3>1, <3>2
  <2>6. \A p \in Processes, c \in Caches : cache'[p][c] # Nothing =>
           /\ cache'[p][c] = [value |-> cache'[p][c].value, overtaken |-> cache'[p][c].overtaken]
           /\ \/ cache'[p][c].value = Current(c)
              \/ cache'[p][c].overtaken = TRUE
              \/ \E v \in Writers : RunsIn[v] = p /\ Contains(due'[v], c)
    BY <2>1, <2>5
  <2>7. QED
    BY <2>1, <2>3, <2>4, <2>6, CachesFounded
<1>8. ASSUME NEW p \in Processes, NEW c \in Caches, Expire(p, c) PROVE CInv'
  <2>1. /\ cache' = [cache EXCEPT ![p][c] = Nothing]
        /\ rules' = rules /\ terms' = terms /\ due' = due /\ load' = load
    BY <1>8 DEF Expire, tables
  <2>2. /\ Table(cache')
        /\ \A q \in Processes, k \in Caches : cache'[q][k] \in {Nothing, cache[q][k]}
    <3>1. Sets(cache, cache', p, c, Nothing)
      BY <2>1 DEF Sets
    <3>2. QED
      BY <1>0, <1>8, <3>1, EntrySet
  <2>3. QED
    BY <2>1, <2>2 DEF CInv, Current, Table
<1>9. ASSUME UNCHANGED <<rules, terms, due, cache, load>> PROVE CInv'
  BY <1>9 DEF CInv, Current
<1>10. ASSUME NEW w \in Writers, Read(w) \/ Fails(w) PROVE CInv'
  BY <1>9, <1>10 DEF Read, Fails, tables
<1>11. ASSUME UNCHANGED vars PROVE CInv'
  BY <1>9, <1>11 DEF vars, tables
<1>12. ASSUME NEW e \in Embedders, LoadRules(e) \/ ForgetRules(e) PROVE CInv'
  BY <1>9, <1>12, LookKeepsShape DEF tables
<1>13. ASSUME NEW e \in Embedders, Embed(e) PROVE CInv'
  <2>1. InForce(rules') = InForce(rules)
    BY <1>13, EmbedWrites
  <2>2. terms' = terms /\ due' = due /\ cache' = cache /\ load' = load
    BY <1>13 DEF Embed
  <2>3. QED
    BY <2>1, <2>2 DEF CInv, Current
<1>14. QED
  BY <1>2, <1>3, <1>4, <1>5, <1>6, <1>7, <1>8, <1>10, <1>11, <1>12, <1>13 DEF Next, Request

\* A cache serves what is no longer so only when a request of its process has still to drop
\* it or a commit has overtaken it (CachesStaleOnlyByRace): every handler's order of drops
\* covers what its commit made old, and the drops may mix with each other, with loads on
\* their way and with entries that expire.
THEOREM StaleCachesAreExplained == Spec => []CachesStaleOnlyByRace
<1>1. Init => SInv /\ CInv
  <2>1. ASSUME Init PROVE CInv
    <3>1. cache = [p \in Processes |-> [c \in Caches |-> Nothing]] /\ load = [l \in Loaders |-> Nothing]
      BY <2>1 DEF Init
    <3>2. QED
      BY <3>1 DEF CInv
  <2>2. QED
    BY <2>1, InitShape
<1>2. SInv /\ CInv /\ [Next]_vars => SInv' /\ CInv'
  BY StepKeepsShape, StepKeepsCaches
<1>3. CInv => CachesStaleOnlyByRace
  BY DEF CInv, CachesStaleOnlyByRace
<1>4. QED
  BY <1>1, <1>2, <1>3, PTL DEF Spec
=============================================================================
