--------------------- MODULE SuggestionLifecycleProofs ---------------------
(***************************************************************************)
(* An applied suggestion has its rule, for every number of workers,         *)
(* suggestions, rules and versions.                                        *)
(*                                                                         *)
(* AppliedHasRule is not inductive: an application writes the result next to *)
(* what has been committed since it read, and only where the result differs  *)
(* from what it read.  So the rule that a pending application has read as the *)
(* row's result must exist (it then differs from the one about to be made),  *)
(* and a result stays with its row whatever the status becomes.             *)
(***************************************************************************)
EXTENDS SuggestionLifecycle, TLAPS

Kinds == {"edit", "confirm", "reject", "apply"}

\* What a worker can be doing.
Generating == [at: {"vet", "write"}, kind: {"generate"}, draft: Drafts, prompt: Prompts]
Changing == [at: {"vet", "write"}, kind: Kinds, on: Suggestions, row: Row,
             draft: Drafts, reloaded: BOOLEAN, overtaken: BOOLEAN]
Looking == [at: {"expire"}, kind: {"look"}, victim: Suggestions, overtaken: BOOLEAN]
Clearing == [at: {"expire"}, kind: {"twin"}, victim: Suggestions, overtaken: BOOLEAN,
             then: Generating \cup Changing]

Requests == {Idle} \cup Generating \cup Changing \cup Looking \cup Clearing

\* A change has read its row; what an application has read as the rule made
\* by an earlier one is there.
Grounds(q, rows, made) ==
    /\ rows[q.on] \in Row
    /\ q.kind = "apply" => /\ q.row.status = "approved"
                           /\ q.row.result # Nothing => made[q.row.result] \in Rule

Grounded(q, rows, made) ==
    /\ q \in Changing => Grounds(q, rows, made)
    /\ q \in Looking \cup Clearing => rows[q.victim] \in Row
    /\ q \in Clearing /\ q.then \in Changing =>
          q.then.kind = "edit" /\ Grounds(q.then, rows, made)

\* The result of a row is a rule that was made from it; an applied row has one.
HasResult(row, s, made) ==
    /\ row.status = "applied" => row.result # Nothing
    /\ row.result # Nothing => /\ made[row.result] \in Rule
                               /\ made[row.result].from = s

SugType == sug \in [Suggestions -> Row \cup {Nothing}]
RulesType == rules \in [RuleIds -> Rule \cup {Nothing}]
OldThere == \A s \in old : s \in Suggestions /\ sug[s] \in Row
ReqType == req \in [Workers -> Requests]
ReqGrounded == \A w \in Workers : Grounded(req[w], sug, rules)
ResultsMade == \A s \in Suggestions : sug[s] \in Row => HasResult(sug[s], s, rules)

IInv == SugType /\ RulesType /\ OldThere /\ ReqType /\ ReqGrounded /\ ResultsMade

\* No row is lost and no rule changes its origin.
RowsKept == \A s \in Suggestions : sug[s] \in Row => sug'[s] \in Row
RulesKept ==
    \A r \in RuleIds : rules[r] \in Rule =>
        rules'[r] \in Rule /\ rules'[r].from = rules[r].from

-----------------------------------------------------------------------------
\* What an UPDATE of the row makes of the fields that matter here.
SavedAs(new, row, now, status, d, result) ==
    /\ new \in Row
    /\ new.version = row.version + 1
    /\ new.status = Kept(row.status, status, now.status)
    /\ new.draft = Kept(row.draft, d, now.draft)
    /\ new.result = Kept(row.result, result, now.result)

LEMMA SavedRow ==
    ASSUME NEW w, NEW status \in Statuses, NEW d \in Drafts,
           NEW body \in Bodies, NEW result \in RuleIds \cup {Nothing},
           NEW row \in Row, NEW now \in Row, row = req[w].row, now = sug[req[w].on],
           NEW new, new = Saved(w, status, d, body, result)
    PROVE  SavedAs(new, row, now, status, d, result)
<1>1. new = [now EXCEPT !.version = row.version + 1,
                        !.status = Kept(row.status, status, now.status),
                        !.draft = Kept(row.draft, d, now.draft),
                        !.body = Kept(row.body, body, now.body),
                        !.result = Kept(row.result, result, now.result)]
  BY DEF Saved, Row
<1>2. /\ row.version + 1 \in Nat \ {0}
      /\ Kept(row.status, status, now.status) \in Statuses
      /\ Kept(row.draft, d, now.draft) \in Drafts
      /\ Kept(row.body, body, now.body) \in Bodies
      /\ Kept(row.result, result, now.result) \in RuleIds \cup {Nothing}
  BY DEF Row, Kept
<1>3. QED
  BY <1>1, <1>2 DEF Row, SavedAs

-----------------------------------------------------------------------------
\* What a worker relies on stays, whatever is written.
LEMMA GroundedKept ==
    ASSUME NEW q \in Requests, Grounded(q, sug, rules), RowsKept, RulesKept
    PROVE  Grounded(q, sug', rules')
<1>1. ASSUME NEW c \in Changing, Grounds(c, sug, rules) PROVE Grounds(c, sug', rules')
  <2>1. c.on \in Suggestions /\ c.row.result \in RuleIds \cup {Nothing}
    BY DEF Changing, Row
  <2>2. QED
    BY <1>1, <2>1 DEF Grounds, RowsKept, RulesKept
<1>2. ASSUME q \in Looking \cup Clearing PROVE sug'[q.victim] \in Row
  BY <1>2 DEF Grounded, Looking, Clearing, RowsKept
<1>3. QED
  BY <1>1, <1>2 DEF Grounded

\* A step of w that leaves the tables alone.
LEMMA OnlyRequest ==
    ASSUME IInv, NEW w \in Workers, NEW next \in Requests, Grounded(next, sug, rules),
           req' = [req EXCEPT ![w] = next], UNCHANGED <<sug, old, rules>>
    PROVE  IInv'
<1>1. ReqType'
  BY DEF IInv, ReqType
<1>2. ReqGrounded'
  BY DEF IInv, ReqType, ReqGrounded
<1>3. QED
  BY <1>1, <1>2 DEF IInv, SugType, RulesType, OldThere, ResultsMade

\* The history of overtaking changes nothing a worker relies on.
LEMMA OvertakesKeeps ==
    ASSUME IInv, NEW w \in Workers, NEW s \in Suggestions, NEW next \in Requests,
           Overtakes(w, s, next), Grounded(next, sug', rules'), RowsKept, RulesKept
    PROVE  ReqType' /\ ReqGrounded'
<1>1. ASSUME NEW v \in Workers PROVE req'[v] \in Requests /\ Grounded(req'[v], sug', rules')
  <2>1. req[v] \in Requests /\ Grounded(req[v], sug', rules')
    BY GroundedKept DEF IInv, ReqType, ReqGrounded
  <2>2. CASE v = w
    BY <2>2 DEF Overtakes
  <2>3. CASE v # w /\ ~Touches(v, s)
    BY <2>1, <2>3 DEF Overtakes
  <2>4. CASE v # w /\ Touches(v, s) /\ req[v].at = "expire" /\ req[v].kind = "twin"
                                    /\ req[v].victim # s
    <3>1. req'[v] = [req[v] EXCEPT !.then = [req[v].then EXCEPT !.overtaken = TRUE]]
      BY <2>4 DEF Overtakes
    <3>2. req[v] \in Clearing
      BY <2>1, <2>4 DEF Requests, Idle, Generating, Changing, Looking
    <3>3. req[v].then \in Changing
      BY <2>4, <3>2 DEF Touches, Clearing, Generating
    <3> DEFINE c == [req[v].then EXCEPT !.overtaken = TRUE]
    <3>4. /\ c \in Changing
          /\ c.on = req[v].then.on /\ c.kind = req[v].then.kind
          /\ c.row = req[v].then.row
      BY <3>3 DEF Changing
    <3> HIDE DEF c
    <3>5. /\ req'[v] \in Clearing /\ req'[v].then = c
          /\ req'[v].victim = req[v].victim
      BY <3>1, <3>2, <3>4 DEF Clearing, c
    <3>6. req'[v] \notin Changing
      BY <3>5 DEF Clearing, Changing
    <3>7. c.kind = "edit" /\ Grounds(c, sug', rules')
      BY <2>1, <3>2, <3>3, <3>4 DEF Grounded, Grounds
    <3>8. sug'[req'[v].victim] \in Row
      BY <2>1, <3>2, <3>5 DEF Grounded
    <3>9. QED
      BY <3>5, <3>6, <3>7, <3>8 DEF Grounded, Requests
  <2>5. CASE v # w /\ Touches(v, s) /\ ~(req[v].at = "expire" /\ req[v].kind = "twin"
                                         /\ req[v].victim # s)
    <3>1. req'[v] = [req[v] EXCEPT !.overtaken = TRUE]
      BY <2>5 DEF Overtakes
    <3>2. req[v] \in Changing \cup Looking \cup Clearing
      BY <2>1, <2>5 DEF Touches, Requests, Idle, Generating
    <3>3. CASE req[v] \in Changing
      BY <2>1, <3>1, <3>3 DEF Changing, Looking, Clearing, Grounded, Grounds, Requests
    <3>4. CASE req[v] \in Looking
      BY <2>1, <3>1, <3>4 DEF Changing, Looking, Clearing, Grounded, Grounds, Requests
    <3>5. CASE req[v] \in Clearing
      <4>1. req'[v] \in Clearing /\ req'[v].then = req[v].then
                                /\ req'[v].victim = req[v].victim
        BY <3>1, <3>5 DEF Clearing
      <4>2. req'[v] \notin Changing
        BY <4>1 DEF Clearing, Changing
      <4>3. QED
        BY <2>1, <3>5, <4>1, <4>2 DEF Grounded, Requests
    <3>6. QED
      BY <3>2, <3>3, <3>4, <3>5
  <2>6. QED
    BY <2>2, <2>3, <2>4, <2>5
<1>2. req' = [v \in Workers |-> req'[v]]
  BY DEF Overtakes
<1>3. QED
  BY <1>1, <1>2 DEF ReqType, ReqGrounded

\* A commit that leaves the rows and their results whole.
LEMMA TablesKept ==
    ASSUME IInv, SugType', RulesType', RowsKept, ResultsMade', UNCHANGED old,
           ReqType', ReqGrounded'
    PROVE  IInv'
  BY DEF IInv, OldThere, RowsKept

\* An edit, a confirmation or a rejection: the result stays, and the status is
\* another than "applied" or the one there is.
LEMMA WritesKeep ==
    ASSUME IInv, NEW w \in Workers, req[w] \in Changing,
           NEW status \in Statuses, status # "applied" \/ status = req[w].row.status,
           NEW d \in Drafts, NEW body \in Bodies,
           Writes(w, status, d, body, req[w].row.result), UNCHANGED <<old, rules>>
    PROVE  IInv'
<1> DEFINE s == req[w].on
           new == Saved(w, status, d, body, req[w].row.result)
<1>1. /\ s \in Suggestions /\ sug[s] \in Row
      /\ req[w].row \in Row /\ req[w].row.result \in RuleIds \cup {Nothing}
  BY DEF Changing, Row, IInv, ReqGrounded, Grounded, Grounds
<1>2. /\ new \in Row
      /\ new.status = "applied" => new.status = sug[s].status
      /\ new.result = sug[s].result
  <2>1. SavedAs(new, req[w].row, sug[s], status, d, req[w].row.result)
    BY <1>1, SavedRow
  <2>2. QED
    BY <2>1 DEF Kept, SavedAs
<1> HIDE DEF new
<1>3. sug' = [sug EXCEPT ![s] = new] /\ Overtakes(w, s, Idle)
  BY DEF Writes, new
<1>4. SugType' /\ RowsKept /\ RulesKept /\ RulesType'
  BY <1>1, <1>2, <1>3 DEF IInv, SugType, RowsKept, RulesKept, RulesType
<1>5. ResultsMade'
  <2>1. HasResult(new, s, rules)
    BY <1>1, <1>2 DEF IInv, ResultsMade, HasResult
  <2>2. ASSUME NEW x \in Suggestions, sug'[x] \in Row
        PROVE  HasResult(sug'[x], x, rules)
    BY <1>3, <2>1, <2>2 DEF IInv, SugType, ResultsMade
  <2>3. QED
    BY <2>2 DEF ResultsMade
<1>6. Idle \in Requests /\ Grounded(Idle, sug', rules')
  BY DEF Idle, Requests, Grounded, Changing, Looking, Clearing
<1>7. ReqType' /\ ReqGrounded'
  BY <1>1, <1>3, <1>4, <1>6, OvertakesKeeps
<1>8. QED
  BY <1>4, <1>5, <1>7, TablesKept

\* The rule of an application is new, so that its id is written as the result.
LEMMA ApplicationKeeps ==
    ASSUME IInv, NEW w \in Workers, req[w] \in Changing, WriteApplication(w)
    PROVE  IInv'
<1> USE ConstantsAssumption
<1> DEFINE s == req[w].on
           row == req[w].row
           d == Canonical[row.draft]
<1>1. PICK r \in RuleIds \ Made :
          /\ rules' = [rules EXCEPT ![r] = [draft |-> d, from |-> s, live |-> TRUE]]
          /\ Applied(w, r)
  BY DEF WriteApplication
<1>2. /\ s \in Suggestions /\ sug[s] \in Row /\ row \in Row
      /\ row.status = "approved"
      /\ row.result # Nothing => rules[row.result] \in Rule
  BY DEF Changing, IInv, ReqGrounded, Grounded, Grounds, WriteApplication
<1>3. rules[r] = Nothing /\ r # Nothing /\ r # row.result
  BY <1>1, <1>2 DEF Made
<1> DEFINE new == Saved(w, "applied", row.draft, row.body, r)
<1>4. new \in Row /\ new.result = r
  <2>1. /\ "applied" \in Statuses /\ row.draft \in Drafts /\ row.body \in Bodies
        /\ r \in RuleIds \cup {Nothing}
    BY <1>1, <1>2 DEF Row, Statuses
  <2>2. SavedAs(new, row, sug[s], "applied", row.draft, r)
    BY <1>2, <2>1, SavedRow
  <2>3. QED
    BY <1>3, <2>2 DEF Kept, SavedAs
<1> HIDE DEF new
<1>5. sug' = [sug EXCEPT ![s] = new] /\ Overtakes(w, s, Idle)
  BY <1>1 DEF Applied, Writes, new
<1>6. [draft |-> d, from |-> s, live |-> TRUE] \in Rule
  BY <1>2 DEF Rule, Row
<1>7. SugType' /\ RowsKept /\ RulesKept /\ RulesType'
  BY <1>1, <1>2, <1>3, <1>4, <1>5, <1>6 DEF IInv, SugType, RowsKept, RulesKept, RulesType
<1>8. ResultsMade'
  <2>1. HasResult(new, s, rules')
    BY <1>1, <1>3, <1>4, <1>6 DEF IInv, RulesType, HasResult
  <2>2. ASSUME NEW x \in Suggestions \ {s}, sug'[x] \in Row
        PROVE  HasResult(sug'[x], x, rules')
    <3>1. sug'[x] = sug[x] /\ sug[x].result \in RuleIds \cup {Nothing}
      BY <1>5, <2>2 DEF IInv, SugType, Row
    <3>2. QED
      BY <1>7, <2>2, <3>1 DEF IInv, ResultsMade, HasResult, RulesKept
  <2>3. sug'[s] = new
    BY <1>2, <1>5 DEF IInv, SugType
  <2>4. QED
    BY <2>1, <2>2, <2>3 DEF ResultsMade
<1>9. Idle \in Requests /\ Grounded(Idle, sug', rules')
  BY DEF Idle, Requests, Grounded, Changing, Looking, Clearing
<1>10. ReqType' /\ ReqGrounded'
  BY <1>2, <1>5, <1>7, <1>9, OvertakesKeeps
<1>11. UNCHANGED old
  BY DEF WriteApplication
<1>12. QED
  BY <1>7, <1>8, <1>10, <1>11, TablesKept

\* The search for duplicates: what it expires is a row.
LEMMA SearchKeeps ==
    ASSUME IInv, NEW w \in Workers, NEW q,
           q \in Generating \/ (q \in Changing /\ q.kind = "edit"),
           Grounded(q, sug, rules), UNCHANGED <<sug, old, rules>>,
           FindOutdated(w, q) \/ VetDraft(w, q)
    PROVE  IInv'
<1>1. CASE FindOutdated(w, q)
  <2>1. PICK s \in Suggestions :
           /\ Outdated(s)
           /\ req' = [req EXCEPT ![w] = [at |-> "expire", victim |-> s, kind |-> "twin",
                                         overtaken |-> FALSE, then |-> q]]
    BY <1>1 DEF FindOutdated
  <2> DEFINE next == [at |-> "expire", victim |-> s, kind |-> "twin",
                      overtaken |-> FALSE, then |-> q]
  <2>2. sug[s] \in Row
    BY <2>1 DEF Outdated, IInv, OldThere
  <2>3. next \in Clearing /\ next.victim = s /\ next.then = q /\ next \notin Changing
    BY DEF Clearing, Changing
  <2>4. q \in Changing => q.kind = "edit" /\ Grounds(q, sug, rules)
    BY DEF Grounded, Generating, Changing
  <2>5. req' = [req EXCEPT ![w] = next]
    BY <2>1
  <2> HIDE DEF next
  <2>6. next \in Requests /\ Grounded(next, sug, rules)
    BY <2>2, <2>3, <2>4 DEF Requests, Grounded
  <2>7. QED
    BY <2>5, <2>6, OnlyRequest
<1>2. CASE VetDraft(w, q)
  <2> DEFINE next == IF q.kind = "edit" /\ q.reloaded
                     THEN [q EXCEPT !.at = "write", !.row = sug[q.on]]
                     ELSE [q EXCEPT !.at = "write"]
  <2>1. ASSUME q \in Generating PROVE next \in Requests /\ Grounded(next, sug, rules)
    <3>1. next \in Generating
      BY <2>1 DEF Generating
    <3>2. next \notin Changing \cup Looking \cup Clearing
      BY <3>1 DEF Generating, Changing, Looking, Clearing, Kinds
    <3> HIDE DEF next
    <3>3. QED
      BY <3>1, <3>2 DEF Requests, Grounded
  <2>2. ASSUME q \in Changing, q.kind = "edit"
        PROVE  next \in Requests /\ Grounded(next, sug, rules)
    <3>1. sug[q.on] \in Row
      BY <2>2 DEF Grounded, Grounds
    <3>2. next \in Changing /\ next.on = q.on /\ next.kind = "edit"
      BY <2>2, <3>1 DEF Changing
    <3>3. next \notin Looking \cup Clearing
      BY <3>2 DEF Changing, Looking, Clearing
    <3> HIDE DEF next
    <3>4. QED
      BY <3>1, <3>2, <3>3 DEF Requests, Grounded, Grounds
  <2>3. next \in Requests /\ Grounded(next, sug, rules)
    BY <2>1, <2>2
  <2>4. QED
    BY <1>2, <2>3, OnlyRequest DEF VetDraft
<1>3. QED
  BY <1>1, <1>2

LEMMA IdleGrounded == Idle \in Requests /\ \A rows, made : Grounded(Idle, rows, made)
  BY DEF Idle, Requests, Grounded, Changing, Looking, Clearing

\* What a request loads is a row, and an application loads an approved one.
LEMMA LoadKeeps ==
    ASSUME IInv, NEW w \in Workers, NEW s \in Suggestions, Load(w, s) PROVE IInv'
<1> USE ConstantsAssumption
<1>1. sug[s] \in Row
  BY DEF Load, There, IInv, SugType
<1>2. UNCHANGED <<sug, old, rules>>
  BY DEF Load
<1>3. CASE Outdated(s)
  <2> DEFINE next == [at |-> "expire", kind |-> "look", victim |-> s, overtaken |-> FALSE]
  <2>1. next \in Looking /\ next \notin Changing \cup Clearing
    BY DEF Looking, Changing, Clearing
  <2>2. next \in Requests /\ Grounded(next, sug, rules)
    BY <1>1, <2>1 DEF Requests, Grounded
  <2>3. req' = [req EXCEPT ![w] = next]
    BY <1>3 DEF Load
  <2>4. QED
    BY <1>2, <2>2, <2>3, OnlyRequest
<1>4. CASE ~Outdated(s)
  <2>1. PICK kind \in Kinds :
           /\ sug[s].status \in May(kind)
           /\ \E d \in IF kind = "edit" THEN {x \in Offered : KeyAllowed(x)}
                        ELSE {sug[s].draft} : Admitted(w, kind, s, d)
    BY <1>4 DEF Load, Kinds
  <2>2. PICK d \in Drafts : Admitted(w, kind, s, d)
    BY <1>1, <2>1 DEF Row
  <2> DEFINE next == [at |-> IF kind \in {"edit", "confirm"} THEN "vet" ELSE "write",
                      kind |-> kind, on |-> s, row |-> sug[s], draft |-> d,
                      reloaded |-> FALSE, overtaken |-> FALSE]
  <2>3. /\ next \in Changing /\ next \notin Looking \cup Clearing
        /\ next.on = s /\ next.kind = kind /\ next.row = sug[s]
    BY <1>1 DEF Changing, Looking, Clearing
  <2>4. kind = "apply" => /\ sug[s].status = "approved"
                          /\ sug[s].result # Nothing => rules[sug[s].result] \in Rule
    BY <1>1, <2>1 DEF May, IInv, ResultsMade, HasResult
  <2>5. req' = [req EXCEPT ![w] = next]
    BY <2>2 DEF Admitted
  <2> HIDE DEF next
  <2>6. next \in Requests /\ Grounded(next, sug, rules)
    BY <1>1, <2>3, <2>4 DEF Requests, Grounded, Grounds
  <2>7. QED
    BY <1>2, <2>5, <2>6, OnlyRequest
<1>5. QED
  BY <1>3, <1>4

\* Expiry writes a status that promises nothing.
LEMMA ExpireKeeps ==
    ASSUME IInv, NEW w \in Workers, Expire(w) PROVE IInv'
<1> DEFINE s == req[w].victim
           new == [sug[s] EXCEPT !.status = "expired"]
<1>1. req[w] \in Looking \cup Clearing
  BY DEF Expire, IInv, ReqType, Requests, Idle, Generating, Changing
<1>2. s \in Suggestions /\ sug[s] \in Row
  BY <1>1 DEF Looking, Clearing, IInv, ReqGrounded, Grounded
<1>3. new \in Row /\ new.status = "expired" /\ new.result = sug[s].result
  BY <1>2 DEF Row, Statuses
<1>4. sug' = [sug EXCEPT ![s] = new] /\ UNCHANGED <<old, rules>>
  BY DEF Expire
<1> HIDE DEF new
<1>5. SugType' /\ RowsKept /\ RulesKept /\ RulesType'
  BY <1>2, <1>3, <1>4 DEF IInv, SugType, RowsKept, RulesKept, RulesType
<1>6. ResultsMade'
  <2>1. HasResult(new, s, rules)
    BY <1>2, <1>3 DEF IInv, ResultsMade, HasResult
  <2>2. ASSUME NEW x \in Suggestions, sug'[x] \in Row
        PROVE  HasResult(sug'[x], x, rules)
    BY <1>4, <2>1, <2>2 DEF IInv, SugType, ResultsMade
  <2>3. QED
    BY <1>4, <2>2 DEF ResultsMade
<1> DEFINE next == IF req[w].kind = "look" THEN Idle
                   ELSE IF req[w].then.kind = "edit"
                        THEN [req[w].then EXCEPT !.reloaded = TRUE]
                        ELSE req[w].then
<1>7. next \in Requests /\ Grounded(next, sug', rules')
  <2>1. CASE req[w] \in Looking
    BY <2>1, IdleGrounded DEF Looking
  <2>2. CASE req[w] \in Clearing /\ req[w].then \in Generating
    <3>1. next = req[w].then
      BY <2>2 DEF Clearing, Generating
    <3>2. next \in Generating
      BY <2>2, <3>1
    <3>3. next \notin Changing \cup Looking \cup Clearing
      BY <3>2 DEF Generating, Changing, Looking, Clearing, Kinds
    <3> HIDE DEF next
    <3>4. QED
      BY <3>2, <3>3 DEF Requests, Grounded
  <2>3. CASE req[w] \in Clearing /\ req[w].then \in Changing
    <3>1. req[w].then.kind = "edit" /\ Grounds(req[w].then, sug, rules)
      BY <2>3 DEF IInv, ReqGrounded, Grounded
    <3>2. next \in Changing /\ next.kind = "edit" /\ next.on = req[w].then.on
      BY <2>3, <3>1 DEF Clearing, Changing
    <3>3. next \notin Looking \cup Clearing
      BY <3>2 DEF Changing, Looking, Clearing
    <3> HIDE DEF next
    <3>4. next.on \in Suggestions
      BY <3>2 DEF Changing
    <3>5. sug'[next.on] \in Row
      BY <1>5, <3>1, <3>2, <3>4 DEF Grounds, RowsKept
    <3>6. QED
      BY <3>2, <3>3, <3>5 DEF Requests, Grounded, Grounds
  <2>4. req[w] \in Clearing => req[w].then \in Generating \cup Changing
    BY DEF Clearing
  <2>5. QED
    BY <1>1, <2>1, <2>2, <2>3, <2>4
<1>8. Overtakes(w, s, next)
  BY DEF Expire
<1> HIDE DEF next
<1>9. ReqType' /\ ReqGrounded'
  BY <1>2, <1>5, <1>7, <1>8, OvertakesKeeps
<1>10. QED
  BY <1>4, <1>5, <1>6, <1>9, TablesKept

\* A generation inserts a draft without a result.
LEMMA InsertKeeps ==
    ASSUME IInv, NEW w \in Workers, WriteGenerated(w) PROVE IInv'
<1> DEFINE new == [status |-> "draft", version |-> 1, draft |-> req[w].draft,
                   body |-> Body[req[w].draft], prompt |-> req[w].prompt,
                   result |-> Nothing]
<1>1. req[w] \in Generating
  BY DEF WriteGenerated, IInv, ReqType, Requests, Idle, Changing, Looking, Clearing, Kinds
<1>2. new \in Row /\ new.status = "draft" /\ new.result = Nothing
  BY <1>1 DEF Generating, Row, Statuses, Bodies
<1>3. PICK i \in Suggestions \ There : sug' = [sug EXCEPT ![i] = new]
  BY DEF WriteGenerated
<1>4. req' = [req EXCEPT ![w] = Idle] /\ UNCHANGED <<old, rules>>
  BY DEF WriteGenerated
<1> HIDE DEF new
<1>5. SugType' /\ RowsKept /\ RulesKept /\ RulesType'
  BY <1>2, <1>3, <1>4 DEF IInv, SugType, RowsKept, RulesKept, RulesType
<1>6. ASSUME NEW x \in Suggestions, sug'[x] \in Row PROVE HasResult(sug'[x], x, rules)
  <2>1. CASE x = i
    BY <1>2, <1>3, <2>1 DEF IInv, SugType, HasResult
  <2>2. CASE x # i
    BY <1>3, <1>6, <2>2 DEF IInv, SugType, ResultsMade
  <2>3. QED
    BY <2>1, <2>2
<1>7. ResultsMade'
  BY <1>4, <1>6 DEF ResultsMade
<1>8. ASSUME NEW v \in Workers PROVE req'[v] \in Requests /\ Grounded(req'[v], sug', rules')
  <2>1. req[v] \in Requests /\ Grounded(req[v], sug', rules')
    BY <1>5, GroundedKept DEF IInv, ReqType, ReqGrounded
  <2>2. QED
    BY <1>4, <2>1, IdleGrounded DEF IInv, ReqType
<1>9. ReqType' /\ ReqGrounded'
  BY <1>4, <1>8 DEF IInv, ReqType, ReqGrounded
<1>10. QED
  BY <1>4, <1>5, <1>7, <1>9, TablesKept

\* A deletion leaves the rule in its place.
LEMMA DeleteKeeps ==
    ASSUME IInv, NEW r \in RuleIds, DeleteRule(r) PROVE IInv'
<1> DEFINE new == [rules[r] EXCEPT !.live = FALSE]
<1>1. rules[r] \in Rule
  BY DEF DeleteRule, LiveRules, Made, IInv, RulesType
<1>2. new \in Rule /\ new.from = rules[r].from
  BY <1>1 DEF Rule
<1>3. rules' = [rules EXCEPT ![r] = new] /\ UNCHANGED <<sug, old, req>>
  BY DEF DeleteRule
<1> HIDE DEF new
<1>4. SugType' /\ RowsKept /\ RulesKept /\ RulesType'
  BY <1>2, <1>3 DEF IInv, SugType, RowsKept, RulesKept, RulesType
<1>5. ASSUME NEW x \in Suggestions, sug[x] \in Row PROVE HasResult(sug[x], x, rules')
  <2>1. sug[x].result \in RuleIds \cup {Nothing}
    BY <1>5 DEF Row
  <2>2. QED
    BY <1>4, <1>5, <2>1 DEF IInv, ResultsMade, HasResult, RulesKept
<1>6. ResultsMade'
  BY <1>3, <1>5 DEF ResultsMade
<1>7. ReqType' /\ ReqGrounded'
  <2>1. \A v \in Workers : Grounded(req[v], sug', rules')
    BY <1>4, GroundedKept DEF IInv, ReqType, ReqGrounded
  <2>2. QED
    BY <1>3, <2>1 DEF IInv, ReqType, ReqGrounded
<1>8. QED
  BY <1>3, <1>4, <1>6, <1>7, TablesKept

LEMMA InitHolds == Init => IInv
<1> SUFFICES ASSUME Init PROVE IInv
  OBVIOUS
<1> USE ConstantsAssumption
<1>1. SugType /\ RulesType /\ OldThere /\ ReqType
  BY DEF Init, SugType, RulesType, OldThere, ReqType, Requests
<1>2. ReqGrounded
  BY IdleGrounded DEF Init, ReqGrounded
<1>3. ResultsMade
  <2>1. ASSUME NEW s \in Suggestions, sug[s] \in Row PROVE HasResult(sug[s], s, rules)
    BY <2>1 DEF Init
  <2>2. QED
    BY <2>1 DEF ResultsMade
<1>4. QED
  BY <1>1, <1>2, <1>3 DEF IInv

LEMMA StepKeeps == IInv /\ [Next]_vars => IInv'
<1> SUFFICES ASSUME IInv, [Next]_vars PROVE IInv'
  OBVIOUS
<1> USE ConstantsAssumption
<1>1. ASSUME NEW w \in Workers, Request(w) PROVE IInv'
  <2>0. req[w] \in Requests /\ Grounded(req[w], sug, rules)
    BY DEF IInv, ReqType, ReqGrounded
  <2>1. CASE Generate(w)
    <3>1. PICK d \in Offered, p \in Prompts :
             \/ FindOutdated(w, [at |-> "vet", kind |-> "generate", draft |-> d, prompt |-> p])
             \/ VetDraft(w, [at |-> "vet", kind |-> "generate", draft |-> d, prompt |-> p])
      BY <2>1 DEF Generate
    <3> DEFINE q == [at |-> "vet", kind |-> "generate", draft |-> d, prompt |-> p]
    <3>2. q \in Generating
      BY <3>1 DEF Generating
    <3>3. Grounded(q, sug, rules)
      <4>1. q \notin Changing \cup Looking \cup Clearing
        BY DEF Changing, Looking, Clearing, Kinds
      <4> HIDE DEF q
      <4>2. QED
        BY <4>1 DEF Grounded
    <3>4. UNCHANGED <<sug, old, rules>>
      BY <2>1 DEF Generate
    <3>5. FindOutdated(w, q) \/ VetDraft(w, q)
      BY <3>1
    <3> HIDE DEF q
    <3>6. QED
      BY <3>2, <3>3, <3>4, <3>5, SearchKeeps
  <2>2. CASE \E s \in Suggestions : Load(w, s)
    BY <2>2, LoadKeeps
  <2>3. CASE Search(w)
    <3>1. req[w] \in Generating \/ (req[w] \in Changing /\ req[w].kind = "edit")
      BY <2>0, <2>3 DEF Search, Requests, Idle, Changing, Looking, Clearing, Kinds
    <3>2. UNCHANGED <<sug, old, rules>> /\ (FindOutdated(w, req[w]) \/ VetDraft(w, req[w]))
      BY <2>3 DEF Search
    <3>3. QED
      BY <2>0, <3>1, <3>2, SearchKeeps
  <2>4. CASE VetConfirmation(w)
    <3> DEFINE next == [req[w] EXCEPT !.at = "write"]
    <3>1. req[w] \in Changing
      BY <2>0, <2>4 DEF VetConfirmation, Requests, Idle, Generating, Looking, Clearing
    <3>2. /\ next \in Changing /\ next.on = req[w].on /\ next.kind = req[w].kind
          /\ next.row = req[w].row
      BY <3>1 DEF Changing
    <3>3. next \notin Looking \cup Clearing
      BY <3>2 DEF Changing, Looking, Clearing
    <3>4. req' = [req EXCEPT ![w] = next] /\ UNCHANGED <<sug, old, rules>>
      BY <2>4 DEF VetConfirmation, IInv, ReqType
    <3> HIDE DEF next
    <3>5. next \in Requests /\ Grounded(next, sug, rules)
      BY <2>0, <3>1, <3>2, <3>3 DEF Requests, Grounded, Grounds
    <3>6. QED
      BY <3>4, <3>5, OnlyRequest
  <2>5. CASE Refuse(w)
    BY <2>5, IdleGrounded, OnlyRequest DEF Refuse
  <2>6. CASE Expire(w)
    BY <2>6, ExpireKeeps
  <2>7. CASE WriteGenerated(w)
    BY <2>7, InsertKeeps
  <2>8. ASSUME req[w].at = "write", req[w].kind \in Kinds
        PROVE  /\ req[w] \in Changing
               /\ req[w].row \in Row /\ req[w].row.status \in Statuses
               /\ req[w].row.draft \in Drafts /\ req[w].row.body \in Bodies
    <3>1. req[w] \in Changing
      BY <2>0, <2>8 DEF Requests, Idle, Generating, Looking, Clearing, Kinds
    <3>2. req[w].row \in Row
      BY <3>1 DEF Changing
    <3>3. QED
      BY <3>1, <3>2 DEF Row
  <2>9. CASE WriteEdit(w)
    <3>1. req[w] \in Changing /\ req[w].draft \in Drafts /\ req[w].row.status \in Statuses
      BY <2>8, <2>9 DEF WriteEdit, Kinds, Changing
    <3>2. Body[req[w].draft] \in Bodies
      BY <3>1 DEF Bodies
    <3>3. /\ Writes(w, req[w].row.status, req[w].draft, Body[req[w].draft], req[w].row.result)
          /\ UNCHANGED <<old, rules>>
      BY <2>9 DEF WriteEdit
    <3>4. QED
      BY <3>1, <3>2, <3>3, WritesKeep
  <2>10. CASE WriteConfirmation(w)
    <3>1. /\ req[w] \in Changing /\ Canonical[req[w].row.draft] \in Drafts
          /\ req[w].row.body \in Bodies /\ "approved" \in Statuses
      BY <2>8, <2>10 DEF WriteConfirmation, Kinds, Statuses
    <3>2. /\ Writes(w, "approved", Canonical[req[w].row.draft], req[w].row.body,
                    req[w].row.result)
          /\ UNCHANGED <<old, rules>>
      BY <2>10 DEF WriteConfirmation
    <3>3. QED
      BY <3>1, <3>2, WritesKeep
  <2>11. CASE WriteRejection(w)
    <3>1. /\ req[w] \in Changing /\ req[w].row.draft \in Drafts
          /\ req[w].row.body \in Bodies /\ "rejected" \in Statuses
      BY <2>8, <2>11 DEF WriteRejection, Kinds, Statuses
    <3>2. /\ Writes(w, "rejected", req[w].row.draft, req[w].row.body, req[w].row.result)
          /\ UNCHANGED <<old, rules>>
      BY <2>11 DEF WriteRejection
    <3>3. QED
      BY <3>1, <3>2, WritesKeep
  <2>12. CASE WriteApplication(w)
    <3>1. req[w] \in Changing
      BY <2>8, <2>12 DEF WriteApplication, Kinds
    <3>2. QED
      BY <2>12, <3>1, ApplicationKeeps
  <2>13. CASE RollBack(w)
    BY <2>13, IdleGrounded, OnlyRequest DEF RollBack
  <2>14. QED
    BY <1>1, <2>1, <2>2, <2>3, <2>4, <2>5, <2>6, <2>7, <2>9, <2>10, <2>11, <2>12, <2>13
       DEF Request
<1>2. ASSUME NEW s \in Suggestions, Age(s) PROVE IInv'
  <2>1. sug[s] \in Row
    BY <1>2 DEF Age, There, IInv, SugType
  <2>2. QED
    BY <1>2, <2>1 DEF Age, IInv, SugType, RulesType, OldThere, ReqType, ReqGrounded, ResultsMade
<1>3. ASSUME NEW r \in RuleIds, DeleteRule(r) PROVE IInv'
  BY <1>3, DeleteKeeps
<1>4. CASE UNCHANGED vars
  BY <1>4 DEF vars, IInv, SugType, RulesType, OldThere, ReqType, ReqGrounded, ResultsMade
<1>5. QED
  BY <1>1, <1>2, <1>3, <1>4 DEF Next

\* Whatever requests overlap, an applied suggestion has the rule made from it:
\* a second application is answered with that rule (apply_rule_suggestion).
THEOREM AppliedSuggestionsHaveRules == Spec => []AppliedHasRule
<1>1. IInv => AppliedHasRule
  <2> SUFFICES ASSUME IInv, NEW s \in There PROVE
        sug[s].status = "applied" => /\ sug[s].result # Nothing
                                     /\ rules[sug[s].result] # Nothing
                                     /\ rules[sug[s].result].from = s
    BY DEF AppliedHasRule
  <2>1. sug[s] \in Row /\ s \in Suggestions
    BY DEF There, IInv, SugType
  <2>2. QED
    BY <2>1, ConstantsAssumption DEF IInv, ResultsMade, HasResult
<1>2. QED
  BY <1>1, InitHolds, StepKeeps, PTL DEF Spec
=============================================================================
