----------------------- MODULE SuggestionReviewProofs -----------------------
(***************************************************************************)
(* The suggestions implement the review that SuggestionReview specifies,     *)
(* for every number of workers, suggestions, rules and versions.            *)
(*                                                                         *)
(* The argument is about overtaking.  A request that nobody has overtaken    *)
(* still has the row as it is, so that the status and version it has checked  *)
(* are the row's and what it writes is a step of the review.  A request that  *)
(* was overtaken contests the suggestion it writes, and nothing is promised   *)
(* of that one any more.                                                   *)
(***************************************************************************)
EXTENDS SuggestionLifecycleProofs

\* The row a request has read is still the row, unless it was overtaken.
StillRead(q, rows) ==
    /\ q \in Changing /\ ~q.overtaken =>
          rows[q.on] = q.row /\ q.row.status \in May(q.kind)
    /\ q \in Looking \cup Clearing /\ ~q.overtaken => rows[q.victim].status \in Active
    /\ q \in Clearing /\ q.then \in Changing =>
          /\ q.then.on # q.victim
          /\ ~q.then.overtaken =>
                rows[q.then.on] = q.then.row /\ q.then.row.status = "draft"

HistoryType ==
    /\ \A s \in contested : s \in Suggestions /\ sug[s] \in Row
    /\ confirmed \in [Suggestions -> Drafts \cup {Nothing}]

ReadsCurrent == \A w \in Workers : StillRead(req[w], sug)

\* Nothing is approved, applied or about to be applied that was not confirmed.
ConfirmedFirst ==
    /\ \A s \in There : sug[s].status \in {"approved", "applied"} => confirmed[s] # Nothing
    /\ \A w \in Workers :
          req[w] \in Changing /\ req[w].kind = "apply" => confirmed[req[w].on] # Nothing

ApprovedAsConfirmed ==
    \A s \in There \ contested : sug[s].status = "approved" =>
        sug[s].draft = confirmed[s] /\ Canonical[sug[s].draft] = sug[s].draft

Origins ==
    \A r \in Made : LET s == rules[r].from IN
        /\ sug[s] \in Row /\ confirmed[s] # Nothing
        /\ s \notin contested => /\ rules[r].draft = confirmed[s]
                                 /\ sug[s].status = "applied" /\ sug[s].result = r

KeysApart ==
    \A r, q \in LiveRules : r # q => Key[rules[r].draft] # Key[rules[q].draft]

CInv ==
    /\ HistoryType /\ ReadsCurrent /\ ConfirmedFirst
    /\ ApprovedAsConfirmed /\ Origins /\ KeysApart

-----------------------------------------------------------------------------
\* A worker is at one thing at a time.
LEMMA OneKind ==
    ASSUME NEW q
    PROVE  /\ q \in Changing => q \notin Generating \cup Looking \cup Clearing /\ q # Idle
           /\ q \in Looking => q \notin Generating \cup Changing \cup Clearing /\ q # Idle
           /\ q \in Clearing => q \notin Generating \cup Changing \cup Looking /\ q # Idle
           /\ q \in Generating => q \notin Changing \cup Looking \cup Clearing /\ q # Idle
           /\ Idle \notin Generating \cup Changing \cup Looking \cup Clearing
<1>1. \A x \in Changing : x.at \in {"vet", "write"} /\ x.kind \in Kinds
  BY DEF Changing
<1>2. \A x \in Generating : x.at \in {"vet", "write"} /\ x.kind = "generate"
  BY DEF Generating
<1>3. \A x \in Looking : x.at = "expire" /\ x.kind = "look"
  BY DEF Looking
<1>4. \A x \in Clearing : x.at = "expire" /\ x.kind = "twin"
  BY DEF Clearing
<1>5. Idle.at = "idle"
  BY DEF Idle
<1>6. QED
  BY <1>1, <1>2, <1>3, <1>4, <1>5 DEF Kinds

LEMMA NothingRead ==
    ASSUME NEW q, q = Idle \/ q \in Generating, NEW rows
    PROVE  StillRead(q, rows)
  BY OneKind DEF StillRead

\* What becomes of another's request when w commits to s.
Same(c, was) == c \in Changing /\ c.on = was.on /\ c.row = was.row /\ c.kind = was.kind

Aftermath(v, s) ==
    \/ req'[v] = req[v] /\ ~Touches(v, s)
    \/ /\ req[v] \in Changing /\ Same(req'[v], req[v]) /\ req'[v].overtaken
    \/ /\ req[v] \in Looking /\ req'[v] \in Looking /\ req'[v].overtaken
    \/ /\ req[v] \in Clearing /\ req'[v] \in Clearing /\ req'[v].overtaken
       /\ req[v].victim = s /\ req'[v].victim = s /\ req'[v].then = req[v].then
    \/ /\ req[v] \in Clearing /\ req'[v] \in Clearing
       /\ req'[v].overtaken = req[v].overtaken
       /\ req'[v].victim = req[v].victim /\ req[v].victim # s
       /\ req[v].then \in Changing
       /\ Same(req'[v].then, req[v].then) /\ req'[v].then.overtaken

LEMMA OvertakenIs ==
    ASSUME IInv, NEW w \in Workers, NEW s \in Suggestions, NEW next,
           Overtakes(w, s, next), NEW v \in Workers, v # w
    PROVE  Aftermath(v, s)
<1> USE DEF Aftermath
<1>1. req[v] \in Requests
  BY DEF IInv, ReqType
<1>2. CASE ~Touches(v, s)
  BY <1>2 DEF Overtakes
<1>3. CASE Touches(v, s) /\ req[v] \in Changing
  <2>1. req'[v] = [req[v] EXCEPT !.overtaken = TRUE]
    BY <1>3 DEF Overtakes, Changing
  <2>2. QED
    BY <1>3, <2>1 DEF Changing, Same
<1>4. CASE Touches(v, s) /\ req[v] \in Looking
  <2>1. req'[v] = [req[v] EXCEPT !.overtaken = TRUE]
    BY <1>4 DEF Overtakes, Looking
  <2>2. QED
    BY <1>4, <2>1 DEF Looking
<1>5. CASE Touches(v, s) /\ req[v] \in Clearing
  <2>0. req[v].at = "expire" /\ req[v].kind = "twin"
    BY <1>5 DEF Clearing
  <2>1. CASE req[v].victim = s
    <3>1. req'[v] = [req[v] EXCEPT !.overtaken = TRUE]
      BY <1>5, <2>1 DEF Overtakes
    <3>2. QED
      BY <1>5, <2>1, <3>1 DEF Clearing
  <2>2. CASE req[v].victim # s
    <3>1. req'[v] = [req[v] EXCEPT !.then = [req[v].then EXCEPT !.overtaken = TRUE]]
      BY <1>5, <2>0, <2>2 DEF Overtakes
    <3>2. req[v].then \in Changing
      BY <1>5, <2>0, <2>2 DEF Touches, Clearing, Generating
    <3> DEFINE c == [req[v].then EXCEPT !.overtaken = TRUE]
    <3>3. Same(c, req[v].then) /\ c.overtaken
      BY <3>2 DEF Changing, Same
    <3> HIDE DEF c
    <3>4. /\ req'[v] \in Clearing /\ req'[v].then = c
          /\ req'[v].victim = req[v].victim /\ req'[v].overtaken = req[v].overtaken
      BY <1>5, <3>1, <3>3 DEF Clearing, c, Same
    <3>5. QED
      BY <1>5, <2>2, <3>2, <3>3, <3>4
  <2>3. QED
    BY <2>1, <2>2
<1>6. CASE Touches(v, s) /\ (req[v] = Idle \/ req[v] \in Generating)
  BY <1>6 DEF Touches, Idle, Generating
<1>7. QED
  BY <1>1, <1>2, <1>3, <1>4, <1>5, <1>6 DEF Requests

\* A commit to s leaves the others' reads current, or marks them overtaken.
LEMMA ReadsKept ==
    ASSUME IInv, ReadsCurrent, NEW w \in Workers, NEW s \in Suggestions, NEW next,
           Overtakes(w, s, next), StillRead(next, sug'),
           \A x \in Suggestions \ {s} : sug'[x] = sug[x]
    PROVE  ReadsCurrent'
<1>1. ASSUME NEW v \in Workers, v # w PROVE StillRead(req'[v], sug')
  <2>0. Aftermath(v, s)
    BY <1>1, OvertakenIs
  <2>1. StillRead(req[v], sug) /\ req[v] \in Requests
    BY DEF ReadsCurrent, IInv, ReqType
  <2>2. CASE req'[v] = req[v] /\ ~Touches(v, s)
    <3>1. CASE req[v] \in Changing
      <4>1. req[v].on \in Suggestions \ {s}
        BY <2>2, <3>1 DEF Touches, Changing, Kinds
      <4>2. QED
        BY <2>1, <2>2, <3>1, <4>1, OneKind DEF StillRead
    <3>2. CASE req[v] \in Looking
      <4>1. req[v].victim \in Suggestions \ {s}
        BY <2>2, <3>2 DEF Touches, Looking
      <4>2. QED
        BY <2>1, <2>2, <3>2, <4>1, OneKind DEF StillRead
    <3>3. CASE req[v] \in Clearing
      <4>1. req[v].victim \in Suggestions \ {s}
        BY <2>2, <3>3 DEF Touches, Clearing
      <4>2. req[v].then \in Changing => req[v].then.on \in Suggestions \ {s}
        <5>1. req[v].then \in Changing => req[v].then.kind = "edit"
          BY <3>3 DEF IInv, ReqGrounded, Grounded
        <5>2. QED
          BY <2>2, <3>3, <5>1 DEF Touches, Clearing, Changing
      <4>3. QED
        BY <2>1, <2>2, <3>3, <4>1, <4>2, OneKind DEF StillRead
    <3>4. CASE req[v] = Idle \/ req[v] \in Generating
      BY <2>2, <3>4, NothingRead
    <3>5. QED
      BY <2>1, <3>1, <3>2, <3>3, <3>4 DEF Requests
  <2>3. CASE req[v] \in Changing /\ Same(req'[v], req[v]) /\ req'[v].overtaken
    BY <2>3, OneKind DEF StillRead, Same
  <2>4. CASE req[v] \in Looking /\ req'[v] \in Looking /\ req'[v].overtaken
    BY <2>4, OneKind DEF StillRead
  <2>5. CASE /\ req[v] \in Clearing /\ req'[v] \in Clearing /\ req'[v].overtaken
             /\ req[v].victim = s /\ req'[v].victim = s /\ req'[v].then = req[v].then
    <3>1. req[v].then \in Changing => req[v].then.on \in Suggestions \ {s}
      BY <2>1, <2>5 DEF StillRead, Changing
    <3>2. QED
      BY <2>1, <2>5, <3>1, OneKind DEF StillRead
  <2>6. CASE /\ req[v] \in Clearing /\ req'[v] \in Clearing
             /\ req'[v].overtaken = req[v].overtaken
             /\ req'[v].victim = req[v].victim /\ req[v].victim # s
             /\ req[v].then \in Changing
             /\ Same(req'[v].then, req[v].then) /\ req'[v].then.overtaken
    <3>1. req[v].victim \in Suggestions \ {s}
      BY <2>6 DEF Clearing
    <3>2. QED
      BY <2>1, <2>6, <3>1, OneKind DEF StillRead, Same
  <2>7. QED
    BY <2>0, <2>2, <2>3, <2>4, <2>5, <2>6 DEF Aftermath
<1>2. req'[w] = next
  BY DEF Overtakes
<1>3. QED
  BY <1>1, <1>2 DEF ReadsCurrent

-----------------------------------------------------------------------------
\* A step of w that commits nothing.
LEMMA CommitsNothing ==
    ASSUME IInv, CInv, NEW w \in Workers, NEW next, req' = [req EXCEPT ![w] = next],
           StillRead(next, sug),
           next \in Changing /\ next.kind = "apply" => confirmed[next.on] # Nothing,
           UNCHANGED <<sug, rules, contested, confirmed>>
    PROVE  CInv'
<1>1. ReadsCurrent' /\ ConfirmedFirst'
  BY DEF IInv, ReqType, CInv, ReadsCurrent, ConfirmedFirst, There
<1>2. QED
  BY <1>1 DEF CInv, HistoryType, ApprovedAsConfirmed, Origins, KeysApart, There, Made,
              LiveRules

\* A step of w that writes the row of s and no rule.
RowWritten(w, s, new, next) ==
    /\ new \in Row /\ sug[s] \in Row
    /\ sug' = [sug EXCEPT ![s] = new]
    /\ UNCHANGED rules
    /\ Contest(w, s)
    /\ Overtakes(w, s, next)
    /\ StillRead(next, sug')
    /\ ~(next \in Changing /\ next.kind = "apply")
    /\ confirmed' \in [Suggestions -> Drafts \cup {Nothing}]
    /\ \A x \in Suggestions : confirmed[x] # Nothing => confirmed'[x] # Nothing
    /\ \A x \in Suggestions \ {s} : confirmed'[x] = confirmed[x]
    /\ new.status \in {"approved", "applied"} => confirmed'[s] # Nothing
    /\ ~req[w].overtaken /\ s \notin contested =>
          /\ sug[s].status # "applied" /\ new.status # "applied"
          /\ new.status = "approved" =>
                new.draft = confirmed'[s] /\ Canonical[new.draft] = new.draft

LEMMA WrittenKeeps ==
    ASSUME IInv, CInv, NEW w \in Workers, NEW s \in Suggestions, NEW new, NEW next,
           RowWritten(w, s, new, next)
    PROVE  CInv'
<1> USE ConstantsAssumption DEF RowWritten
<1>1. /\ sug'[s] = new /\ new # Nothing /\ sug[s] # Nothing
      /\ \A x \in Suggestions \ {s} : sug'[x] = sug[x]
  BY DEF IInv, SugType
<1>2. There' = There
  BY <1>1 DEF There
<1>3. contested \subseteq contested' /\ contested' \subseteq contested \cup {s}
      /\ (req[w].overtaken => s \in contested')
  BY DEF Contest
<1>4. HistoryType'
  BY <1>1, <1>3 DEF CInv, HistoryType
<1>5. ReadsCurrent'
  BY <1>1, ReadsKept DEF CInv
<1>6. ConfirmedFirst'
  <2>1. ASSUME NEW x \in There, sug'[x].status \in {"approved", "applied"}
        PROVE  confirmed'[x] # Nothing
    <3>1. CASE x = s
      BY <1>1, <2>1, <3>1
    <3>2. CASE x # s
      BY <1>1, <2>1, <3>2 DEF CInv, ConfirmedFirst, There
    <3>3. QED
      BY <3>1, <3>2
  <2>2. ASSUME NEW v \in Workers, req'[v] \in Changing, req'[v].kind = "apply"
        PROVE  confirmed'[req'[v].on] # Nothing
    <3>1. v # w
      BY <2>2 DEF Overtakes
    <3>2. Aftermath(v, s)
      BY <3>1, OvertakenIs
    <3>3. req[v] \in Changing /\ req[v].kind = "apply" /\ req[v].on = req'[v].on
      BY <2>2, <3>2, OneKind DEF Aftermath, Same
    <3>4. confirmed[req[v].on] # Nothing /\ req[v].on \in Suggestions
      BY <3>3 DEF CInv, ConfirmedFirst, Changing
    <3>5. QED
      BY <3>3, <3>4
  <2>3. QED
    BY <1>2, <2>1, <2>2 DEF ConfirmedFirst
<1>7. ApprovedAsConfirmed'
  <2>1. ASSUME NEW x \in There \ contested', sug'[x].status = "approved"
        PROVE  sug'[x].draft = confirmed'[x] /\ Canonical[sug'[x].draft] = sug'[x].draft
    <3>1. CASE x = s
      BY <1>1, <1>3, <2>1, <3>1
    <3>2. CASE x # s
      BY <1>1, <1>3, <2>1, <3>2 DEF CInv, ApprovedAsConfirmed, There
    <3>3. QED
      BY <3>1, <3>2
  <2>2. QED
    BY <1>2, <2>1 DEF ApprovedAsConfirmed
<1>8. Origins'
  <2>1. ASSUME NEW r \in Made
        PROVE  LET x == rules[r].from IN
               /\ sug'[x] \in Row /\ confirmed'[x] # Nothing
               /\ x \notin contested' => /\ rules[r].draft = confirmed'[x]
                                         /\ sug'[x].status = "applied"
                                         /\ sug'[x].result = r
    <3> DEFINE x == rules[r].from
    <3>1. rules[r] \in Rule /\ x \in Suggestions
      BY DEF Made, IInv, RulesType, Rule
    <3>2. /\ sug[x] \in Row /\ confirmed[x] # Nothing
          /\ x \notin contested => /\ rules[r].draft = confirmed[x]
                                   /\ sug[x].status = "applied" /\ sug[x].result = r
      BY DEF CInv, Origins
    <3>3. CASE x = s
      BY <1>1, <1>3, <3>1, <3>2, <3>3
    <3>4. CASE x # s
      BY <1>1, <1>3, <3>1, <3>2, <3>4
    <3>5. QED
      BY <3>3, <3>4
  <2>2. QED
    BY <2>1 DEF Origins, Made
<1>9. KeysApart'
  BY DEF CInv, KeysApart, LiveRules, Made
<1>10. QED
  BY <1>4, <1>5, <1>6, <1>7, <1>8, <1>9 DEF CInv

-----------------------------------------------------------------------------
FreshlySaved(w, s, row, new, status, d, result) ==
    /\ req[w] \in Changing /\ s \in Suggestions /\ sug[s] \in Row
    /\ row \in Row /\ new \in Row
    /\ new.status = Kept(row.status, status, sug[s].status)
    /\ ~req[w].overtaken =>
          /\ row = sug[s] /\ sug[s].status \in May(req[w].kind)
          /\ new.status = status /\ new.draft = d /\ new.result = result
          /\ new.version = sug[s].version + 1

\* A write by a request that nobody has overtaken: the row is what was read.
LEMMA FreshWrite ==
    ASSUME IInv, CInv, NEW w \in Workers, req[w].at = "write", req[w].kind \in Kinds,
           NEW status \in Statuses, NEW d \in Drafts, NEW body \in Bodies,
           NEW result \in RuleIds \cup {Nothing},
           NEW s, s = req[w].on, NEW row, row = req[w].row,
           NEW new, new = Saved(w, status, d, body, result)
    PROVE  FreshlySaved(w, s, row, new, status, d, result)
<1>1. req[w] \in Changing
  BY DEF IInv, ReqType, Requests, Idle, Generating, Looking, Clearing, Kinds
<1>2. s \in Suggestions /\ sug[s] \in Row /\ row \in Row
  BY <1>1 DEF Changing, IInv, ReqGrounded, Grounded, Grounds
<1>3. SavedAs(new, row, sug[s], status, d, result)
  BY <1>2, SavedRow
<1>5. ~req[w].overtaken => row = sug[s] /\ row.status \in May(req[w].kind)
  BY <1>1 DEF CInv, ReadsCurrent, StillRead
<1>6. QED
  BY <1>1, <1>2, <1>3, <1>5 DEF SavedAs, Kept, FreshlySaved

LEMMA EditReviewed ==
    ASSUME IInv, CInv, NEW w \in Workers, WriteEdit(w) PROVE CInv'
<1> DEFINE s == req[w].on
           row == req[w].row
           new == Saved(w, row.status, req[w].draft, Body[req[w].draft], row.result)
<1>1. req[w].at = "write" /\ req[w].kind \in Kinds /\ req[w].kind = "edit"
  BY DEF WriteEdit, Kinds
<1>2. /\ row.status \in Statuses /\ req[w].draft \in Drafts
      /\ Body[req[w].draft] \in Bodies /\ row.result \in RuleIds \cup {Nothing}
  <2>1. req[w] \in Changing
    BY <1>1 DEF IInv, ReqType, Requests, Idle, Generating, Looking, Clearing, Kinds
  <2>2. QED
    BY <2>1 DEF Changing, Row, Bodies
<1>3. /\ s \in Suggestions /\ sug[s] \in Row /\ new \in Row
      /\ new.status = sug[s].status
      /\ ~req[w].overtaken => sug[s].status \in May("edit")
  <2>1. FreshlySaved(w, s, row, new, row.status, req[w].draft, row.result)
    BY <1>1, <1>2, FreshWrite
  <2>2. QED
    BY <1>1, <2>1 DEF Kept, FreshlySaved
<1> HIDE DEF new
<1>4. RowWritten(w, s, new, Idle)
  <2>1. sug' = [sug EXCEPT ![s] = new] /\ Contest(w, s) /\ Overtakes(w, s, Idle)
        /\ UNCHANGED <<rules, confirmed>>
    BY DEF WriteEdit, Writes, new
  <2>2. sug[s].status \in {"approved", "applied"} => confirmed[s] # Nothing
    <3>1. s \in There
      BY <1>3, ConstantsAssumption DEF There
    <3>2. QED
      BY <3>1 DEF CInv, ConfirmedFirst
  <2>3. QED
    BY <1>3, <2>1, <2>2, NothingRead, OneKind DEF RowWritten, May, CInv, HistoryType
<1>5. QED
  BY <1>3, <1>4, WrittenKeeps

LEMMA ConfirmationReviewed ==
    ASSUME IInv, CInv, NEW w \in Workers, WriteConfirmation(w) PROVE CInv'
<1> DEFINE s == req[w].on
           row == req[w].row
           d == Canonical[row.draft]
           new == Saved(w, "approved", d, row.body, row.result)
<1>1. req[w].at = "write" /\ req[w].kind \in Kinds /\ req[w].kind = "confirm"
  BY DEF WriteConfirmation, Kinds
<1>2. /\ "approved" \in Statuses /\ d \in Drafts /\ Canonical[d] = d /\ d # Nothing
      /\ row.body \in Bodies /\ row.result \in RuleIds \cup {Nothing}
  <2>1. req[w] \in Changing
    BY <1>1 DEF IInv, ReqType, Requests, Idle, Generating, Looking, Clearing, Kinds
  <2>2. row \in Row
    BY <2>1 DEF Changing
  <2>3. QED
    BY <2>2, ConstantsAssumption DEF Row, Statuses
<1> HIDE DEF d
<1>3. /\ s \in Suggestions /\ sug[s] \in Row /\ new \in Row
      /\ ~req[w].overtaken => /\ sug[s].status \in May("confirm")
                              /\ new.status = "approved" /\ new.draft = d
  <2>1. FreshlySaved(w, s, row, new, "approved", d, row.result)
    BY <1>1, <1>2, FreshWrite
  <2>2. QED
    BY <1>1, <2>1 DEF FreshlySaved
<1> HIDE DEF new
<1>4. RowWritten(w, s, new, Idle)
  <2>1. /\ sug' = [sug EXCEPT ![s] = new] /\ Contest(w, s) /\ Overtakes(w, s, Idle)
        /\ confirmed' = [confirmed EXCEPT ![s] = d] /\ UNCHANGED rules
    BY DEF WriteConfirmation, Writes, new, d
  <2>2. confirmed'[s] = d /\ confirmed' \in [Suggestions -> Drafts \cup {Nothing}]
    BY <1>2, <1>3, <2>1 DEF CInv, HistoryType
  <2>3. QED
    BY <1>2, <1>3, <2>1, <2>2, NothingRead, OneKind DEF RowWritten, May, CInv, HistoryType
<1>5. QED
  BY <1>3, <1>4, WrittenKeeps

LEMMA RejectionReviewed ==
    ASSUME IInv, CInv, NEW w \in Workers, WriteRejection(w) PROVE CInv'
<1> DEFINE s == req[w].on
           row == req[w].row
           new == Saved(w, "rejected", row.draft, row.body, row.result)
<1>1. req[w].at = "write" /\ req[w].kind \in Kinds /\ req[w].kind = "reject"
  BY DEF WriteRejection, Kinds
<1>2. /\ "rejected" \in Statuses /\ row.draft \in Drafts
      /\ row.body \in Bodies /\ row.result \in RuleIds \cup {Nothing}
  <2>1. req[w] \in Changing
    BY <1>1 DEF IInv, ReqType, Requests, Idle, Generating, Looking, Clearing, Kinds
  <2>2. row \in Row
    BY <2>1 DEF Changing
  <2>3. QED
    BY <2>2 DEF Row, Statuses
<1>3. /\ s \in Suggestions /\ sug[s] \in Row /\ new \in Row
      /\ new.status \in {"rejected", sug[s].status}
      /\ ~req[w].overtaken => /\ sug[s].status \in May("reject")
                              /\ new.status = "rejected"
  <2>1. FreshlySaved(w, s, row, new, "rejected", row.draft, row.result)
    BY <1>1, <1>2, FreshWrite
  <2>2. QED
    BY <1>1, <2>1 DEF Kept, FreshlySaved
<1> HIDE DEF new
<1>4. RowWritten(w, s, new, Idle)
  <2>1. sug' = [sug EXCEPT ![s] = new] /\ Contest(w, s) /\ Overtakes(w, s, Idle)
        /\ UNCHANGED <<rules, confirmed>>
    BY DEF WriteRejection, Writes, new
  <2>2. sug[s].status \in {"approved", "applied"} => confirmed[s] # Nothing
    <3>1. s \in There
      BY <1>3, ConstantsAssumption DEF There
    <3>2. QED
      BY <3>1 DEF CInv, ConfirmedFirst
  <2>3. QED
    BY <1>3, <2>1, <2>2, NothingRead, OneKind
       DEF RowWritten, May, Active, CInv, HistoryType
<1>5. QED
  BY <1>3, <1>4, WrittenKeeps

LEMMA ExpiryReviewed ==
    ASSUME IInv, CInv, NEW w \in Workers, Expire(w) PROVE CInv'
<1> DEFINE q == req[w]
           s == q.victim
           new == [sug[s] EXCEPT !.status = "expired"]
           next == IF q.kind = "look" THEN Idle
                   ELSE IF q.then.kind = "edit" THEN [q.then EXCEPT !.reloaded = TRUE]
                   ELSE q.then
<1>1. q \in Looking \cup Clearing
  BY DEF Expire, IInv, ReqType, Requests, Idle, Generating, Changing
<1>2. s \in Suggestions /\ sug[s] \in Row
  BY <1>1 DEF Looking, Clearing, IInv, ReqGrounded, Grounded
<1>3. new \in Row /\ new.status = "expired"
  BY <1>2 DEF Row, Statuses
<1>4. /\ sug' = [sug EXCEPT ![s] = new] /\ Contest(w, s) /\ Overtakes(w, s, next)
      /\ UNCHANGED <<rules, confirmed>>
  BY DEF Expire
<1>5. ~q.overtaken => sug[s].status \in Active
  BY <1>1 DEF CInv, ReadsCurrent, StillRead
<1> HIDE DEF new
<1>6. StillRead(next, sug') /\ ~(next \in Changing /\ next.kind = "apply")
  <2>1. CASE q \in Looking
    <3>1. next = Idle
      BY <2>1 DEF Looking
    <3>2. QED
      BY <3>1, NothingRead, OneKind
  <2>2. CASE q \in Clearing /\ q.then \in Generating
    <3>1. next = q.then
      BY <2>2 DEF Clearing, Generating
    <3>2. QED
      BY <2>2, <3>1, NothingRead, OneKind
  <2>3. CASE q \in Clearing /\ q.then \in Changing
    <3>1. q.then.kind = "edit"
      BY <2>3 DEF IInv, ReqGrounded, Grounded
    <3>2. /\ next \in Changing /\ next.kind = "edit" /\ next.on = q.then.on
          /\ next.row = q.then.row /\ next.overtaken = q.then.overtaken
      BY <2>3, <3>1 DEF Clearing, Changing
    <3>3. /\ q.then.on \in Suggestions /\ q.then.on # s
          /\ ~q.then.overtaken => sug[q.then.on] = q.then.row /\ q.then.row.status = "draft"
      BY <2>3 DEF CInv, ReadsCurrent, StillRead, Changing
    <3> HIDE DEF next
    <3>4. sug'[q.then.on] = sug[q.then.on]
      BY <1>4, <3>3 DEF IInv, SugType
    <3>5. QED
      BY <3>2, <3>3, <3>4, OneKind DEF StillRead, May
  <2>4. q \in Clearing => q.then \in Generating \cup Changing
    BY DEF Clearing
  <2>5. QED
    BY <1>1, <2>1, <2>2, <2>3, <2>4
<1> HIDE DEF next
<1>7. RowWritten(w, s, new, next)
  BY <1>2, <1>3, <1>4, <1>5, <1>6 DEF RowWritten, Active, CInv, HistoryType
<1>8. QED
  BY <1>2, <1>7, WrittenKeeps

\* An application that nobody has overtaken makes a rule of what was confirmed.
LEMMA ApplicationReviewed ==
    ASSUME IInv, CInv, NEW w \in Workers, WriteApplication(w) PROVE CInv'
<1> USE ConstantsAssumption
<1> DEFINE s == req[w].on
           row == req[w].row
           d == Canonical[row.draft]
<1>1. PICK r \in RuleIds \ Made :
          /\ rules' = [rules EXCEPT ![r] = [draft |-> d, from |-> s, live |-> TRUE]]
          /\ Applied(w, r)
  BY DEF WriteApplication
<1> DEFINE new == Saved(w, "applied", row.draft, row.body, r)
<1>2. /\ req[w] \in Changing /\ req[w].kind = "apply" /\ req[w].at = "write"
      /\ req[w].kind \in Kinds /\ KeyAllowed(d) /\ UNCHANGED <<old, confirmed>>
  BY DEF WriteApplication, IInv, ReqType, Requests, Idle, Generating, Looking, Clearing,
         Kinds
<1>3. /\ s \in Suggestions /\ sug[s] \in Row /\ row \in Row /\ confirmed[s] # Nothing
  BY <1>2 DEF Changing, IInv, ReqGrounded, Grounded, Grounds, CInv, ConfirmedFirst
<1>4. FreshlySaved(w, s, row, new, "applied", row.draft, r)
  <2>1. /\ "applied" \in Statuses /\ row.draft \in Drafts /\ row.body \in Bodies
    BY <1>3 DEF Row, Statuses
  <2>2. QED
    BY <1>2, <2>1, FreshWrite
<1>5. sug' = [sug EXCEPT ![s] = new] /\ Overtakes(w, s, Idle) /\ Contest(w, s)
  BY <1>1 DEF Applied, Writes
<1>6. /\ new \in Row
      /\ ~req[w].overtaken =>
            /\ row = sug[s] /\ sug[s].status = "approved"
            /\ new.status = "applied" /\ new.draft = row.draft /\ new.result = r
  BY <1>2, <1>4 DEF FreshlySaved, May
<1> HIDE DEF new, d
<1>7. /\ sug'[s] = new /\ new # Nothing /\ sug[s] # Nothing
      /\ \A x \in Suggestions \ {s} : sug'[x] = sug[x]
      /\ There' = There
  BY <1>3, <1>5, <1>6 DEF IInv, SugType, There
<1>8. /\ contested \subseteq contested' /\ contested' \subseteq contested \cup {s}
      /\ (req[w].overtaken => s \in contested')
  BY <1>5 DEF Contest
<1>9. HistoryType'
  BY <1>2, <1>3, <1>6, <1>7, <1>8 DEF CInv, HistoryType
<1>10. ReadsCurrent'
  BY <1>3, <1>5, <1>7, ReadsKept, NothingRead DEF CInv
<1>11. ConfirmedFirst'
  <2>1. ASSUME NEW x \in There, sug'[x].status \in {"approved", "applied"}
        PROVE  confirmed'[x] # Nothing
    <3>1. CASE x = s
      BY <1>2, <1>3, <3>1
    <3>2. CASE x # s
      <4>1. sug'[x] = sug[x]
        BY <1>7, <3>2 DEF There
      <4>2. QED
        BY <1>2, <2>1, <4>1 DEF CInv, ConfirmedFirst
    <3>3. QED
      BY <3>1, <3>2
  <2>2. ASSUME NEW v \in Workers, req'[v] \in Changing, req'[v].kind = "apply"
        PROVE  confirmed'[req'[v].on] # Nothing
    <3>1. v # w
      BY <1>5, <2>2, OneKind DEF Overtakes
    <3>2. Aftermath(v, s)
      BY <1>3, <1>5, <3>1, OvertakenIs
    <3>3. req[v] \in Changing /\ req[v].kind = "apply" /\ req[v].on = req'[v].on
      BY <2>2, <3>2, OneKind DEF Aftermath, Same
    <3>4. QED
      BY <1>2, <3>3 DEF CInv, ConfirmedFirst
  <2>3. QED
    BY <1>7, <2>1, <2>2 DEF ConfirmedFirst
<1>12. ApprovedAsConfirmed'
  <2>1. ASSUME NEW x \in There \ contested', sug'[x].status = "approved"
        PROVE  sug'[x].draft = confirmed'[x] /\ Canonical[sug'[x].draft] = sug'[x].draft
    <3>1. x # s
      BY <1>6, <1>7, <1>8, <2>1
    <3>2. QED
      BY <1>2, <1>7, <1>8, <2>1, <3>1 DEF CInv, ApprovedAsConfirmed, There
  <2>2. QED
    BY <1>7, <2>1 DEF ApprovedAsConfirmed
<1>13. s \notin contested' =>
          /\ d = confirmed[s] /\ sug[s].status = "approved"
          /\ new.status = "applied" /\ new.result = r
  BY <1>3, <1>6, <1>7, <1>8 DEF CInv, ApprovedAsConfirmed, There, d
<1>14. /\ rules'[r] = [draft |-> d, from |-> s, live |-> TRUE] /\ rules[r] = Nothing
       /\ \A q \in RuleIds \ {r} : rules'[q] = rules[q]
       /\ Made' \subseteq Made \cup {r}
  BY <1>1 DEF IInv, RulesType, Made
<1>15. Origins'
  <2>1. ASSUME NEW q \in Made'
        PROVE  LET x == rules'[q].from IN
               /\ sug'[x] \in Row /\ confirmed'[x] # Nothing
               /\ x \notin contested' => /\ rules'[q].draft = confirmed'[x]
                                         /\ sug'[x].status = "applied"
                                         /\ sug'[x].result = q
    <3>1. CASE q = r
      BY <1>2, <1>3, <1>6, <1>7, <1>13, <1>14, <3>1
    <3>2. CASE q # r
      <4> DEFINE x == rules[q].from
      <4>1. q \in Made /\ rules'[q] = rules[q] /\ x \in Suggestions
        BY <1>14, <3>2 DEF Made, IInv, RulesType, Rule
      <4>2. /\ sug[x] \in Row /\ confirmed[x] # Nothing
            /\ x \notin contested => /\ rules[q].draft = confirmed[x]
                                     /\ sug[x].status = "applied" /\ sug[x].result = q
        BY <4>1 DEF CInv, Origins
      <4>3. x = s => s \in contested'
        BY <1>8, <1>13, <4>2
      <4>4. sug'[x] \in Row
        BY <1>6, <1>7, <4>1, <4>2
      <4>5. QED
        BY <1>2, <1>7, <1>8, <4>1, <4>2, <4>3, <4>4
    <3>3. QED
      BY <3>1, <3>2
  <2>2. QED
    BY <2>1 DEF Origins
<1>16. KeysApart'
  <2>1. \A q \in LiveRules : Key[rules[q].draft] # Key[d]
    BY <1>2 DEF KeyAllowed, KeyFree
  <2>2. \A q \in LiveRules' : q # r => q \in LiveRules /\ rules'[q] = rules[q]
    BY <1>14 DEF LiveRules, Made
  <2>3. rules'[r].draft = d
    BY <1>14
  <2>4. QED
    BY <2>1, <2>2, <2>3 DEF CInv, KeysApart
<1>17. QED
  BY <1>9, <1>10, <1>11, <1>12, <1>15, <1>16 DEF CInv

\* A new draft is nobody's: no request and no rule refers to it.
LEMMA InsertReviewed ==
    ASSUME IInv, CInv, NEW w \in Workers, WriteGenerated(w) PROVE CInv'
<1> USE ConstantsAssumption
<1> DEFINE new == [status |-> "draft", version |-> 1, draft |-> req[w].draft,
                   body |-> Body[req[w].draft], prompt |-> req[w].prompt,
                   result |-> Nothing]
<1>1. req[w] \in Generating
  BY DEF WriteGenerated, IInv, ReqType, Requests, Idle, Changing, Looking, Clearing, Kinds
<1>2. new \in Row /\ new.status = "draft" /\ new # Nothing
  BY <1>1 DEF Generating, Row, Statuses, Bodies
<1>3. PICK i \in Suggestions \ There : sug' = [sug EXCEPT ![i] = new]
  BY DEF WriteGenerated
<1>4. req' = [req EXCEPT ![w] = Idle] /\ UNCHANGED <<old, rules, contested, confirmed>>
  BY DEF WriteGenerated
<1> HIDE DEF new
<1>5. /\ sug[i] = Nothing /\ sug'[i] = new
      /\ \A x \in Suggestions \ {i} : sug'[x] = sug[x]
      /\ There' = There \cup {i}
  BY <1>2, <1>3 DEF IInv, SugType, There
<1>6. HistoryType'
  BY <1>2, <1>4, <1>5 DEF CInv, HistoryType
<1>7. ASSUME NEW v \in Workers PROVE StillRead(req'[v], sug')
  <2>1. req[v] \in Requests /\ Grounded(req[v], sug, rules) /\ StillRead(req[v], sug)
    BY DEF IInv, ReqType, ReqGrounded, CInv, ReadsCurrent
  <2>2. CASE v = w
    BY <1>4, <2>2, NothingRead DEF IInv, ReqType
  <2>3. CASE v # w
    <3>1. req'[v] = req[v]
      BY <1>4, <2>3 DEF IInv, ReqType
    <3>2. \A x \in Suggestions : sug[x] \in Row => sug'[x] = sug[x]
      BY <1>5
    <3>3. CASE req[v] \in Changing
      <4>1. sug'[req[v].on] = sug[req[v].on]
        BY <2>1, <3>2, <3>3 DEF Changing, Grounded, Grounds
      <4>2. QED
        BY <2>1, <3>1, <3>3, <4>1, OneKind DEF StillRead
    <3>4. CASE req[v] \in Looking
      <4>1. sug'[req[v].victim] = sug[req[v].victim]
        BY <2>1, <3>2, <3>4 DEF Looking, Grounded
      <4>2. QED
        BY <2>1, <3>1, <3>4, <4>1, OneKind DEF StillRead
    <3>5. CASE req[v] \in Clearing
      <4>1. sug'[req[v].victim] = sug[req[v].victim]
        BY <2>1, <3>2, <3>5 DEF Clearing, Grounded
      <4>2. req[v].then \in Changing => sug'[req[v].then.on] = sug[req[v].then.on]
        BY <2>1, <3>2, <3>5 DEF Changing, Grounded, Grounds
      <4>3. QED
        BY <2>1, <3>1, <3>5, <4>1, <4>2, OneKind DEF StillRead
    <3>6. CASE req[v] = Idle \/ req[v] \in Generating
      BY <3>1, <3>6, NothingRead
    <3>7. QED
      BY <2>1, <3>3, <3>4, <3>5, <3>6 DEF Requests
  <2>4. QED
    BY <2>2, <2>3
<1>8. ReadsCurrent'
  BY <1>7 DEF ReadsCurrent
<1>9. ConfirmedFirst'
  <2>1. ASSUME NEW x \in There', sug'[x].status \in {"approved", "applied"}
        PROVE  confirmed'[x] # Nothing
    <3>1. x # i
      BY <1>2, <1>5, <2>1
    <3>2. x \in There /\ sug'[x] = sug[x]
      BY <1>5, <3>1 DEF There
    <3>3. QED
      BY <1>4, <2>1, <3>2 DEF CInv, ConfirmedFirst
  <2>2. ASSUME NEW v \in Workers, req'[v] \in Changing, req'[v].kind = "apply"
        PROVE  confirmed'[req'[v].on] # Nothing
    <3>1. req'[v] = req[v]
      BY <1>4, <2>2, OneKind DEF IInv, ReqType
    <3>2. QED
      BY <1>4, <2>2, <3>1 DEF CInv, ConfirmedFirst
  <2>3. QED
    BY <2>1, <2>2 DEF ConfirmedFirst
<1>10. ApprovedAsConfirmed'
  <2>1. ASSUME NEW x \in There' \ contested', sug'[x].status = "approved"
        PROVE  sug'[x].draft = confirmed'[x] /\ Canonical[sug'[x].draft] = sug'[x].draft
    <3>1. x # i
      BY <1>2, <1>5, <2>1
    <3>2. x \in There \ contested /\ sug'[x] = sug[x]
      BY <1>4, <1>5, <2>1, <3>1 DEF There
    <3>3. QED
      BY <1>4, <2>1, <3>2 DEF CInv, ApprovedAsConfirmed
  <2>2. QED
    BY <2>1 DEF ApprovedAsConfirmed
<1>11. Origins'
  <2>1. ASSUME NEW r \in Made
        PROVE  LET x == rules[r].from IN
               /\ sug'[x] \in Row /\ confirmed[x] # Nothing
               /\ x \notin contested => /\ rules[r].draft = confirmed[x]
                                        /\ sug'[x].status = "applied"
                                        /\ sug'[x].result = r
    <3> DEFINE x == rules[r].from
    <3>1. x \in Suggestions
      BY DEF Made, IInv, RulesType, Rule
    <3>2. /\ sug[x] \in Row /\ confirmed[x] # Nothing
          /\ x \notin contested => /\ rules[r].draft = confirmed[x]
                                   /\ sug[x].status = "applied" /\ sug[x].result = r
      BY DEF CInv, Origins
    <3>3. sug'[x] = sug[x]
      BY <1>5, <3>1, <3>2
    <3>4. QED
      BY <3>2, <3>3
  <2>2. QED
    BY <1>4, <2>1 DEF Origins, Made
<1>12. KeysApart'
  BY <1>4 DEF CInv, KeysApart, LiveRules, Made
<1>13. QED
  BY <1>6, <1>8, <1>9, <1>10, <1>11, <1>12 DEF CInv

LEMMA DeletionReviewed ==
    ASSUME IInv, CInv, NEW r \in RuleIds, DeleteRule(r) PROVE CInv'
<1> USE ConstantsAssumption
<1> DEFINE new == [rules[r] EXCEPT !.live = FALSE]
<1>1. rules[r] \in Rule /\ r \in Made
  BY DEF DeleteRule, LiveRules, Made, IInv, RulesType
<1>2. /\ new \in Rule /\ new # Nothing /\ ~new.live
      /\ new.from = rules[r].from /\ new.draft = rules[r].draft
  BY <1>1 DEF Rule
<1>3. rules' = [rules EXCEPT ![r] = new] /\ UNCHANGED <<sug, old, req, contested, confirmed>>
  BY DEF DeleteRule
<1> HIDE DEF new
<1>4. /\ Made' = Made /\ LiveRules' \subseteq LiveRules
      /\ \A q \in Made : rules'[q].from = rules[q].from /\ rules'[q].draft = rules[q].draft
  BY <1>1, <1>2, <1>3 DEF IInv, RulesType, Made, LiveRules
<1>5. HistoryType' /\ ReadsCurrent' /\ ConfirmedFirst' /\ ApprovedAsConfirmed'
  BY <1>3 DEF CInv, HistoryType, ReadsCurrent, ConfirmedFirst, ApprovedAsConfirmed, There
<1>6. Origins'
  BY <1>3, <1>4 DEF CInv, Origins
<1>7. KeysApart'
  BY <1>4 DEF CInv, KeysApart, LiveRules
<1>8. QED
  BY <1>5, <1>6, <1>7 DEF CInv

\* The search for duplicates never expires the row of the edit itself.
LEMMA SearchReviewed ==
    ASSUME IInv, CInv, NEW w \in Workers, NEW q,
           q \in Generating \/ (q \in Changing /\ q.kind = "edit"),
           StillRead(q, sug), UNCHANGED <<sug, rules, contested, confirmed>>,
           FindOutdated(w, q) \/ VetDraft(w, q)
    PROVE  CInv'
<1>1. CASE FindOutdated(w, q)
  <2>1. PICK s \in Suggestions :
           /\ IsLatestTwin(s, q) /\ Outdated(s)
           /\ req' = [req EXCEPT ![w] = [at |-> "expire", victim |-> s, kind |-> "twin",
                                         overtaken |-> FALSE, then |-> q]]
    BY <1>1 DEF FindOutdated
  <2> DEFINE next == [at |-> "expire", victim |-> s, kind |-> "twin",
                      overtaken |-> FALSE, then |-> q]
  <2>2. next \in Clearing /\ next.victim = s /\ next.then = q
    BY DEF Clearing
  <2>3. sug[s].status \in Active
    BY <2>1 DEF Outdated
  <2>4. q \in Changing =>
          /\ q.on # s
          /\ ~q.overtaken => sug[q.on] = q.row /\ q.row.status = "draft"
    BY <2>1, OneKind DEF IsLatestTwin, Twins, StillRead, May
  <2>5. req' = [req EXCEPT ![w] = next]
    BY <2>1
  <2> HIDE DEF next
  <2>6. StillRead(next, sug) /\ next \notin Changing
    BY <2>2, <2>3, <2>4, OneKind DEF StillRead
  <2>7. QED
    BY <2>5, <2>6, CommitsNothing
<1>2. CASE VetDraft(w, q)
  <2> DEFINE next == IF q.kind = "edit" /\ q.reloaded
                     THEN [q EXCEPT !.at = "write", !.row = sug[q.on]]
                     ELSE [q EXCEPT !.at = "write"]
  <2>1. ASSUME q \in Generating PROVE StillRead(next, sug) /\ next \notin Changing
    <3>1. next \in Generating
      BY <2>1 DEF Generating
    <3> HIDE DEF next
    <3>2. QED
      BY <3>1, NothingRead, OneKind
  <2>2. ASSUME q \in Changing, q.kind = "edit"
        PROVE  StillRead(next, sug) /\ next.kind = "edit"
    <3>1. /\ next.on = q.on /\ next.kind = "edit" /\ next.overtaken = q.overtaken
          /\ next.row \in {q.row, sug[q.on]} /\ next.at = "write"
      BY <2>2 DEF Changing
    <3>2. ~q.overtaken => sug[q.on] = q.row /\ q.row.status \in May("edit")
      BY <2>2 DEF StillRead
    <3> HIDE DEF next
    <3>3. next \notin Looking \cup Clearing
      BY <3>1 DEF Looking, Clearing
    <3>4. QED
      BY <3>1, <3>2, <3>3 DEF StillRead
  <2>3. StillRead(next, sug) /\ ~(next \in Changing /\ next.kind = "apply")
    BY <2>1, <2>2
  <2>4. req' = [req EXCEPT ![w] = next]
    BY <1>2 DEF VetDraft
  <2> HIDE DEF next
  <2>5. QED
    BY <2>3, <2>4, CommitsNothing
<1>3. QED
  BY <1>1, <1>2

LEMMA LoadReviewed ==
    ASSUME IInv, CInv, NEW w \in Workers, NEW s \in Suggestions, Load(w, s) PROVE CInv'
<1>1. UNCHANGED <<sug, rules, contested, confirmed>> /\ s \in There
  BY DEF Load
<1>2. CASE Outdated(s)
  <2> DEFINE next == [at |-> "expire", kind |-> "look", victim |-> s, overtaken |-> FALSE]
  <2>1. next \in Looking /\ next.victim = s
    BY DEF Looking
  <2>2. req' = [req EXCEPT ![w] = next]
    BY <1>2 DEF Load
  <2> HIDE DEF next
  <2>3. StillRead(next, sug) /\ next \notin Changing
    BY <1>2, <2>1, OneKind DEF StillRead, Outdated
  <2>4. QED
    BY <1>1, <2>2, <2>3, CommitsNothing
<1>3. CASE ~Outdated(s)
  <2>1. PICK kind \in Kinds :
           /\ sug[s].status \in May(kind)
           /\ \E d \in IF kind = "edit" THEN {x \in Offered : KeyAllowed(x)}
                        ELSE {sug[s].draft} : Admitted(w, kind, s, d)
    BY <1>3 DEF Load, Kinds
  <2>2. PICK d : Admitted(w, kind, s, d)
    BY <2>1
  <2> DEFINE next == [at |-> IF kind \in {"edit", "confirm"} THEN "vet" ELSE "write",
                      kind |-> kind, on |-> s, row |-> sug[s], draft |-> d,
                      reloaded |-> FALSE, overtaken |-> FALSE]
  <2>3. /\ next \notin Looking \cup Clearing
        /\ next.on = s /\ next.kind = kind /\ next.row = sug[s]
    BY DEF Looking, Clearing
  <2>4. kind = "apply" => confirmed[s] # Nothing
    BY <1>1, <2>1 DEF May, CInv, ConfirmedFirst
  <2>5. req' = [req EXCEPT ![w] = next]
    BY <2>2 DEF Admitted
  <2> HIDE DEF next
  <2>6. StillRead(next, sug)
    BY <2>1, <2>3 DEF StillRead
  <2>7. QED
    BY <1>1, <2>3, <2>4, <2>5, <2>6, CommitsNothing
<1>4. QED
  BY <1>2, <1>3

LEMMA InitReviewed == Init => CInv
<1> SUFFICES ASSUME Init PROVE CInv
  OBVIOUS
<1>1. HistoryType /\ ApprovedAsConfirmed /\ Origins /\ KeysApart
  BY DEF Init, HistoryType, ApprovedAsConfirmed, Origins, KeysApart, There, Made, LiveRules
<1>2. ReadsCurrent
  BY NothingRead DEF Init, ReadsCurrent
<1>3. ConfirmedFirst
  BY OneKind DEF Init, ConfirmedFirst, There
<1>4. QED
  BY <1>1, <1>2, <1>3 DEF CInv

LEMMA StepReviewed == IInv /\ CInv /\ [Next]_vars => CInv'
<1> SUFFICES ASSUME IInv, CInv, [Next]_vars PROVE CInv'
  OBVIOUS
<1>1. ASSUME NEW w \in Workers, Request(w) PROVE CInv'
  <2>0. req[w] \in Requests /\ StillRead(req[w], sug)
    BY DEF IInv, ReqType, CInv, ReadsCurrent
  <2>1. CASE Generate(w)
    <3>1. PICK d \in Offered, p \in Prompts :
             \/ FindOutdated(w, [at |-> "vet", kind |-> "generate", draft |-> d, prompt |-> p])
             \/ VetDraft(w, [at |-> "vet", kind |-> "generate", draft |-> d, prompt |-> p])
      BY <2>1 DEF Generate
    <3> DEFINE q == [at |-> "vet", kind |-> "generate", draft |-> d, prompt |-> p]
    <3>2. q \in Generating
      BY <3>1, ConstantsAssumption DEF Generating
    <3>3. UNCHANGED <<sug, rules, contested, confirmed>>
      BY <2>1 DEF Generate
    <3>4. FindOutdated(w, q) \/ VetDraft(w, q)
      BY <3>1
    <3> HIDE DEF q
    <3>5. StillRead(q, sug)
      BY <3>2, NothingRead
    <3>6. QED
      BY <3>2, <3>3, <3>4, <3>5, SearchReviewed
  <2>2. CASE \E s \in Suggestions : Load(w, s)
    BY <2>2, LoadReviewed
  <2>3. CASE Search(w)
    <3>1. req[w] \in Generating \/ (req[w] \in Changing /\ req[w].kind = "edit")
      BY <2>0, <2>3 DEF Search, Requests, Idle, Changing, Looking, Clearing, Kinds
    <3>2. /\ UNCHANGED <<sug, rules, contested, confirmed>>
          /\ FindOutdated(w, req[w]) \/ VetDraft(w, req[w])
      BY <2>3 DEF Search
    <3>3. QED
      BY <2>0, <3>1, <3>2, SearchReviewed
  <2>4. CASE VetConfirmation(w)
    <3> DEFINE next == [req[w] EXCEPT !.at = "write"]
    <3>1. req[w] \in Changing /\ req[w].kind = "confirm"
      BY <2>0, <2>4 DEF VetConfirmation, Requests, Idle, Generating, Looking, Clearing
    <3>2. /\ next \in Changing /\ next.on = req[w].on /\ next.kind = req[w].kind
          /\ next.row = req[w].row /\ next.overtaken = req[w].overtaken
      BY <3>1 DEF Changing
    <3>3. /\ req' = [req EXCEPT ![w] = next]
          /\ UNCHANGED <<sug, rules, contested, confirmed>>
      BY <2>4 DEF VetConfirmation, IInv, ReqType
    <3> HIDE DEF next
    <3>4. StillRead(next, sug)
      BY <2>0, <3>1, <3>2, OneKind DEF StillRead
    <3>5. QED
      BY <3>1, <3>2, <3>3, <3>4, CommitsNothing
  <2>5. CASE Refuse(w)
    BY <2>5, NothingRead, OneKind, CommitsNothing DEF Refuse
  <2>6. CASE Expire(w)
    BY <2>6, ExpiryReviewed
  <2>7. CASE WriteGenerated(w)
    BY <2>7, InsertReviewed
  <2>8. CASE WriteEdit(w)
    BY <2>8, EditReviewed
  <2>9. CASE WriteConfirmation(w)
    BY <2>9, ConfirmationReviewed
  <2>10. CASE WriteRejection(w)
    BY <2>10, RejectionReviewed
  <2>11. CASE WriteApplication(w)
    BY <2>11, ApplicationReviewed
  <2>12. CASE RollBack(w)
    BY <2>12, NothingRead, OneKind, CommitsNothing DEF RollBack
  <2>13. QED
    BY <1>1, <2>1, <2>2, <2>3, <2>4, <2>5, <2>6, <2>7, <2>8, <2>9, <2>10, <2>11, <2>12
       DEF Request
<1>2. ASSUME NEW s \in Suggestions, Age(s) PROVE CInv'
  BY <1>2 DEF Age, CInv, HistoryType, ReadsCurrent, ConfirmedFirst, ApprovedAsConfirmed,
              Origins, KeysApart, There, Made, LiveRules
<1>3. ASSUME NEW r \in RuleIds, DeleteRule(r) PROVE CInv'
  BY <1>3, DeletionReviewed
<1>4. CASE UNCHANGED vars
  BY <1>4 DEF vars, CInv, HistoryType, ReadsCurrent, ConfirmedFirst, ApprovedAsConfirmed,
              Origins, KeysApart, There, Made, LiveRules
<1>5. QED
  BY <1>1, <1>2, <1>3, <1>4 DEF Next

LEMMA Invariant == Spec => [](IInv /\ CInv)
  BY InitHolds, InitReviewed, StepKeeps, StepReviewed, PTL DEF Spec

\* Every variable keeps its shape.
THEOREM SuggestionTypes == Spec => []TypeOK
<1>1. IInv /\ CInv => TypeOK
  <2> SUFFICES ASSUME IInv, CInv PROVE TypeOK
    OBVIOUS
  <2>1. /\ sug \in [Suggestions -> Row \cup {Nothing}]
        /\ rules \in [RuleIds -> Rule \cup {Nothing}]
        /\ confirmed \in [Suggestions -> Drafts \cup {Nothing}]
    BY DEF IInv, SugType, RulesType, CInv, HistoryType
  <2>2. \A s \in Suggestions : sug[s] \in Row => s \in There
    BY ConstantsAssumption DEF There
  <2>3. old \subseteq There /\ contested \subseteq There
    BY <2>2 DEF IInv, OldThere, CInv, HistoryType
  <2>4. ASSUME NEW w \in Workers
        PROVE  \/ req[w] = Idle
               \/ req[w].at \in {"vet", "write"} /\ req[w].draft \in Drafts
               \/ req[w].at = "expire" /\ req[w].victim \in There
    <3>1. req[w] \in Requests /\ Grounded(req[w], sug, rules)
      BY DEF IInv, ReqType, ReqGrounded
    <3>2. CASE req[w] \in Generating \cup Changing
      BY <3>2 DEF Generating, Changing
    <3>3. CASE req[w] \in Looking \cup Clearing
      BY <2>2, <3>1, <3>3 DEF Looking, Clearing, Grounded
    <3>4. QED
      BY <3>1, <3>2, <3>3 DEF Requests
  <2>5. QED
    BY <2>1, <2>3, <2>4 DEF TypeOK
<1>2. QED
  BY <1>1, Invariant, PTL

\* A rule comes from a confirmed suggestion, and is what was confirmed unless a
\* request wrote over another's write; keys of live rules differ.
THEOREM RulesComeFromConfirmations == Spec => []RulesWereConfirmed
<1>1. CInv => RulesWereConfirmed
  BY DEF CInv, RulesWereConfirmed, Origins, KeysApart, Made, LiveRules
<1>2. QED
  BY <1>1, Invariant, PTL

-----------------------------------------------------------------------------
(***************************************************************************)
(* Every behaviour of the suggestions is one of SuggestionReview, for every  *)
(* number of workers, suggestions, rules and versions.                      *)
(*                                                                         *)
(* A write to a suggestion that nobody contests is the step of the review    *)
(* that its request asked for, because the row is still what was read; the   *)
(* first write by a request that was overtaken is the review's Contest; all   *)
(* else the review does not see.                                           *)
(***************************************************************************)

\* What the review sees of x does not change.
Unseen(x) ==
    /\ ReviewPhase'[x] = ReviewPhase[x] /\ ReviewVersion'[x] = ReviewVersion[x]
    /\ ReviewContent'[x] = ReviewContent[x] /\ ReviewMade'[x] = ReviewMade[x]

DraftsKept == \A r \in RuleIds : rules[r] \in Rule => rules'[r].draft = rules[r].draft

LEMMA UnseenRow ==
    ASSUME IInv, SugType', NEW x \in Suggestions, sug'[x] = sug[x], DraftsKept,
           x \in contested' <=> x \in contested
    PROVE  Unseen(x)
<1>1. sug[x] = Nothing \/ sug[x] \in Row
  BY DEF IInv, SugType
<1>2. sug[x] \in Row /\ sug[x].result # Nothing =>
        rules'[sug[x].result].draft = rules[sug[x].result].draft
  <2>1. sug[x] \in Row => sug[x].result \in RuleIds \cup {Nothing}
    BY DEF Row
  <2>2. QED
    BY <2>1 DEF IInv, ResultsMade, HasResult, DraftsKept
<1>3. QED
  BY <1>1, <1>2 DEF Unseen, ReviewPhase, ReviewVersion, ReviewContent, ReviewMade, Plain

LEMMA UnseenContested ==
    ASSUME NEW s \in Suggestions, s \in contested, s \in contested',
           sug[s] # Nothing, sug'[s] # Nothing
    PROVE  Unseen(s)
  BY DEF Unseen, ReviewPhase, ReviewVersion, ReviewContent, ReviewMade, Plain

LEMMA AllUnseen ==
    ASSUME \A x \in Suggestions : Unseen(x)
    PROVE  UNCHANGED Review!vars
<1>1. ReviewPhase' = ReviewPhase
  BY DEF Unseen, ReviewPhase
<1>2. ReviewVersion' = ReviewVersion
  BY DEF Unseen, ReviewVersion
<1>3. ReviewContent' = ReviewContent
  BY DEF Unseen, ReviewContent
<1>4. ReviewMade' = ReviewMade
  BY DEF Unseen, ReviewMade
<1>5. QED
  BY <1>1, <1>2, <1>3, <1>4 DEF Review!vars

\* The review sees a change of s only.
OnlySeen(s) ==
    /\ ReviewPhase' = [ReviewPhase EXCEPT ![s] = ReviewPhase'[s]]
    /\ ReviewVersion' = [ReviewVersion EXCEPT ![s] = ReviewVersion'[s]]
    /\ ReviewContent' = [ReviewContent EXCEPT ![s] = ReviewContent'[s]]
    /\ ReviewMade' = [ReviewMade EXCEPT ![s] = ReviewMade'[s]]

LEMMA OthersUnseen ==
    ASSUME NEW s \in Suggestions, \A x \in Suggestions \ {s} : Unseen(x)
    PROVE  OnlySeen(s)
<1>1. ReviewPhase' = [ReviewPhase EXCEPT ![s] = ReviewPhase'[s]]
  BY DEF Unseen, ReviewPhase
<1>2. ReviewVersion' = [ReviewVersion EXCEPT ![s] = ReviewVersion'[s]]
  BY DEF Unseen, ReviewVersion
<1>3. ReviewContent' = [ReviewContent EXCEPT ![s] = ReviewContent'[s]]
  BY DEF Unseen, ReviewContent
<1>4. ReviewMade' = [ReviewMade EXCEPT ![s] = ReviewMade'[s]]
  BY DEF Unseen, ReviewMade
<1>5. QED
  BY <1>1, <1>2, <1>3, <1>4 DEF OnlySeen

\* The review of a suggestion that nobody contests is its row.
SeenAs(s) ==
    /\ ReviewPhase[s] = sug[s].status /\ ReviewVersion[s] = sug[s].version
    /\ ReviewContent[s] = sug[s].draft
    /\ ReviewMade[s] = IF sug[s].result # Nothing THEN rules[sug[s].result].draft
                       ELSE Nothing

LEMMA PlainSeen ==
    ASSUME NEW s \in Suggestions, sug[s] \in Row, s \notin contested PROVE SeenAs(s)
  BY ConstantsAssumption
     DEF SeenAs, ReviewPhase, ReviewVersion, ReviewContent, ReviewMade, Plain

LEMMA PlainSeenNext ==
    ASSUME NEW s \in Suggestions, sug'[s] \in Row, s \notin contested' PROVE SeenAs(s)'
  BY ConstantsAssumption
     DEF SeenAs, ReviewPhase, ReviewVersion, ReviewContent, ReviewMade, Plain

\* A function stays when it is changed to what it was.
LEMMA NoChange ==
    ASSUME NEW D, NEW F, F = [x \in D |-> F[x]], NEW s PROVE [F EXCEPT ![s] = F[s]] = F
  OBVIOUS

LEMMA SameStays ==
    ASSUME NEW s, OnlySeen(s)
    PROVE  /\ ReviewVersion'[s] = ReviewVersion[s] => ReviewVersion' = ReviewVersion
           /\ ReviewContent'[s] = ReviewContent[s] => ReviewContent' = ReviewContent
           /\ ReviewMade'[s] = ReviewMade[s] => ReviewMade' = ReviewMade
<1>1. ReviewVersion = [x \in Suggestions |-> ReviewVersion[x]]
  BY DEF ReviewVersion
<1>2. ReviewContent = [x \in Suggestions |-> ReviewContent[x]]
  BY DEF ReviewContent
<1>3. ReviewMade = [x \in Suggestions |-> ReviewMade[x]]
  BY DEF ReviewMade
<1>4. QED
  BY <1>1, <1>2, <1>3, NoChange DEF OnlySeen

Refined == [Review!Next]_(Review!vars)

\* A write of new to s that the review sees as it is.
PlainWrite(w, s, new) ==
    /\ ~req[w].overtaken /\ s \notin contested /\ sug'[s] = new
    /\ OnlySeen(s) /\ SeenAs(s) /\ SeenAs(s)'

\* A write to s is a step of the review, or s is contested before or after it.
LEMMA WriteSeen ==
    ASSUME IInv, SugType', NEW w, NEW s \in Suggestions, sug[s] \in Row,
           NEW new \in Row, sug' = [sug EXCEPT ![s] = new], DraftsKept, Contest(w, s)
    PROVE  Refined \/ PlainWrite(w, s, new)
<1> USE ConstantsAssumption
<1>1. /\ sug'[s] = new /\ new # Nothing /\ sug[s] # Nothing
      /\ \A x \in Suggestions \ {s} : sug'[x] = sug[x]
  BY DEF IInv, SugType
<1>2. \A x \in Suggestions \ {s} : Unseen(x)
  BY <1>1, UnseenRow DEF Contest
<1>3. OnlySeen(s)
  BY <1>2, OthersUnseen
<1>4. CASE s \in contested
  <2>1. Unseen(s)
    BY <1>1, <1>4, UnseenContested DEF Contest
  <2>2. UNCHANGED Review!vars
    BY <1>2, <2>1, AllUnseen
  <2>3. QED
    BY <2>2 DEF Refined
<1>5. CASE s \notin contested /\ s \in contested'
  <2>1. ReviewPhase[s] \in Statuses
    BY <1>5, PlainSeen DEF SeenAs, Row
  <2>2. /\ ReviewPhase'[s] = "contested" /\ ReviewVersion'[s] = 0
        /\ ReviewContent'[s] = Nothing /\ ReviewMade'[s] = Nothing
    BY <1>1, <1>5 DEF ReviewPhase, ReviewVersion, ReviewContent, ReviewMade, Plain
  <2>3. Review!Contest(s)
    BY <1>3, <2>1, <2>2
       DEF OnlySeen, Review!Contest, Review!Moves, Review!Phases, Statuses
  <2>4. QED
    BY <2>3 DEF Refined, Review!Next
<1>6. CASE s \notin contested /\ s \notin contested'
  <2>1. ~req[w].overtaken
    BY <1>6 DEF Contest
  <2>2. SeenAs(s) /\ SeenAs(s)'
    BY <1>1, <1>6, PlainSeen, PlainSeenNext
  <2>3. QED
    BY <1>1, <1>3, <1>6, <2>1, <2>2 DEF PlainWrite
<1>7. QED
  BY <1>4, <1>5, <1>6

LEMMA ExpiryRefines ==
    ASSUME IInv, CInv, SugType', NEW w \in Workers, Expire(w) PROVE Refined
<1>1. req[w] \in Looking \cup Clearing
  BY DEF Expire, IInv, ReqType, Requests, Idle, Generating, Changing
<1>2. PICK s \in Suggestions : s = req[w].victim /\ sug[s] \in Row
  BY <1>1 DEF Looking, Clearing, IInv, ReqGrounded, Grounded
<1>3. PICK new \in Row :
          /\ new = [sug[s] EXCEPT !.status = "expired"]
          /\ new.status = "expired" /\ new.version = sug[s].version
          /\ new.draft = sug[s].draft /\ new.result = sug[s].result
  <2> DEFINE e == [sug[s] EXCEPT !.status = "expired"]
  <2>1. /\ e \in Row /\ e.status = "expired" /\ e.version = sug[s].version
        /\ e.draft = sug[s].draft /\ e.result = sug[s].result
    BY <1>2 DEF Row, Statuses
  <2>2. QED
    BY <2>1
<1>4. sug' = [sug EXCEPT ![s] = new] /\ Contest(w, s) /\ UNCHANGED rules
  BY <1>2, <1>3 DEF Expire
<1>5. ~req[w].overtaken => sug[s].status \in Active
  BY <1>1, <1>2 DEF CInv, ReadsCurrent, StillRead
<1>6. DraftsKept
  BY <1>4 DEF DraftsKept
<1>7. CASE PlainWrite(w, s, new)
  <2>1. /\ ReviewPhase[s] \in Active /\ ReviewPhase'[s] = "expired"
        /\ ReviewVersion'[s] = ReviewVersion[s]
        /\ ReviewContent'[s] = ReviewContent[s] /\ ReviewMade'[s] = ReviewMade[s]
    BY <1>3, <1>4, <1>5, <1>7 DEF PlainWrite, SeenAs
  <2>2. Review!Expire(s)
    BY <1>7, <2>1, SameStays
       DEF PlainWrite, OnlySeen, Review!Expire, Review!Moves, Review!Active, Active
  <2>3. QED
    BY <1>2, <2>2 DEF Refined, Review!Next
<1>8. QED
  BY <1>2, <1>3, <1>4, <1>6, <1>7, WriteSeen

\* What a change of s saves, as the review sees it when nobody was overtaken.
Changed(w, s, new, status, d, result) ==
    /\ s \in Suggestions /\ sug[s] \in Row /\ new \in Row
    /\ sug' = [sug EXCEPT ![s] = new] /\ Contest(w, s)
    /\ ~req[w].overtaken =>
          /\ req[w].row = sug[s] /\ sug[s].status \in May(req[w].kind)
          /\ new.status = status /\ new.draft = d /\ new.result = result
          /\ new.version = sug[s].version + 1

LEMMA WritesChange ==
    ASSUME IInv, CInv, NEW w \in Workers, req[w].at = "write", req[w].kind \in Kinds,
           NEW status \in Statuses, NEW d \in Drafts, NEW body \in Bodies,
           NEW result \in RuleIds \cup {Nothing}, Writes(w, status, d, body, result)
    PROVE  \E s, new : s = req[w].on /\ Changed(w, s, new, status, d, result)
<1>1. PICK s : s = req[w].on
  OBVIOUS
<1>2. PICK row : row = req[w].row
  OBVIOUS
<1>3. PICK new : new = Saved(w, status, d, body, result)
  OBVIOUS
<1>4. FreshlySaved(w, s, row, new, status, d, result)
  BY <1>1, <1>2, <1>3, FreshWrite
<1>5. sug' = [sug EXCEPT ![s] = new] /\ Contest(w, s)
  BY <1>1, <1>3 DEF Writes
<1>6. Changed(w, s, new, status, d, result)
  BY <1>2, <1>4, <1>5 DEF FreshlySaved, Changed
<1>7. QED
  BY <1>1, <1>6

\* The row a change has read is one.
LEMMA RowRead ==
    ASSUME IInv, NEW w \in Workers, req[w].at = "write", req[w].kind \in Kinds
    PROVE  /\ req[w].row \in Row /\ req[w].draft \in Drafts
           /\ req[w].row.status \in Statuses /\ req[w].row.draft \in Drafts
           /\ req[w].row.body \in Bodies
           /\ req[w].row.result \in RuleIds \cup {Nothing}
<1>1. req[w] \in Changing
  BY DEF IInv, ReqType, Requests, Idle, Generating, Looking, Clearing, Kinds
<1>2. QED
  BY <1>1 DEF Changing, Row

LEMMA EditRefines ==
    ASSUME IInv, CInv, SugType', NEW w \in Workers, WriteEdit(w) PROVE Refined
<1>1. /\ req[w].at = "write" /\ req[w].kind = "edit" /\ req[w].kind \in Kinds
      /\ UNCHANGED rules
  BY DEF WriteEdit, Kinds
<1>2. PICK row, d : row = req[w].row /\ d = req[w].draft
  OBVIOUS
<1>3. /\ row.status \in Statuses /\ d \in Drafts /\ Body[d] \in Bodies
      /\ row.result \in RuleIds \cup {Nothing}
  BY <1>1, <1>2, RowRead DEF Bodies
<1>4. Writes(w, row.status, d, Body[d], row.result)
  BY <1>2 DEF WriteEdit
<1>5. PICK s, new : s = req[w].on /\ Changed(w, s, new, row.status, d, row.result)
  BY <1>1, <1>3, <1>4, WritesChange
<1>6. DraftsKept
  BY <1>1 DEF DraftsKept
<1>7. CASE PlainWrite(w, s, new)
  <2>1. /\ ReviewPhase[s] = "draft" /\ ReviewPhase'[s] = "draft"
        /\ ReviewVersion'[s] = ReviewVersion[s] + 1
        /\ ReviewContent'[s] = d /\ ReviewMade'[s] = ReviewMade[s]
    BY <1>1, <1>2, <1>5, <1>7 DEF PlainWrite, SeenAs, Changed, May
  <2>2. Review!Revise(s)
    BY <1>3, <1>7, <2>1, SameStays
       DEF PlainWrite, OnlySeen, Review!Revise, Review!Moves, Review!NextVersion,
           Review!Becomes
  <2>3. QED
    BY <1>5, <2>2 DEF Refined, Review!Next, Changed
<1>8. QED
  BY <1>5, <1>6, <1>7, WriteSeen DEF Changed

LEMMA RejectionRefines ==
    ASSUME IInv, CInv, SugType', NEW w \in Workers, WriteRejection(w) PROVE Refined
<1>1. /\ req[w].at = "write" /\ req[w].kind = "reject" /\ req[w].kind \in Kinds
      /\ UNCHANGED rules /\ "rejected" \in Statuses
  BY DEF WriteRejection, Kinds, Statuses
<1>2. PICK row : row = req[w].row
  OBVIOUS
<1>3. /\ row.draft \in Drafts /\ row.body \in Bodies
      /\ row.result \in RuleIds \cup {Nothing}
  BY <1>1, <1>2, RowRead
<1>4. Writes(w, "rejected", row.draft, row.body, row.result)
  BY <1>2 DEF WriteRejection
<1>5. PICK s, new : /\ s = req[w].on
                    /\ Changed(w, s, new, "rejected", row.draft, row.result)
  BY <1>1, <1>3, <1>4, WritesChange
<1>6. DraftsKept
  BY <1>1 DEF DraftsKept
<1>7. CASE PlainWrite(w, s, new)
  <2>1. /\ ReviewPhase[s] \in Active /\ ReviewPhase'[s] = "rejected"
        /\ ReviewVersion'[s] = ReviewVersion[s] + 1
        /\ ReviewContent'[s] = ReviewContent[s] /\ ReviewMade'[s] = ReviewMade[s]
    BY <1>1, <1>2, <1>5, <1>7 DEF PlainWrite, SeenAs, Changed, May
  <2>2. Review!Reject(s)
    BY <1>7, <2>1, SameStays
       DEF PlainWrite, OnlySeen, Review!Reject, Review!Moves, Review!NextVersion,
           Review!Active, Active
  <2>3. QED
    BY <1>5, <2>2 DEF Refined, Review!Next, Changed
<1>8. QED
  BY <1>5, <1>6, <1>7, WriteSeen DEF Changed

LEMMA ConfirmationRefines ==
    ASSUME IInv, CInv, SugType', NEW w \in Workers, WriteConfirmation(w) PROVE Refined
<1>1. /\ req[w].at = "write" /\ req[w].kind = "confirm" /\ req[w].kind \in Kinds
      /\ UNCHANGED rules /\ "approved" \in Statuses
  BY DEF WriteConfirmation, Kinds, Statuses
<1>2. PICK row : row = req[w].row
  OBVIOUS
<1>3. /\ row.draft \in Drafts /\ Canonical[row.draft] \in Drafts /\ row.body \in Bodies
      /\ row.result \in RuleIds \cup {Nothing}
  BY <1>1, <1>2, RowRead, ConstantsAssumption
<1>4. Writes(w, "approved", Canonical[row.draft], row.body, row.result)
  BY <1>2 DEF WriteConfirmation
<1>5. PICK s, new :
         /\ s = req[w].on
         /\ Changed(w, s, new, "approved", Canonical[row.draft], row.result)
  BY <1>1, <1>3, <1>4, WritesChange
<1>6. DraftsKept
  BY <1>1 DEF DraftsKept
<1>7. CASE PlainWrite(w, s, new)
  <2>1. /\ ReviewPhase[s] = "draft" /\ ReviewPhase'[s] = "approved"
        /\ ReviewVersion'[s] = ReviewVersion[s] + 1
        /\ ReviewContent'[s] = Canonical[ReviewContent[s]]
        /\ ReviewMade'[s] = ReviewMade[s]
    BY <1>1, <1>2, <1>5, <1>7 DEF PlainWrite, SeenAs, Changed, May
  <2>2. Review!Approve(s)
    BY <1>7, <2>1, SameStays
       DEF PlainWrite, OnlySeen, Review!Approve, Review!Moves, Review!NextVersion,
           Review!Becomes
  <2>3. QED
    BY <1>5, <2>2 DEF Refined, Review!Next, Changed
<1>8. QED
  BY <1>5, <1>6, <1>7, WriteSeen DEF Changed

LEMMA ApplicationRefines ==
    ASSUME IInv, CInv, SugType', NEW w \in Workers, WriteApplication(w) PROVE Refined
<1>1. /\ req[w].at = "write" /\ req[w].kind = "apply" /\ req[w].kind \in Kinds
      /\ "applied" \in Statuses
  BY DEF WriteApplication, Kinds, Statuses
<1>2. PICK row : row = req[w].row
  OBVIOUS
<1>3. PICK r \in RuleIds \ Made :
         /\ rules' = [rules EXCEPT ![r] = [draft |-> Canonical[row.draft],
                                          from |-> req[w].on, live |-> TRUE]]
         /\ Writes(w, "applied", row.draft, row.body, r)
  BY <1>2 DEF WriteApplication, Applied
<1>4. /\ row.draft \in Drafts /\ row.body \in Bodies /\ r \in RuleIds \cup {Nothing}
  BY <1>1, <1>2, <1>3, RowRead
<1>5. PICK s, new : s = req[w].on /\ Changed(w, s, new, "applied", row.draft, r)
  BY <1>1, <1>3, <1>4, WritesChange
<1>6. DraftsKept /\ rules'[r].draft = Canonical[row.draft] /\ r # Nothing
  <2>1. rules[r] = Nothing /\ Nothing \notin Rule
    BY <1>3, ConstantsAssumption DEF Made
  <2>2. QED
    BY <1>3, <2>1, ConstantsAssumption DEF DraftsKept, IInv, RulesType
<1>7. CASE PlainWrite(w, s, new)
  <2>1. /\ row = sug[s] /\ sug[s].status = "approved"
        /\ new.status = "applied" /\ new.version = sug[s].version + 1
        /\ new.draft = row.draft /\ new.result = r
    BY <1>1, <1>2, <1>5, <1>7 DEF PlainWrite, Changed, May
  <2>2. Canonical[row.draft] = row.draft
    <3>1. s \in There \ contested
      BY <1>5, <1>7, ConstantsAssumption DEF Changed, PlainWrite, There
    <3>2. QED
      BY <2>1, <3>1 DEF CInv, ApprovedAsConfirmed
  <2>3. /\ ReviewPhase[s] = "approved" /\ ReviewPhase'[s] = "applied"
        /\ ReviewVersion'[s] = ReviewVersion[s] + 1
        /\ ReviewContent'[s] = ReviewContent[s] /\ ReviewMade'[s] = ReviewContent[s]
    BY <1>6, <1>7, <2>1, <2>2 DEF PlainWrite, SeenAs
  <2>4. Review!Enact(s)
    BY <1>7, <2>3, SameStays
       DEF PlainWrite, OnlySeen, Review!Enact, Review!Moves, Review!NextVersion
  <2>5. QED
    BY <1>5, <2>4 DEF Refined, Review!Next, Changed
<1>8. QED
  BY <1>5, <1>6, <1>7, WriteSeen DEF Changed

\* A generation proposes a suggestion that the review has not seen yet.
LEMMA GenerationRefines ==
    ASSUME IInv, CInv, SugType', NEW w \in Workers, WriteGenerated(w) PROVE Refined
<1> USE ConstantsAssumption
<1>1. req[w] \in Generating
  BY DEF WriteGenerated, IInv, ReqType, Requests, Idle, Changing, Looking, Clearing, Kinds
<1> DEFINE new == [status |-> "draft", version |-> 1, draft |-> req[w].draft,
                   body |-> Body[req[w].draft], prompt |-> req[w].prompt,
                   result |-> Nothing]
<1>2. PICK s \in Suggestions \ There : sug' = [sug EXCEPT ![s] = new]
  BY DEF WriteGenerated
<1>3. /\ new \in Row /\ new.status = "draft" /\ new.version = 1
      /\ new.draft \in Drafts /\ new.result = Nothing
  BY <1>1 DEF Generating, Row, Statuses, Bodies
<1> HIDE DEF new
<1>4. UNCHANGED <<rules, contested>>
  BY DEF WriteGenerated
<1>5. /\ sug[s] = Nothing /\ sug'[s] = new /\ s \notin contested
      /\ \A x \in Suggestions \ {s} : sug'[x] = sug[x]
  BY <1>2 DEF There, IInv, SugType, CInv, HistoryType
<1>6. DraftsKept
  BY <1>4 DEF DraftsKept
<1>7. OnlySeen(s)
  BY <1>4, <1>5, <1>6, UnseenRow, OthersUnseen
<1>8. SeenAs(s)'
  BY <1>3, <1>4, <1>5, PlainSeenNext
<1>9. /\ ReviewPhase[s] = "none" /\ ReviewVersion[s] = 0 /\ ReviewMade[s] = Nothing
  BY <1>5 DEF ReviewPhase, ReviewVersion, ReviewMade, Plain
<1>10. /\ ReviewPhase'[s] = "draft" /\ ReviewVersion'[s] = ReviewVersion[s] + 1
       /\ ReviewContent'[s] \in Drafts /\ ReviewMade'[s] = ReviewMade[s]
  BY <1>3, <1>5, <1>8, <1>9 DEF SeenAs
<1>11. Review!Propose(s)
  BY <1>7, <1>9, <1>10, SameStays
     DEF OnlySeen, Review!Propose, Review!Moves, Review!NextVersion, Review!Becomes
<1>12. QED
  BY <1>11 DEF Refined, Review!Next

\* What changes no row, no rule's draft and no contest is not seen.
LEMMA RestUnseen ==
    ASSUME IInv, SugType', UNCHANGED <<sug, contested>>, DraftsKept PROVE Refined
<1>1. \A x \in Suggestions : Unseen(x)
  BY UnseenRow
<1>2. QED
  BY <1>1, AllUnseen DEF Refined

LEMMA StepRefines ==
    ASSUME IInv, CInv, SugType', [Next]_vars PROVE Refined
<1>1. UNCHANGED rules => DraftsKept
  BY DEF DraftsKept
<1>2. ASSUME NEW w \in Workers, Request(w) PROVE Refined
  <2>1. CASE \/ Generate(w) \/ (\E s \in Suggestions : Load(w, s)) \/ Search(w)
             \/ VetConfirmation(w) \/ Refuse(w) \/ RollBack(w)
    <3>1. UNCHANGED <<sug, rules, contested>>
      BY <2>1 DEF Generate, Load, Search, VetConfirmation, Refuse, RollBack
    <3>2. QED
      BY <1>1, <3>1, RestUnseen
  <2>2. CASE Expire(w)
    BY <2>2, ExpiryRefines
  <2>3. CASE WriteGenerated(w)
    BY <2>3, GenerationRefines
  <2>4. CASE WriteEdit(w)
    BY <2>4, EditRefines
  <2>5. CASE WriteConfirmation(w)
    BY <2>5, ConfirmationRefines
  <2>6. CASE WriteRejection(w)
    BY <2>6, RejectionRefines
  <2>7. CASE WriteApplication(w)
    BY <2>7, ApplicationRefines
  <2>8. QED
    BY <1>2, <2>1, <2>2, <2>3, <2>4, <2>5, <2>6, <2>7 DEF Request
<1>3. ASSUME NEW s \in Suggestions, Age(s) PROVE Refined
  BY <1>1, <1>3, RestUnseen DEF Age
<1>4. ASSUME NEW r \in RuleIds, DeleteRule(r) PROVE Refined
  <2>1. rules' = [rules EXCEPT ![r] = [rules[r] EXCEPT !.live = FALSE]]
    BY <1>4 DEF DeleteRule
  <2>2. DraftsKept
    BY <2>1 DEF DraftsKept, IInv, RulesType, Rule
  <2>3. QED
    BY <1>4, <2>2, RestUnseen DEF DeleteRule
<1>5. CASE UNCHANGED vars
  BY <1>1, <1>5, RestUnseen DEF vars
<1>6. QED
  BY <1>2, <1>3, <1>4, <1>5 DEF Next

LEMMA InitRefines == Init => Review!Init
<1> SUFFICES ASSUME Init PROVE Review!Init
  OBVIOUS
<1>1. \A s \in Suggestions : sug[s] = Nothing
  BY DEF Init
<1>2. QED
  BY <1>1 DEF Review!Init, ReviewPhase, ReviewVersion, ReviewContent, ReviewMade, Plain

\* Whatever requests overlap, a suggestion that nobody wrote over is reviewed as
\* the abstract specification has it: revised, confirmed and applied in that
\* order, a version for each, and the rule is what was confirmed.
THEOREM SuggestionsAreReviewed == Spec => Reviewed
<1>1. IInv /\ CInv /\ SugType' /\ [Next]_vars => [Review!Next]_(Review!vars)
  BY StepRefines DEF Refined
<1>2. IInv => SugType
  BY DEF IInv
<1>3. QED
  BY <1>1, <1>2, InitRefines, Invariant, PTL DEF Spec, Reviewed, Review!Spec
=============================================================================
