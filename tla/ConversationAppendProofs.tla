----------------------- MODULE ConversationAppendProofs -----------------------
(***************************************************************************)
(* Theorems about ConversationAppend for any number of sends, edits,       *)
(* conversations and crashes.                                              *)
(***************************************************************************)
EXTENDS ConversationAppend, TLAPS

\* What a rollback and a commit leave in the four variables they set.
TransactionType ==
    /\ counter' \in [Conversations -> Nat]
    /\ rowLock' \in [Conversations -> Requests \cup {NoOne}]
    /\ pending' \in [Requests -> BOOLEAN]
    /\ cached' \in [Requests -> Nat \cup {Expired}]

\* A rollback keeps the shape of what it changes.
LEMMA RollbackType ==
    ASSUME TypeOK, NEW r \in Requests, Rollback(r) PROVE TransactionType
  BY ConstantsAssumption
     DEF TypeOK, Rollback, Unlocked, Conv, Expired, TransactionType

\* A commit keeps the shape of what it changes.
LEMMA CommitType ==
    ASSUME TypeOK, NEW r \in Requests, Commit(r) PROVE TransactionType
<1>1. counter' \in [Conversations -> Nat]
  BY ConstantsAssumption DEF TypeOK, Commit, Conv
<1>2. QED
  BY <1>1, ConstantsAssumption
     DEF TypeOK, Commit, Unlocked, Conv, Expired, TransactionType

\* Every variable keeps its shape.
THEOREM TypeCorrect == Spec => []TypeOK
<1> USE ConstantsAssumption
<1>1. Init => TypeOK
  BY DEF Init, TypeOK, Statuses, Roles, Stages, RuleActions, Outcomes, Edit,
         Expired
<1>2. TypeOK /\ [Next]_vars => TypeOK'
  <2> SUFFICES ASSUME TypeOK, [Next]_vars PROVE TypeOK'
    OBVIOUS
  <2> USE DEF TypeOK, Statuses, Roles, Stages, RuleActions, Outcomes,
              Expired, Conv, database, session, TransactionType
  <2>1. ASSUME NEW r \in Requests, Send(r) PROVE TypeOK'
    <3>1. CASE Guard(r)  BY <3>1 DEF Guard, Goto, Finish
    <3>2. CASE Enter(r)  BY <3>2 DEF Enter, Goto
    <3>3. CASE LockRow(r)
      <4>1. CASE Refused(r)
        BY <3>3, <4>1 DEF LockRow, Raise
      <4>2. CASE ~Refused(r)
        <5>1. cached[r] + 1 \in Nat
          OBVIOUS
        <5>2. /\ number' = [number EXCEPT ![r] = cached[r] + 1]
              /\ pending' = [pending EXCEPT ![r] = TRUE]
              /\ stage' = [stage EXCEPT ![r] = "scanning"]
              /\ rowLock' = [rowLock EXCEPT ![Conv(r)] = r]
              /\ UNCHANGED <<counter, status, messages, cached, cachedStatus,
                             role, verdict, outcome, edit, loop, crashes,
                             prompts>>
          BY <3>3, <4>2 DEF LockRow, Goto
        <5>3. number' \in [Requests -> Nat]
          BY <5>1, <5>2
        <5>4. pending' \in [Requests -> BOOLEAN]
          BY <5>2
        <5>5. QED  BY <5>2, <5>3, <5>4
      <4>3. QED  BY <4>1, <4>2
    <3>4. CASE AwaitVerify(r)  BY <3>4 DEF AwaitVerify, Goto
    <3>5. CASE ResumeVerify(r)
      <4>1. CASE UNCHANGED <<counter, rowLock, pending, cached>>
        BY <3>5, <4>1 DEF ResumeVerify, Goto
      <4>2. CASE Rollback(r)
        BY <3>5, <4>2, RollbackType DEF ResumeVerify, Goto
      <4>3. QED  BY <3>5, <4>1, <4>2 DEF ResumeVerify
    <3>6. CASE AwaitRag(r)  BY <3>6 DEF AwaitRag, Goto
    <3>7. CASE ResumeRag(r)
      <4>1. CASE UNCHANGED <<counter, rowLock, pending, cached>>
        BY <3>7, <4>1 DEF ResumeRag, Goto
      <4>2. CASE Commit(r)
        BY <3>7, <4>2, CommitType DEF ResumeRag, Goto
      <4>3. CASE Rollback(r)
        BY <3>7, <4>3, RollbackType DEF ResumeRag, Goto
      <4>4. QED  BY <3>7, <4>1, <4>2, <4>3 DEF ResumeRag
    <3>8. CASE Decide(r)  BY <3>8 DEF Decide, Goto
    <3>9. CASE ScanRaises(r)  BY <3>9 DEF ScanRaises, Raise
    <3>10. CASE SaveUser(r)
      <4>1. NewMessage(r, number[r]) \in Message
        BY DEF NewMessage, Message
      <4>2. QED  BY <3>10, <4>1 DEF SaveUser, Goto, Finish, Unlocked
    <3>11. CASE CallLlm(r)  BY <3>11 DEF CallLlm, Goto, LlmInput
    <3>12. CASE ReplyArrives(r)  BY <3>12 DEF ReplyArrives, Goto
    <3>13. CASE SaveAssistant(r)
      <4>1. Loaded(r) + 1 \in Nat
        BY DEF Loaded
      <4>2. NewMessage(r, Loaded(r) + 1) \in Message
        BY <4>1 DEF NewMessage, Message
      <4>3. QED  BY <3>13, <4>1, <4>2 DEF SaveAssistant, Finish
    <3>14. CASE SaveDuplicate(r)
      <4>1. Wanted(r) \in Nat
        BY DEF Wanted, Loaded
      <4>2. QED  BY <3>14, <4>1 DEF SaveDuplicate, Rollback, Raise, Unlocked
    <3>15. CASE StartClose(r)  BY <3>15 DEF StartClose, Goto
    <3>16. CASE CloseSession(r)
      BY <3>16 DEF CloseSession, Rollback, Goto, Unlocked
    <3>17. QED
      BY <2>1, <3>1, <3>2, <3>3, <3>4, <3>5, <3>6, <3>7, <3>8, <3>9, <3>10,
         <3>11, <3>12, <3>13, <3>14, <3>15, <3>16 DEF Send
  <2>2. ASSUME NEW e \in Edits, SetStatus(e) PROVE TypeOK'
    <3>1. CASE EditGuard(e)
      <4>1. edit' \in [Edits -> Edit]
        <5>1. edit[e].conv \in Conversations /\ edit[e].to \in Statuses
          BY DEF Edit
        <5>2. status[edit[e].conv] \in Statuses
          BY <5>1
        <5>3. [stage |-> "read", conv |-> edit[e].conv,
               seen |-> status[edit[e].conv], to |-> edit[e].to] \in Edit
          BY <5>1, <5>2 DEF Edit
        <5>4. QED  BY <3>1, <5>3 DEF EditGuard
      <4>2. QED  BY <3>1, <4>1 DEF EditGuard
    <3>2. CASE EditCommit(e)
      <4>1. edit' \in [Edits -> Edit]
        BY <3>2 DEF EditCommit, Edit
      <4>2. status' \in [Conversations -> Statuses]
        BY <3>2 DEF EditCommit, Edit
      <4>3. QED  BY <3>2, <4>1, <4>2 DEF EditCommit
    <3>3. QED  BY <2>2, <3>1, <3>2 DEF SetStatus
  <2>3. CASE Crash
    <3>1. edit' \in [Edits -> Edit]
      BY <2>3 DEF Crash, Edit
    <3>2. /\ stage' \in [Requests -> Stages]
          /\ outcome' \in [Requests -> Outcomes]
      BY <2>3 DEF Crash
    <3>3. /\ pending' \in [Requests -> BOOLEAN]
          /\ cached' \in [Requests -> Nat \cup {Expired}]
          /\ rowLock' \in [Conversations -> Requests \cup {NoOne}]
      BY <2>3 DEF Crash
    <3>4. QED  BY <2>3, <3>1, <3>2, <3>3 DEF Crash
  <2>4. CASE UNCHANGED vars  BY <2>4 DEF vars
  <2>5. QED  BY <2>1, <2>2, <2>3, <2>4 DEF Next, Quiescent
<1>3. QED  BY <1>1, <1>2, PTL DEF Spec

-----------------------------------------------------------------------------
(* Numbering.  A scan that neither commits nor rolls back what its caller   *)
(* has pending keeps the numbers of a conversation gapless.  The row lock    *)
(* plays no part in the argument: the identity map may be stale, and it is   *)
(* the unique key that turns a stale number into a failed request.           *)

LosslessScan == ~RagOn /\ ~LogFails

\* Gapless, message by message.
Numbered ==
    /\ \A m \in messages : m.seq \in 1..counter[m.conv]
    /\ \A c \in Conversations : \A k \in 1..counter[c] : Taken(c, k)
    /\ \A m, n \in messages : m.conv = n.conv /\ m.seq = n.seq => m = n

\* What a send knows of its conversation may be old but is never ahead, and a
\* number it holds is at most the next one.
NeverAhead(r) ==
    /\ cached[r] <= counter[Conv(r)]
    /\ stage[r] \in {"queued", "locking"} => cached[r] # Expired
    /\ stage[r] \notin {"ragging", "ragged"}
    /\ role[r] = "user" /\ stage[r] \in {"scanning", "verifying", "verified",
                                         "saving"}
        => pending[r] /\ number[r] \in 1..(counter[Conv(r)] + 1)

NumberInv == Numbered /\ \A r \in Requests : NeverAhead(r)

\* Filing a message under the next number keeps the numbering.
LEMMA AppendNumbered ==
    ASSUME TypeOK, Numbered,
           NEW r \in Requests, NEW m \in Message,
           m.conv = Conv(r), m.seq = counter[Conv(r)] + 1,
           messages' = messages \cup {m},
           counter' = [counter EXCEPT ![Conv(r)] = counter[Conv(r)] + 1]
    PROVE  Numbered'
<1> USE ConstantsAssumption DEF Conv
<1>1. Conv(r) \in Conversations /\ counter \in [Conversations -> Nat]
  BY DEF TypeOK
<1>2. \A n \in messages : n.conv \in Conversations /\ n.seq \in Nat
  BY DEF TypeOK, Message
<1>3. \A c \in Conversations :
        counter'[c] = IF c = Conv(r) THEN counter[c] + 1 ELSE counter[c]
  BY <1>1
<1>4. \A n \in messages' : n.seq \in 1..counter'[n.conv]
  BY <1>1, <1>2, <1>3 DEF Numbered
<1>5. \A c \in Conversations : \A k \in 1..counter'[c] : Taken(c, k)'
  <2> SUFFICES ASSUME NEW c \in Conversations, NEW k \in 1..counter'[c]
               PROVE  \E n \in messages' : n.conv = c /\ n.seq = k
    BY DEF Taken
  <2>1. CASE c = Conv(r) /\ k = counter[c] + 1
    BY <2>1
  <2>2. CASE k \in 1..counter[c]
    BY <2>2 DEF Numbered, Taken
  <2>3. QED  BY <1>1, <1>3, <2>1, <2>2
<1>6. \A n1, n2 \in messages' :
        n1.conv = n2.conv /\ n1.seq = n2.seq => n1 = n2
  <2>1. \A n \in messages : n.conv = m.conv => n.seq # m.seq
    BY <1>1, <1>2 DEF Numbered
  <2>2. QED  BY <2>1 DEF Numbered
<1>7. QED  BY <1>4, <1>5, <1>6 DEF Numbered

\* A number that is not taken and not beyond the next one is the next one.
LEMMA FreeIsNext ==
    ASSUME TypeOK, Numbered, NEW r \in Requests,
           NEW n \in 1..(counter[Conv(r)] + 1), ~Taken(Conv(r), n)
    PROVE  n = counter[Conv(r)] + 1
<1>1. Conv(r) \in Conversations /\ counter[Conv(r)] \in Nat
  BY ConstantsAssumption DEF TypeOK, Conv
<1>2. n \notin 1..counter[Conv(r)]
  BY <1>1 DEF Numbered
<1>3. QED  BY <1>1, <1>2

\* What the two actions that insert a message have in common.
Appends(r) ==
    /\ messages' = messages \cup {NewMessage(r, counter[Conv(r)] + 1)}
    /\ counter' = [counter EXCEPT ![Conv(r)] = counter[Conv(r)] + 1]

\* The user's message is filed under the next number.
LEMMA SaveUserAppends ==
    ASSUME TypeOK, NumberInv, NEW r \in Requests, SaveUser(r)
    PROVE  Appends(r)
<1>1. pending[r] /\ number[r] \in 1..(counter[Conv(r)] + 1)
  BY DEF SaveUser, NumberInv, NeverAhead
<1>2. number[r] = counter[Conv(r)] + 1
  BY <1>1, FreeIsNext DEF SaveUser, NumberInv
<1>3. QED  BY <1>1, <1>2 DEF SaveUser, Appends

\* So is the assistant's.
LEMMA SaveAssistantAppends ==
    ASSUME TypeOK, NumberInv, NEW r \in Requests, SaveAssistant(r)
    PROVE  Appends(r)
<1>1. /\ cached[r] \in Nat \cup {-1} /\ counter[Conv(r)] \in Nat
      /\ cached[r] <= counter[Conv(r)]
  BY ConstantsAssumption DEF TypeOK, NumberInv, NeverAhead, Conv, Expired
<1>2. Loaded(r) + 1 \in 1..(counter[Conv(r)] + 1)
  BY <1>1 DEF Loaded, Expired
<1>3. Loaded(r) + 1 = counter[Conv(r)] + 1
  BY <1>2, FreeIsNext DEF SaveAssistant, NumberInv
<1>4. QED  BY <1>3 DEF SaveAssistant, Appends

\* What a send does to its own state it leaves alone in every other send.
Frame(r) ==
    \A s \in Requests \ {r} :
        /\ stage'[s] = stage[s] /\ role'[s] = role[s]
        /\ cached'[s] = cached[s] /\ cachedStatus'[s] = cachedStatus[s]
        /\ number'[s] = number[s] /\ pending'[s] = pending[s]
        /\ verdict'[s] = verdict[s] /\ outcome'[s] = outcome[s]

\* A step of one send is invisible in the state of the others.
LEMMA SendFrame ==
    ASSUME TypeOK, NEW r \in Requests, Send(r) PROVE Frame(r)
<1> USE DEF TypeOK, Frame, Goto, Finish, Raise, Rollback, Commit, session,
            database
<1>1. CASE Guard(r)  BY <1>1 DEF Guard
<1>2. CASE Enter(r)  BY <1>2 DEF Enter
<1>3. CASE LockRow(r)  BY <1>3 DEF LockRow
<1>4. CASE AwaitVerify(r)  BY <1>4 DEF AwaitVerify
<1>5. CASE ResumeVerify(r)  BY <1>5 DEF ResumeVerify
<1>6. CASE AwaitRag(r)  BY <1>6 DEF AwaitRag
<1>7. CASE ResumeRag(r)  BY <1>7 DEF ResumeRag
<1>8. CASE Decide(r)  BY <1>8 DEF Decide
<1>9. CASE ScanRaises(r)  BY <1>9 DEF ScanRaises
<1>10. CASE SaveUser(r)  BY <1>10 DEF SaveUser
<1>11. CASE CallLlm(r)  BY <1>11 DEF CallLlm
<1>12. CASE ReplyArrives(r)  BY <1>12 DEF ReplyArrives
<1>13. CASE SaveAssistant(r)  BY <1>13 DEF SaveAssistant
<1>14. CASE SaveDuplicate(r)  BY <1>14 DEF SaveDuplicate
<1>15. CASE StartClose(r)  BY <1>15 DEF StartClose
<1>16. CASE CloseSession(r)  BY <1>16 DEF CloseSession
<1>17. QED
  BY <1>1, <1>2, <1>3, <1>4, <1>5, <1>6, <1>7, <1>8, <1>9, <1>10, <1>11,
     <1>12, <1>13, <1>14, <1>15, <1>16 DEF Send

\* When no scan commits or rolls back, the two inserts are the only steps of a
\* send that touch the numbering.
LEMMA SendNumbers ==
    ASSUME TypeOK, NumberInv, LosslessScan, NEW r \in Requests, Send(r)
    PROVE  Appends(r) \/ UNCHANGED <<messages, counter>>
<1> USE DEF Goto, Finish, Raise, Rollback, session, database
<1>1. CASE Guard(r)  BY <1>1 DEF Guard
<1>2. CASE Enter(r)  BY <1>2 DEF Enter
<1>3. CASE LockRow(r)  BY <1>3 DEF LockRow
<1>4. CASE AwaitVerify(r)  BY <1>4 DEF AwaitVerify
<1>5. CASE ResumeVerify(r)  BY <1>5 DEF ResumeVerify
<1>6. CASE AwaitRag(r)  BY <1>6 DEF AwaitRag
<1>7. CASE ResumeRag(r)
  BY <1>7 DEF ResumeRag, NumberInv, NeverAhead
<1>8. CASE Decide(r)  BY <1>8 DEF Decide
<1>9. CASE ScanRaises(r)  BY <1>9 DEF ScanRaises
<1>10. CASE SaveUser(r)  BY <1>10, SaveUserAppends
<1>11. CASE CallLlm(r)  BY <1>11 DEF CallLlm
<1>12. CASE ReplyArrives(r)  BY <1>12 DEF ReplyArrives
<1>13. CASE SaveAssistant(r)  BY <1>13, SaveAssistantAppends
<1>14. CASE SaveDuplicate(r)  BY <1>14 DEF SaveDuplicate
<1>15. CASE StartClose(r)  BY <1>15 DEF StartClose
<1>16. CASE CloseSession(r)  BY <1>16 DEF CloseSession
<1>17. QED
  BY <1>1, <1>2, <1>3, <1>4, <1>5, <1>6, <1>7, <1>8, <1>9, <1>10, <1>11,
     <1>12, <1>13, <1>14, <1>15, <1>16 DEF Send

\* The same for every step.
LEMMA NextNumbers ==
    ASSUME TypeOK, NumberInv, LosslessScan, [Next]_vars
    PROVE  (\E r \in Requests : Appends(r)) \/ UNCHANGED <<messages, counter>>
<1>1. ASSUME NEW r \in Requests, Send(r)
      PROVE  Appends(r) \/ UNCHANGED <<messages, counter>>
  BY <1>1, SendNumbers
<1>2. ASSUME NEW e \in Edits, SetStatus(e)
      PROVE  UNCHANGED <<messages, counter>>
  BY <1>2 DEF SetStatus, EditGuard, EditCommit, database
<1>3. CASE Crash  BY <1>3 DEF Crash
<1>4. CASE UNCHANGED vars  BY <1>4 DEF vars, database
<1>5. QED  BY <1>1, <1>2, <1>3, <1>4 DEF Next, Quiescent

\* The numbering survives every step.
LEMMA NextNumbered ==
    ASSUME TypeOK, NumberInv, LosslessScan, [Next]_vars
    PROVE  /\ Numbered'
           /\ \A c \in Conversations : counter[c] <= counter'[c]
<1>1. CASE UNCHANGED <<messages, counter>>
  BY <1>1 DEF NumberInv, Numbered, Taken, TypeOK
<1>2. ASSUME NEW r \in Requests, Appends(r)
      PROVE  /\ Numbered'
             /\ \A c \in Conversations : counter[c] <= counter'[c]
  <2>1. NewMessage(r, counter[Conv(r)] + 1) \in Message
    BY ConstantsAssumption DEF NewMessage, Message, TypeOK, Conv
  <2>2. /\ NewMessage(r, counter[Conv(r)] + 1).conv = Conv(r)
        /\ NewMessage(r, counter[Conv(r)] + 1).seq = counter[Conv(r)] + 1
    BY DEF NewMessage
  <2>3. Numbered'
    BY <1>2, <2>1, <2>2, AppendNumbered DEF Appends, NumberInv
  <2>4. \A c \in Conversations : counter[c] <= counter'[c]
    BY <1>2, ConstantsAssumption DEF Appends, TypeOK, Conv
  <2>5. QED  BY <2>3, <2>4
<1>3. QED  BY <1>1, <1>2, NextNumbers

\* A send stays behind its conversation in its own steps ...
LEMMA SendNeverAhead ==
    ASSUME TypeOK, NumberInv, LosslessScan, NEW r \in Requests, Send(r),
           TypeOK', \A c \in Conversations : counter[c] <= counter'[c]
    PROVE  NeverAhead(r)'
<1> USE ConstantsAssumption
<1>1. /\ Conv(r) \in Conversations
      /\ counter[Conv(r)] \in Nat /\ counter'[Conv(r)] \in Nat
      /\ counter'[Conv(r)] >= counter[Conv(r)]
      /\ cached[r] \in Nat \cup {-1} /\ number[r] \in Nat
      /\ NeverAhead(r)
  BY DEF TypeOK, Conv, Expired, NumberInv
<1> USE <1>1 DEF TypeOK, NeverAhead, Expired, Goto, Finish, Raise, Rollback,
                 session, database, Conv
<1>2. CASE Guard(r)  BY <1>2 DEF Guard
<1>3. CASE Enter(r)  BY <1>3 DEF Enter
<1>4. CASE LockRow(r)
  <2>1. CASE Refused(r)  BY <1>4, <2>1 DEF LockRow
  <2>2. CASE ~Refused(r)
    <3>1. /\ number'[r] = cached[r] + 1 /\ pending'[r]
          /\ stage'[r] = "scanning"
          /\ UNCHANGED <<counter, cached>>
      BY <1>4, <2>2 DEF LockRow
    <3>2. cached[r] \in 0..counter[Conv(r)]
      BY <1>4 DEF LockRow
    <3>3. QED  BY <3>1, <3>2
  <2>3. QED  BY <2>1, <2>2
<1>5. CASE AwaitVerify(r)  BY <1>5 DEF AwaitVerify
<1>6. CASE ResumeVerify(r)  BY <1>6 DEF ResumeVerify, LosslessScan
<1>7. CASE AwaitRag(r)  BY <1>7 DEF AwaitRag, LosslessScan
<1>8. CASE ResumeRag(r)  BY <1>8 DEF ResumeRag
<1>9. CASE Decide(r)  BY <1>9 DEF Decide
<1>10. CASE ScanRaises(r)  BY <1>10 DEF ScanRaises
<1>11. CASE SaveUser(r)
  <2>1. cached'[r] = counter'[Conv(r)] /\ stage'[r] \in {"done", "calling"}
    BY <1>11 DEF SaveUser
  <2>2. QED  BY <2>1
<1>12. CASE CallLlm(r)  BY <1>12 DEF CallLlm
<1>13. CASE ReplyArrives(r)  BY <1>13 DEF ReplyArrives
<1>14. CASE SaveAssistant(r)
  <2>1. cached' = cached /\ stage'[r] = "done"
    BY <1>14 DEF SaveAssistant
  <2>2. QED  BY <2>1
<1>15. CASE SaveDuplicate(r)
  <2>1. cached'[r] = -1 /\ stage'[r] = "unwinding"
    BY <1>15 DEF SaveDuplicate
  <2>2. QED  BY <2>1
<1>16. CASE StartClose(r)  BY <1>16 DEF StartClose
<1>17. CASE CloseSession(r)
  <2>1. cached'[r] = -1 /\ stage'[r] = "done"
    BY <1>17 DEF CloseSession
  <2>2. QED  BY <2>1
<1>18. QED
  BY <1>2, <1>3, <1>4, <1>5, <1>6, <1>7, <1>8, <1>9, <1>10, <1>11, <1>12,
     <1>13, <1>14, <1>15, <1>16, <1>17 DEF Send

\* ... and in everybody else's, because a counter never falls.
LEMMA NextNeverAhead ==
    ASSUME TypeOK, NumberInv, LosslessScan, [Next]_vars,
           \A c \in Conversations : counter[c] <= counter'[c],
           TypeOK',
           NEW s \in Requests
    PROVE  NeverAhead(s)'
<1> USE ConstantsAssumption
<1>1. /\ Conv(s) \in Conversations
      /\ counter[Conv(s)] \in Nat /\ counter'[Conv(s)] \in Nat
      /\ counter'[Conv(s)] >= counter[Conv(s)]
      /\ cached[s] \in Nat \cup {-1} /\ number[s] \in Nat
      /\ NeverAhead(s)
  BY DEF TypeOK, Conv, Expired, NumberInv
<1>2. ASSUME NEW r \in Requests, Send(r), r # s
      PROVE  NeverAhead(s)'
  <2>1. /\ stage'[s] = stage[s] /\ role'[s] = role[s]
        /\ cached'[s] = cached[s] /\ number'[s] = number[s]
        /\ pending'[s] = pending[s]
    BY <1>2, SendFrame DEF Frame
  <2>2. QED  BY <1>1, <2>1 DEF NeverAhead, Expired, Conv
<1>3. CASE Send(s)  BY <1>3, SendNeverAhead
<1>4. ASSUME NEW e \in Edits, SetStatus(e)
      PROVE  NeverAhead(s)'
  BY <1>1, <1>4
     DEF SetStatus, EditGuard, EditCommit, database, session, NeverAhead
<1>5. CASE Crash
  <2>1. stage'[s] \in {"new", "done"} /\ cached'[s] = -1
    BY <1>5 DEF Crash, InFlight, Expired
  <2>2. QED  BY <1>1, <2>1 DEF NeverAhead, Conv
<1>6. CASE UNCHANGED vars
  BY <1>1, <1>6 DEF vars, database, session, NeverAhead
<1>7. QED  BY <1>2, <1>3, <1>4, <1>5, <1>6 DEF Next, Quiescent

\* The inductive invariant.
LEMMA NumberInvariant ==
    ASSUME LosslessScan PROVE Spec => []NumberInv
<1> USE ConstantsAssumption
<1>1. Init => NumberInv
  <2> SUFFICES ASSUME Init PROVE NumberInv
    OBVIOUS
  <2>1. Numbered
    BY DEF Init, Numbered
  <2>2. ASSUME NEW r \in Requests PROVE NeverAhead(r)
    BY DEF Init, NeverAhead, Conv, Expired
  <2>3. QED  BY <2>1, <2>2 DEF NumberInv
<1>2. TypeOK /\ TypeOK' /\ NumberInv /\ [Next]_vars => NumberInv'
  BY NextNumbered, NextNeverAhead DEF NumberInv
<1>3. QED  BY <1>1, <1>2, TypeCorrect, PTL DEF Spec

\* Overlapping sends, stale identity maps and crashes leave neither a hole nor
\* a counter that lags: the numbers are 1 to last_sequence_number, each once.
THEOREM NumbersAreGapless ==
    ASSUME LosslessScan PROVE Spec => []Gapless
<1>1. TypeOK /\ NumberInv => Gapless
  <2> SUFFICES ASSUME TypeOK, NumberInv, NEW c \in Conversations
               PROVE  /\ {m.seq : m \in Of(c)} = 1..counter[c]
                      /\ \A m, n \in Of(c) : m.seq = n.seq => m = n
    BY DEF Gapless
  <2>1. \A m \in Of(c) : m.seq \in 1..counter[c]
    BY DEF Of, NumberInv, Numbered
  <2>2. \A k \in 1..counter[c] : \E m \in Of(c) : m.seq = k
    BY DEF Of, NumberInv, Numbered, Taken
  <2>3. \A m, n \in Of(c) : m.seq = n.seq => m = n
    BY DEF Of, NumberInv, Numbered
  <2>4. QED  BY <2>1, <2>2, <2>3
<1>2. QED  BY <1>1, TypeCorrect, NumberInvariant, PTL

\* A message never takes a number below one that is already committed: what a
\* reader pages through by sequence_number is the order of the commits.
THEOREM NumbersInCommitOrder ==
    ASSUME LosslessScan PROVE Spec => NumbersFollowCommits
<1>1. TypeOK /\ NumberInv /\ [Next]_vars
      => FiledLast
  <2> SUFFICES ASSUME TypeOK, NumberInv, [Next]_vars,
                      NEW m \in messages' \ messages, NEW n \in Of(m.conv)
               PROVE  n.seq < m.seq
    BY DEF FiledLast
  <2>1. PICK r \in Requests : Appends(r)
    BY NextNumbers
  <2>2. m.conv = Conv(r) /\ m.seq = counter[Conv(r)] + 1
    BY <2>1 DEF Appends, NewMessage
  <2>3. n.seq \in 1..counter[Conv(r)]
    BY <2>2 DEF Of, NumberInv, Numbered
  <2>4. counter[Conv(r)] \in Nat
    BY ConstantsAssumption DEF TypeOK, Conv
  <2>5. QED  BY <2>2, <2>3, <2>4
<1>2. QED
  BY <1>1, TypeCorrect, NumberInvariant, PTL
     DEF NumbersFollowCommits, Spec

-----------------------------------------------------------------------------
(* What leaves for the chat provider, whatever the scan does.               *)

\* A message is never taken back.
LEMMA MessagesStay == ASSUME [Next]_vars PROVE messages \subseteq messages'
<1> USE DEF session, database
<1>1. ASSUME NEW r \in Requests, Send(r) PROVE messages \subseteq messages'
  BY <1>1
     DEF Send, Guard, Enter, LockRow, AwaitVerify, ResumeVerify, AwaitRag,
         ResumeRag, Decide, ScanRaises, SaveUser, CallLlm, ReplyArrives,
         SaveAssistant, SaveDuplicate, StartClose, CloseSession
<1>2. ASSUME NEW e \in Edits, SetStatus(e) PROVE messages \subseteq messages'
  BY <1>2 DEF SetStatus, EditGuard, EditCommit
<1>3. CASE Crash  BY <1>3 DEF Crash
<1>4. CASE UNCHANGED vars  BY <1>4 DEF vars
<1>5. QED  BY <1>1, <1>2, <1>3, <1>4 DEF Next, Quiescent

\* A send that is about to call the provider has committed its message with
\* the verdict it still holds, and that verdict is not to block.
Vetted(r) ==
    stage[r] = "calling" =>
        /\ verdict[r] # "block"
        /\ \E m \in messages :
              m.req = r /\ m.role = "user" /\ m.action = verdict[r]

\* The send that reaches the provider gets there from its own commit.
LEMMA SendVetted ==
    ASSUME TypeOK, NEW r \in Requests, Send(r), \A s \in Requests : Vetted(s)
    PROVE  Vetted(r)'
<1> USE DEF TypeOK, Vetted, Goto, Finish, Raise, session, database
<1>1. CASE Guard(r)  BY <1>1 DEF Guard
<1>2. CASE Enter(r)  BY <1>2 DEF Enter
<1>3. CASE LockRow(r)  BY <1>3 DEF LockRow
<1>4. CASE AwaitVerify(r)  BY <1>4 DEF AwaitVerify
<1>5. CASE ResumeVerify(r)  BY <1>5 DEF ResumeVerify
<1>6. CASE AwaitRag(r)  BY <1>6 DEF AwaitRag
<1>7. CASE ResumeRag(r)  BY <1>7 DEF ResumeRag
<1>8. CASE Decide(r)  BY <1>8 DEF Decide
<1>9. CASE ScanRaises(r)  BY <1>9 DEF ScanRaises
<1>10. CASE SaveUser(r)
  <2>1. CASE Stops(r)  BY <1>10, <2>1 DEF SaveUser
  <2>2. CASE ~Stops(r)
    <3>1. /\ NewMessage(r, number[r]) \in messages'
          /\ verdict'[r] = verdict[r]
      BY <1>10 DEF SaveUser
    <3>2. /\ NewMessage(r, number[r]).req = r
          /\ NewMessage(r, number[r]).role = "user"
          /\ NewMessage(r, number[r]).action = verdict[r]
      BY <1>10 DEF SaveUser, NewMessage
    <3>3. verdict'[r] # "block"
      BY <2>2, <3>1 DEF Stops
    <3>4. QED  BY <3>1, <3>2, <3>3
  <2>3. QED  BY <2>1, <2>2
<1>11. CASE CallLlm(r)  BY <1>11 DEF CallLlm
<1>12. CASE ReplyArrives(r)  BY <1>12 DEF ReplyArrives
<1>13. CASE SaveAssistant(r)  BY <1>13 DEF SaveAssistant
<1>14. CASE SaveDuplicate(r)  BY <1>14 DEF SaveDuplicate
<1>15. CASE StartClose(r)  BY <1>15 DEF StartClose
<1>16. CASE CloseSession(r)  BY <1>16 DEF CloseSession
<1>17. QED
  BY <1>1, <1>2, <1>3, <1>4, <1>5, <1>6, <1>7, <1>8, <1>9, <1>10, <1>11,
     <1>12, <1>13, <1>14, <1>15, <1>16 DEF Send

VettedInv == OnlyVettedTextLeaves /\ \A r \in Requests : Vetted(r)

\* Only CallLlm sends anything, and what it sends is vetted.
LEMMA NextVetted ==
    ASSUME TypeOK, VettedInv, [Next]_vars PROVE VettedInv'
<1>1. messages \subseteq messages'
  BY MessagesStay
<1>2. ASSUME NEW s \in Requests PROVE Vetted(s)'
  <2>1. ASSUME NEW r \in Requests, Send(r), r # s PROVE Vetted(s)'
    BY <1>1, <2>1, SendFrame DEF Frame, Vetted, VettedInv
  <2>2. CASE Send(s)  BY <2>2, SendVetted DEF VettedInv
  <2>3. ASSUME NEW e \in Edits, SetStatus(e) PROVE Vetted(s)'
    BY <2>3 DEF SetStatus, EditGuard, EditCommit, database, Vetted, VettedInv
  <2>4. CASE Crash
    BY <2>4 DEF Crash, InFlight, Vetted, TypeOK
  <2>5. CASE UNCHANGED vars
    BY <2>5 DEF vars, database, Vetted, VettedInv
  <2>6. QED  BY <2>1, <2>2, <2>3, <2>4, <2>5 DEF Next, Quiescent
<1>3. OnlyVettedTextLeaves'
  <2>1. CASE prompts' = prompts
    BY <1>1, <2>1 DEF VettedInv, OnlyVettedTextLeaves
  <2>2. ASSUME NEW r \in Requests, CallLlm(r) PROVE OnlyVettedTextLeaves'
    <3>1. PICK m \in messages :
            m.req = r /\ m.role = "user" /\ m.action = verdict[r]
      BY <2>2 DEF CallLlm, VettedInv, Vetted
    <3>2. /\ m.action # "block"
          /\ m.action = "mask" => LlmInput(r) = "masked"
      BY <2>2, <3>1 DEF CallLlm, VettedInv, Vetted, LlmInput
    <3>3. \A p \in prompts' :
            \/ p \in prompts
            \/ p.req = r /\ p.text = LlmInput(r)
      BY <2>2 DEF CallLlm
    <3>4. ASSUME NEW p \in prompts'
          PROVE  \E n \in messages' :
                    /\ n.req = p.req /\ n.role = "user"
                    /\ n.action # "block"
                    /\ n.action = "mask" => p.text = "masked"
      <4>1. CASE p \in prompts
        BY <1>1, <4>1 DEF VettedInv, OnlyVettedTextLeaves
      <4>2. CASE p.req = r /\ p.text = LlmInput(r)
        BY <1>1, <3>1, <3>2, <4>2
      <4>3. QED  BY <3>3, <4>1, <4>2
    <3>5. QED  BY <3>4 DEF OnlyVettedTextLeaves
  <2>3. ASSUME NEW r \in Requests, Send(r), ~CallLlm(r)
        PROVE  prompts' = prompts
    BY <2>3
       DEF Send, Guard, Enter, LockRow, AwaitVerify, ResumeVerify, AwaitRag,
           ResumeRag, Decide, ScanRaises, SaveUser, ReplyArrives,
           SaveAssistant, SaveDuplicate, StartClose, CloseSession
  <2>4. ASSUME NEW e \in Edits, SetStatus(e) PROVE prompts' = prompts
    BY <2>4 DEF SetStatus, EditGuard, EditCommit
  <2>5. Crash \/ UNCHANGED vars => prompts' = prompts
    BY DEF Crash, vars
  <2>6. QED  BY <2>1, <2>2, <2>3, <2>4, <2>5 DEF Next, Quiescent
<1>4. QED  BY <1>2, <1>3 DEF VettedInv

\* The provider is never sent a message that is not committed, that was
\* blocked, or that was to be masked and is not: not by a race, not by a
\* crash between the two commits, not by a lost or premature transaction.
THEOREM OnlyVettedLeaves == Spec => []OnlyVettedTextLeaves
<1>1. Init => VettedInv
  BY ConstantsAssumption
     DEF Init, VettedInv, OnlyVettedTextLeaves, Vetted
<1>2. TypeOK /\ VettedInv /\ [Next]_vars => VettedInv'
  BY NextVetted
<1>3. VettedInv => OnlyVettedTextLeaves
  BY DEF VettedInv
<1>4. QED  BY <1>1, <1>2, <1>3, TypeCorrect, PTL DEF Spec

-----------------------------------------------------------------------------
(* Who can hold up the event loop.                                          *)

\* The stages in which a send may hold the row lock: from its SELECT ... FOR
\* UPDATE to the commit of the user's message or the closing of the session.
HolderStages == {"scanning", "verifying", "verified", "ragging", "ragged",
                 "saving", "unwinding", "closing"}

Early == {"new", "queued", "locking"}

\* The row lock of a conversation is held by a send to it, on its first
\* message, in one of those stages.
LockInv ==
    \A c \in Conversations : rowLock[c] # NoOne =>
        /\ Conv(rowLock[c]) = c
        /\ role[rowLock[c]] = "user"
        /\ stage[rowLock[c]] \in HolderStages

\* The event loop runs one coroutine, and it is the only one not suspended.
LoopInv == \A r \in Requests : loop = r <=> stage[r] \in OnLoop

StallInv ==
    LockInv /\ LoopInv /\ \A r \in Requests : stage[r] \in Early => role[r] = "user"

\* A send keeps the lock it holds, or drops it, or takes the one of its own
\* conversation, and then is where a holder may be.
LockStep(r) ==
    /\ \A c \in Conversations :
          \/ rowLock'[c] = rowLock[c]
          \/ rowLock'[c] = NoOne
          \/ rowLock'[c] = r /\ c = Conv(r)
    /\ rowLock'[Conv(r)] = r =>
          role'[r] = "user" /\ stage'[r] \in HolderStages
    /\ stage'[r] \in Early => role'[r] = "user"

\* Every step of a send is such a step.
LEMMA SendLocks ==
    ASSUME TypeOK, StallInv, NEW r \in Requests, Send(r) PROVE LockStep(r)
<1> USE ConstantsAssumption
<1>1. /\ Conv(r) \in Conversations
      /\ rowLock[Conv(r)] = r =>
            role[r] = "user" /\ stage[r] \in HolderStages
      /\ stage[r] \in Early => role[r] = "user"
  BY DEF TypeOK, Conv, StallInv, LockInv
<1> USE <1>1 DEF TypeOK, LockStep, Early, HolderStages, Goto, Finish, Raise,
                 Rollback, Commit, Unlocked, session, database
<1>2. CASE Guard(r)  BY <1>2 DEF Guard
<1>3. CASE Enter(r)  BY <1>3 DEF Enter
<1>4. CASE LockRow(r)  BY <1>4 DEF LockRow
<1>5. CASE AwaitVerify(r)  BY <1>5 DEF AwaitVerify
<1>6. CASE ResumeVerify(r)  BY <1>6 DEF ResumeVerify
<1>7. CASE AwaitRag(r)  BY <1>7 DEF AwaitRag
<1>8. CASE ResumeRag(r)  BY <1>8 DEF ResumeRag
<1>9. CASE Decide(r)  BY <1>9 DEF Decide
<1>10. CASE ScanRaises(r)  BY <1>10 DEF ScanRaises
<1>11. CASE SaveUser(r)  BY <1>11 DEF SaveUser
<1>12. CASE CallLlm(r)  BY <1>12 DEF CallLlm
<1>13. CASE ReplyArrives(r)  BY <1>13 DEF ReplyArrives
<1>14. CASE SaveAssistant(r)  BY <1>14 DEF SaveAssistant
<1>15. CASE SaveDuplicate(r)  BY <1>15 DEF SaveDuplicate
<1>16. CASE StartClose(r)  BY <1>16 DEF StartClose
<1>17. CASE CloseSession(r)  BY <1>17 DEF CloseSession
<1>18. QED
  BY <1>2, <1>3, <1>4, <1>5, <1>6, <1>7, <1>8, <1>9, <1>10, <1>11, <1>12,
     <1>13, <1>14, <1>15, <1>16, <1>17 DEF Send

\* A step of a send hands the event loop over or gives it back.
LEMMA SendLoop ==
    ASSUME TypeOK, LoopInv, NEW r \in Requests, Send(r)
    PROVE  \/ loop \in {NoOne, r} /\ loop' = r /\ stage'[r] \in OnLoop
           \/ loop \in {NoOne, r} /\ loop' = NoOne /\ stage'[r] \notin OnLoop
           \/ /\ loop' = loop
              /\ stage[r] \notin OnLoop /\ stage'[r] \notin OnLoop
<1> USE DEF TypeOK, OnLoop, Goto, Finish, Raise, Rollback, session, database
<1>1. CASE Guard(r)  BY <1>1 DEF Guard
<1>2. CASE Enter(r)  BY <1>2 DEF Enter
<1>3. CASE LockRow(r)  BY <1>3 DEF LockRow
<1>4. CASE AwaitVerify(r)  BY <1>4 DEF AwaitVerify
<1>5. CASE ResumeVerify(r)  BY <1>5 DEF ResumeVerify
<1>6. CASE AwaitRag(r)  BY <1>6 DEF AwaitRag
<1>7. CASE ResumeRag(r)  BY <1>7 DEF ResumeRag
<1>8. CASE Decide(r)  BY <1>8 DEF Decide
<1>9. CASE ScanRaises(r)  BY <1>9 DEF ScanRaises
<1>10. CASE SaveUser(r)  BY <1>10 DEF SaveUser
<1>11. CASE CallLlm(r)  BY <1>11 DEF CallLlm
<1>12. CASE ReplyArrives(r)  BY <1>12 DEF ReplyArrives
<1>13. CASE SaveAssistant(r)  BY <1>13 DEF SaveAssistant
<1>14. CASE SaveDuplicate(r)  BY <1>14 DEF SaveDuplicate
<1>15. CASE StartClose(r)  BY <1>15 DEF StartClose
<1>16. CASE CloseSession(r)  BY <1>16 DEF CloseSession
<1>17. QED
  BY <1>1, <1>2, <1>3, <1>4, <1>5, <1>6, <1>7, <1>8, <1>9, <1>10, <1>11,
     <1>12, <1>13, <1>14, <1>15, <1>16 DEF Send

\* The invariant survives a step of a send.
LEMMA SendStall ==
    ASSUME TypeOK, StallInv, NEW r \in Requests, Send(r) PROVE StallInv'
<1> USE ConstantsAssumption
<1>1. LockStep(r) /\ Frame(r)
  BY SendLocks, SendFrame
<1>2. LockInv'
  <2> SUFFICES ASSUME NEW c \in Conversations, rowLock'[c] # NoOne
               PROVE  /\ Conv(rowLock'[c]) = c
                      /\ role'[rowLock'[c]] = "user"
                      /\ stage'[rowLock'[c]] \in HolderStages
    BY DEF LockInv, Conv
  <2>1. CASE rowLock'[c] = r
    BY <1>1, <2>1 DEF LockStep, StallInv, LockInv
  <2>2. CASE rowLock'[c] # r
    BY <1>1, <2>2 DEF LockStep, Frame, StallInv, LockInv, TypeOK
  <2>3. QED  BY <2>1, <2>2
<1>3. LoopInv'
  BY <1>1, SendLoop DEF StallInv, LoopInv, Frame, TypeOK
<1>4. \A s \in Requests : stage'[s] \in Early => role'[s] = "user"
  BY <1>1 DEF LockStep, Frame, StallInv
<1>5. QED  BY <1>2, <1>3, <1>4 DEF StallInv

\* StallInv holds in every state.
LEMMA StallInvariant == Spec => []StallInv
<1> USE ConstantsAssumption
<1>1. Init => StallInv
  BY DEF Init, StallInv, LockInv, LoopInv, OnLoop, Early
<1>2. TypeOK /\ StallInv /\ [Next]_vars => StallInv'
  <2> SUFFICES ASSUME TypeOK, StallInv, [Next]_vars PROVE StallInv'
    OBVIOUS
  <2> USE DEF StallInv, LockInv, LoopInv, Conv
  <2>1. ASSUME NEW r \in Requests, Send(r) PROVE StallInv'
    BY <2>1, SendStall
  <2>2. ASSUME NEW e \in Edits, SetStatus(e) PROVE StallInv'
    BY <2>2 DEF SetStatus, EditGuard, EditCommit, database
  <2>3. CASE Crash
    BY <2>3 DEF Crash, InFlight, TypeOK, OnLoop, Early
  <2>4. CASE UNCHANGED vars  BY <2>4 DEF vars, database
  <2>5. QED  BY <2>1, <2>2, <2>3, <2>4 DEF Next, Quiescent
<1>3. QED  BY <1>1, <1>2, TypeCorrect, PTL DEF Spec

\* Whatever the scan does, the event loop never waits for a row longer than
\* one of the sends to that conversation is suspended with the row locked: in
\* the awaits of its own scan, or between an exception and the closing of its
\* session.  Neither a finished send, nor one that waits for the chat
\* provider, nor a crash holds it up.
THEOREM LoopStallsOnlyBehindSuspended == Spec => []StallsOnlyBehindSuspendedSend
<1> USE ConstantsAssumption
<1>1. TypeOK /\ StallInv => StallsOnlyBehindSuspendedSend
  <2> SUFFICES ASSUME TypeOK, StallInv, NEW r \in Requests, Stalled(r)
               PROVE  LET h == rowLock[Conv(r)] IN
                      /\ h \in Requests /\ Conv(h) = Conv(r)
                      /\ role[h] = "user"
                      /\ stage[h] \in {"verifying", "ragging", "unwinding",
                                       "closing"}
    BY DEF StallsOnlyBehindSuspendedSend
  <2>1. /\ Conv(r) \in Conversations
        /\ rowLock[Conv(r)] \in Requests /\ rowLock[Conv(r)] # r
        /\ rowLock[Conv(r)] # NoOne
    BY DEF Stalled, RowAvailable, TypeOK, Conv
  <2>2. stage[rowLock[Conv(r)]] \notin OnLoop
    BY <2>1 DEF StallInv, LoopInv, Stalled
  <2>3. QED
    BY <2>1, <2>2 DEF StallInv, LockInv, HolderStages, OnLoop
<1>2. QED  BY <1>1, TypeCorrect, StallInvariant, PTL

-----------------------------------------------------------------------------
(* What an archived conversation receives.                                  *)

\* The stages of a send that has passed the check of the status.
Past == {"scanning", "verifying", "verified", "ragging", "ragged", "saving",
         "calling", "llm"}

\* A send past the check, and one with a message, saw the conversation active.
SeenInv ==
    /\ \A r \in Requests : stage[r] \in Past => cachedStatus[r] = "active"
    /\ \A m \in messages : /\ stage[m.req] # "new"
                           /\ cachedStatus[m.req] = "active"

\* A send only files messages of its own, in its saving stage.
LEMMA SendFiles ==
    ASSUME NEW r \in Requests, Send(r)
    PROVE  \/ messages' = messages
           \/ /\ stage[r] = "saving"
              /\ \E n : messages' = messages \cup {NewMessage(r, n)}
<1> USE DEF database
<1>1. CASE SaveUser(r)  BY <1>1 DEF SaveUser
<1>2. CASE SaveAssistant(r)  BY <1>2 DEF SaveAssistant
<1>3. CASE ~SaveUser(r) /\ ~SaveAssistant(r)
  BY <1>3 DEF Send, Guard, Enter, LockRow, AwaitVerify, ResumeVerify, AwaitRag,
              ResumeRag, Decide, ScanRaises, CallLlm, ReplyArrives,
              SaveDuplicate, StartClose, CloseSession
<1>4. QED  BY <1>1, <1>2, <1>3

\* The status is loaded by the guard, and checked on the way past the lock.
LEMMA SendSeen ==
    ASSUME TypeOK, NEW r \in Requests, Send(r)
    PROVE  /\ stage[r] # "new" => stage'[r] # "new" /\ cachedStatus'[r] = cachedStatus[r]
           /\ stage'[r] \in Past =>
                 \/ stage[r] \in Past
                 \/ stage[r] = "locking" /\ cachedStatus[r] = "active"
<1> USE DEF TypeOK, Past, Goto, Finish, Raise, Rollback, session, database
<1>1. CASE Guard(r)  BY <1>1 DEF Guard
<1>2. CASE Enter(r)  BY <1>2 DEF Enter
<1>3. CASE LockRow(r)  BY <1>3 DEF LockRow, Refused, Statuses
<1>4. CASE AwaitVerify(r)  BY <1>4 DEF AwaitVerify
<1>5. CASE ResumeVerify(r)  BY <1>5 DEF ResumeVerify
<1>6. CASE AwaitRag(r)  BY <1>6 DEF AwaitRag
<1>7. CASE ResumeRag(r)  BY <1>7 DEF ResumeRag
<1>8. CASE Decide(r)  BY <1>8 DEF Decide
<1>9. CASE ScanRaises(r)  BY <1>9 DEF ScanRaises
<1>10. CASE SaveUser(r)  BY <1>10 DEF SaveUser
<1>11. CASE CallLlm(r)  BY <1>11 DEF CallLlm
<1>12. CASE ReplyArrives(r)  BY <1>12 DEF ReplyArrives
<1>13. CASE SaveAssistant(r)  BY <1>13 DEF SaveAssistant
<1>14. CASE SaveDuplicate(r)  BY <1>14 DEF SaveDuplicate
<1>15. CASE StartClose(r)  BY <1>15 DEF StartClose
<1>16. CASE CloseSession(r)  BY <1>16 DEF CloseSession
<1>17. QED
  BY <1>1, <1>2, <1>3, <1>4, <1>5, <1>6, <1>7, <1>8, <1>9, <1>10, <1>11,
     <1>12, <1>13, <1>14, <1>15, <1>16 DEF Send

LEMMA NextSeen == ASSUME TypeOK, SeenInv, [Next]_vars PROVE SeenInv'
<1>1. ASSUME NEW r \in Requests, Send(r) PROVE SeenInv'
  <2>1. ASSUME NEW s \in Requests, stage'[s] \in Past PROVE cachedStatus'[s] = "active"
    <3>1. CASE s = r
      BY <1>1, <2>1, <3>1, SendSeen DEF SeenInv, Past
    <3>2. CASE s # r
      BY <1>1, <2>1, <3>2, SendFrame DEF Frame, SeenInv
    <3>3. QED  BY <3>1, <3>2
  <2>2. ASSUME NEW m \in messages'
        PROVE  stage'[m.req] # "new" /\ cachedStatus'[m.req] = "active"
    <3>1. CASE m \in messages
      <4>1. m.req \in Requests /\ stage[m.req] # "new" /\ cachedStatus[m.req] = "active"
        BY <3>1 DEF SeenInv, TypeOK, Message
      <4>2. QED
        BY <1>1, <4>1, SendSeen, SendFrame DEF Frame
    <3>2. CASE m \notin messages
      <4>1. stage[r] = "saving" /\ m.req = r
        BY <1>1, <2>2, <3>2, SendFiles DEF NewMessage
      <4>2. QED
        BY <1>1, <4>1, SendSeen DEF SeenInv, Past
    <3>3. QED  BY <3>1, <3>2
  <2>3. QED  BY <2>1, <2>2 DEF SeenInv
<1>2. ASSUME NEW e \in Edits, SetStatus(e) PROVE SeenInv'
  BY <1>2 DEF SetStatus, EditGuard, EditCommit, database, session, SeenInv
<1>3. CASE Crash
  <2>1. /\ messages' = messages /\ cachedStatus' = cachedStatus
        /\ \A r \in Requests : \/ stage'[r] = "done"
                               \/ stage'[r] = stage[r] /\ stage[r] \notin Past
    BY <1>3 DEF Crash, InFlight, Past, TypeOK
  <2>2. \A m \in messages : m.req \in Requests
    BY DEF TypeOK, Message
  <2>3. QED  BY <2>1, <2>2 DEF SeenInv, Past
<1>4. CASE UNCHANGED vars
  BY <1>4 DEF vars, database, session, SeenInv
<1>5. QED  BY <1>1, <1>2, <1>3, <1>4 DEF Next, Quiescent

\* A conversation its guard saw archived receives no message of that send: the
\* status is checked on the attributes that the guard loaded, and these stay
\* whatever commits, rolls back or dies in between.
THEOREM ArchivedReceivesNothing == Spec => []ArchivedSeenNothingSaved
<1>1. Init => SeenInv
  BY DEF Init, SeenInv, Past
<1>2. TypeOK /\ SeenInv /\ [Next]_vars => SeenInv'
  BY NextSeen
<1>3. SeenInv => ArchivedSeenNothingSaved
  BY DEF SeenInv, ArchivedSeenNothingSaved
<1>4. QED  BY <1>1, <1>2, <1>3, TypeCorrect, PTL DEF Spec

-----------------------------------------------------------------------------
(* Answers and their questions.                                             *)

\* A number that r has been given and that its scan has committed already, on
\* the way to the message that will bear it.
Window(r) == role[r] = "user" /\ ~pending[r] /\ stage[r] \in {"ragged", "saving"}

\* Each number up to n is a message's, or about to be.
Filled(c, n) ==
    \A k \in 1..n :
        Taken(c, k) \/ \E r \in Requests : Window(r) /\ Conv(r) = c /\ number[r] = k

Scanning == {"scanning", "verifying", "verified", "ragging", "ragged", "saving"}

\* Where no number was skipped the counter, and what sends remember of it, lags
\* behind the messages but never points into a gap.
NoGap(c) ==
    /\ Filled(c, counter[c])
    /\ \A m \in messages : m.conv = c => \A k \in 1..m.seq : Taken(c, k)
    /\ \A r \in Requests : Conv(r) = c =>
          /\ cached[r] # Expired => Filled(c, cached[r])
          /\ role[r] = "user" /\ stage[r] \in Scanning =>
                number[r] >= 1 /\ Filled(c, number[r] - 1)

\* The send has filed the question that it is to answer.
Questioned(r) ==
    stage[r] \in {"calling", "llm"} \/ role[r] = "assistant" =>
        /\ ~pending[r]
        /\ \E q \in messages : /\ q.req = r /\ q.role = "user" /\ q.conv = Conv(r)
                               /\ q.action # "block"

Progressed(r) ==
    /\ stage[r] \in {"queued", "locking"} => cached[r] # Expired
    /\ outcome[r] \in {"error", "lost"} => stage[r] \in {"unwinding", "closing", "done"}
    /\ Questioned(r)

OrderInv ==
    /\ \A c \in Conversations : NumberSkipped(c) \/ NoGap(c)
    /\ \A r \in Requests : Progressed(r)
    /\ AnswerAfterQuestion

\* Its own steps bring a send to its question before its answer.
LEMMA SendProgressed ==
    ASSUME TypeOK, StallInv, NEW r \in Requests, Send(r), Progressed(r)
    PROVE  Progressed(r)'
<1>1. stage[r] \in Early => role[r] = "user"
  BY DEF StallInv
<1> USE DEF TypeOK, Progressed, Questioned, Goto, Finish, Raise, Rollback, Commit,
            session, database, Conv
<1>2. CASE Guard(r)
  BY <1>1, <1>2, ConstantsAssumption DEF Guard, Early, Expired
<1>3. CASE Enter(r)  BY <1>1, <1>3 DEF Enter, Early
<1>4. CASE LockRow(r)
  <2>1. CASE Refused(r)  BY <1>1, <1>4, <2>1 DEF LockRow, Early
  <2>2. CASE ~Refused(r)  BY <1>1, <1>4, <2>2 DEF LockRow, Early
  <2>3. QED  BY <2>1, <2>2
<1>5. CASE AwaitVerify(r)  BY <1>5 DEF AwaitVerify
<1>6. CASE ResumeVerify(r)  BY <1>6 DEF ResumeVerify
<1>7. CASE AwaitRag(r)  BY <1>7 DEF AwaitRag
<1>8. CASE ResumeRag(r)  BY <1>8 DEF ResumeRag
<1>9. CASE Decide(r)  BY <1>9 DEF Decide
<1>10. CASE ScanRaises(r)  BY <1>10 DEF ScanRaises
<1>11. CASE SaveUser(r)
  <2>1. /\ stage'[r] \in {"calling", "done"} /\ outcome'[r] \in {outcome[r], "blocked"}
        /\ role' = role /\ role[r] = "user" /\ ~pending'[r]
        /\ stage'[r] = "calling" => ~Stops(r)
    BY <1>11 DEF SaveUser
  <2>2. NewMessage(r, number[r]) \in messages'
    BY <1>11 DEF SaveUser
  <2>3. /\ NewMessage(r, number[r]).req = r /\ NewMessage(r, number[r]).conv = Conv(r)
        /\ NewMessage(r, number[r]).role = "user"
        /\ ~Stops(r) => NewMessage(r, number[r]).action # "block"
    BY <2>1 DEF NewMessage, Stops
  <2>4. stage'[r] = "calling" => Questioned(r)'
    BY <2>1, <2>2, <2>3
  <2>5. outcome[r] \notin {"error", "lost"}
    BY <1>11 DEF SaveUser
  <2>6. QED  BY <2>1, <2>4, <2>5
<1>12. CASE CallLlm(r)  BY <1>12 DEF CallLlm
<1>13. CASE ReplyArrives(r)  BY <1>13 DEF ReplyArrives
<1>14. CASE SaveAssistant(r)
  <2>1. messages \subseteq messages' /\ stage'[r] = "done" /\ pending' = pending
        /\ outcome'[r] = "answered" /\ role' = role
    BY <1>14 DEF SaveAssistant
  <2>2. QED  BY <1>14, <2>1 DEF SaveAssistant
<1>15. CASE SaveDuplicate(r)  BY <1>15 DEF SaveDuplicate
<1>16. CASE StartClose(r)  BY <1>16 DEF StartClose
<1>17. CASE CloseSession(r)  BY <1>17 DEF CloseSession
<1>18. QED
  BY <1>2, <1>3, <1>4, <1>5, <1>6, <1>7, <1>8, <1>9, <1>10, <1>11,
     <1>12, <1>13, <1>14, <1>15, <1>16, <1>17 DEF Send

LEMMA NextProgressed ==
    ASSUME TypeOK, StallInv, [Next]_vars, \A r \in Requests : Progressed(r)
    PROVE  \A r \in Requests : Progressed(r)'
<1> SUFFICES ASSUME NEW s \in Requests PROVE Progressed(s)'
  OBVIOUS
<1>1. messages \subseteq messages' /\ Progressed(s)
  BY MessagesStay
<1>2. ASSUME NEW r \in Requests, Send(r), r # s PROVE Progressed(s)'
  BY <1>1, <1>2, SendFrame DEF Frame, Progressed, Questioned, Conv
<1>3. CASE Send(s)  BY <1>1, <1>3, SendProgressed
<1>4. ASSUME NEW e \in Edits, SetStatus(e) PROVE Progressed(s)'
  BY <1>1, <1>4
     DEF SetStatus, EditGuard, EditCommit, database, session, Progressed, Questioned, Conv
<1>5. CASE Crash
  BY <1>1, <1>5 DEF Crash, InFlight, TypeOK, Progressed, Questioned, Conv
<1>6. CASE UNCHANGED vars
  BY <1>1, <1>6 DEF vars, database, session, Progressed, Questioned, Conv
<1>7. QED  BY <1>2, <1>3, <1>4, <1>5, <1>6 DEF Next, Quiescent

\* An error, and a death with the process, are final.
LEMMA SkipStays ==
    ASSUME TypeOK, [Next]_vars, \A r \in Requests : Progressed(r),
           NEW c \in Conversations, NumberSkipped(c)
    PROVE  NumberSkipped(c)'
<1>1. PICK s \in Requests : Conv(s) = c /\ outcome[s] \in {"error", "lost"}
  BY DEF NumberSkipped
<1>2. stage[s] \in {"unwinding", "closing", "done"}
  BY <1>1 DEF Progressed
<1>3. outcome'[s] \in {"error", "lost"}
  <2>1. ASSUME NEW r \in Requests, Send(r), r # s PROVE outcome'[s] = outcome[s]
    BY <2>1, SendFrame DEF Frame
  <2>2. CASE Send(s)
    BY <1>1, <1>2, <2>2
       DEF Send, Guard, Enter, LockRow, AwaitVerify, ResumeVerify, AwaitRag, ResumeRag,
           Decide, ScanRaises, SaveUser, CallLlm, ReplyArrives, SaveAssistant,
           SaveDuplicate, StartClose, CloseSession, Goto
  <2>3. ASSUME NEW e \in Edits, SetStatus(e) PROVE outcome'[s] = outcome[s]
    BY <2>3 DEF SetStatus, EditGuard, EditCommit
  <2>4. CASE Crash  BY <1>1, <2>4 DEF Crash
  <2>5. CASE UNCHANGED vars  BY <1>1, <2>5 DEF vars
  <2>6. QED  BY <1>1, <2>1, <2>2, <2>3, <2>4, <2>5 DEF Next, Quiescent
<1>4. QED  BY <1>1, <1>3 DEF NumberSkipped, Conv

\* A committed number waits for its message until that is filed, or the send fails.
LEMMA WindowStep ==
    ASSUME TypeOK, [Next]_vars, NEW s \in Requests, Window(s)
    PROVE  \/ Window(s)' /\ number'[s] = number[s]
           \/ \E m \in messages' : m.conv = Conv(s) /\ m.seq = number[s]
           \/ outcome'[s] \in {"error", "lost"}
<1> USE DEF Window
<1>1. ASSUME NEW r \in Requests, Send(r), r # s
      PROVE  Window(s)' /\ number'[s] = number[s]
  BY <1>1, SendFrame DEF Frame
<1>2. ASSUME Send(s)
      PROVE  \/ Window(s)' /\ number'[s] = number[s]
             \/ \E m \in messages' : m.conv = Conv(s) /\ m.seq = number[s]
             \/ outcome'[s] \in {"error", "lost"}
  <2>1. CASE Decide(s)  BY <2>1 DEF Decide, Goto, session, TypeOK
  <2>2. CASE ScanRaises(s)  BY <2>2 DEF ScanRaises, Raise, TypeOK
  <2>3. CASE SaveUser(s)
    <3>1. NewMessage(s, number[s]) \in messages'
      BY <2>3 DEF SaveUser
    <3>2. NewMessage(s, number[s]).conv = Conv(s) /\ NewMessage(s, number[s]).seq = number[s]
      BY DEF NewMessage
    <3>3. QED  BY <3>1, <3>2
  <2>4. CASE SaveDuplicate(s)
    BY <2>4 DEF SaveDuplicate, Wanted, Taken
  <2>5. QED
    BY <1>2, <2>1, <2>2, <2>3, <2>4
       DEF Send, Guard, Enter, LockRow, AwaitVerify, ResumeVerify, AwaitRag, ResumeRag,
           CallLlm, ReplyArrives, SaveAssistant, StartClose, CloseSession
<1>3. ASSUME NEW e \in Edits, SetStatus(e)
      PROVE  Window(s)' /\ number'[s] = number[s]
  BY <1>3 DEF SetStatus, EditGuard, EditCommit, session
<1>4. ASSUME Crash PROVE outcome'[s] = "lost"
  BY <1>4 DEF Crash, InFlight
<1>5. ASSUME UNCHANGED vars PROVE Window(s)' /\ number'[s] = number[s]
  BY <1>5 DEF vars, session
<1>6. QED  BY <1>1, <1>2, <1>3, <1>4, <1>5 DEF Next, Quiescent

\* So what is filled stays filled as long as no number is skipped.
LEMMA FilledStays ==
    ASSUME TypeOK, [Next]_vars, NEW c \in Conversations, NEW n \in Int,
           Filled(c, n), ~NumberSkipped(c)'
    PROVE  Filled(c, n)'
<1> SUFFICES ASSUME NEW k \in 1..n
             PROVE  \/ \E m \in messages' : m.conv = c /\ m.seq = k
                    \/ \E r \in Requests : Window(r)' /\ Conv(r) = c /\ number'[r] = k
  BY DEF Filled, Taken, Conv
<1>1. CASE Taken(c, k)  BY <1>1, MessagesStay DEF Taken
<1>2. ASSUME NEW s \in Requests, Window(s), Conv(s) = c, number[s] = k
      PROVE  \/ \E m \in messages' : m.conv = c /\ m.seq = k
             \/ \E r \in Requests : Window(r)' /\ Conv(r) = c /\ number'[r] = k
  BY <1>2, WindowStep DEF NumberSkipped, Conv
<1>3. QED  BY <1>1, <1>2 DEF Filled

\* While a send has the event loop, the others have no committed number in hand.
LEMMA FilledIsTaken ==
    ASSUME StallInv, NEW r \in Requests, loop = r,
           NEW c \in Conversations, NEW n \in Int, Filled(c, n),
           Window(r) => number[r] \notin 1..n
    PROVE  \A k \in 1..n : Taken(c, k)
<1> SUFFICES ASSUME NEW k \in 1..n, NEW s \in Requests, Window(s), number[s] = k
             PROVE  FALSE
  BY DEF Filled
<1>1. s = r
  BY DEF StallInv, LoopInv, Window, OnLoop
<1>2. QED  BY <1>1

\* A step of a send that neither files a message nor commits a number: what it then
\* remembers, or is given, comes from what it or the conversation had.
Quiet(r) ==
    /\ messages' = messages /\ counter' = counter
    /\ cached'[r] \in {cached[r], Expired, counter[Conv(r)]}
    /\ role'[r] = "user" /\ stage'[r] \in Scanning =>
          \/ role[r] = "user" /\ stage[r] \in Scanning /\ number'[r] = number[r]
          \/ cached[r] # Expired /\ number'[r] = cached[r] + 1

\* The log row of a scan is committed, and with it the number the send was given.
EarlyCommit(r) ==
    /\ role[r] = "user" /\ stage[r] = "ragging"
    /\ messages' = messages
    /\ counter' = [counter EXCEPT ![Conv(r)] = number[r]]
    /\ cached'[r] = Expired
    /\ number'[r] = number[r]
    /\ Window(r)'

\* A message is filed, on the event loop, and the counter does not pass it.
Files(r, n) ==
    /\ loop = r /\ stage[r] = "saving" /\ ~Taken(Conv(r), n)
    /\ messages' = messages \cup {NewMessage(r, n)}
    /\ counter' \in {counter, [counter EXCEPT ![Conv(r)] = n]}
    /\ cached'[r] \in {cached[r], counter'[Conv(r)]}
    /\ stage'[r] \in {"calling", "done"}

\* A step of a send is one of these.
LEMMA SendKinds ==
    ASSUME TypeOK, NEW r \in Requests, Send(r), Progressed(r)
    PROVE  \/ Quiet(r)
           \/ EarlyCommit(r)
           \/ SaveUser(r) /\ Files(r, number[r])
           \/ SaveAssistant(r) /\ Files(r, Loaded(r) + 1)
<1> USE DEF TypeOK, Scanning, Goto, Finish, Raise, Rollback, session, database
<1>1. CASE Guard(r)  BY <1>1 DEF Guard, Quiet
<1>2. CASE Enter(r)  BY <1>2 DEF Enter, Quiet
<1>3. CASE LockRow(r)
  <2>1. cached[r] # Expired
    BY <1>3 DEF LockRow, Progressed
  <2>2. CASE Refused(r)  BY <1>3, <2>2 DEF LockRow, Quiet
  <2>3. CASE ~Refused(r)  BY <1>3, <2>1, <2>3 DEF LockRow, Quiet
  <2>4. QED  BY <2>2, <2>3
<1>4. CASE AwaitVerify(r)  BY <1>4 DEF AwaitVerify, Quiet
<1>5. CASE ResumeVerify(r)  BY <1>5 DEF ResumeVerify, Quiet
<1>6. CASE AwaitRag(r)  BY <1>6 DEF AwaitRag, Quiet
<1>7. CASE ResumeRag(r)
  <2>1. CASE UNCHANGED <<counter, rowLock, pending, cached>>
    BY <1>7, <2>1 DEF ResumeRag, Quiet
  <2>2. CASE Rollback(r)  BY <1>7, <2>2 DEF ResumeRag, Quiet
  <2>3. CASE Commit(r) /\ ~pending[r]  BY <1>7, <2>3 DEF ResumeRag, Commit, Quiet
  <2>4. CASE Commit(r) /\ pending[r]
    <3>1. role[r] = "user"
      BY <2>4 DEF Progressed, Questioned, Roles
    <3>2. QED  BY <1>7, <2>4, <3>1 DEF ResumeRag, Commit, EarlyCommit, Window
  <2>5. QED  BY <1>7, <2>1, <2>2, <2>3, <2>4 DEF ResumeRag
<1>8. CASE Decide(r)  BY <1>8 DEF Decide, Quiet
<1>9. CASE ScanRaises(r)  BY <1>9 DEF ScanRaises, Quiet
<1>10. CASE SaveUser(r)  BY <1>10 DEF SaveUser, Files
<1>11. CASE CallLlm(r)  BY <1>11 DEF CallLlm, Quiet
<1>12. CASE ReplyArrives(r)  BY <1>12 DEF ReplyArrives, Quiet
<1>13. CASE SaveAssistant(r)  BY <1>13 DEF SaveAssistant, Files
<1>14. CASE SaveDuplicate(r)  BY <1>14 DEF SaveDuplicate, Quiet
<1>15. CASE StartClose(r)  BY <1>15 DEF StartClose, Quiet
<1>16. CASE CloseSession(r)  BY <1>16 DEF CloseSession, Quiet
<1>17. QED
  BY <1>1, <1>2, <1>3, <1>4, <1>5, <1>6, <1>7, <1>8, <1>9, <1>10, <1>11,
     <1>12, <1>13, <1>14, <1>15, <1>16 DEF Send

\* What a message that is filed says of the numbers below it.
LEMMA FilesAtop ==
    ASSUME TypeOK, StallInv, NEW r \in Requests, NoGap(Conv(r)),
           NEW n \in Int, Files(r, n),
           \/ SaveUser(r) /\ n = number[r]
           \/ SaveAssistant(r) /\ n = Loaded(r) + 1
    PROVE  n >= 1 /\ \A k \in 1..n : \E m \in messages' : m.conv = Conv(r) /\ m.seq = k
<1> USE ConstantsAssumption
<1>1. /\ Conv(r) \in Conversations /\ loop = r
      /\ counter[Conv(r)] \in Nat /\ number[r] \in Nat /\ cached[r] \in Nat \cup {Expired}
  BY DEF Files, TypeOK, Conv
<1>2. n >= 1 /\ Filled(Conv(r), n - 1) /\ (Window(r) => number[r] = n)
  <2>1. CASE SaveUser(r) /\ n = number[r]
    BY <2>1 DEF SaveUser, NoGap, Scanning
  <2>2. CASE SaveAssistant(r) /\ n = Loaded(r) + 1
    <3>1. Loaded(r) \in Nat /\ Filled(Conv(r), Loaded(r))
      BY <1>1 DEF Loaded, NoGap
    <3>2. ~Window(r)
      BY <2>2 DEF SaveAssistant, Window
    <3>3. n - 1 = Loaded(r)
      BY <2>2, <3>1
    <3>4. QED  BY <2>2, <3>1, <3>2, <3>3
  <2>3. QED  BY <2>1, <2>2
<1>3. \A k \in 1..(n - 1) : Taken(Conv(r), k)
  <2>1. n - 1 \in Int /\ (Window(r) => number[r] \notin 1..(n - 1))
    BY <1>1, <1>2
  <2>2. QED  BY <1>1, <1>2, <2>1, FilledIsTaken
<1>4. NewMessage(r, n) \in messages' /\ messages \subseteq messages'
  BY DEF Files
<1>5. NewMessage(r, n).conv = Conv(r) /\ NewMessage(r, n).seq = n
  BY DEF NewMessage
<1>6. ASSUME NEW k \in 1..n PROVE \E m \in messages' : m.conv = Conv(r) /\ m.seq = k
  <2>1. CASE k = n  BY <1>4, <1>5, <2>1
  <2>2. CASE k \in 1..(n - 1)  BY <1>3, <1>4, <2>2 DEF Taken
  <2>3. QED  BY <1>2, <2>1, <2>2
<1>7. QED  BY <1>2, <1>6

\* A step of a send opens no gap in any conversation, unless it skips a number.
LEMMA SendNoGap ==
    ASSUME TypeOK, TypeOK', StallInv, [Next]_vars, NEW r \in Requests, Send(r),
           Progressed(r), NEW c \in Conversations, NoGap(c), ~NumberSkipped(c)'
    PROVE  NoGap(c)'
<1> USE ConstantsAssumption
<1>1. Frame(r) /\ messages \subseteq messages'
  BY SendFrame, MessagesStay
<1>2. /\ counter[c] \in Nat /\ counter'[c] \in Nat
      /\ \A s \in Requests : cached[s] \in Int /\ number[s] \in Nat
  BY DEF TypeOK, Expired
\* The numbers that are filled afterwards, for what a conversation and a send say.
<1> DEFINE Bears(k) == \E m \in messages' : m.conv = c /\ m.seq = k
           Tail(n) ==
              \A k \in 1..n : Bears(k) \/ \E s \in Requests : /\ Window(s)' /\ Conv(s) = c
                                                          /\ number'[s] = k
           Told(s) ==
              /\ cached'[s] # Expired => Tail(cached'[s])
              /\ role'[s] = "user" /\ stage'[s] \in Scanning
                    => number'[s] >= 1 /\ Tail(number'[s] - 1)
<1>3. ASSUME NEW n \in Int, Filled(c, n) PROVE Tail(n)
  <2>1. Filled(c, n)'
    BY <1>3, FilledStays
  <2>2. QED  BY <2>1 DEF Filled, Taken, Conv
<1>4. ASSUME NEW n \in Int, \A k \in 1..n : Bears(k) PROVE Tail(n)
  BY <1>4
<1>5. ASSUME NEW m \in messages, m.conv = c PROVE \A k \in 1..m.seq : Bears(k)
  BY <1>1, <1>5 DEF NoGap, Taken
<1>6. ASSUME NEW s \in Requests, s # r, Conv(s) = c PROVE Told(s)
  <2>1. /\ cached[s] # Expired => Filled(c, cached[s])
        /\ role[s] = "user" /\ stage[s] \in Scanning
              => number[s] >= 1 /\ Filled(c, number[s] - 1)
    BY <1>6 DEF NoGap
  <2>2. cached[s] \in Int /\ number[s] \in Nat /\ number[s] - 1 \in Int
    BY <1>2
  <2>3. /\ cached'[s] = cached[s] /\ number'[s] = number[s]
        /\ role'[s] = role[s] /\ stage'[s] = stage[s]
    BY <1>1, <1>6 DEF Frame
  <2>4. cached[s] # Expired => Tail(cached[s])
    BY <1>3, <2>1, <2>2
  <2>5. role[s] = "user" /\ stage[s] \in Scanning => Tail(number[s] - 1)
    BY <1>3, <2>1, <2>2
  <2> HIDE DEF Tail, Bears
  <2>6. QED  BY <2>1, <2>3, <2>4, <2>5
<1>7. Tail(counter[c])
  BY <1>2, <1>3 DEF NoGap
<1>8. /\ Tail(counter'[c])
      /\ \A m \in messages' : m.conv = c => \A k \in 1..m.seq : Bears(k)
      /\ Conv(r) = c => Told(r)
  <2>1. CASE Quiet(r)
    <3>1. Conv(r) = c /\ cached[r] # Expired => Tail(cached[r])
      BY <1>2, <1>3 DEF NoGap
    <3>2. Conv(r) = c /\ role[r] = "user" /\ stage[r] \in Scanning
             => number[r] >= 1 /\ Tail(number[r] - 1)
      BY <1>2, <1>3 DEF NoGap
    <3>3. cached[r] # Expired => cached[r] + 1 >= 1 /\ (cached[r] + 1) - 1 = cached[r]
      BY DEF TypeOK
    <3> HIDE DEF Tail, Bears
    <3>4. QED  BY <1>5, <1>7, <2>1, <3>1, <3>2, <3>3 DEF Quiet
  <2>2. CASE EarlyCommit(r) /\ Conv(r) = c
    <3>1. number[r] >= 1 /\ number[r] \in Nat /\ Tail(number[r] - 1)
      BY <1>2, <1>3, <2>2 DEF NoGap, EarlyCommit, Scanning
    <3>2. Window(r)' /\ number'[r] = number[r] /\ counter'[c] = number[r]
      BY <2>2 DEF EarlyCommit, TypeOK
    <3>3. Tail(number[r])
      <4> SUFFICES ASSUME NEW k \in 1..number[r]
                   PROVE  Bears(k) \/ \E s \in Requests : /\ Window(s)' /\ Conv(s) = c
                                                        /\ number'[s] = k
        OBVIOUS
      <4>1. CASE k = number[r]  BY <2>2, <3>2, <4>1
      <4>2. CASE k \in 1..(number[r] - 1)  BY <3>1, <4>2
      <4>3. QED  BY <3>1, <4>1, <4>2
    <3>4. messages' = messages /\ cached'[r] = Expired
      BY <2>2 DEF EarlyCommit
    <3> HIDE DEF Tail, Bears
    <3>5. QED  BY <1>5, <3>1, <3>2, <3>3, <3>4
  <2>3. CASE EarlyCommit(r) /\ Conv(r) # c
    <3>1. messages' = messages /\ counter'[c] = counter[c]
      BY <2>3 DEF EarlyCommit, TypeOK
    <3> HIDE DEF Tail, Bears
    <3>2. QED  BY <1>5, <1>7, <2>3, <3>1
  <2>4. ASSUME NEW n \in Int, Files(r, n), Conv(r) # c
        PROVE  /\ Tail(counter'[c])
               /\ \A m \in messages' : m.conv = c => \A k \in 1..m.seq : Bears(k)
    <3>1. counter'[c] = counter[c] /\ \A m \in messages' : m.conv = c => m \in messages
      BY <2>4 DEF Files, NewMessage, TypeOK, Conv
    <3> HIDE DEF Tail, Bears
    <3>2. QED  BY <1>5, <1>7, <3>1
  <2>5. ASSUME NEW n \in Int, Files(r, n), Conv(r) = c,
               \/ SaveUser(r) /\ n = number[r]
               \/ SaveAssistant(r) /\ n = Loaded(r) + 1
        PROVE  /\ Tail(counter'[c])
               /\ \A m \in messages' : m.conv = c => \A k \in 1..m.seq : Bears(k)
               /\ Told(r)
    <3>1. n >= 1 /\ \A k \in 1..n : \E m \in messages' : m.conv = c /\ m.seq = k
      BY <2>5, FilesAtop
    <3>2. Tail(n)
      BY <1>4, <3>1
    <3>3. counter'[c] \in {counter[c], n}
      BY <2>5 DEF Files, TypeOK, Conv
    <3>4. ASSUME NEW m \in messages', m.conv = c PROVE \A k \in 1..m.seq : Bears(k)
      <4>1. m \in messages \/ m.seq = n
        BY <2>5 DEF Files, NewMessage
      <4>2. QED  BY <1>5, <3>1, <3>4, <4>1
    <3>5. cached[r] # Expired => Tail(cached[r])
      BY <1>2, <1>3, <2>5 DEF NoGap
    <3>6. cached'[r] \in {cached[r], counter'[c]} /\ stage'[r] \notin Scanning
      BY <2>5 DEF Files, Scanning
    <3> HIDE DEF Tail, Bears
    <3>7. Tail(counter'[c])
      BY <1>7, <3>2, <3>3
    <3>8. QED  BY <3>4, <3>5, <3>6, <3>7
  <2>6. number[r] \in Int /\ Loaded(r) + 1 \in Int
    BY <1>2 DEF Loaded, TypeOK, Conv
  <2> HIDE DEF Tail, Told, Bears
  <2>7. QED  BY <2>1, <2>2, <2>3, <2>4, <2>5, <2>6, SendKinds
<1>9. \A s \in Requests : Conv(s) = c => Told(s)
  <2> HIDE DEF Told
  <2>1. QED  BY <1>6, <1>8
<1>10. QED  BY <1>8, <1>9 DEF NoGap, Filled, Taken, Conv

\* Nor does any other step.
LEMMA NextNoGap ==
    ASSUME TypeOK, TypeOK', StallInv, [Next]_vars, \A r \in Requests : Progressed(r),
           NEW c \in Conversations, NumberSkipped(c) \/ NoGap(c)
    PROVE  (NumberSkipped(c) \/ NoGap(c))'
<1> SUFFICES ASSUME NoGap(c), ~NumberSkipped(c)' PROVE NoGap(c)'
  BY SkipStays
<1>1. ASSUME NEW r \in Requests, Send(r) PROVE NoGap(c)'
  BY <1>1, SendNoGap
<1>2. ASSUME NEW e \in Edits, SetStatus(e) PROVE NoGap(c)'
  BY <1>2 DEF SetStatus, EditGuard, EditCommit, database, session, NoGap, Filled, Taken,
              Window, Conv
<1>3. CASE Crash
  <2>1. \A r \in Requests : Conv(r) = c => ~InFlight(r)
    BY <1>3 DEF Crash, NumberSkipped, Conv
  <2>2. \A r \in Requests : Conv(r) = c =>
          ~Window(r) /\ stage'[r] \notin Scanning /\ cached'[r] = Expired
    BY <1>3, <2>1 DEF Crash, InFlight, Window, Scanning
  <2>3. messages' = messages /\ counter' = counter
    BY <1>3 DEF Crash
  <2>4. QED  BY <2>2, <2>3 DEF NoGap, Filled, Taken, Conv
<1>4. CASE UNCHANGED vars
  BY <1>4 DEF vars, database, session, NoGap, Filled, Taken, Window, Conv
<1>5. QED  BY <1>1, <1>2, <1>3, <1>4 DEF Next, Quiescent

\* What it takes for a message a to be an answer that stands where it should.
Answers(a) ==
    \E q \in messages :
        /\ q.req = a.req /\ q.role = "user" /\ q.conv = a.conv
        /\ q.action # "block"
        /\ q.seq < a.seq \/ NumberSkipped(a.conv)

\* A new answer takes a free number, above every number of its contiguous conversation
\* and so above its question.
LEMMA NewAnswer ==
    ASSUME TypeOK, StallInv, [Next]_vars, NEW r \in Requests, SaveAssistant(r),
           \A s \in Requests : Progressed(s),
           NumberSkipped(Conv(r)) \/ NoGap(Conv(r)),
           NEW a, a = NewMessage(r, Loaded(r) + 1)
    PROVE  Answers(a)'
<1> USE ConstantsAssumption
<1>1. PICK q \in messages : /\ q.req = r /\ q.role = "user" /\ q.conv = Conv(r)
                            /\ q.action # "block"
  BY DEF SaveAssistant, Progressed, Questioned
<1>2. a.req = r /\ a.conv = Conv(r) /\ a.seq = Loaded(r) + 1
  BY DEF NewMessage
<1>3. q \in messages' /\ Conv(r) \in Conversations /\ q.seq \in Nat /\ Loaded(r) + 1 >= 1
      /\ Loaded(r) \in Nat
  BY MessagesStay DEF TypeOK, Conv, Message, Loaded
<1>4. NumberSkipped(Conv(r)) => NumberSkipped(Conv(r))'
  BY <1>3, SkipStays
<1>5. NoGap(Conv(r)) => q.seq < a.seq
  <2>1. ~Taken(Conv(r), a.seq)
    BY <1>2 DEF SaveAssistant
  <2>2. NoGap(Conv(r)) => \A k \in 1..q.seq : Taken(Conv(r), k)
    BY <1>1 DEF NoGap
  <2>3. QED  BY <1>2, <1>3, <2>1, <2>2
<1>6. q.seq < a.seq \/ NumberSkipped(a.conv)'
  BY <1>2, <1>4, <1>5 DEF NumberSkipped, Conv
<1>7. QED  BY <1>1, <1>2, <1>3, <1>6 DEF Answers, NumberSkipped

\* Answers stay where they are, and new ones are put there.
LEMMA NextAnswers ==
    ASSUME TypeOK, StallInv, [Next]_vars, OrderInv PROVE AnswerAfterQuestion'
<1> SUFFICES ASSUME NEW a \in messages', a.role = "assistant" PROVE Answers(a)'
  BY DEF AnswerAfterQuestion, Answers
<1>1. CASE a \in messages
  <2>1. PICK q \in messages : /\ q.req = a.req /\ q.role = "user" /\ q.conv = a.conv
                              /\ q.action # "block"
                              /\ q.seq < a.seq \/ NumberSkipped(a.conv)
    BY <1>1 DEF OrderInv, AnswerAfterQuestion
  <2>2. q \in messages' /\ a.conv \in Conversations
    BY <1>1, MessagesStay DEF TypeOK, Message
  <2>3. NumberSkipped(a.conv) => NumberSkipped(a.conv)'
    BY <2>2, SkipStays DEF OrderInv
  <2>4. QED  BY <2>1, <2>2, <2>3 DEF Answers
<1>2. CASE a \notin messages
  <2>1. PICK r \in Requests : Send(r)
    BY <1>2 DEF Next, Quiescent, SetStatus, EditGuard, EditCommit, Crash, vars, database
  <2>2. Conv(r) \in Conversations
    BY ConstantsAssumption DEF Conv
  <2>3. SaveAssistant(r) /\ a = NewMessage(r, Loaded(r) + 1)
    <3>1. CASE Quiet(r) \/ EarlyCommit(r)
      BY <1>2, <3>1 DEF Quiet, EarlyCommit
    <3>2. CASE SaveUser(r) /\ Files(r, number[r])
      BY <1>2, <3>2 DEF SaveUser, NewMessage
    <3>3. CASE SaveAssistant(r) /\ Files(r, Loaded(r) + 1)
      BY <1>2, <3>3 DEF SaveAssistant
    <3>4. QED  BY <2>1, <3>1, <3>2, <3>3, SendKinds DEF OrderInv
  <2>4. QED  BY <2>2, <2>3, NewAnswer DEF OrderInv
<1>3. QED  BY <1>1, <1>2

\* An answer stands behind its question, whatever the scans of other sends commit or
\* roll back: the counter may lag behind the messages, but where no number was skipped
\* it never points into a gap, and the free number that it leads to is above them all.
THEOREM AnswersFollowQuestions == Spec => []AnswerAfterQuestion
<1> USE ConstantsAssumption
<1>1. Init => OrderInv
  <2> SUFFICES ASSUME Init PROVE OrderInv
    OBVIOUS
  <2>1. \A c \in Conversations : NoGap(c)
    BY DEF Init, NoGap, Filled, Scanning
  <2>2. \A r \in Requests : Progressed(r)
    BY DEF Init, Progressed, Questioned
  <2>3. AnswerAfterQuestion
    BY DEF Init, AnswerAfterQuestion
  <2>4. QED  BY <2>1, <2>2, <2>3 DEF OrderInv
<1>2. TypeOK /\ TypeOK' /\ StallInv /\ OrderInv /\ [Next]_vars => OrderInv'
  <2> SUFFICES ASSUME TypeOK, TypeOK', StallInv, OrderInv, [Next]_vars PROVE OrderInv'
    OBVIOUS
  <2>1. \A r \in Requests : Progressed(r)'
    BY NextProgressed DEF OrderInv
  <2>2. \A c \in Conversations : (NumberSkipped(c) \/ NoGap(c))'
    BY NextNoGap DEF OrderInv
  <2>3. AnswerAfterQuestion'
    BY NextAnswers
  <2>4. QED  BY <2>1, <2>2, <2>3 DEF OrderInv
<1>3. OrderInv => AnswerAfterQuestion
  BY DEF OrderInv
<1>4. QED  BY <1>1, <1>2, <1>3, TypeCorrect, StallInvariant, PTL DEF Spec

-----------------------------------------------------------------------------
(* Whom a send collides with.                                               *)

\* A send has no message before it files its question, none beyond the counter that it
\* remembers while it prepares its answer, and a collision stays what it was.
Own(r) ==
    /\ role[r] = "user" /\ stage[r] \in Early \cup Scanning
          => \A m \in messages : m.req # r
    /\ stage[r] \in {"calling", "llm"} \/ (role[r] = "assistant" /\ stage[r] \in Scanning)
          => \A m \in messages : m.req = r =>
                m.conv = Conv(r) /\ (cached[r] # Expired => m.seq <= cached[r])
    /\ outcome[r] = "duplicate" =>
          /\ stage[r] \in {"unwinding", "closing", "done"}
          /\ \E m \in messages : m.conv = Conv(r) /\ m.seq = number[r] /\ m.req # r

\* Its own steps keep it from colliding with itself.
LEMMA SendOwn ==
    ASSUME TypeOK, TypeOK', NumberInv, NumberInv', LosslessScan, StallInv,
           NEW r \in Requests, Send(r), Own(r)
    PROVE  Own(r)'
<1> USE ConstantsAssumption
<1>1. stage[r] \in Early => role[r] = "user"
  BY DEF StallInv
<1>2. stage[r] \notin {"ragging", "ragged"}
  BY DEF NumberInv, NeverAhead
<1> USE <1>1 DEF TypeOK, Own, Early, Scanning, Goto, Finish, Raise, Rollback, session,
                 database, Conv
<1>3. CASE Guard(r)  BY <1>3 DEF Guard
<1>4. CASE Enter(r)  BY <1>4 DEF Enter
<1>5. CASE LockRow(r)
  <2>1. CASE Refused(r)  BY <1>5, <2>1 DEF LockRow
  <2>2. CASE ~Refused(r)  BY <1>5, <2>2 DEF LockRow
  <2>3. QED  BY <2>1, <2>2
<1>6. CASE AwaitVerify(r)  BY <1>6 DEF AwaitVerify
<1>7. CASE ResumeVerify(r)  BY <1>7 DEF ResumeVerify, LosslessScan
<1>8. CASE AwaitRag(r)  BY <1>8 DEF AwaitRag, LosslessScan
<1>9. CASE ResumeRag(r)  BY <1>2, <1>9 DEF ResumeRag
<1>10. CASE Decide(r)  BY <1>10 DEF Decide
<1>11. CASE ScanRaises(r)  BY <1>11 DEF ScanRaises
<1>12. CASE SaveUser(r)
  <2>1. /\ cached'[r] = counter'[Conv(r)] /\ stage'[r] \in {"calling", "done"}
        /\ outcome'[r] \in {outcome[r], "blocked"} /\ role'[r] = "user"
        /\ outcome[r] # "duplicate" /\ number' = number
    BY <1>12 DEF SaveUser
  <2>2. ASSUME NEW m \in messages', m.req = r
        PROVE  m.conv = Conv(r) /\ m.seq <= counter'[Conv(r)]
    <3>1. m = NewMessage(r, number[r])
      BY <1>12, <2>2 DEF SaveUser
    <3>2. m.conv = Conv(r)
      BY <3>1 DEF NewMessage
    <3>3. m.seq \in 1..counter'[Conv(r)]
      BY <2>2, <3>2 DEF NumberInv, Numbered
    <3>4. QED  BY <3>2, <3>3
  <2>3. QED  BY <2>1, <2>2
<1>13. CASE CallLlm(r)  BY <1>13 DEF CallLlm
<1>14. CASE ReplyArrives(r)  BY <1>14 DEF ReplyArrives
<1>15. CASE SaveAssistant(r)
  <2>1. stage'[r] = "done" /\ outcome'[r] = "answered"
    BY <1>15 DEF SaveAssistant
  <2>2. QED  BY <2>1
<1>16. CASE SaveDuplicate(r)
  <2>1. PICK m \in messages : m.conv = Conv(r) /\ m.seq = Wanted(r)
    BY <1>16 DEF SaveDuplicate, Taken
  <2>2. m.req # r
    <3>1. CASE role[r] = "user"  BY <1>16, <3>1 DEF SaveDuplicate
    <3>2. CASE role[r] = "assistant"
      <4>1. Wanted(r) = Loaded(r) + 1
        BY <3>2 DEF Wanted
      <4>2. CASE cached[r] = Expired
        <5>1. m.seq = counter[Conv(r)] + 1 /\ m.seq \in 1..counter[Conv(r)]
          BY <2>1, <4>1, <4>2 DEF Loaded, NumberInv, Numbered
        <5>2. QED  BY <5>1
      <4>3. CASE cached[r] # Expired
        BY <1>16, <2>1, <3>2, <4>1, <4>3 DEF SaveDuplicate, Loaded, Expired
      <4>4. QED  BY <4>2, <4>3
    <3>3. QED  BY <3>1, <3>2 DEF Roles
  <2>3. messages' = messages /\ stage'[r] = "unwinding" /\ number'[r] = Wanted(r)
        /\ role' = role
    BY <1>16 DEF SaveDuplicate
  <2>4. QED  BY <2>1, <2>2, <2>3
<1>17. CASE StartClose(r)  BY <1>17 DEF StartClose
<1>18. CASE CloseSession(r)  BY <1>18 DEF CloseSession
<1>19. QED
  BY <1>3, <1>4, <1>5, <1>6, <1>7, <1>8, <1>9, <1>10, <1>11, <1>12,
     <1>13, <1>14, <1>15, <1>16, <1>17, <1>18 DEF Send

\* Nobody else files a message in its name.
LEMMA NextOwn ==
    ASSUME TypeOK, TypeOK', NumberInv, NumberInv', LosslessScan, StallInv, [Next]_vars,
           NEW s \in Requests, Own(s)
    PROVE  Own(s)'
<1>1. ASSUME NEW r \in Requests, Send(r), r # s PROVE Own(s)'
  <2>1. \A m \in messages' : m.req = s => m \in messages
    BY <1>1, SendFiles DEF NewMessage
  <2>2. messages \subseteq messages'
    BY MessagesStay
  <2>3. /\ stage'[s] = stage[s] /\ role'[s] = role[s] /\ cached'[s] = cached[s]
        /\ number'[s] = number[s] /\ outcome'[s] = outcome[s]
    BY <1>1, SendFrame DEF Frame
  <2>4. QED  BY <2>1, <2>2, <2>3 DEF Own, Conv
<1>2. CASE Send(s)  BY <1>2, SendOwn
<1>3. ASSUME NEW e \in Edits, SetStatus(e) PROVE Own(s)'
  BY <1>3 DEF SetStatus, EditGuard, EditCommit, database, session, Own, Conv
<1>4. CASE Crash
  <2>1. \/ stage'[s] = "done" /\ outcome'[s] \in {outcome[s], "lost"}
        \/ stage'[s] = "new" /\ stage[s] = "new" /\ outcome'[s] = outcome[s]
    BY <1>4 DEF Crash, InFlight, TypeOK
  <2>2. /\ messages' = messages /\ role' = role /\ number' = number
        /\ cached'[s] = Expired
    BY <1>4 DEF Crash
  <2>3. QED  BY <2>1, <2>2 DEF Own, Early, Scanning, Conv
<1>5. CASE UNCHANGED vars
  BY <1>5 DEF vars, database, session, Own, Conv
<1>6. QED  BY <1>1, <1>2, <1>3, <1>4, <1>5 DEF Next, Quiescent

OwnInv == \A r \in Requests : Own(r)

\* A send that fails on the unique key was overtaken by another one: the number that it
\* wanted is never that of its own question.
THEOREM DuplicatesWereOvertaken ==
    ASSUME LosslessScan PROVE Spec => []DuplicateMeansOvertaken
<1>1. Init => OwnInv
  BY DEF Init, OwnInv, Own, Early, Scanning
<1>2. TypeOK /\ TypeOK' /\ NumberInv /\ NumberInv' /\ StallInv /\ OwnInv /\ [Next]_vars
      => OwnInv'
  BY NextOwn DEF OwnInv
<1>3. OwnInv => DuplicateMeansOvertaken
  BY DEF OwnInv, Own, DuplicateMeansOvertaken, Of
<1>4. QED
  BY <1>1, <1>2, <1>3, TypeCorrect, NumberInvariant, StallInvariant, PTL DEF Spec
=============================================================================
