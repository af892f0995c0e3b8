------------------------- MODULE ConversationAppend -------------------------
(***************************************************************************)
(* POST /conversations/{id}/messages: what one uvicorn process, its single *)
(* event loop, its worker threads and PostgreSQL (READ COMMITTED) do when   *)
(* several sends and several status edits of a conversation overlap.        *)
(*                                                                         *)
(* append_user_message_async is a coroutine whose database calls are        *)
(* synchronous.  It gives the event loop up only where it awaits something  *)
(* remote: the semantic verification and the RAG decision inside a scan,    *)
(* the chat provider, and the closing of its session after an exception.    *)
(* A database call that waits for a row lock therefore keeps the loop.      *)
(***************************************************************************)
EXTENDS Naturals, Integers, FiniteSets

CONSTANTS
    Requests,       \* the sends
    Edits,          \* the PATCH and DELETE requests that set a status
    Conversations,
    Target,         \* the conversation each send is addressed to
    NoOne,          \* no holder: of a row lock, of the event loop
    VerifyOn,       \* some enabled rule may need semantic verification
    RagOn,          \* a rag.block or rag.mask rule is enabled
    LogFails,       \* writing a RagRetrievalLog row may fail
    ScanFails,      \* a query of the scan may raise
    MaxCrashes      \* how often the process is killed and restarted

ASSUME ConstantsAssumption ==
    /\ NoOne \notin Requests
    /\ Target \in [Requests -> Conversations]
    /\ {VerifyOn, RagOn, LogFails, ScanFails} \subseteq BOOLEAN
    /\ MaxCrashes \in Nat

VARIABLES
    \* PostgreSQL
    counter,        \* conversations.last_sequence_number
    status,         \* conversations.status
    messages,       \* the rows of messages
    rowLock,        \* who holds SELECT ... FOR UPDATE on a conversation
    \* one send each: its coroutine, its session and its identity map
    stage,
    role,           \* which of its two messages it is producing
    cached,         \* last_sequence_number in the identity map, or Expired
    cachedStatus,   \* the status the guard loaded
    number,         \* user_seq, then asst_seq
    pending,        \* an uncommitted UPDATE of last_sequence_number
    verdict,        \* final_action of the latest scan
    outcome,
    \* one edit each
    edit,
    \* the process
    loop,           \* the send whose coroutine has the event loop
    crashes,
    \* the chat provider
    prompts         \* what it was sent

database == <<counter, status, messages, rowLock>>
session  == <<cached, cachedStatus, number, pending>>
vars == <<database, session, stage, role, verdict, outcome,
          edit, loop, crashes, prompts>>

Expired == -1

Statuses == {"active", "archived"}
\* "allow" stands for warn, too: both let the text pass.
RuleActions == {"allow", "mask", "block"}
Roles == {"user", "assistant"}
Stages == {"new", "queued", "locking", "scanning", "verifying", "verified",
           "ragging", "ragged", "saving", "calling", "llm", "unwinding",
           "closing", "done"}
Outcomes == {"none", "denied", "archived", "duplicate", "error", "blocked",
             "answered", "lost"}

\* The stages in which a coroutine has the event loop.
OnLoop == {"locking", "scanning", "verified", "ragged", "saving", "calling"}

Message == [conv: Conversations, seq: Nat, role: Roles, req: Requests,
            action: RuleActions]
Edit == [stage: {"new", "read", "done"}, conv: Conversations,
         seen: Statuses, to: Statuses]

Init ==
    /\ counter = [c \in Conversations |-> 0]
    /\ status = [c \in Conversations |-> "active"]
    /\ messages = {}
    /\ rowLock = [c \in Conversations |-> NoOne]
    /\ stage = [r \in Requests |-> "new"]
    /\ role = [r \in Requests |-> "user"]
    /\ cached = [r \in Requests |-> Expired]
    /\ cachedStatus = [r \in Requests |-> "active"]
    /\ number = [r \in Requests |-> 0]
    /\ pending = [r \in Requests |-> FALSE]
    /\ verdict = [r \in Requests |-> "allow"]
    /\ outcome = [r \in Requests |-> "none"]
    /\ edit \in [Edits -> [stage: {"new"}, conv: Conversations,
                           seen: {"active"}, to: Statuses]]
    /\ loop = NoOne
    /\ crashes = 0
    /\ prompts = {}

-----------------------------------------------------------------------------
(* Transactions of a send.                                                 *)

Conv(r) == Target[r]

Unlocked(r) ==
    [rowLock EXCEPT ![Conv(r)] = IF @ = r THEN NoOne ELSE @]

\* The row can be locked, updated, or referenced by an inserted message:
\* FOR UPDATE conflicts with all three.
RowAvailable(r) == rowLock[Conv(r)] \in {NoOne, r}

\* session.commit(): the pending UPDATE is written, the lock is dropped and
\* every loaded attribute expires.
Commit(r) ==
    /\ counter' = IF pending[r]
                  THEN [counter EXCEPT ![Conv(r)] = number[r]] ELSE counter
    /\ rowLock' = Unlocked(r)
    /\ pending' = [pending EXCEPT ![r] = FALSE]
    /\ cached' = [cached EXCEPT ![r] = Expired]

\* Mutant: the failed transaction is not rolled back.
RollbackForgotten(r) ==
    /\ cached' = [cached EXCEPT ![r] = Expired]
    /\ UNCHANGED <<counter, rowLock, pending>>

\* session.rollback(), and the rollback of a failed flush.
Rollback(r) ==
    /\ rowLock' = Unlocked(r)
    /\ pending' = [pending EXCEPT ![r] = FALSE]
    /\ cached' = [cached EXCEPT ![r] = Expired]
    /\ UNCHANGED counter

\* Mutant: the table has no unique key.
TakenNever(c, n) == FALSE

\* uq_messages_convo_seq
Taken(c, n) == \E m \in messages : m.conv = c /\ m.seq = n

\* Mutant: final_action is filled from the wrong variable.
NewMessageWrongAction(r, n) ==
    [conv |-> Conv(r), seq |-> n, role |-> role[r], req |-> r,
     action |-> outcome[r]]

NewMessage(r, n) ==
    [conv |-> Conv(r), seq |-> n, role |-> role[r], req |-> r,
     action |-> verdict[r]]

\* The exception leaves the handler; the session is closed later.
Raise(r, why) ==
    /\ stage' = [stage EXCEPT ![r] = "unwinding"]
    /\ outcome' = [outcome EXCEPT ![r] = why]
    /\ loop' = NoOne

Finish(r, how) ==
    /\ stage' = [stage EXCEPT ![r] = "done"]
    /\ outcome' = [outcome EXCEPT ![r] = how]

Goto(r, s) ==
    /\ stage' = [stage EXCEPT ![r] = s]
    /\ UNCHANGED outcome

-----------------------------------------------------------------------------
(* A send.                                                                 *)

\* require_conversation_update, in a worker thread: the row is loaded into
\* the identity map without a lock.
Guard(r) ==
    /\ stage[r] = "new"
    /\ \/ /\ cached' = [cached EXCEPT ![r] = counter[Conv(r)]]
          /\ cachedStatus' = [cachedStatus EXCEPT ![r] = status[Conv(r)]]
          /\ Goto(r, "queued")
       \/ /\ Finish(r, "denied")
          /\ UNCHANGED <<cached, cachedStatus>>
    /\ UNCHANGED <<database, number, pending, role, verdict, edit, loop,
                   crashes, prompts>>

\* The event loop starts the handler.
Enter(r) ==
    /\ stage[r] = "queued"
    /\ loop = NoOne
    /\ loop' = r
    /\ Goto(r, "locking")
    /\ UNCHANGED <<database, session, role, verdict, edit, crashes, prompts>>

\* Mutant: the status is not looked at.
RefusedNever(r) == FALSE

\* _is_active_conversation, on the attributes the guard loaded.
Refused(r) == cachedStatus[r] = "archived"

\* SELECT ... FOR UPDATE without populate_existing: the lock is taken, the
\* attributes stay as the guard loaded them.
LockRow(r) ==
    /\ stage[r] = "locking"
    /\ loop = r
    /\ RowAvailable(r)
    /\ rowLock' = [rowLock EXCEPT ![Conv(r)] = r]
    /\ IF Refused(r)
       THEN Raise(r, "archived") /\ UNCHANGED <<number, pending>>
       ELSE /\ number' = [number EXCEPT ![r] = cached[r] + 1]
            /\ pending' = [pending EXCEPT ![r] = TRUE]
            /\ Goto(r, "scanning")
            /\ UNCHANGED loop
    /\ UNCHANGED <<counter, status, messages, cached, cachedStatus, role,
                   verdict, edit, crashes, prompts>>

\* _scan.scan gives the loop up for the semantic verification ...
AwaitVerify(r) ==
    /\ VerifyOn
    /\ stage[r] = "scanning"
    /\ loop = r
    /\ loop' = NoOne
    /\ Goto(r, "verifying")
    /\ UNCHANGED <<database, session, role, verdict, edit, crashes, prompts>>

\* ... whose log row is only flushed, so that the transaction stays open,
\* unless the flush fails and everything pending is rolled back.
ResumeVerify(r) ==
    /\ stage[r] = "verifying"
    /\ loop = NoOne
    /\ loop' = r
    /\ Goto(r, "verified")
    /\ \/ UNCHANGED <<counter, rowLock, pending, cached>>
       \/ LogFails /\ Rollback(r)
    /\ UNCHANGED <<status, messages, cachedStatus, number, role, verdict,
                   edit, crashes, prompts>>

\* It gives the loop up for the RAG decision ...
AwaitRag(r) ==
    /\ RagOn
    /\ stage[r] \in {"scanning", "verified"}
    /\ loop = r
    /\ loop' = NoOne
    /\ Goto(r, "ragging")
    /\ UNCHANGED <<database, session, role, verdict, edit, crashes, prompts>>

\* ... which returns early (no context, no answer from the model), or commits
\* its log row together with whatever the caller has pending, or fails to
\* and rolls all of it back.
ResumeRag(r) ==
    /\ stage[r] = "ragging"
    /\ loop = NoOne
    /\ loop' = r
    /\ Goto(r, "ragged")
    /\ \/ UNCHANGED <<counter, rowLock, pending, cached>>
       \/ Commit(r)
       \/ LogFails /\ Rollback(r)
    /\ UNCHANGED <<status, messages, cachedStatus, number, role, verdict,
                   edit, crashes, prompts>>

\* The scan returns its final action.
Decide(r) ==
    /\ stage[r] \in {"scanning", "verified", "ragged"}
    /\ loop = r
    /\ \E a \in RuleActions : verdict' = [verdict EXCEPT ![r] = a]
    /\ Goto(r, "saving")
    /\ UNCHANGED <<database, session, role, edit, loop, crashes, prompts>>

\* A query of the scan raises: the transaction and its lock stay until the
\* session is closed.
ScanRaises(r) ==
    /\ ScanFails
    /\ stage[r] \in {"scanning", "verified", "ragged"}
    /\ loop = r
    /\ Raise(r, "error")
    /\ UNCHANGED <<database, session, role, verdict, edit, crashes, prompts>>

\* Mutant: a blocked message does not end the request.
StopsNever(r) == FALSE

\* if user_blocked: return user_msg, None
Stops(r) == verdict[r] = "block"

\* The user's message and the bump of the counter are committed.  A blocked
\* message ends the request; otherwise _resolve_system_prompt reloads the
\* conversation in the same stretch of code.
SaveUser(r) ==
    /\ stage[r] = "saving" /\ role[r] = "user"
    /\ loop = r
    /\ RowAvailable(r)
    /\ ~Taken(Conv(r), number[r])
    /\ messages' = messages \cup {NewMessage(r, number[r])}
    /\ counter' = IF pending[r]
                  THEN [counter EXCEPT ![Conv(r)] = number[r]] ELSE counter
    /\ rowLock' = Unlocked(r)
    /\ pending' = [pending EXCEPT ![r] = FALSE]
    /\ cached' = [cached EXCEPT ![r] = counter'[Conv(r)]]
    /\ IF Stops(r)
       THEN Finish(r, "blocked") /\ loop' = NoOne
       ELSE Goto(r, "calling") /\ UNCHANGED loop
    /\ UNCHANGED <<status, cachedStatus, number, role, verdict, edit,
                   crashes, prompts>>

\* Mutant: the provider is sent the text as the user typed it.
LlmInputRaw(r) == "content"

\* llm_input = user_masked or content
LlmInput(r) == IF verdict[r] = "mask" THEN "masked" ELSE "content"

CallLlm(r) ==
    /\ stage[r] = "calling"
    /\ loop = r
    /\ prompts' = prompts \cup {[req |-> r, text |-> LlmInput(r)]}
    /\ loop' = NoOne
    /\ Goto(r, "llm")
    /\ UNCHANGED <<database, session, role, verdict, edit, crashes>>

\* generate_reply returns a text whatever the providers do.
ReplyArrives(r) ==
    /\ stage[r] = "llm"
    /\ loop = NoOne
    /\ loop' = r
    /\ role' = [role EXCEPT ![r] = "assistant"]
    /\ Goto(r, "scanning")
    /\ UNCHANGED <<database, session, verdict, edit, crashes, prompts>>

\* Mutant: the assistant's message gets user_seq.
LoadedBeforeBump(r) == number[r] - 1

\* What the identity map answers: a reload when the row has expired.
Loaded(r) == IF cached[r] = Expired THEN counter[Conv(r)] ELSE cached[r]

\* The assistant's message takes the number after the one in the identity
\* map, and writes it back, without locking the row first.
SaveAssistant(r) ==
    /\ stage[r] = "saving" /\ role[r] = "assistant"
    /\ loop = r
    /\ RowAvailable(r)
    /\ ~Taken(Conv(r), Loaded(r) + 1)
    /\ number' = [number EXCEPT ![r] = Loaded(r) + 1]
    /\ messages' = messages \cup {NewMessage(r, Loaded(r) + 1)}
    /\ counter' = [counter EXCEPT ![Conv(r)] = Loaded(r) + 1]
    /\ Finish(r, "answered")
    /\ loop' = NoOne
    /\ UNCHANGED <<status, rowLock, cached, cachedStatus, pending, role,
                   verdict, edit, crashes, prompts>>

\* The number a send is about to insert.
Wanted(r) == IF role[r] = "user" THEN number[r] ELSE Loaded(r) + 1

\* The INSERT violates uq_messages_convo_seq: the flush rolls back and the
\* request ends in a 500.
SaveDuplicate(r) ==
    /\ stage[r] = "saving"
    /\ loop = r
    /\ RowAvailable(r)
    /\ Taken(Conv(r), Wanted(r))
    /\ number' = [number EXCEPT ![r] = Wanted(r)]
    /\ Rollback(r)
    /\ Raise(r, "duplicate")
    /\ UNCHANGED <<status, messages, cachedStatus, role, verdict, edit,
                   crashes, prompts>>

\* Mutant: the session is dropped without being closed.
CloseWithoutRollback(r) ==
    /\ stage[r] = "closing"
    /\ Goto(r, "done")
    /\ UNCHANGED <<database, session, role, verdict, edit, loop, crashes,
                   prompts>>

\* The session dependency is closed in a worker thread, which the loop has to
\* start ...
StartClose(r) ==
    /\ stage[r] = "unwinding"
    /\ loop = NoOne
    /\ Goto(r, "closing")
    /\ UNCHANGED <<database, session, role, verdict, edit, loop, crashes,
                   prompts>>

\* ... and the rollback there drops a lock the request still holds.
CloseSession(r) ==
    /\ stage[r] = "closing"
    /\ Rollback(r)
    /\ Goto(r, "done")
    /\ UNCHANGED <<status, messages, cachedStatus, number, role, verdict,
                   edit, loop, crashes, prompts>>

-----------------------------------------------------------------------------
(* Edits of the status and restarts.                                       *)

\* require_conversation_update or require_conversation_delete, in a thread.
EditGuard(e) ==
    /\ edit[e].stage = "new"
    /\ edit' = [edit EXCEPT ![e] =
                 [stage |-> "read", conv |-> edit[e].conv,
                  seen |-> status[edit[e].conv], to |-> edit[e].to]]
    /\ UNCHANGED <<database, session, stage, role, verdict, outcome, loop,
                   crashes, prompts>>

\* update_conversation_metadata and soft_delete_conversation: an UPDATE is
\* issued, and waits for the row, only if the status differs from the one in
\* the identity map.
EditCommit(e) ==
    /\ edit[e].stage = "read"
    /\ \/ /\ edit[e].to # edit[e].seen
          /\ rowLock[edit[e].conv] = NoOne
          /\ status' = [status EXCEPT ![edit[e].conv] = edit[e].to]
       \/ /\ edit[e].to = edit[e].seen
          /\ UNCHANGED status
    /\ edit' = [edit EXCEPT ![e].stage = "done"]
    /\ UNCHANGED <<counter, messages, rowLock, session, stage, role, verdict,
                   outcome, loop, crashes, prompts>>

InFlight(r) == stage[r] \notin {"new", "done"}

\* The process is killed: PostgreSQL rolls every open transaction back.
Crash ==
    /\ crashes < MaxCrashes
    /\ crashes' = crashes + 1
    /\ rowLock' = [c \in Conversations |-> NoOne]
    /\ pending' = [r \in Requests |-> FALSE]
    /\ cached' = [r \in Requests |-> Expired]
    /\ stage' = [r \in Requests |-> IF InFlight(r) THEN "done" ELSE stage[r]]
    /\ outcome' = [r \in Requests |-> IF InFlight(r) THEN "lost"
                                                     ELSE outcome[r]]
    /\ edit' = [e \in Edits |-> IF edit[e].stage = "read"
                                THEN [edit[e] EXCEPT !.stage = "done"]
                                ELSE edit[e]]
    /\ loop' = NoOne
    /\ UNCHANGED <<counter, status, messages, cachedStatus, number, role,
                   verdict, prompts>>

\* Everything has been answered.
Quiescent ==
    /\ \A r \in Requests : stage[r] = "done"
    /\ \A e \in Edits : edit[e].stage = "done"
    /\ UNCHANGED vars

Send(r) ==
    \/ Guard(r) \/ Enter(r) \/ LockRow(r)
    \/ AwaitVerify(r) \/ ResumeVerify(r) \/ AwaitRag(r) \/ ResumeRag(r)
    \/ Decide(r) \/ ScanRaises(r)
    \/ SaveUser(r) \/ CallLlm(r) \/ ReplyArrives(r)
    \/ SaveAssistant(r) \/ SaveDuplicate(r)
    \/ StartClose(r) \/ CloseSession(r)

SetStatus(e) == EditGuard(e) \/ EditCommit(e)

Next ==
    \/ \E r \in Requests : Send(r)
    \/ \E e \in Edits : SetStatus(e)
    \/ Crash
    \/ Quiescent

Spec == Init /\ [][Next]_vars

\* asyncio runs its ready tasks in turn, every provider call has a timeout,
\* and a statement that waits for a row runs once the row is free.
Fairness ==
    /\ \A r \in Requests : WF_vars(Send(r))
    /\ \A e \in Edits : WF_vars(SetStatus(e))

FairSpec == Spec /\ Fairness

-----------------------------------------------------------------------------
(* Properties.                                                             *)

\* Every variable has the shape the code gives it; a number is never
\* negative, and only a conversation row that expired has no cached counter.
TypeOK ==
    /\ counter \in [Conversations -> Nat]
    /\ status \in [Conversations -> Statuses]
    /\ messages \subseteq Message
    /\ rowLock \in [Conversations -> Requests \cup {NoOne}]
    /\ stage \in [Requests -> Stages]
    /\ role \in [Requests -> Roles]
    /\ cached \in [Requests -> Nat \cup {Expired}]
    /\ cachedStatus \in [Requests -> Statuses]
    /\ number \in [Requests -> Nat]
    /\ pending \in [Requests -> BOOLEAN]
    /\ verdict \in [Requests -> RuleActions]
    /\ outcome \in [Requests -> Outcomes]
    /\ edit \in [Edits -> Edit]
    /\ loop \in Requests \cup {NoOne}
    /\ crashes \in Nat
    /\ prompts \subseteq [req: Requests, text: {"masked", "content"}]

Of(c) == {m \in messages : m.conv = c}

\* What the chat provider has been sent is the text of a user message that
\* was committed before, that its scan did not block, and that went out
\* masked if the scan masked it - also when the process dies in between.
OnlyVettedTextLeaves ==
    \A p \in prompts : \E m \in messages :
        /\ m.req = p.req /\ m.role = "user"
        /\ m.action # "block"
        /\ m.action = "mask" => p.text = "masked"

\* The numbers of a conversation are exactly 1 to its counter, each used
\* once: overlapping sends, stale identity maps and crashes between the two
\* commits of a send leave neither a hole nor a counter that lags behind.
\* It needs a scan that neither commits nor rolls back (see LosslessScan).
Gapless ==
    \A c \in Conversations :
        /\ {m.seq : m \in Of(c)} = 1..counter[c]
        /\ \A m, n \in Of(c) : m.seq = n.seq => m = n

\* A send to the conversation whose scan failed, or that died with the process:
\* it may leave a number behind that no message has.
NumberSkipped(c) ==
    \E r \in Requests : Conv(r) = c /\ outcome[r] \in {"error", "lost"}

\* An assistant message answers a user message of the same conversation that was
\* not blocked, and stands after it, although the scans of other sends commit and
\* roll back the counter - as long as no number was skipped: with four sends, one
\* of which fails in its scan, an answer can be filed below its question.
AnswerAfterQuestion ==
    \A a \in messages : a.role = "assistant" =>
        \E q \in messages :
            /\ q.req = a.req /\ q.role = "user" /\ q.conv = a.conv
            /\ q.action # "block"
            /\ q.seq < a.seq \/ NumberSkipped(a.conv)

\* sequence_number is the order in which messages were committed: a message
\* is never filed before one that was already there.
FiledLast ==
    \A m \in messages' \ messages : \A n \in Of(m.conv) : n.seq < m.seq

NumbersFollowCommits == [][FiledLast]_vars

\* A send that fails on the unique key was overtaken: another send holds the
\* number it wanted.  It never collides with its own first message.
DuplicateMeansOvertaken ==
    \A r \in Requests : outcome[r] = "duplicate" =>
        \E m \in Of(Conv(r)) : m.seq = number[r] /\ m.req # r

\* The coroutine that has the event loop waits for a row.
Stalled(r) ==
    /\ loop = r
    /\ stage[r] \in {"locking", "saving"}
    /\ ~RowAvailable(r)

\* The event loop is only ever held up by a send to the same conversation
\* that gave the loop up with the row locked: in the awaits of its own scan,
\* or between an exception and the closing of its session.  Neither a
\* finished send, nor one waiting for the chat provider, nor a crash does.
StallsOnlyBehindSuspendedSend ==
    \A r \in Requests : Stalled(r) =>
        LET h == rowLock[Conv(r)] IN
        /\ h \in Requests /\ Conv(h) = Conv(r)
        /\ role[h] = "user"
        /\ stage[h] \in {"verifying", "ragging", "unwinding", "closing"}

\* A conversation its guard saw archived receives no message of that send,
\* on either side of the chat provider.
ArchivedSeenNothingSaved ==
    \A m \in messages : cachedStatus[m.req] = "active"

\* Every send whose guard has passed comes to an end.
EverySendEnds ==
    \A r \in Requests : (stage[r] = "queued") ~> (stage[r] = "done")

\* README.md, "Conversation History": sequence_number avoids races between
\* requests sent at the same time - nor is anything left behind by one: while no
\* send is under way, the number the next one will take is free.
NextNumberIsFree ==
    \A c \in Conversations :
        (\A r \in Requests : Conv(r) = c => ~InFlight(r))
            => ~Taken(c, counter[c] + 1)
=============================================================================
