------------------------------ MODULE ChatOperation ------------------------------
(***************************************************************************)
(* POST /chat and the chat WebSocket: CompanionService.create_response     *)
(* with CanonicalChatRepository.  An operation goes from Pending (the      *)
(* player's message is stored) over Generated (the companion's reply is a  *)
(* draft) to Completed (the reply is delivered), and a retry resumes it    *)
(* where a failure left it.                                                *)
(*                                                                         *)
(* The requests here share profile, slot, companion and conversation.  As  *)
(* in the other modules a handler reads outside transactions, and what it  *)
(* does from its first write to COMMIT is one step.                        *)
(***************************************************************************)
EXTENDS Integers, FiniteSets

CONSTANTS
  Requests,    \* request ids chosen by clients
  Digests,     \* digests of payloads that arrive under them
  Handlers,    \* concurrent requests
  MaxMishaps,  \* bound: failures, and deletions of tasks
  MaxCalls,    \* bound: replies generated for a request
  NoOperation, NoMessage, NoHandler   \* absent rows, a free lock

Speakers == {"player", "companion"}
Drafts == 0..MaxCalls

VARIABLES
  operation,  \* operation[q]: the chat_operations row, or NoOperation
  message,    \* message[q][speaker]: the messages row, or NoMessage
  outbox,     \* outbox[q][speaker]: the state of the message's source_outbox row
  task,       \* task[q]: the offline task whose creation request is q
  lock,       \* lock[q]: the handler in _chat_lock, or NoHandler
  job,        \* job[h]: the step of handler h and what it knows
  calls,      \* history, calls[q]: replies generated for q
  made,       \* history, made[q]: tasks created for q
  answers,    \* history, answers[q]: the payloads answered and their replies
  mishaps

rows == <<operation, message, outbox, task>>
vars == <<operation, message, outbox, task, lock, job, calls, made, answers, mishaps>>

-------------------------------------------------------------------------------
(* Rows *)

\* plan: the reply's metadata plan an offline task.
Operation == [digest : Digests, state : {"Pending", "Generated", "Completed"},
              plan : BOOLEAN]
\* A text is named after the generation it came from; 0 is the player's.
Message == [seq : Nat, text : Drafts, content : BOOLEAN, delivered : BOOLEAN]
\* plan: the reply names a task; create: which is still to be created.
Job == [step : {"lock", "begin", "insert", "think", "save", "complete"},
        q : Requests, digest : Digests, seq : Nat, text : Drafts,
        plan : BOOLEAN, create : BOOLEAN]

ASSUME ConstantsAssumption ==
  /\ IsFiniteSet(Requests) /\ IsFiniteSet(Handlers)
  /\ MaxMishaps \in Nat /\ MaxCalls \in Nat
  /\ NoHandler \notin Handlers /\ NoOperation \notin Digests
  /\ NoOperation \notin Operation /\ NoMessage \notin Message

NewOperation(digest, state, plan) == [digest |-> digest, state |-> state, plan |-> plan]
NewMessage(seq, text, content, delivered) ==
  [seq |-> seq, text |-> text, content |-> content, delivered |-> delivered]
Work(step, q, digest, seq, text, plan, create) ==
  [step |-> step, q |-> q, digest |-> digest, seq |-> seq, text |-> text,
   plan |-> plan, create |-> create]

Stored(q, speaker) == message[q][speaker] # NoMessage
Readable(q, speaker) == Stored(q, speaker) /\ message[q][speaker].content
SeqTaken(n) == \E q \in Requests, speaker \in Speakers :
                 Stored(q, speaker) /\ message[q][speaker].seq = n
Seqs == 1..(2 * Cardinality(Requests) + 1)
\* _next_sequence.
NextSeq == {n \in Seqs : (n > 1 => SeqTaken(n - 1)) /\ \A m \in Seqs : m >= n => ~SeqTaken(m)}
State(q) == IF operation[q] = NoOperation THEN "None" ELSE operation[q].state

Idle == [step |-> "idle"]
Init ==
  /\ operation = [q \in Requests |-> NoOperation]
  /\ message = [q \in Requests |-> [speaker \in Speakers |-> NoMessage]]
  /\ outbox = [q \in Requests |-> [speaker \in Speakers |-> "None"]]
  /\ task = [q \in Requests |-> "None"]
  /\ lock = [q \in Requests |-> NoHandler]
  /\ job = [h \in Handlers |-> Idle]
  /\ calls = [q \in Requests |-> 0]
  /\ made = [q \in Requests |-> 0]
  /\ answers = [q \in Requests |-> {}]
  /\ mishaps = 0

At(h, step) == job[h].step = step
Go(h, step) == job' = [job EXCEPT ![h].step = step] /\ UNCHANGED lock
\* The handler answers or fails; leaving _chat_lock frees it.
End(h) == /\ job' = [job EXCEPT ![h] = Idle]
          /\ lock' = [q \in Requests |-> IF lock[q] = h THEN NoHandler ELSE lock[q]]
NoHistory == UNCHANGED <<calls, made, answers, mishaps>>

-------------------------------------------------------------------------------
(* begin: find the operation of the request, or store the player's message *)

Receive(h, q, d) ==
  /\ At(h, "idle")
  /\ job' = [job EXCEPT ![h] = Work("lock", q, d, 0, 0, FALSE, FALSE)]
  /\ UNCHANGED <<rows, lock>> /\ NoHistory

Acquire(h) ==
  /\ At(h, "lock") /\ lock[job[h].q] = NoHandler
  /\ lock' = [lock EXCEPT ![job[h].q] = h]
  /\ job' = [job EXCEPT ![h].step = "begin"]
  /\ UNCHANGED rows /\ NoHistory

BeginNew(h) ==
  /\ At(h, "begin") /\ State(job[h].q) = "None"
  /\ \E n \in NextSeq :
       job' = [job EXCEPT ![h] = Work("insert", @.q, @.digest, n, 0, FALSE, FALSE)]
  /\ UNCHANGED <<rows, lock>> /\ NoHistory

\* A second operation of the request sends begin back to the first; a message
\* that took the sequence meanwhile fails the request.
Insert(h) ==
  LET j == job[h] IN
  /\ At(h, "insert")
  /\ IF State(j.q) # "None"
     THEN Go(h, "begin") /\ UNCHANGED rows
     ELSE IF SeqTaken(j.seq) THEN End(h) /\ UNCHANGED rows
     ELSE /\ operation' = [operation EXCEPT ![j.q] =
                NewOperation(j.digest, "Pending", FALSE)]
          /\ message' = [message EXCEPT ![j.q]["player"] =
                NewMessage(j.seq, 0, TRUE, TRUE)]
          /\ Go(h, "think") /\ UNCHANGED <<outbox, task>>
  /\ NoHistory

\* Mutant: the digest of a known request is not compared.
SameRequestId(h) == TRUE
SamePayload(h) == operation[job[h].q].digest = job[h].digest

Duplicate(h) ==
  /\ At(h, "begin") /\ State(job[h].q) # "None" /\ ~SamePayload(h)
  /\ End(h) /\ UNCHANGED rows /\ NoHistory

\* A completed operation replays its reply, or has expired with it.
Replay(h) ==
  LET j == job[h] IN
  /\ At(h, "begin") /\ State(j.q) = "Completed" /\ SamePayload(h)
  /\ answers' = IF Readable(j.q, "companion")
                THEN [answers EXCEPT ![j.q] =
                        @ \union {<<j.digest, message[j.q]["companion"].text>>}]
                ELSE answers
  /\ End(h) /\ UNCHANGED <<rows, calls, made, mishaps>>

\* Mutant: a draft is not looked for.
NoDraft(q) == FALSE
HasDraft(q) == State(q) = "Generated" /\ Readable(q, "companion")

\* build_response: a draft is completed, anything else is generated (again).
Resume(h) ==
  LET q == job[h].q IN
  /\ At(h, "begin") /\ State(q) \in {"Pending", "Generated"} /\ SamePayload(h)
  /\ job' = [job EXCEPT ![h] =
       IF HasDraft(q)
       THEN Work("complete", q, @.digest, @.seq, message[q]["companion"].text,
                 operation[q].plan, operation[q].plan)
       ELSE [@ EXCEPT !.step = "think"]]
  /\ UNCHANGED <<rows, lock>> /\ NoHistory

-------------------------------------------------------------------------------
(* Generating, saving and delivering the reply *)

\* The brain answers, for a web client with or without a task that the
\* inventory allows.
Think(h, plan) ==
  LET q == job[h].q IN
  /\ At(h, "think") /\ calls[q] < MaxCalls
  /\ calls' = [calls EXCEPT ![q] = @ + 1]
  /\ job' = [job EXCEPT ![h] = Work("save", q, @.digest, @.seq, calls[q] + 1, plan, plan)]
  /\ UNCHANGED <<rows, lock, made, answers, mishaps>>

\* Mutant: the reply is saved without its task.
CreateNoTask(q, wanted) == UNCHANGED <<task, made>>

\* OfflineTaskService.create, idempotent in the request id as long as its task
\* exists; the caller's transaction commits it.
CreateTask(q, wanted) ==
  LET new == wanted /\ task[q] # "Live" IN
  /\ task' = IF new THEN [task EXCEPT ![q] = "Live"] ELSE task
  /\ made' = IF new THEN [made EXCEPT ![q] = @ + 1] ELSE made

\* Mutant: the draft counts as delivered.
DeliveredDraft(n, text) == NewMessage(n, text, TRUE, TRUE)
Draft(n, text) == NewMessage(n, text, TRUE, FALSE)

\* save_generated, with the task in its transaction.  A reply that is stored
\* stays; the reply's sequence, one after the player's, may have been taken.
Save(h) ==
  LET j == job[h]
      n == message[j.q]["player"].seq + 1 IN
  /\ At(h, "save")
  /\ IF Stored(j.q, "companion")
     THEN Go(h, "complete") /\ UNCHANGED <<rows, made>>
     ELSE IF SeqTaken(n)
     THEN End(h) /\ UNCHANGED <<rows, made>>
     ELSE /\ operation' = [operation EXCEPT ![j.q] = NewOperation(@.digest, "Generated", j.plan)]
          /\ message' = [message EXCEPT ![j.q]["companion"] =
                Draft(n, j.text)]
          /\ CreateTask(j.q, j.create)
          /\ job' = [job EXCEPT ![h] =
                Work("complete", j.q, j.digest, j.seq, j.text, j.plan, FALSE)]
          /\ UNCHANGED <<lock, outbox>>
  /\ UNCHANGED <<calls, answers, mishaps>>

\* The two outbox rows; a tombstone in place of one violates uq_source_outbox.
QueueFree(q) == \A speaker \in Speakers : outbox[q][speaker] = "None"

\* complete, with the task of a resumed draft.
Complete(h) ==
  LET j == job[h] IN
  /\ At(h, "complete")
  /\ IF ~QueueFree(j.q)
     THEN UNCHANGED <<rows, made, answers>>
     ELSE /\ operation' = [operation EXCEPT ![j.q] = NewOperation(@.digest, "Completed", j.plan)]
          /\ message' = [message EXCEPT ![j.q]["companion"].delivered = TRUE]
          /\ outbox' = [outbox EXCEPT ![j.q] = [speaker \in Speakers |-> "Pending"]]
          /\ CreateTask(j.q, j.create)
          /\ answers' = [answers EXCEPT ![j.q] = @ \union {<<j.digest, j.text>>}]
  /\ End(h)
  /\ UNCHANGED <<calls, mishaps>>

\* A timeout, a model failure, a disconnect or a crash: the open transaction
\* rolls back and the lock is free.
Fail(h) ==
  /\ ~At(h, "idle") /\ mishaps < MaxMishaps
  /\ mishaps' = mishaps + 1
  /\ End(h) /\ UNCHANGED <<rows, calls, made, answers>>

-------------------------------------------------------------------------------
(* The rest of the server *)

\* The retention sweep erases a message that is due and leaves a tombstone.
Purge(q, speaker) ==
  /\ Readable(q, speaker)
  /\ message' = [message EXCEPT ![q][speaker] = NewMessage(@.seq, @.text, FALSE, FALSE)]
  /\ outbox' = [outbox EXCEPT ![q][speaker] = "Tombstone"]
  /\ UNCHANGED <<operation, task, lock, job>> /\ NoHistory

\* DELETE /tasks/{id}.
DeleteTask(q) ==
  /\ task[q] = "Live" /\ mishaps < MaxMishaps
  /\ task' = [task EXCEPT ![q] = "Deleted"]
  /\ mishaps' = mishaps + 1
  /\ UNCHANGED <<operation, message, outbox, lock, job, calls, made, answers>>

Step(h) ==
  \/ Acquire(h) \/ BeginNew(h) \/ Insert(h) \/ Duplicate(h) \/ Replay(h) \/ Resume(h)
  \/ \E plan \in BOOLEAN : Think(h, plan)
  \/ Save(h) \/ Complete(h)

Next ==
  \/ \E h \in Handlers, q \in Requests, d \in Digests : Receive(h, q, d)
  \/ \E h \in Handlers : Step(h) \/ Fail(h)
  \/ \E q \in Requests, speaker \in Speakers : Purge(q, speaker)
  \/ \E q \in Requests : DeleteTask(q)

Spec == Init /\ [][Next]_vars

-------------------------------------------------------------------------------
(* Properties *)

TypeOK ==
  /\ operation \in [Requests -> Operation \union {NoOperation}]
  /\ message \in [Requests -> [Speakers -> Message \union {NoMessage}]]
  /\ outbox \in [Requests -> [Speakers -> {"None", "Pending", "Tombstone"}]]
  /\ task \in [Requests -> {"None", "Live", "Deleted"}]
  /\ lock \in [Requests -> Handlers \union {NoHandler}]
  /\ job \in [Handlers -> Job \union {Idle}]
  /\ calls \in [Requests -> Drafts] /\ made \in [Requests -> Nat]
  /\ answers \in [Requests -> SUBSET (Digests \X Drafts)]
  /\ mishaps \in 0..MaxMishaps

Payload == [q \in Requests |->
              IF operation[q] = NoOperation THEN NoOperation ELSE operation[q].digest]
Promise == INSTANCE OneReply
  WITH Payloads <- Digests, Replies <- Drafts, NoPayload <- NoOperation, payload <- Payload

\* Whatever is retried, in parallel or after a failure, all answers to a request
\* id are one reply to one payload, the first that arrived under it.
ImplementsOneReply == Promise!Spec

\* A message is queued for the memory worker, and a reply is part of later
\* prompts, exactly when the reply was delivered: a draft that no client saw
\* becomes neither memory nor history.
NothingBeforeDelivery ==
  \A q \in Requests :
    IF State(q) = "Completed"
    THEN /\ \A speaker \in Speakers : outbox[q][speaker] # "None"
         /\ Readable(q, "companion") => message[q]["companion"].delivered
    ELSE /\ \A speaker \in Speakers : outbox[q][speaker] # "Pending"
         /\ Stored(q, "companion") => ~message[q]["companion"].delivered

\* The offline task that a stored reply promises was created with it, and no
\* task exists without a stored reply: one transaction writes both.
TaskComesWithReply ==
  \A q \in Requests :
    /\ State(q) # "None" /\ operation[q].plan => made[q] > 0
    /\ made[q] > 0 => Stored(q, "companion")

\* docs/api-endpoints.md: once a draft is stored, a retry does not call the
\* model again.
DraftIsReused ==
  [][\A q \in Requests :
       State(q) = "Generated" /\ Readable(q, "companion") => calls'[q] = calls[q]]_vars

\* docs/api-endpoints.md: after a failure of the model the request can be
\* retried.  Its reply needs the sequence after the player's message.
PendingCanBeRetried ==
  \A q \in Requests :
    State(q) = "Pending" => ~SeqTaken(message[q]["player"].seq + 1)
===============================================================================
