--------------------------- MODULE ChatOperation_proofs ---------------------------
(***************************************************************************)
(* Proofs about ChatOperation: whatever is retried, purged or fails, a     *)
(* request id gets one reply (ChatOperation implements OneReply), drafts   *)
(* are neither queued nor delivered, and a task comes with its reply --    *)
(* for any number of requests, payloads, handlers and failures.            *)
(*                                                                         *)
(* A handler past _chat_lock is the only one of its request, so what it    *)
(* knows of the rows stays true until it ends (HandlerOK), and each row is *)
(* always that of a well-formed request (RequestOK).                       *)
(***************************************************************************)
EXTENDS ChatOperation, TLAPS

-------------------------------------------------------------------------------
(* The invariant *)

Working(h) == job[h] # Idle /\ job[h].step # "lock"

\* The rows of a request.
RowsOK(q) ==
  /\ State(q) # "None" <=> Stored(q, "player")
  /\ State(q) \in {"Generated", "Completed"} <=> Stored(q, "companion")
  /\ \A speaker \in Speakers :
       Stored(q, speaker) /\ ~Readable(q, speaker) => outbox[q][speaker] = "Tombstone"

DeliveryOK(q) ==
  IF State(q) = "Completed"
  THEN /\ \A speaker \in Speakers : outbox[q][speaker] # "None"
       /\ Readable(q, "companion") => message[q]["companion"].delivered
  ELSE /\ \A speaker \in Speakers : outbox[q][speaker] # "Pending"
       /\ Stored(q, "companion") => ~message[q]["companion"].delivered

TasksOK(q) ==
  /\ State(q) # "None" /\ operation[q].plan => made[q] > 0
  /\ made[q] > 0 => Stored(q, "companion")
  /\ task[q] = "Live" => made[q] > 0

\* All answers are the stored reply to the stored payload.
AnswersOK(q) ==
  \A a \in answers[q] : /\ State(q) = "Completed"
                        /\ a = <<operation[q].digest, message[q]["companion"].text>>

RequestOK(q) == RowsOK(q) /\ DeliveryOK(q) /\ TasksOK(q) /\ AnswersOK(q)

\* What a handler that holds the lock knows of its request.
Accepted(h) ==
  /\ State(job[h].q) \in {"Pending", "Generated"}
  /\ operation[job[h].q].digest = job[h].digest

HandlerOK(h) ==
  Working(h) =>
    /\ lock[job[h].q] = h
    /\ job[h].step \in {"think", "save", "complete"} => Accepted(h)
    /\ job[h].step \in {"think", "save"} => ~Readable(job[h].q, "companion")
    /\ job[h].step = "save" => job[h].create = job[h].plan
    /\ job[h].step = "complete" =>
         /\ Stored(job[h].q, "companion")
         /\ Readable(job[h].q, "companion") => job[h].text = message[job[h].q]["companion"].text
         /\ job[h].plan => job[h].create \/ made[job[h].q] > 0

ChatInv ==
  /\ TypeOK
  /\ \A q \in Requests : RequestOK(q)
  /\ \A h \in Handlers : HandlerOK(h)

-------------------------------------------------------------------------------
(* Rows and jobs *)

\* A new operation is a row.
LEMMA OperationRow ==
  ASSUME NEW d \in Digests, NEW st \in {"Pending", "Generated", "Completed"}, NEW p \in BOOLEAN
  PROVE  LET o == NewOperation(d, st, p) IN
         o \in Operation /\ o # NoOperation /\ o.digest = d /\ o.state = st /\ o.plan = p
<1>1. NewOperation(d, st, p) \in Operation
  BY DEF NewOperation, Operation
<1> QED
  BY <1>1, ConstantsAssumption DEF NewOperation

\* A new message is a row.
LEMMA MessageRow ==
  ASSUME NEW n \in Nat, NEW t \in Drafts, NEW c \in BOOLEAN, NEW d \in BOOLEAN
  PROVE  LET m == NewMessage(n, t, c, d) IN
         m \in Message /\ m # NoMessage /\ m.seq = n /\ m.text = t /\ m.content = c /\ m.delivered = d
<1>1. NewMessage(n, t, c, d) \in Message
  BY DEF NewMessage, Message
<1> QED
  BY <1>1, ConstantsAssumption DEF NewMessage

\* A delivered message is the same message.
LEMMA DeliveredRow ==
  ASSUME NEW m \in Message
  PROVE  LET n == [m EXCEPT !.delivered = TRUE] IN
         n \in Message /\ n # NoMessage /\ n.text = m.text /\ n.content = m.content /\ n.delivered
<1>1. [m EXCEPT !.delivered = TRUE] \in Message
  BY DEF Message
<1> QED
  BY <1>1, ConstantsAssumption DEF Message

\* A job is a job, and not the idle one.
LEMMA JobRow ==
  ASSUME NEW s \in {"lock", "begin", "insert", "think", "save", "complete"}, NEW q \in Requests,
         NEW d \in Digests, NEW n \in Nat, NEW t \in Drafts, NEW p \in BOOLEAN, NEW c \in BOOLEAN
  PROVE  LET j == Work(s, q, d, n, t, p, c) IN
         /\ j \in Job /\ j # Idle
         /\ j.step = s /\ j.q = q /\ j.digest = d /\ j.text = t /\ j.plan = p /\ j.create = c
<1>1. Work(s, q, d, n, t, p, c) \in Job
  BY DEF Work, Job
<1>2. \A j \in Job : j # Idle
  BY DEF Job, Idle
<1> QED
  BY <1>1, <1>2 DEF Work

\* A job at another step is the same job.
LEMMA JobStep ==
  ASSUME NEW j \in Job, NEW s \in {"lock", "begin", "insert", "think", "save", "complete"}
  PROVE  LET i == [j EXCEPT !.step = s] IN
         /\ i \in Job /\ i # Idle
         /\ i.step = s /\ i.q = j.q /\ i.digest = j.digest /\ i.text = j.text
         /\ i.plan = j.plan /\ i.create = j.create
<1>1. [j EXCEPT !.step = s] \in Job
  BY DEF Job
<1>2. \A i \in Job : i # Idle
  BY DEF Job, Idle
<1> QED
  BY <1>1, <1>2 DEF Job

-------------------------------------------------------------------------------
(* What a step leaves alone *)

\* A request whose rows do not change is as well-formed as before.
LEMMA RequestStays ==
  ASSUME NEW q \in Requests, RequestOK(q),
         operation'[q] = operation[q], message'[q] = message[q], outbox'[q] = outbox[q],
         task'[q] = task[q], made'[q] = made[q], answers'[q] = answers[q]
  PROVE  RequestOK(q)'
BY DEF RequestOK, RowsOK, DeliveryOK, TasksOK, AnswersOK, State, Stored, Readable

\* A handler whose job, lock and rows do not change knows what it knew.
LEMMA HandlerStays ==
  ASSUME NEW g \in Handlers, HandlerOK(g), job'[g] = job[g],
         Working(g) => /\ lock'[job[g].q] = lock[job[g].q]
                       /\ operation'[job[g].q] = operation[job[g].q]
                       /\ message'[job[g].q] = message[job[g].q]
                       /\ made'[job[g].q] = made[job[g].q]
  PROVE  HandlerOK(g)'
<1>1. CASE Working(g)
  BY <1>1 DEF HandlerOK, Working, Accepted, State, Stored, Readable
<1>2. CASE ~Working(g)
  BY <1>2 DEF HandlerOK, Working
<1> QED
  BY <1>1, <1>2

\* The steps of h change no lock of another handler.
LockKept(h) == \A q \in Requests : lock'[q] = lock[q] \/ lock[q] \in {h, NoHandler}
OthersKept(h) == LockKept(h) /\ \A g \in Handlers \ {h} : job'[g] = job[g]

\* The request that a working handler serves is a request.
LEMMA WorkingJob ==
  ASSUME TypeOK, NEW g \in Handlers, job[g] # Idle
  PROVE  job[g] \in Job /\ job[g].q \in Requests /\ job[g].digest \in Digests
<1>1. job[g] \in Job
  BY DEF TypeOK
<1> QED
  BY <1>1 DEF Job

\* A step of h that changes no row but those of its request p.
LEMMA OneRequest ==
  ASSUME ChatInv, NEW h \in Handlers, NEW p \in Requests, lock[p] = h, OthersKept(h),
         \A q \in Requests \ {p} :
            /\ operation'[q] = operation[q] /\ message'[q] = message[q]
            /\ outbox'[q] = outbox[q] /\ task'[q] = task[q]
            /\ made'[q] = made[q] /\ answers'[q] = answers[q],
         TypeOK', RequestOK(p)', HandlerOK(h)'
  PROVE  ChatInv'
<1>1. ASSUME NEW q \in Requests PROVE RequestOK(q)'
  <2>1. CASE q = p
    BY <2>1
  <2>2. CASE q # p
    BY <2>2, RequestStays DEF ChatInv
  <2> QED
    BY <2>1, <2>2
<1>2. ASSUME NEW g \in Handlers PROVE HandlerOK(g)'
  <2>1. CASE g = h
    BY <2>1
  <2>2. CASE g # h
    <3>1. HandlerOK(g) /\ job'[g] = job[g]
      BY <2>2 DEF ChatInv, OthersKept
    <3>2. Working(g) => job[g].q \in Requests \ {p} /\ lock'[job[g].q] = lock[job[g].q]
      <4>1. SUFFICES ASSUME Working(g) PROVE job[g].q \in Requests \ {p} /\ lock'[job[g].q] = lock[job[g].q]
        OBVIOUS
      <4>2. job[g].q \in Requests /\ lock[job[g].q] = g
        BY <3>1, <4>1, WorkingJob DEF ChatInv, HandlerOK, Working
      <4> QED
        BY <2>2, <4>2, ConstantsAssumption DEF OthersKept, LockKept
    <3> QED
      BY <3>1, <3>2, HandlerStays
  <2> QED
    BY <2>1, <2>2
<1> QED
  BY <1>1, <1>2 DEF ChatInv

\* A step of h that changes no row.
LEMMA NoRequest ==
  ASSUME ChatInv, NEW h \in Handlers, OthersKept(h),
         UNCHANGED <<operation, message, outbox, task, made, answers>>,
         TypeOK', HandlerOK(h)'
  PROVE  ChatInv'
<1>1. ASSUME NEW q \in Requests PROVE RequestOK(q)'
  BY RequestStays DEF ChatInv
<1>2. ASSUME NEW g \in Handlers PROVE HandlerOK(g)'
  <2>1. CASE g = h
    BY <2>1
  <2>2. CASE g # h
    <3>1. HandlerOK(g) /\ job'[g] = job[g]
      BY <2>2 DEF ChatInv, OthersKept
    <3>2. Working(g) => lock'[job[g].q] = lock[job[g].q]
      <4>1. SUFFICES ASSUME Working(g) PROVE lock'[job[g].q] = lock[job[g].q]
        OBVIOUS
      <4>2. job[g].q \in Requests /\ lock[job[g].q] = g
        BY <3>1, <4>1, WorkingJob DEF ChatInv, HandlerOK, Working
      <4> QED
        BY <2>2, <4>2, ConstantsAssumption DEF OthersKept, LockKept
    <3> QED
      BY <3>1, <3>2, HandlerStays
  <2> QED
    BY <2>1, <2>2
<1> QED
  BY <1>1, <1>2 DEF ChatInv

\* A handler that ends keeps nothing, and its lock is free.
LEMMA Ending ==
  ASSUME TypeOK, NEW h \in Handlers, End(h)
  PROVE  /\ OthersKept(h) /\ HandlerOK(h)'
         /\ lock' \in [Requests -> Handlers \union {NoHandler}]
         /\ job' \in [Handlers -> Job \union {Idle}]
<1>1. job' = [job EXCEPT ![h] = Idle] /\ job'[h] = Idle
  BY DEF End, TypeOK
<1>2. HandlerOK(h)'
  BY <1>1 DEF HandlerOK, Working
<1>3. OthersKept(h)
  BY <1>1 DEF OthersKept, LockKept, End, TypeOK
<1> QED
  BY <1>1, <1>2, <1>3 DEF End, TypeOK

\* A handler that ends without changing a row.
LEMMA EndingAlone ==
  ASSUME ChatInv, NEW h \in Handlers, End(h), UNCHANGED <<rows, made, answers>>,
         calls' \in [Requests -> Drafts], mishaps' \in 0..MaxMishaps
  PROVE  ChatInv'
<1>1. UNCHANGED <<operation, message, outbox, task, made, answers>>
  BY DEF rows
<1>2. TypeOK'
  BY <1>1, Ending DEF ChatInv, TypeOK
<1> QED
  BY <1>1, <1>2, Ending, NoRequest DEF ChatInv

-------------------------------------------------------------------------------
(* Steps that change no row *)

\* There is nothing at first.
LEMMA InitChat == Init => ChatInv
<1> SUFFICES ASSUME Init PROVE ChatInv
  OBVIOUS
<1>1. TypeOK
  <2>1. 0 \in Drafts /\ 0 \in 0..MaxMishaps
    BY ConstantsAssumption DEF Drafts
  <2> QED
    BY <2>1 DEF Init, TypeOK
<1>2. ASSUME NEW q \in Requests PROVE RequestOK(q)
  BY DEF Init, RequestOK, RowsOK, DeliveryOK, TasksOK, AnswersOK, State, Stored, Readable, Speakers
<1>3. ASSUME NEW h \in Handlers PROVE HandlerOK(h)
  BY DEF Init, HandlerOK, Working
<1> QED
  BY <1>1, <1>2, <1>3 DEF ChatInv

\* A request arrives.
LEMMA ReceiveKeeps ==
  ASSUME ChatInv, NEW h \in Handlers, NEW q \in Requests, NEW d \in Digests, Receive(h, q, d)
  PROVE  ChatInv'
<1> DEFINE j == Work("lock", q, d, 0, 0, FALSE, FALSE)
<1>1. j \in Job /\ j.step = "lock"
  <2>1. 0 \in Drafts
    BY ConstantsAssumption DEF Drafts
  <2>2. j \in Job
    BY <2>1 DEF Work, Job
  <2> QED
    BY <2>2 DEF Work
<1>2. job' = [job EXCEPT ![h] = j] /\ UNCHANGED <<rows, lock, calls, made, answers, mishaps>>
  BY DEF Receive, NoHistory
<1> HIDE DEF j
<1>3. job' \in [Handlers -> Job \union {Idle}] /\ job'[h] = j
  BY <1>1, <1>2 DEF ChatInv, TypeOK
<1>4. TypeOK'
  BY <1>2, <1>3 DEF ChatInv, TypeOK, rows
<1>5. HandlerOK(h)'
  BY <1>1, <1>3 DEF HandlerOK, Working
<1>6. OthersKept(h)
  BY <1>2 DEF OthersKept, LockKept, ChatInv, TypeOK
<1> QED
  BY <1>2, <1>4, <1>5, <1>6, NoRequest DEF rows

\* It waits for the lock, and so it is alone.
LEMMA AcquireKeeps ==
  ASSUME ChatInv, NEW h \in Handlers, Acquire(h)
  PROVE  ChatInv'
<1> DEFINE q == job[h].q
<1> DEFINE j == [job[h] EXCEPT !.step = "begin"]
<1>1. job[h] \in Job /\ q \in Requests
  <2>1. job[h] # Idle
    BY DEF Acquire, At, Idle
  <2> QED
    BY <2>1, WorkingJob DEF ChatInv
<1>2. j \in Job /\ j.step = "begin" /\ j.q = q
  BY <1>1, JobStep
<1>3. /\ job' = [job EXCEPT ![h] = j] /\ lock' = [lock EXCEPT ![q] = h] /\ lock[q] = NoHandler
      /\ UNCHANGED <<rows, calls, made, answers, mishaps>>
  BY DEF Acquire, NoHistory
<1> HIDE DEF j, q
<1>4. job' \in [Handlers -> Job \union {Idle}] /\ job'[h] = j
  BY <1>2, <1>3 DEF ChatInv, TypeOK
<1>5. lock' \in [Requests -> Handlers \union {NoHandler}] /\ lock'[q] = h
  BY <1>1, <1>3 DEF ChatInv, TypeOK
<1>6. TypeOK'
  BY <1>3, <1>4, <1>5 DEF ChatInv, TypeOK, rows
<1>7. HandlerOK(h)'
  BY <1>2, <1>4, <1>5 DEF HandlerOK
<1>8. OthersKept(h)
  BY <1>3 DEF OthersKept, LockKept, ChatInv, TypeOK
<1> QED
  BY <1>3, <1>6, <1>7, <1>8, NoRequest DEF rows

\* A handler past the lock goes on, and no row changes.
LEMMA GoesOn ==
  ASSUME ChatInv, NEW h \in Handlers, Working(h), NEW j \in Job, j # Idle, j.q = job[h].q,
         job' = [job EXCEPT ![h] = j], UNCHANGED <<rows, lock, made, answers, mishaps>>,
         calls' \in [Requests -> Drafts],
         j.step \in {"think", "save", "complete"} =>
           /\ State(j.q) \in {"Pending", "Generated"} /\ operation[j.q].digest = j.digest,
         j.step \in {"think", "save"} => ~Readable(j.q, "companion"),
         j.step = "save" => j.create = j.plan,
         j.step = "complete" =>
           /\ Stored(j.q, "companion")
           /\ Readable(j.q, "companion") => j.text = message[j.q]["companion"].text
           /\ j.plan => j.create \/ made[j.q] > 0
  PROVE  ChatInv'
<1>1. job' \in [Handlers -> Job \union {Idle}] /\ job'[h] = j
  BY DEF ChatInv, TypeOK
<1>2. UNCHANGED <<operation, message, outbox, task>>
  BY DEF rows
<1>3. TypeOK'
  BY <1>1, <1>2 DEF ChatInv, TypeOK
<1>4. lock[j.q] = h
  BY DEF ChatInv, HandlerOK
<1>5. HandlerOK(h)'
  BY <1>1, <1>2, <1>4 DEF HandlerOK, Accepted, State, Stored, Readable
<1>6. OthersKept(h)
  BY DEF OthersKept, LockKept, ChatInv, TypeOK
<1> QED
  BY <1>2, <1>3, <1>5, <1>6, NoRequest

\* The sequence is read.
LEMMA BeginNewKeeps ==
  ASSUME ChatInv, NEW h \in Handlers, BeginNew(h)
  PROVE  ChatInv'
<1>1. PICK n \in NextSeq :
        job' = [job EXCEPT ![h] = Work("insert", job[h].q, job[h].digest, n, 0, FALSE, FALSE)]
  BY DEF BeginNew
<1> DEFINE j == Work("insert", job[h].q, job[h].digest, n, 0, FALSE, FALSE)
<1>2. job[h] # Idle /\ Working(h)
  BY DEF BeginNew, At, Idle, Working
<1>3. job[h].q \in Requests /\ job[h].digest \in Digests
  BY <1>2, WorkingJob DEF ChatInv
<1>4. n \in Nat
  BY DEF NextSeq, Seqs
<1>5. j \in Job /\ j # Idle /\ j.step = "insert" /\ j.q = job[h].q
  <2>1. 0 \in Drafts
    BY ConstantsAssumption DEF Drafts
  <2>2. j \in Job
    BY <1>3, <1>4, <2>1 DEF Work, Job
  <2>3. \A i \in Job : i # Idle
    BY DEF Job, Idle
  <2> QED
    BY <2>2, <2>3 DEF Work
<1>6. job' = [job EXCEPT ![h] = j]
  BY <1>1
<1>7. UNCHANGED <<rows, lock, made, answers, mishaps>> /\ calls' \in [Requests -> Drafts]
  BY DEF BeginNew, NoHistory, ChatInv, TypeOK
<1> HIDE DEF j
<1> QED
  BY <1>2, <1>5, <1>6, <1>7, GoesOn

\* A draft is completed, or the reply is generated again.
LEMMA ResumeKeeps ==
  ASSUME ChatInv, NEW h \in Handlers, Resume(h)
  PROVE  ChatInv'
<1> DEFINE q == job[h].q
<1>1. job[h] # Idle /\ Working(h)
  BY DEF Resume, At, Idle, Working
<1>2. job[h] \in Job /\ q \in Requests /\ job[h].digest \in Digests /\ job[h].seq \in Nat
  <2>1. job[h] \in Job
    BY <1>1, WorkingJob DEF ChatInv
  <2> QED
    BY <2>1 DEF Job
<1>3. State(q) \in {"Pending", "Generated"} /\ operation[q].digest = job[h].digest /\ RowsOK(q)
  BY <1>2 DEF Resume, SamePayload, ChatInv, RequestOK
<1>4. UNCHANGED <<rows, lock, made, answers, mishaps>> /\ calls' \in [Requests -> Drafts]
  BY DEF Resume, NoHistory, ChatInv, TypeOK
<1>5. CASE HasDraft(q)
  <2> DEFINE t == message[q]["companion"].text
  <2> DEFINE p == operation[q].plan
  <2> DEFINE j == Work("complete", q, job[h].digest, job[h].seq, t, p, p)
  <2>1. t \in Drafts
    <3>1. message[q]["companion"] \in Message
      BY <1>2, <1>5 DEF HasDraft, Readable, Stored, ChatInv, TypeOK, Speakers
    <3> QED
      BY <3>1 DEF Message
  <2>2. p \in BOOLEAN
    <3>1. operation[q] \in Operation
      BY <1>2, <1>3 DEF State, ChatInv, TypeOK
    <3> QED
      BY <3>1 DEF Operation
  <2>3. job' = [job EXCEPT ![h] = j]
    BY <1>5 DEF Resume
  <2> HIDE DEF t, p, q
  <2>4. /\ j \in Job /\ j # Idle /\ j.step = "complete" /\ j.q = q /\ j.digest = job[h].digest
        /\ j.text = t /\ j.plan = p /\ j.create = p
    BY <1>2, <2>1, <2>2, JobRow
  <2>5. Stored(q, "companion")
    BY <1>5 DEF HasDraft, Readable
  <2> HIDE DEF j
  <2>6. j.text = message[j.q]["companion"].text
    BY <2>4 DEF t
  <2> QED
    BY <1>1, <1>3, <1>4, <2>3, <2>4, <2>5, <2>6, GoesOn DEF q
<1>6. CASE ~HasDraft(q)
  <2> DEFINE j == [job[h] EXCEPT !.step = "think"]
  <2>1. j \in Job /\ j # Idle /\ j.step = "think" /\ j.q = q /\ j.digest = job[h].digest
    BY <1>2, JobStep
  <2>2. ~Readable(q, "companion")
    BY <1>3, <1>6 DEF HasDraft, RowsOK, Readable
  <2>3. job' = [job EXCEPT ![h] = j]
    BY <1>6 DEF Resume
  <2> HIDE DEF j
  <2> QED
    BY <1>1, <1>3, <1>4, <2>1, <2>2, <2>3, GoesOn
<1> QED
  BY <1>5, <1>6

\* The brain answers.
LEMMA ThinkKeeps ==
  ASSUME ChatInv, NEW h \in Handlers, NEW plan \in BOOLEAN, Think(h, plan)
  PROVE  ChatInv'
<1> DEFINE q == job[h].q
<1> DEFINE j == Work("save", q, job[h].digest, job[h].seq, calls[q] + 1, plan, plan)
<1>1. job[h] # Idle /\ Working(h) /\ job[h].step = "think"
  BY DEF Think, At, Idle, Working
<1>2. job[h] \in Job /\ q \in Requests /\ job[h].digest \in Digests /\ job[h].seq \in Nat
  <2>1. job[h] \in Job
    BY <1>1, WorkingJob DEF ChatInv
  <2> QED
    BY <2>1 DEF Job
<1>3. calls[q] + 1 \in Drafts
  <2>1. calls[q] \in Drafts /\ calls[q] < MaxCalls
    BY <1>2 DEF Think, ChatInv, TypeOK
  <2> QED
    BY <2>1, ConstantsAssumption DEF Drafts
<1>4. job' = [job EXCEPT ![h] = j] /\ calls' = [calls EXCEPT ![q] = calls[q] + 1]
  BY DEF Think
<1>5. calls' \in [Requests -> Drafts]
  BY <1>2, <1>3, <1>4 DEF ChatInv, TypeOK
<1>6. UNCHANGED <<rows, lock, made, answers, mishaps>>
  BY DEF Think
<1>7. /\ j \in Job /\ j # Idle /\ j.step = "save" /\ j.q = q /\ j.digest = job[h].digest
      /\ j.plan = plan /\ j.create = plan
  BY <1>2, <1>3, JobRow
<1>8. Accepted(h) /\ ~Readable(q, "companion")
  BY <1>1 DEF ChatInv, HandlerOK
<1> HIDE DEF j
<1> QED
  BY <1>1, <1>4, <1>5, <1>6, <1>7, <1>8, GoesOn DEF Accepted

\* Answers that change nothing, and failures.
LEMMA EndKeeps ==
  ASSUME ChatInv, NEW h \in Handlers, Duplicate(h) \/ Fail(h)
  PROVE  ChatInv'
<1>1. End(h) /\ UNCHANGED <<rows, calls, made, answers>>
  BY DEF Duplicate, Fail, NoHistory
<1>2. mishaps' \in 0..MaxMishaps
  BY ConstantsAssumption DEF Duplicate, Fail, NoHistory, ChatInv, TypeOK
<1> QED
  BY <1>1, <1>2, EndingAlone DEF ChatInv, TypeOK

\* A replay answers what is stored.
LEMMA ReplayKeeps ==
  ASSUME ChatInv, NEW h \in Handlers, Replay(h)
  PROVE  ChatInv'
<1>1. job[h] # Idle /\ Working(h)
  BY DEF Replay, At, Idle, Working
<1>2. PICK q \in Requests : q = job[h].q /\ job[h] \in Job /\ job[h].digest \in Digests
  BY <1>1, WorkingJob DEF ChatInv
<1>3. End(h) /\ UNCHANGED <<rows, calls, made, mishaps>>
  BY DEF Replay
<1>4. CASE ~Readable(q, "companion")
  BY <1>2, <1>3, <1>4, EndingAlone DEF Replay, ChatInv, TypeOK
<1>5. CASE Readable(q, "companion")
  <2> DEFINE a == <<job[h].digest, message[q]["companion"].text>>
  <2>1. answers' = [answers EXCEPT ![q] = answers[q] \union {a}]
    BY <1>2, <1>5 DEF Replay
  <2>2. State(q) = "Completed" /\ operation[q].digest = job[h].digest
    BY <1>2 DEF Replay, SamePayload
  <2>3. a \in Digests \X Drafts
    <3>1. message[q]["companion"] \in Message
      BY <1>2, <1>5 DEF Readable, Stored, ChatInv, TypeOK, Speakers
    <3> QED
      BY <1>2, <3>1 DEF Message
  <2>4. answers' \in [Requests -> SUBSET (Digests \X Drafts)] /\ answers'[q] = answers[q] \union {a}
    <3> HIDE DEF a
    <3> QED
      BY <1>2, <2>1, <2>3 DEF ChatInv, TypeOK
  <2>5. UNCHANGED <<operation, message, outbox, task>>
    BY <1>3 DEF rows
  <2>6. TypeOK' /\ OthersKept(h) /\ HandlerOK(h)'
    BY <1>3, <2>4, <2>5, Ending DEF ChatInv, TypeOK
  <2>7. RequestOK(q)
    BY <1>2 DEF ChatInv
  <2>8. \A b \in answers'[q] : State(q) = "Completed" /\ b = <<operation[q].digest, message[q]["companion"].text>>
    BY <2>2, <2>4, <2>7 DEF RequestOK, AnswersOK
  <2>9. RequestOK(q)'
    BY <1>3, <2>5, <2>7, <2>8 DEF RequestOK, RowsOK, DeliveryOK, TasksOK, AnswersOK, State, Stored, Readable
  <2>10. lock[q] = h
    BY <1>1, <1>2 DEF ChatInv, HandlerOK
  <2>11. \A p \in Requests \ {q} : answers'[p] = answers[p]
    BY <2>1 DEF ChatInv, TypeOK
  <2> QED
    BY <1>2, <1>3, <2>5, <2>6, <2>9, <2>10, <2>11, OneRequest
<1> QED
  BY <1>4, <1>5

-------------------------------------------------------------------------------
(* Steps that write rows *)

\* Writing one message.
LEMMA OneMessage ==
  ASSUME TypeOK, NEW q \in Requests, NEW speaker \in Speakers, NEW m \in Message,
         message' = [message EXCEPT ![q][speaker] = m]
  PROVE  /\ message' \in [Requests -> [Speakers -> Message \union {NoMessage}]]
         /\ message'[q][speaker] = m
         /\ \A s \in Speakers \ {speaker} : message'[q][s] = message[q][s]
         /\ \A p \in Requests \ {q} : message'[p] = message[p]
<1>1. message[q] \in [Speakers -> Message \union {NoMessage}]
  BY DEF TypeOK
<1>2. message' = [message EXCEPT ![q] = [message[q] EXCEPT ![speaker] = m]]
  OBVIOUS
<1>3. [message[q] EXCEPT ![speaker] = m] \in [Speakers -> Message \union {NoMessage}]
  BY <1>1
<1>4. message'[q] = [message[q] EXCEPT ![speaker] = m]
  BY <1>2 DEF TypeOK
<1> QED
  BY <1>1, <1>2, <1>3, <1>4 DEF TypeOK

\* Writing one operation.
LEMMA OneOperation ==
  ASSUME TypeOK, NEW q \in Requests, NEW o \in Operation, operation' = [operation EXCEPT ![q] = o]
  PROVE  /\ operation' \in [Requests -> Operation \union {NoOperation}]
         /\ operation'[q] = o /\ State(q)' = o.state
         /\ \A p \in Requests \ {q} : operation'[p] = operation[p]
<1>1. o # NoOperation
  BY ConstantsAssumption
<1> QED
  BY <1>1 DEF TypeOK, State

\* A handler that goes on has its job.
LEMMA NextJob ==
  ASSUME TypeOK, NEW h \in Handlers, NEW j \in Job, job' = [job EXCEPT ![h] = j], UNCHANGED lock
  PROVE  /\ job' \in [Handlers -> Job \union {Idle}] /\ job'[h] = j /\ OthersKept(h)
BY DEF TypeOK, OthersKept, LockKept

\* The player's message and the operation, in one transaction.
LEMMA InsertKeeps ==
  ASSUME ChatInv, NEW h \in Handlers, Insert(h)
  PROVE  ChatInv'
<1>1. job[h] # Idle /\ Working(h)
  BY DEF Insert, At, Idle, Working
<1>2. PICK q \in Requests :
        q = job[h].q /\ job[h] \in Job /\ job[h].digest \in Digests /\ job[h].seq \in Nat
  <2>1. job[h] \in Job
    BY <1>1, WorkingJob DEF ChatInv
  <2> QED
    BY <2>1 DEF Job
<1>3. lock[q] = h /\ UNCHANGED <<calls, made, answers, mishaps>>
  BY <1>1, <1>2 DEF ChatInv, HandlerOK, Insert, NoHistory
<1>4. CASE State(q) # "None"
  <2> DEFINE j == [job[h] EXCEPT !.step = "begin"]
  <2>1. job' = [job EXCEPT ![h] = j] /\ UNCHANGED <<rows, lock>>
    BY <1>2, <1>4 DEF Insert, Go
  <2>2. j \in Job /\ j # Idle /\ j.step = "begin" /\ j.q = q
    BY <1>2, JobStep
  <2>3. calls' \in [Requests -> Drafts]
    BY <1>3 DEF ChatInv, TypeOK
  <2> HIDE DEF j
  <2> QED
    BY <1>1, <1>2, <1>3, <2>1, <2>2, <2>3, GoesOn
<1>5. CASE State(q) = "None" /\ SeqTaken(job[h].seq)
  BY <1>2, <1>3, <1>5, EndingAlone DEF Insert, ChatInv, TypeOK
<1>6. CASE State(q) = "None" /\ ~SeqTaken(job[h].seq)
  <2> DEFINE o == NewOperation(job[h].digest, "Pending", FALSE)
  <2> DEFINE m == NewMessage(job[h].seq, 0, TRUE, TRUE)
  <2> DEFINE j == [job[h] EXCEPT !.step = "think"]
  <2>1. /\ operation' = [operation EXCEPT ![q] = o]
        /\ message' = [message EXCEPT ![q]["player"] = m]
        /\ job' = [job EXCEPT ![h] = j] /\ UNCHANGED <<lock, outbox, task>>
    BY <1>2, <1>6 DEF Insert, Go
  <2>2. o \in Operation /\ o # NoOperation /\ o.digest = job[h].digest /\ o.state = "Pending" /\ o.plan = FALSE
    <3>1. o \in Operation
      BY <1>2 DEF NewOperation, Operation
    <3> QED
      BY <3>1, ConstantsAssumption DEF NewOperation
  <2>3. m \in Message /\ m # NoMessage /\ m.content = TRUE
    <3>1. 0 \in Drafts
      BY ConstantsAssumption DEF Drafts
    <3>2. m \in Message
      BY <1>2, <3>1 DEF NewMessage, Message
    <3> QED
      BY <3>2, ConstantsAssumption DEF NewMessage
  <2>4. j \in Job /\ j # Idle /\ j.step = "think" /\ j.q = q /\ j.digest = job[h].digest
    BY <1>2, JobStep
  <2>5. "player" \in Speakers /\ "companion" \in Speakers /\ Speakers = {"player", "companion"}
    BY DEF Speakers
  <2> HIDE DEF o, m, j
  <2>6. /\ operation' \in [Requests -> Operation \union {NoOperation}]
        /\ operation'[q] = o /\ State(q)' = "Pending"
        /\ \A p \in Requests \ {q} : operation'[p] = operation[p]
    <3>1. TypeOK
      BY DEF ChatInv
    <3>2. /\ operation' \in [Requests -> Operation \union {NoOperation}]
          /\ operation'[q] = o /\ State(q)' = o.state
          /\ \A p \in Requests \ {q} : operation'[p] = operation[p]
      BY <2>1, <2>2, <3>1, OneOperation
    <3> QED
      BY <2>2, <3>2
  <2>7. /\ message' \in [Requests -> [Speakers -> Message \union {NoMessage}]]
        /\ message'[q]["player"] = m /\ message'[q]["companion"] = message[q]["companion"]
        /\ \A p \in Requests \ {q} : message'[p] = message[p]
    <3>1. TypeOK
      BY DEF ChatInv
    <3>2. /\ message' \in [Requests -> [Speakers -> Message \union {NoMessage}]]
          /\ message'[q]["player"] = m
          /\ \A s \in Speakers \ {"player"} : message'[q][s] = message[q][s]
          /\ \A p \in Requests \ {q} : message'[p] = message[p]
      BY <2>1, <2>3, <2>5, <3>1, OneMessage
    <3> QED
      BY <2>5, <3>2
  <2>8. job' \in [Handlers -> Job \union {Idle}] /\ job'[h] = j /\ OthersKept(h)
    BY <2>1, <2>4, NextJob DEF ChatInv
  <2>9. TypeOK'
    BY <1>3, <2>1, <2>6, <2>7, <2>8 DEF ChatInv, TypeOK
  <2>10. RequestOK(q) /\ State(q) = "None"
    BY <1>2, <1>6 DEF ChatInv
  <2>11. ~Stored(q, "companion") /\ ~(Stored(q, "companion")') /\ made[q] <= 0 /\ answers[q] = {}
    <3>1. ~Stored(q, "companion") /\ answers[q] = {}
      BY <2>10 DEF RequestOK, RowsOK, AnswersOK
    <3>2. made[q] \in Nat /\ ~(made[q] > 0)
      BY <1>2, <2>10, <3>1 DEF RequestOK, TasksOK, ChatInv, TypeOK
    <3> QED
      BY <2>7, <3>1, <3>2 DEF Stored
  <2>12. Stored(q, "player")' /\ Readable(q, "player")'
    BY <2>3, <2>7 DEF Stored, Readable
  <2>13. RowsOK(q)'
    BY <2>5, <2>6, <2>11, <2>12 DEF RowsOK
  <2>14. DeliveryOK(q)'
    BY <2>1, <2>6, <2>10, <2>11 DEF RequestOK, DeliveryOK
  <2>15. TasksOK(q)' /\ AnswersOK(q)'
    BY <1>3, <2>1, <2>2, <2>6, <2>10, <2>11 DEF RequestOK, TasksOK, AnswersOK
  <2>16. HandlerOK(h)'
    BY <1>3, <2>1, <2>2, <2>4, <2>6, <2>8, <2>11 DEF HandlerOK, Accepted, Readable
  <2> QED
    BY <1>2, <1>3, <2>1, <2>6, <2>7, <2>8, <2>9, <2>13, <2>14, <2>15, <2>16, OneRequest
       DEF RequestOK
<1> QED
  BY <1>4, <1>5, <1>6

\* Creating the task of a reply, unless it lives already.
LEMMA TaskCreated ==
  ASSUME TypeOK, NEW q \in Requests, NEW wanted \in BOOLEAN, CreateTask(q, wanted),
         task[q] = "Live" => made[q] > 0
  PROVE  /\ task' \in [Requests -> {"None", "Live", "Deleted"}] /\ made' \in [Requests -> Nat]
         /\ \A p \in Requests \ {q} : task'[p] = task[p] /\ made'[p] = made[p]
         /\ task'[q] = "Live" => made'[q] > 0
         /\ wanted => made'[q] > 0
         /\ made[q] > 0 => made'[q] > 0
<1>1. made[q] \in Nat
  BY DEF TypeOK
<1> QED
  BY <1>1 DEF TypeOK, CreateTask

\* The draft, its operation and its task, in one transaction.
LEMMA SaveKeeps ==
  ASSUME ChatInv, NEW h \in Handlers, Save(h)
  PROVE  ChatInv'
<1>1. job[h] # Idle /\ Working(h) /\ job[h].step = "save"
  BY DEF Save, At, Idle, Working
<1>2. PICK q \in Requests :
        q = job[h].q /\ job[h] \in Job /\ job[h].digest \in Digests /\ job[h].seq \in Nat
        /\ job[h].text \in Drafts /\ job[h].plan \in BOOLEAN /\ job[h].create \in BOOLEAN
  <2>1. job[h] \in Job
    BY <1>1, WorkingJob DEF ChatInv
  <2> QED
    BY <2>1 DEF Job
<1>3. lock[q] = h /\ UNCHANGED <<calls, answers, mishaps>>
  BY <1>1, <1>2 DEF ChatInv, HandlerOK, Save
<1>4. /\ State(q) \in {"Pending", "Generated"} /\ operation[q].digest = job[h].digest
      /\ ~Readable(q, "companion") /\ job[h].create = job[h].plan /\ RequestOK(q)
  BY <1>1, <1>2 DEF ChatInv, HandlerOK, Accepted
<1>5. TypeOK /\ calls' \in [Requests -> Drafts] /\ mishaps' \in 0..MaxMishaps
  BY <1>3 DEF ChatInv, TypeOK
<1>6. CASE Stored(q, "companion")
  <2> DEFINE j == [job[h] EXCEPT !.step = "complete"]
  <2>1. job' = [job EXCEPT ![h] = j] /\ UNCHANGED <<rows, lock, made>>
    BY <1>2, <1>6 DEF Save, Go
  <2>2. /\ j \in Job /\ j # Idle /\ j.step = "complete" /\ j.q = q /\ j.digest = job[h].digest
        /\ j.plan = job[h].plan /\ j.create = job[h].create
    BY <1>2, JobStep
  <2> HIDE DEF j
  <2> QED
    BY <1>1, <1>2, <1>3, <1>4, <1>5, <1>6, <2>1, <2>2, GoesOn
<1>7. CASE ~Stored(q, "companion") /\ SeqTaken(message[q]["player"].seq + 1)
  BY <1>2, <1>3, <1>5, <1>7, EndingAlone DEF Save
<1>8. CASE ~Stored(q, "companion") /\ ~SeqTaken(message[q]["player"].seq + 1)
  <2> DEFINE n == message[q]["player"].seq + 1
  <2> DEFINE o == NewOperation(operation[q].digest, "Generated", job[h].plan)
  <2> DEFINE m == Draft(n, job[h].text)
  <2> DEFINE j == Work("complete", q, job[h].digest, job[h].seq, job[h].text, job[h].plan, FALSE)
  <2>1. /\ operation' = [operation EXCEPT ![q] = o]
        /\ message' = [message EXCEPT ![q]["companion"] = m]
        /\ CreateTask(q, job[h].create)
        /\ job' = [job EXCEPT ![h] = j] /\ UNCHANGED <<lock, outbox>>
    BY <1>2, <1>8 DEF Save
  <2>2. o \in Operation /\ o # NoOperation /\ o.digest = job[h].digest /\ o.state = "Generated" /\ o.plan = job[h].plan
    BY <1>2, <1>4, OperationRow
  <2>3. n \in Nat
    <3>1. Stored(q, "player")
      BY <1>4 DEF RequestOK, RowsOK
    <3>2. message[q]["player"] \in Message
      BY <1>5, <3>1 DEF Stored, TypeOK, Speakers
    <3> QED
      BY <3>2 DEF Message
  <2>4. m \in Message /\ m # NoMessage /\ m.text = job[h].text /\ m.content = TRUE /\ m.delivered = FALSE
    <3> HIDE DEF n
    <3>1. m \in Message
      BY <1>2, <2>3 DEF Draft, NewMessage, Message
    <3> QED
      BY <3>1, ConstantsAssumption DEF Draft, NewMessage
  <2>5. /\ j \in Job /\ j # Idle /\ j.step = "complete" /\ j.q = q /\ j.digest = job[h].digest
        /\ j.text = job[h].text /\ j.plan = job[h].plan
    <3>1. j \in Job
      BY <1>2 DEF Work, Job
    <3>2. \A i \in Job : i # Idle
      BY DEF Job, Idle
    <3> QED
      BY <3>1, <3>2 DEF Work
  <2>6. "player" \in Speakers /\ "companion" \in Speakers /\ Speakers = {"player", "companion"}
    BY DEF Speakers
  <2> HIDE DEF n, o, m, j
  <2>7. /\ operation' \in [Requests -> Operation \union {NoOperation}]
        /\ operation'[q] = o /\ State(q)' = o.state
        /\ \A p \in Requests \ {q} : operation'[p] = operation[p]
    BY <1>5, <2>1, <2>2, OneOperation
  <2>8. /\ message' \in [Requests -> [Speakers -> Message \union {NoMessage}]]
        /\ message'[q]["companion"] = m
        /\ \A s \in Speakers \ {"companion"} : message'[q][s] = message[q][s]
        /\ \A p \in Requests \ {q} : message'[p] = message[p]
    BY <1>5, <2>1, <2>4, <2>6, OneMessage
  <2>9. message'[q]["player"] = message[q]["player"]
    BY <2>6, <2>8
  <2>10. job' \in [Handlers -> Job \union {Idle}] /\ job'[h] = j /\ OthersKept(h)
    BY <1>5, <2>1, <2>5, NextJob
  <2>11. /\ task' \in [Requests -> {"None", "Live", "Deleted"}] /\ made' \in [Requests -> Nat]
         /\ \A p \in Requests \ {q} : task'[p] = task[p] /\ made'[p] = made[p]
         /\ task'[q] = "Live" => made'[q] > 0
         /\ job[h].plan => made'[q] > 0
    BY <1>2, <1>4, <1>5, <2>1, TaskCreated DEF RequestOK, TasksOK
  <2>12. TypeOK'
    BY <1>3, <1>5, <2>1, <2>7, <2>8, <2>10, <2>11 DEF TypeOK
  <2>13. Stored(q, "companion")' /\ Readable(q, "companion")'
    BY <2>4, <2>8 DEF Stored, Readable
  <2>14. Stored(q, "player") /\ (Stored(q, "player")') /\ (Readable(q, "player")' <=> Readable(q, "player"))
    BY <1>4, <2>9 DEF RequestOK, RowsOK, Stored, Readable
  <2>15. RowsOK(q)'
    BY <1>4, <2>1, <2>2, <2>6, <2>7, <2>13, <2>14 DEF RequestOK, RowsOK
  <2>16. DeliveryOK(q)'
    BY <1>4, <2>1, <2>2, <2>4, <2>7, <2>8 DEF RequestOK, DeliveryOK
  <2>17. TasksOK(q)'
    BY <2>2, <2>7, <2>11, <2>13 DEF TasksOK
  <2>18. AnswersOK(q)'
    BY <1>3, <1>4 DEF RequestOK, AnswersOK
  <2>19. HandlerOK(h)'
    BY <1>3, <2>1, <2>2, <2>4, <2>5, <2>7, <2>8, <2>10, <2>11, <2>13 DEF HandlerOK, Accepted
  <2> QED
    BY <1>3, <2>1, <2>7, <2>8, <2>10, <2>11, <2>12, <2>15, <2>16, <2>17, <2>18, <2>19, OneRequest
       DEF RequestOK
<1> QED
  BY <1>6, <1>7, <1>8

\* The reply is delivered, and both messages are queued.
LEMMA CompleteKeeps ==
  ASSUME ChatInv, NEW h \in Handlers, Complete(h)
  PROVE  ChatInv'
<1>1. job[h] # Idle /\ Working(h) /\ job[h].step = "complete"
  BY DEF Complete, At, Idle, Working
<1>2. PICK q \in Requests :
        q = job[h].q /\ job[h] \in Job /\ job[h].digest \in Digests
        /\ job[h].text \in Drafts /\ job[h].plan \in BOOLEAN /\ job[h].create \in BOOLEAN
  <2>1. job[h] \in Job
    BY <1>1, WorkingJob DEF ChatInv
  <2> QED
    BY <2>1 DEF Job
<1>3. lock[q] = h /\ UNCHANGED <<calls, mishaps>> /\ End(h)
  BY <1>1, <1>2 DEF ChatInv, HandlerOK, Complete
<1>4. /\ State(q) \in {"Pending", "Generated"} /\ operation[q].digest = job[h].digest
      /\ Stored(q, "companion") /\ RequestOK(q)
      /\ Readable(q, "companion") => job[h].text = message[q]["companion"].text
      /\ job[h].plan => job[h].create \/ made[q] > 0
  BY <1>1, <1>2 DEF ChatInv, HandlerOK, Accepted
<1>5. TypeOK /\ calls' \in [Requests -> Drafts] /\ mishaps' \in 0..MaxMishaps
  BY <1>3 DEF ChatInv, TypeOK
<1>6. CASE ~QueueFree(q)
  BY <1>2, <1>3, <1>5, <1>6, EndingAlone DEF Complete
<1>7. CASE QueueFree(q)
  <2> DEFINE o == NewOperation(operation[q].digest, "Completed", job[h].plan)
  <2> DEFINE m == [message[q]["companion"] EXCEPT !.delivered = TRUE]
  <2> DEFINE a == <<job[h].digest, job[h].text>>
  <2>1. /\ operation' = [operation EXCEPT ![q] = o]
        /\ message' = [message EXCEPT ![q]["companion"] = m]
        /\ outbox' = [outbox EXCEPT ![q] = [speaker \in Speakers |-> "Pending"]]
        /\ CreateTask(q, job[h].create)
        /\ answers' = [answers EXCEPT ![q] = answers[q] \union {a}]
    BY <1>2, <1>7 DEF Complete
  <2>2. o \in Operation /\ o # NoOperation /\ o.digest = job[h].digest /\ o.state = "Completed" /\ o.plan = job[h].plan
    BY <1>2, <1>4, OperationRow
  <2>3. "player" \in Speakers /\ "companion" \in Speakers /\ Speakers = {"player", "companion"}
    BY DEF Speakers
  <2>4. \A speaker \in Speakers : Stored(q, speaker) => Readable(q, speaker)
    BY <1>4, <1>7 DEF QueueFree, RequestOK, RowsOK
  <2>5. Readable(q, "companion") /\ Readable(q, "player") /\ job[h].text = message[q]["companion"].text
    BY <1>4, <2>3, <2>4 DEF RequestOK, RowsOK
  <2>6. m \in Message /\ m # NoMessage /\ m.text = job[h].text /\ m.content /\ m.delivered
    <3>1. message[q]["companion"] \in Message /\ message[q]["companion"].content
      BY <1>5, <2>3, <2>5 DEF Readable, Stored, TypeOK
    <3> QED
      BY <2>5, <3>1, DeliveredRow
  <2>7. a \in Digests \X Drafts
    BY <1>2
  <2> HIDE DEF o, m, a
  <2>8. /\ operation' \in [Requests -> Operation \union {NoOperation}]
        /\ operation'[q] = o /\ State(q)' = o.state
        /\ \A p \in Requests \ {q} : operation'[p] = operation[p]
    BY <1>5, <2>1, <2>2, OneOperation
  <2>9. /\ message' \in [Requests -> [Speakers -> Message \union {NoMessage}]]
        /\ message'[q]["companion"] = m
        /\ \A s \in Speakers \ {"companion"} : message'[q][s] = message[q][s]
        /\ \A p \in Requests \ {q} : message'[p] = message[p]
    BY <1>5, <2>1, <2>3, <2>6, OneMessage
  <2>10. message'[q]["player"] = message[q]["player"]
    BY <2>3, <2>9
  <2>11. /\ outbox' \in [Requests -> [Speakers -> {"None", "Pending", "Tombstone"}]]
         /\ \A speaker \in Speakers : outbox'[q][speaker] = "Pending"
         /\ \A p \in Requests \ {q} : outbox'[p] = outbox[p]
    BY <1>5, <2>1 DEF TypeOK
  <2>12. /\ answers' \in [Requests -> SUBSET (Digests \X Drafts)] /\ answers'[q] = {a}
         /\ \A p \in Requests \ {q} : answers'[p] = answers[p]
    <3>1. answers[q] = {}
      BY <1>4 DEF RequestOK, AnswersOK
    <3> QED
      BY <1>5, <2>1, <2>7, <3>1 DEF TypeOK
  <2>13. /\ task' \in [Requests -> {"None", "Live", "Deleted"}] /\ made' \in [Requests -> Nat]
         /\ \A p \in Requests \ {q} : task'[p] = task[p] /\ made'[p] = made[p]
         /\ task'[q] = "Live" => made'[q] > 0
         /\ job[h].plan => made'[q] > 0
    BY <1>2, <1>4, <1>5, <2>1, TaskCreated DEF RequestOK, TasksOK
  <2>14. OthersKept(h) /\ HandlerOK(h)' /\ lock' \in [Requests -> Handlers \union {NoHandler}]
         /\ job' \in [Handlers -> Job \union {Idle}]
    BY <1>3, <1>5, Ending
  <2>15. TypeOK'
    BY <1>5, <2>8, <2>9, <2>11, <2>12, <2>13, <2>14 DEF TypeOK
  <2>16. Stored(q, "companion")' /\ Readable(q, "companion")' /\ Stored(q, "player")' /\ Readable(q, "player")'
    BY <2>5, <2>6, <2>9, <2>10 DEF Stored, Readable
  <2>17. RowsOK(q)'
    BY <2>2, <2>3, <2>8, <2>16 DEF RowsOK
  <2>18. DeliveryOK(q)'
    BY <2>2, <2>6, <2>8, <2>9, <2>11 DEF DeliveryOK
  <2>19. TasksOK(q)'
    BY <2>2, <2>8, <2>13, <2>16 DEF TasksOK
  <2>20. AnswersOK(q)'
    BY <2>2, <2>6, <2>8, <2>9, <2>12 DEF AnswersOK, a
  <2> QED
    BY <1>3, <2>8, <2>9, <2>11, <2>12, <2>13, <2>14, <2>15, <2>17, <2>18, <2>19, <2>20, OneRequest
       DEF RequestOK
<1> QED
  BY <1>6, <1>7

\* A purged message keeps its place, and leaves a tombstone in the outbox.
LEMMA PurgeKeeps ==
  ASSUME ChatInv, NEW q \in Requests, NEW speaker \in Speakers, Purge(q, speaker)
  PROVE  ChatInv'
<1> DEFINE m == NewMessage(message[q][speaker].seq, message[q][speaker].text, FALSE, FALSE)
<1>1. TypeOK /\ RequestOK(q)
  BY DEF ChatInv
<1>2. /\ message' = [message EXCEPT ![q][speaker] = m]
      /\ outbox' = [outbox EXCEPT ![q][speaker] = "Tombstone"]
      /\ Readable(q, speaker)
      /\ UNCHANGED <<operation, task, lock, job, calls, made, answers, mishaps>>
  BY DEF Purge, NoHistory
<1>3. m \in Message /\ m # NoMessage /\ m.text = message[q][speaker].text /\ m.content = FALSE /\ m.delivered = FALSE
  <2>1. message[q][speaker] \in Message
    BY <1>1, <1>2 DEF Readable, Stored, TypeOK
  <2>2. message[q][speaker].seq \in Nat /\ message[q][speaker].text \in Drafts
    BY <2>1 DEF Message
  <2>3. m \in Message
    BY <2>2 DEF NewMessage, Message
  <2> QED
    BY <2>3, ConstantsAssumption DEF NewMessage
<1> HIDE DEF m
<1>4. /\ message' \in [Requests -> [Speakers -> Message \union {NoMessage}]]
      /\ message'[q][speaker] = m
      /\ \A s \in Speakers \ {speaker} : message'[q][s] = message[q][s]
      /\ \A p \in Requests \ {q} : message'[p] = message[p]
  BY <1>1, <1>2, <1>3, OneMessage
<1>5. /\ outbox' \in [Requests -> [Speakers -> {"None", "Pending", "Tombstone"}]]
      /\ outbox'[q][speaker] = "Tombstone"
      /\ \A s \in Speakers \ {speaker} : outbox'[q][s] = outbox[q][s]
      /\ \A p \in Requests \ {q} : outbox'[p] = outbox[p]
  BY <1>1, <1>2 DEF TypeOK
<1>6. TypeOK'
  BY <1>1, <1>2, <1>4, <1>5 DEF TypeOK
<1>7. ASSUME NEW s \in Speakers
      PROVE  /\ Stored(q, s)' <=> Stored(q, s)
             /\ Readable(q, s)' => s # speaker /\ Readable(q, s) /\ message'[q][s] = message[q][s]
             /\ message'[q][s].text = message[q][s].text
  <2>1. CASE s = speaker
    BY <1>2, <1>3, <1>4, <2>1 DEF Stored, Readable
  <2>2. CASE s # speaker
    BY <1>4, <1>7, <2>2 DEF Stored, Readable
  <2> QED
    BY <2>1, <2>2
<1>8. State(q)' = State(q) /\ operation' = operation
  BY <1>2 DEF State
<1>9. "player" \in Speakers /\ "companion" \in Speakers
  BY DEF Speakers
<1>10. RowsOK(q)'
  <2>1. \A s \in Speakers : Stored(q, s)' /\ ~(Readable(q, s)') => outbox'[q][s] = "Tombstone"
    <3>1. TAKE s \in Speakers
    <3>2. CASE s = speaker
      BY <1>5, <3>2
    <3>3. CASE s # speaker
      BY <1>1, <1>4, <1>5, <3>1, <3>3 DEF RequestOK, RowsOK, Stored, Readable
    <3> QED
      BY <3>2, <3>3
  <2> QED
    BY <1>1, <1>7, <1>8, <1>9, <2>1 DEF RequestOK, RowsOK
<1>11. DeliveryOK(q)'
  <2>1. \A s \in Speakers : outbox'[q][s] = outbox[q][s] \/ outbox'[q][s] = "Tombstone"
    BY <1>5
  <2>2. CASE State(q) = "Completed"
    BY <1>1, <1>7, <1>8, <1>9, <2>1, <2>2 DEF RequestOK, DeliveryOK
  <2>3. CASE State(q) # "Completed"
    <3>1. Stored(q, "companion")' => ~message'[q]["companion"].delivered
      <4>1. CASE speaker = "companion"
        BY <1>3, <1>4, <4>1
      <4>2. CASE speaker # "companion"
        BY <1>1, <1>4, <1>9, <2>3, <4>2 DEF RequestOK, DeliveryOK, Stored
      <4> QED
        BY <4>1, <4>2
    <3> QED
      BY <1>1, <1>8, <2>1, <2>3, <3>1 DEF RequestOK, DeliveryOK
  <2> QED
    BY <2>2, <2>3
<1>12. TasksOK(q)' /\ AnswersOK(q)'
  BY <1>1, <1>2, <1>7, <1>8, <1>9 DEF RequestOK, TasksOK, AnswersOK
<1>13. ASSUME NEW p \in Requests PROVE RequestOK(p)'
  <2>1. CASE p = q
    BY <1>10, <1>11, <1>12, <2>1 DEF RequestOK
  <2>2. CASE p # q
    BY <1>2, <1>4, <1>5, <2>2, RequestStays DEF ChatInv
  <2> QED
    BY <2>1, <2>2
<1>14. ASSUME NEW g \in Handlers PROVE HandlerOK(g)'
  <2>1. HandlerOK(g) /\ job'[g] = job[g]
    BY <1>2 DEF ChatInv
  <2>2. CASE Working(g) /\ job[g].q = q
    <3>1. Working(g) /\ job'[g].q = q /\ (Accepted(g) => Accepted(g)') /\ lock'[q] = lock[q]
      BY <1>2, <1>8, <2>1, <2>2 DEF Accepted, State
    <3>2. Readable(q, "companion")' => Readable(q, "companion")
      BY <1>7, <1>9
    <3>3. Stored(q, "companion") => Stored(q, "companion")'
      BY <1>7, <1>9
    <3>4. message'[q]["companion"].text = message[q]["companion"].text /\ made' = made
      BY <1>2, <1>7, <1>9
    <3> QED
      BY <2>1, <2>2, <3>1, <3>2, <3>3, <3>4 DEF HandlerOK, Stored, Readable
  <2>3. CASE ~(Working(g) /\ job[g].q = q)
    <3>1. Working(g) => job[g].q \in Requests \ {q}
      BY <1>1, <2>3, WorkingJob DEF Working
    <3> QED
      BY <1>2, <1>4, <2>1, <3>1, HandlerStays
  <2> QED
    BY <2>2, <2>3
<1> QED
  BY <1>6, <1>13, <1>14 DEF ChatInv

\* A deleted task is none that lives.
LEMMA DeleteTaskKeeps ==
  ASSUME ChatInv, NEW q \in Requests, DeleteTask(q)
  PROVE  ChatInv'
<1>1. /\ task' = [task EXCEPT ![q] = "Deleted"]
      /\ UNCHANGED <<operation, message, outbox, lock, job, calls, made, answers>>
      /\ mishaps' = mishaps + 1 /\ mishaps < MaxMishaps
  BY DEF DeleteTask
<1>2. TypeOK'
  BY <1>1, ConstantsAssumption DEF ChatInv, TypeOK
<1>3. ASSUME NEW p \in Requests PROVE RequestOK(p)'
  <2>1. task'[p] = "Live" => task[p] = "Live"
    BY <1>1 DEF ChatInv, TypeOK
  <2>2. RequestOK(p)
    BY DEF ChatInv
  <2> QED
    BY <1>1, <2>1, <2>2 DEF RequestOK, RowsOK, DeliveryOK, TasksOK, AnswersOK, State, Stored, Readable
<1>4. ASSUME NEW g \in Handlers PROVE HandlerOK(g)'
  BY <1>1, HandlerStays DEF ChatInv
<1> QED
  BY <1>2, <1>3, <1>4 DEF ChatInv

\* Every step keeps the invariant.
LEMMA NextChat == ChatInv /\ [Next]_vars => ChatInv'
<1> SUFFICES ASSUME ChatInv, [Next]_vars PROVE ChatInv'
  OBVIOUS
<1>1. CASE UNCHANGED vars
  <2>1. UNCHANGED <<operation, message, outbox, task, lock, job, calls, made, answers, mishaps>>
    BY <1>1 DEF vars
  <2>2. TypeOK'
    BY <2>1 DEF ChatInv, TypeOK
  <2>3. ASSUME NEW q \in Requests PROVE RequestOK(q)'
    BY <2>1, RequestStays DEF ChatInv
  <2>4. ASSUME NEW h \in Handlers PROVE HandlerOK(h)'
    BY <2>1, HandlerStays DEF ChatInv
  <2> QED
    BY <2>2, <2>3, <2>4 DEF ChatInv
<1>2. CASE \E h \in Handlers, q \in Requests, d \in Digests : Receive(h, q, d)
  BY <1>2, ReceiveKeeps
<1>3. ASSUME NEW h \in Handlers, Step(h) \/ Fail(h) PROVE ChatInv'
  <2>1. CASE \E plan \in BOOLEAN : Think(h, plan)
    BY <2>1, ThinkKeeps
  <2> QED
    BY <1>3, <2>1, AcquireKeeps, BeginNewKeeps, InsertKeeps, EndKeeps, ReplayKeeps, ResumeKeeps,
       SaveKeeps, CompleteKeeps DEF Step
<1>4. CASE \E q \in Requests, speaker \in Speakers : Purge(q, speaker)
  BY <1>4, PurgeKeeps
<1>5. CASE \E q \in Requests : DeleteTask(q)
  BY <1>5, DeleteTaskKeeps
<1> QED
  BY <1>1, <1>2, <1>3, <1>4, <1>5 DEF Next

-------------------------------------------------------------------------------
(* The theorems *)

\* The invariant holds always.
LEMMA AlwaysChatInv == Spec => []ChatInv
BY InitChat, NextChat, PTL DEF Spec

\* Every row, job and lock has its type.
THEOREM ChatTypes == Spec => []TypeOK
<1>1. ChatInv => TypeOK
  BY DEF ChatInv
<1> QED
  BY <1>1, AlwaysChatInv, PTL

\* A message is queued, and a reply is part of later prompts, exactly when the
\* reply was delivered.
THEOREM NothingGoesBeforeDelivery == Spec => []NothingBeforeDelivery
<1>1. ChatInv => NothingBeforeDelivery
  BY DEF ChatInv, RequestOK, DeliveryOK, NothingBeforeDelivery
<1> QED
  BY <1>1, AlwaysChatInv, PTL

\* The task that a stored reply promises was created with it, and no other task is.
THEOREM TasksComeWithReplies == Spec => []TaskComesWithReply
<1>1. ChatInv => TaskComesWithReply
  BY DEF ChatInv, RequestOK, TasksOK, TaskComesWithReply
<1> QED
  BY <1>1, AlwaysChatInv, PTL

\* Once a draft is stored and readable, no retry calls the model again.
THEOREM DraftsAreReused == Spec => DraftIsReused
<1>1. ChatInv /\ [Next]_vars =>
        [\A q \in Requests :
           State(q) = "Generated" /\ Readable(q, "companion") => calls'[q] = calls[q]]_vars
  <2> SUFFICES ASSUME ChatInv, Next, NEW q \in Requests, State(q) = "Generated", Readable(q, "companion")
               PROVE  calls'[q] = calls[q]
    OBVIOUS
  <2>1. CASE \E h \in Handlers, plan \in BOOLEAN : Think(h, plan)
    <3>1. PICK h \in Handlers, plan \in BOOLEAN : Think(h, plan)
      BY <2>1
    <3>2. job[h].step = "think" /\ calls' = [calls EXCEPT ![job[h].q] = calls[job[h].q] + 1]
      BY <3>1 DEF Think, At
    <3>3. ~Readable(job[h].q, "companion")
      BY <3>2 DEF ChatInv, HandlerOK, Working, Idle
    <3>4. q # job[h].q
      BY <3>3
    <3> QED
      BY <3>2, <3>4 DEF ChatInv, TypeOK
  <2>2. CASE \E h \in Handlers : \/ Acquire(h) \/ BeginNew(h) \/ Insert(h) \/ Duplicate(h) \/ Replay(h)
                                \/ Resume(h) \/ Save(h) \/ Complete(h) \/ Fail(h)
    BY <2>2 DEF Acquire, BeginNew, Insert, Duplicate, Replay, Resume, Save, Complete, Fail, NoHistory
  <2>3. CASE \/ \E h \in Handlers, p \in Requests, d \in Digests : Receive(h, p, d)
             \/ \E p \in Requests, speaker \in Speakers : Purge(p, speaker)
             \/ \E p \in Requests : DeleteTask(p)
    BY <2>3 DEF Receive, Purge, DeleteTask, NoHistory
  <2> QED
    BY <2>1, <2>2, <2>3 DEF Next, Step
<1> QED
  BY <1>1, AlwaysChatInv, PTL DEF Spec, DraftIsReused

-------------------------------------------------------------------------------
(* Refinement *)

\* What a request stands for changes only with its operation's digest.
LEMMA SamePayloads ==
  ASSUME \A q \in Requests : \/ operation'[q] = operation[q]
                             \/ /\ operation[q] # NoOperation /\ operation'[q] # NoOperation
                                /\ operation'[q].digest = operation[q].digest
  PROVE  Payload' = Payload
BY DEF Payload

\* An operation that is rewritten keeps its payload.
LEMMA RewrittenOperation ==
  ASSUME ChatInv, NEW q \in Requests, State(q) \in {"Pending", "Generated"},
         NEW st \in {"Generated", "Completed"}, NEW p \in BOOLEAN,
         operation' = [operation EXCEPT ![q] = NewOperation(operation[q].digest, st, p)]
  PROVE  Payload' = Payload
<1>1. operation[q] \in Operation /\ operation[q].digest \in Digests
  BY DEF ChatInv, TypeOK, State, Operation
<1>2. /\ NewOperation(operation[q].digest, st, p) # NoOperation
      /\ NewOperation(operation[q].digest, st, p).digest = operation[q].digest
  BY <1>1, OperationRow
<1>3. \A r \in Requests \ {q} : operation'[r] = operation[r]
  BY DEF ChatInv, TypeOK
<1>4. operation'[q] = NewOperation(operation[q].digest, st, p)
  BY DEF ChatInv, TypeOK
<1> QED
  BY <1>1, <1>2, <1>3, <1>4, ConstantsAssumption, SamePayloads

\* Storing a message gives its request a payload.
LEMMA InsertRefines ==
  ASSUME ChatInv, NEW h \in Handlers, Insert(h)
  PROVE  Promise!Next \/ UNCHANGED <<Payload, answers>>
<1> DEFINE q == job[h].q
<1> DEFINE d == job[h].digest
<1>1. q \in Requests /\ d \in Digests
  <2>1. job[h] # Idle
    BY DEF Insert, At, Idle
  <2> QED
    BY <2>1, WorkingJob DEF ChatInv
<1>2. answers' = answers
  BY DEF Insert, NoHistory
<1>3. CASE State(q) # "None" \/ SeqTaken(job[h].seq)
  <2>1. operation' = operation
    BY <1>3 DEF Insert, rows
  <2> QED
    BY <1>2, <2>1, SamePayloads
<1>4. CASE State(q) = "None" /\ ~SeqTaken(job[h].seq)
  <2>1. operation' = [operation EXCEPT ![q] = NewOperation(d, "Pending", FALSE)]
    BY <1>4 DEF Insert
  <2>2. NewOperation(d, "Pending", FALSE) # NoOperation /\ NewOperation(d, "Pending", FALSE).digest = d
    <3>1. NewOperation(d, "Pending", FALSE) \in Operation
      BY <1>1 DEF NewOperation, Operation
    <3> QED
      BY <3>1, ConstantsAssumption DEF NewOperation
  <2>3. operation[q] = NoOperation
    <3>1. operation[q] \in Operation => operation[q].state # "None"
      BY DEF Operation
    <3> QED
      BY <1>1, <1>4, <3>1 DEF State, ChatInv, TypeOK
  <2> HIDE DEF d, q
  <2>4. Payload' = [Payload EXCEPT ![q] = d]
    BY <1>1, <2>1, <2>2 DEF Payload, ChatInv, TypeOK
  <2>5. Payload[q] = NoOperation
    BY <1>1, <2>3 DEF Payload
  <2>6. Promise!Accept(q, d)
    BY <1>2, <2>4, <2>5 DEF Promise!Accept
  <2> QED
    BY <1>1, <2>6 DEF Promise!Next
<1> QED
  BY <1>3, <1>4

\* A replay answers the reply again.
LEMMA ReplayRefines ==
  ASSUME ChatInv, NEW h \in Handlers, Replay(h)
  PROVE  Promise!Next \/ UNCHANGED <<Payload, answers>>
<1> DEFINE q == job[h].q
<1> DEFINE t == message[q]["companion"].text
<1>1. q \in Requests /\ job[h].digest \in Digests
  <2>1. job[h] # Idle
    BY DEF Replay, At, Idle
  <2> QED
    BY <2>1, WorkingJob DEF ChatInv
<1>2. operation' = operation /\ Payload' = Payload
  <2>1. operation' = operation
    BY DEF Replay, rows
  <2> QED
    BY <2>1, SamePayloads
<1>3. CASE ~Readable(q, "companion")
  BY <1>2, <1>3 DEF Replay
<1>4. CASE Readable(q, "companion")
  <2>1. answers' = [answers EXCEPT ![q] = answers[q] \union {<<job[h].digest, t>>}]
    BY <1>4 DEF Replay
  <2>2. operation[q].digest = job[h].digest /\ operation[q] # NoOperation
    BY DEF Replay, SamePayload, State
  <2>3. t \in Drafts
    <3>1. message[q]["companion"] \in Message
      BY <1>1, <1>4 DEF Readable, Stored, ChatInv, TypeOK, Speakers
    <3> QED
      BY <3>1 DEF Message
  <2>4. Payload[q] = job[h].digest
    BY <1>1, <2>2 DEF Payload
  <2>5. answers[q] \subseteq {<<job[h].digest, t>>}
    BY <1>1, <2>2 DEF ChatInv, RequestOK, AnswersOK
  <2> HIDE DEF t, q
  <2>6. Promise!Answer(q, t)
    BY <1>1, <1>2, <2>1, <2>4, <2>5, ConstantsAssumption DEF Promise!Answer
  <2> QED
    BY <1>1, <2>3, <2>6 DEF Promise!Next
<1> QED
  BY <1>3, <1>4

\* A delivery is the first answer.
LEMMA CompleteRefines ==
  ASSUME ChatInv, NEW h \in Handlers, Complete(h)
  PROVE  Promise!Next \/ UNCHANGED <<Payload, answers>>
<1> DEFINE q == job[h].q
<1>1. job[h] # Idle /\ Working(h) /\ job[h].step = "complete"
  BY DEF Complete, At, Idle, Working
<1>2. q \in Requests /\ job[h].digest \in Digests /\ job[h].text \in Drafts /\ job[h].plan \in BOOLEAN
  <2>1. job[h] \in Job
    BY <1>1, WorkingJob DEF ChatInv
  <2> QED
    BY <2>1 DEF Job
<1>3. State(q) \in {"Pending", "Generated"} /\ operation[q].digest = job[h].digest
  BY <1>1 DEF ChatInv, HandlerOK, Accepted
<1>4. CASE ~QueueFree(q)
  <2>1. operation' = operation /\ answers' = answers
    BY <1>4 DEF Complete, rows
  <2> QED
    BY <2>1, SamePayloads
<1>5. CASE QueueFree(q)
  <2>1. /\ operation' = [operation EXCEPT ![q] = NewOperation(operation[q].digest, "Completed", job[h].plan)]
        /\ answers' = [answers EXCEPT ![q] = answers[q] \union {<<job[h].digest, job[h].text>>}]
    BY <1>5 DEF Complete
  <2>2. Payload' = Payload
    BY <1>2, <1>3, <2>1, RewrittenOperation
  <2>3. Payload[q] = job[h].digest
    BY <1>2, <1>3 DEF Payload, State
  <2>4. answers[q] = {}
    BY <1>2, <1>3 DEF ChatInv, RequestOK, AnswersOK
  <2> HIDE DEF q
  <2>5. Promise!Answer(q, job[h].text)
    BY <1>2, <2>1, <2>2, <2>3, <2>4, ConstantsAssumption DEF Promise!Answer
  <2> QED
    BY <1>2, <2>5 DEF Promise!Next
<1> QED
  BY <1>4, <1>5

\* A saved draft is no answer.
LEMMA SaveRefines ==
  ASSUME ChatInv, NEW h \in Handlers, Save(h)
  PROVE  UNCHANGED <<Payload, answers>>
<1> DEFINE q == job[h].q
<1>1. job[h] # Idle /\ Working(h) /\ job[h].step = "save"
  BY DEF Save, At, Idle, Working
<1>2. q \in Requests /\ job[h].plan \in BOOLEAN
  <2>1. job[h] \in Job
    BY <1>1, WorkingJob DEF ChatInv
  <2> QED
    BY <2>1 DEF Job
<1>3. State(q) \in {"Pending", "Generated"}
  BY <1>1 DEF ChatInv, HandlerOK, Accepted
<1>4. answers' = answers
  BY DEF Save
<1>5. \/ operation' = operation
      \/ operation' = [operation EXCEPT ![q] = NewOperation(operation[q].digest, "Generated", job[h].plan)]
  BY DEF Save, rows
<1> QED
  BY <1>2, <1>3, <1>4, <1>5, RewrittenOperation, SamePayloads

\* Every step of the service is a step of the promise, or none.
LEMMA NextRefines == ChatInv /\ [Next]_vars => [Promise!Next]_<<Payload, answers>>
<1> SUFFICES ASSUME ChatInv, [Next]_vars PROVE Promise!Next \/ UNCHANGED <<Payload, answers>>
  OBVIOUS
<1>1. CASE UNCHANGED <<operation, answers>>
  BY <1>1, SamePayloads
<1>2. CASE UNCHANGED vars
  BY <1>1, <1>2 DEF vars
<1>3. ASSUME NEW h \in Handlers, Step(h) \/ Fail(h)
      PROVE  Promise!Next \/ UNCHANGED <<Payload, answers>>
  <2>1. CASE \/ Acquire(h) \/ BeginNew(h) \/ Duplicate(h) \/ Resume(h) \/ Fail(h)
             \/ \E plan \in BOOLEAN : Think(h, plan)
    <3>1. UNCHANGED <<rows, answers>>
      BY <2>1 DEF Acquire, BeginNew, Duplicate, Resume, Fail, Think, NoHistory
    <3> QED
      BY <1>1, <3>1 DEF rows
  <2> QED
    BY <1>3, <2>1, InsertRefines, ReplayRefines, SaveRefines, CompleteRefines DEF Step
<1>4. CASE \/ \E h \in Handlers, q \in Requests, d \in Digests : Receive(h, q, d)
           \/ \E q \in Requests, speaker \in Speakers : Purge(q, speaker)
           \/ \E q \in Requests : DeleteTask(q)
  <2>1. UNCHANGED <<operation, answers>>
    BY <1>4 DEF Receive, Purge, DeleteTask, NoHistory, rows
  <2> QED
    BY <1>1, <2>1
<1> QED
  BY <1>2, <1>3, <1>4 DEF Next

\* Whatever is retried, in parallel or after a failure, a request id gets one
\* reply to one payload.
THEOREM ChatImplementsOneReply == Spec => ImplementsOneReply
<1>1. Init => Promise!Init
  BY DEF Init, Promise!Init, Payload
<1> QED
  BY <1>1, AlwaysChatInv, NextRefines, PTL DEF Spec, ImplementsOneReply, Promise!Spec

================================================================================
