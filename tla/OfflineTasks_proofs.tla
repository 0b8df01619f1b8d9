--------------------------- MODULE OfflineTasks_proofs ---------------------------
(***************************************************************************)
(* Proofs about OfflineTasks.  On any database: types, one outcome for     *)
(* each task, no upload that rewinds the snapshot (Part 1), and rows that  *)
(* record all that reservations hold (Part 4, by the sums of Part 3).  On  *)
(* a database that honours SELECT ... FOR UPDATE (Part 2): no material is  *)
(* lost or duplicated, state versions grow, an upload has seen the         *)
(* server's last change, and the steps of TaskLedger are implemented       *)
(* (Part 5) -- for any number of sessions and tasks, any quantities, rooms *)
(* and play.                                                               *)
(***************************************************************************)
EXTENDS OfflineTasks, FiniteSetTheorems, WellFoundedInduction, TLAPS

-------------------------------------------------------------------------------
(* Part 1: any database *)

TaskSteps == {"reserve", "insert", "refund", "delete", "finalize"}
PutSteps == {"latest", "put"}

\* A session may be at step p with this job and this snapshot.
May(p, j, row) ==
  /\ p \in TaskSteps => j \in TaskJob
  /\ p \in PutSteps => j \in PutJob
  /\ p \in {"reserve", "refund"} => Kind[j.req] = "craft"
  /\ p = "insert" => IF Kind[j.req] = "craft"
                     THEN row \in Snapshot /\ j.mako <= row.mako /\ j.storage <= row.storage
                     ELSE j.mako = 0 /\ j.storage = 0
  /\ p = "delete" => IF Kind[j.req] = "craft" THEN row \in Snapshot ELSE j.mako = 0 /\ j.storage = 0
  /\ p = "put" => ~Conflicts(j.body, row)
Knows(s) == May(pc[s], job[s], seen[s])

Done(r) == task[r] # NoTask /\ task[r].status \in {"Completed", "Claimed"}

\* A task and its history; only crafting tasks hold materials.
Outcome(r) ==
  /\ task[r] # NoTask => created[r] > 0
  /\ created[r] = cancelled[r] + (IF task[r] = NoTask THEN 0 ELSE 1)
  /\ completed[r] = IF Done(r) THEN 1 ELSE 0
  /\ task[r] # NoTask /\ Kind[r] # "craft" => task[r].mako = 0 /\ task[r].storage = 0

Rows == /\ snap \in Snapshot \union {NoSnap}
        /\ puts \in SUBSET Nat
        /\ task \in [Requests -> Task \union {NoTask}]
        /\ elapsed \in [Requests -> Nat]
        /\ created \in [Requests -> Nat]
        /\ cancelled \in [Requests -> Nat]
        /\ completed \in [Requests -> Nat]
        /\ held \in Int
SessionTypes == /\ pc \in [Sessions -> {"idle"} \union TaskSteps \union PutSteps]
                /\ job \in [Sessions -> TaskJob \union PutJob \union {Unset}]
                /\ seen \in [Sessions -> Snapshot \union {NoSnap}]
                /\ lock \in Sessions \union {Nobody}
GameType == client \in [ver : Nat, base : Nat, sent : PutBody \union {NoPut},
                        mako : Nat, storage : Nat, gains : Int]

TaskInv ==
  /\ Rows /\ SessionTypes /\ GameType
  /\ \A s \in Sessions : Knows(s)
  /\ \A r \in Requests : Outcome(r)

-------------------------------------------------------------------------------
(* Rows, bodies and jobs *)

\* A snapshot is a row.
LEMMA SnapshotRow ==
  ASSUME NEW v \in Nat, NEW op \in {"put", "craft"}, NEW m \in Nat, NEW t \in Nat, NEW g \in Int
  PROVE  LET row == NewSnapshot(v, op, m, t, g) IN
         /\ row \in Snapshot /\ row # NoSnap
         /\ row.ver = v /\ row.op = op /\ row.mako = m /\ row.storage = t /\ row.gains = g
<1>1. NewSnapshot(v, op, m, t, g) \in Snapshot
  BY DEF NewSnapshot, Snapshot
<1> QED
  BY <1>1, ConstantsAssumption DEF NewSnapshot

\* The fields of a snapshot.
LEMMA SnapshotFields ==
  ASSUME NEW row \in Snapshot
  PROVE  /\ row.ver \in Nat /\ row.op \in {"put", "craft"} /\ row.mako \in Nat /\ row.storage \in Nat
         /\ row.gains \in Int /\ row # NoSnap
BY ConstantsAssumption DEF Snapshot

\* A body is a body.
LEMMA PutRow ==
  ASSUME NEW v \in Nat, NEW b \in Nat, NEW m \in Nat, NEW t \in Nat, NEW g \in Int
  PROVE  LET put == NewPut(v, b, m, t, g) IN
         /\ put \in PutBody /\ put # NoPut
         /\ put.ver = v /\ put.base = b /\ put.mako = m /\ put.storage = t /\ put.gains = g
<1>1. NewPut(v, b, m, t, g) \in PutBody
  BY DEF NewPut, PutBody
<1> QED
  BY <1>1, ConstantsAssumption DEF NewPut

\* The fields of a body.
LEMMA PutFields ==
  ASSUME NEW b \in PutBody
  PROVE  b.ver \in Nat /\ b.base \in Nat /\ b.mako \in Nat /\ b.storage \in Nat /\ b.gains \in Int
BY DEF PutBody

\* A task is a row.
LEMMA TaskRow ==
  ASSUME NEW id \in Nat, NEW st \in {"Pending", "InProgress", "Completed", "Claimed"},
         NEW m \in Nat, NEW t \in Nat, NEW n \in Nat
  PROVE  LET row == NewTask(id, st, m, t, n) IN
         /\ row \in Task /\ row # NoTask
         /\ row.status = st /\ row.mako = m /\ row.storage = t
<1>1. NewTask(id, st, m, t, n) \in Task
  BY DEF NewTask, Task
<1> QED
  BY <1>1, ConstantsAssumption DEF NewTask

\* A task at another status is the same task.
LEMMA TaskStatus ==
  ASSUME NEW row \in Task, NEW st \in {"Pending", "InProgress", "Completed", "Claimed"}
  PROVE  LET next == [row EXCEPT !.status = st] IN
         /\ next \in Task /\ next # NoTask
         /\ next.status = st /\ next.mako = row.mako /\ next.storage = row.storage
<1>1. [row EXCEPT !.status = st] \in Task
  BY DEF Task
<1> QED
  BY <1>1, ConstantsAssumption DEF Task

\* The job of a session that serves a task.
LEMMA TaskJobRow ==
  ASSUME NEW r \in Requests, NEW id \in Nat, NEW m \in Nat, NEW t \in Nat, NEW n \in Nat
  PROVE  LET j == TaskWork(r, id, m, t, n) IN
         j \in TaskJob /\ j.req = r /\ j.mako = m /\ j.storage = t /\ j.id = id /\ j.result = n
<1>1. TaskWork(r, id, m, t, n) \in TaskJob
  BY DEF TaskWork, TaskJob
<1> QED
  BY <1>1 DEF TaskWork

\* The fields of such a job.
LEMMA TaskJobFields ==
  ASSUME NEW j \in TaskJob
  PROVE  j.req \in Requests /\ j.id \in Nat /\ j.mako \in Nat /\ j.storage \in Nat /\ j.result \in Nat
BY DEF TaskJob

\* The job of a session that serves an upload.
LEMMA PutJobRow ==
  ASSUME NEW b \in PutBody, NEW n \in 1..3
  PROVE  LET j == PutWork(b, n) IN j \in PutJob /\ j.body = b /\ j.tries = n
<1>1. PutWork(b, n) \in PutJob
  BY DEF PutWork, PutJob
<1> QED
  BY <1>1 DEF PutWork

\* The client is a client.
LEMMA GameRow ==
  ASSUME NEW v \in Nat, NEW b \in Nat, NEW sent \in PutBody \union {NoPut}, NEW m \in Nat,
         NEW t \in Nat, NEW g \in Int
  PROVE  LET c == Game(v, b, sent, m, t, g) IN
         /\ c \in [ver : Nat, base : Nat, sent : PutBody \union {NoPut}, mako : Nat, storage : Nat,
                   gains : Int]
         /\ c.ver = v /\ c.base = b /\ c.sent = sent /\ c.mako = m /\ c.storage = t /\ c.gains = g
BY DEF Game

-------------------------------------------------------------------------------
(* Sessions *)

\* What a session keeps depends on its own variables only.
LEMMA KnowsOwn ==
  ASSUME NEW s \in Sessions, Knows(s), pc'[s] = pc[s], job'[s] = job[s], seen'[s] = seen[s]
  PROVE  Knows(s)'
BY DEF Knows

\* A session that ends keeps nothing, and the others keep what they had.
LEMMA EndKeeps ==
  ASSUME SessionTypes, \A q \in Sessions : Knows(q), NEW s \in Sessions, EndSession(s)
  PROVE  SessionTypes' /\ \A q \in Sessions : Knows(q)'
<1>1. SessionTypes'
  BY DEF SessionTypes, EndSession
<1>2. Knows(s)'
  BY DEF SessionTypes, EndSession, Knows, May, TaskSteps, PutSteps
<1>3. ASSUME NEW q \in Sessions, q # s PROVE Knows(q)'
  BY <1>3, KnowsOwn DEF SessionTypes, EndSession
<1> QED
  BY <1>1, <1>2, <1>3

\* A session that goes on: the others keep what they had.
LEMMA GoOnKeeps ==
  ASSUME SessionTypes, \A q \in Sessions : Knows(q), NEW s \in Sessions,
         NEW p \in TaskSteps \union PutSteps, NEW j \in TaskJob \union PutJob,
         NEW row \in Snapshot \union {NoSnap}, May(p, j, row),
         pc' = [pc EXCEPT ![s] = p], job' = [job EXCEPT ![s] = j], seen' = [seen EXCEPT ![s] = row],
         lock' \in Sessions \union {Nobody}
  PROVE  SessionTypes' /\ \A q \in Sessions : Knows(q)'
<1>1. SessionTypes'
  BY DEF SessionTypes
<1>2. pc'[s] = p /\ job'[s] = j /\ seen'[s] = row
  BY DEF SessionTypes
<1>3. Knows(s)'
  BY <1>2 DEF Knows
<1>4. ASSUME NEW q \in Sessions, q # s PROVE Knows(q)'
  BY <1>4, KnowsOwn DEF SessionTypes
<1> QED
  BY <1>1, <1>3, <1>4

\* Sessions that rest keep what they had.
LEMMA RestKeeps ==
  ASSUME SessionTypes, \A q \in Sessions : Knows(q), UNCHANGED <<pc, job, seen, lock>>
  PROVE  SessionTypes' /\ \A q \in Sessions : Knows(q)'
BY KnowsOwn DEF SessionTypes

\* Rows that nobody writes keep their types and outcomes.
LEMMA RowsRest ==
  ASSUME Rows, \A r \in Requests : Outcome(r), UNCHANGED <<snap, puts, task, elapsed, history>>
  PROVE  Rows' /\ \A r \in Requests : Outcome(r)'
BY DEF Rows, Outcome, Done, history

\* The game that rests keeps its type.
LEMMA GameRests ==
  ASSUME GameType, UNCHANGED client
  PROVE  GameType'
BY DEF GameType

\* Initially nothing is stored and nobody works.
LEMMA TaskInvInit ==
  ASSUME Init PROVE TaskInv
<1>1. Rows
  BY DEF Init, Rows
<1>2. SessionTypes
  BY DEF Init, SessionTypes
<1>3. GameType
  <2>1. FirstMako \in Nat /\ FirstStorage \in Nat /\ FirstMako + FirstStorage \in Int
    BY ConstantsAssumption
  <2> QED
    BY <2>1, GameRow DEF Init, GameType
<1>4. ASSUME NEW s \in Sessions PROVE Knows(s)
  BY DEF Init, Knows, May, TaskSteps, PutSteps
<1>5. ASSUME NEW r \in Requests PROVE Outcome(r)
  BY DEF Init, Outcome, Done
<1> QED
  BY <1>1, <1>2, <1>3, <1>4, <1>5 DEF TaskInv

-------------------------------------------------------------------------------
(* The steps of a session that serves a task *)

\* A handler begins with a request of its own.
LEMMA BeginKeeps ==
  ASSUME TaskInv, NEW s \in Sessions, NEW r \in Requests,
         BeginCreate(s, r) \/ BeginDelete(s, r) \/ BeginFinalize(s, r)
  PROVE  TaskInv'
<1> USE DEF TaskInv
<1>0. seen' = [seen EXCEPT ![s] = seen[s]] /\ seen[s] \in Snapshot \union {NoSnap}
      /\ lock' \in Sessions \union {Nobody}
  BY DEF SessionTypes, BeginCreate, BeginDelete, BeginFinalize
<1>1. Rows' /\ (\A q \in Requests : Outcome(q)') /\ GameType'
  BY RowsRest, GameRests DEF BeginCreate, BeginDelete, BeginFinalize
<1>2. CASE BeginCreate(s, r)
  <2> DEFINE j == TaskWork(r, created[r] + 1, 0, 0, 0)
             p == IF Kind[r] = "craft" THEN "reserve" ELSE "insert"
  <2>1. j \in TaskJob /\ j.req = r /\ j.mako = 0 /\ j.storage = 0
    BY DEF Rows, TaskWork, TaskJob
  <2>2. pc' = [pc EXCEPT ![s] = p] /\ job' = [job EXCEPT ![s] = j]
    BY <1>2 DEF BeginCreate
  <2>3. p \in TaskSteps /\ p \notin PutSteps /\ May(p, j, seen[s])
    BY <2>1 DEF May, TaskSteps, PutSteps
  <2> HIDE DEF j, p
  <2> QED
    BY <1>0, <1>1, <2>1, <2>2, <2>3, GoOnKeeps
<1>3. CASE BeginDelete(s, r)
  <2> DEFINE j == TaskWork(r, task[r].id, task[r].mako, task[r].storage, 0)
             p == IF Kind[r] = "craft" THEN "refund" ELSE "delete"
  <2>1. task[r] \in Task /\ (Kind[r] # "craft" => task[r].mako = 0 /\ task[r].storage = 0)
    BY <1>3 DEF Rows, BeginDelete, Outcome
  <2>2. j \in TaskJob /\ j.req = r /\ j.mako = task[r].mako /\ j.storage = task[r].storage
    BY <2>1 DEF TaskWork, TaskJob, Task
  <2>3. pc' = [pc EXCEPT ![s] = p] /\ job' = [job EXCEPT ![s] = j]
    BY <1>3 DEF BeginDelete
  <2>4. p \in TaskSteps /\ p \notin PutSteps /\ May(p, j, seen[s])
    BY <2>1, <2>2 DEF May, TaskSteps, PutSteps
  <2> HIDE DEF j, p
  <2> QED
    BY <1>0, <1>1, <2>2, <2>3, <2>4, GoOnKeeps
<1>4. CASE BeginFinalize(s, r)
  <2> DEFINE n == Min2(Quantity[r], elapsed[r])
             j == TaskWork(r, task[r].id, 0, 0, n)
             p == "finalize"
  <2>1. task[r] \in Task /\ n \in Nat
    BY <1>4, ConstantsAssumption DEF Rows, BeginFinalize, Min2
  <2>2. pc' = [pc EXCEPT ![s] = p] /\ job' = [job EXCEPT ![s] = j]
    BY <1>4 DEF BeginFinalize
  <2> HIDE DEF n
  <2>3. j \in TaskJob
    BY <2>1 DEF TaskWork, TaskJob, Task
  <2>4. p \in TaskSteps /\ p \notin PutSteps /\ May(p, j, seen[s])
    BY <2>3 DEF May, TaskSteps, PutSteps
  <2> HIDE DEF j, p
  <2> QED
    BY <1>0, <1>1, <2>2, <2>3, <2>4, GoOnKeeps
<1> QED
  BY <1>2, <1>3, <1>4

\* The step of a session that ends: what it leaves of the rows is enough.
LEMMA EndStep ==
  ASSUME TaskInv, NEW s \in Sessions, EndSession(s), UNCHANGED client,
         Rows', \A r \in Requests : Outcome(r)'
  PROVE  TaskInv'
BY EndKeeps, GameRests DEF TaskInv

\* A request that nobody touches keeps its outcome.
LEMMA OutcomeKept ==
  ASSUME NEW r \in Requests, Outcome(r), task'[r] = task[r], created'[r] = created[r],
         cancelled'[r] = cancelled[r], completed'[r] = completed[r]
  PROVE  Outcome(r)'
BY DEF Outcome, Done

\* A cancelled handler leaves the rows alone.
LEMMA AbortKeeps ==
  ASSUME TaskInv, NEW s \in Sessions, Abort(s)
  PROVE  TaskInv'
BY RowsRest, EndStep DEF TaskInv, Abort

\* A reservation takes no more than the row holds.
LEMMA ReserveKeeps ==
  ASSUME TaskInv, NEW s \in Sessions, Reserve(s)
  PROVE  TaskInv'
<1> USE DEF TaskInv
<1>1. Rows' /\ (\A r \in Requests : Outcome(r)') /\ GameType'
  BY RowsRest, GameRests DEF Reserve
<1>2. CASE EndSession(s)
  BY <1>1, <1>2, EndKeeps
<1>3. CASE ~EndSession(s)
  <2> DEFINE r == job[s].req
             m == Min2(snap.mako, Need(r))
             j == TaskWork(r, job[s].id, m, Need(r) - m, 0)
             p == "insert"
  <2>1. job[s] \in TaskJob /\ Kind[r] = "craft"
    BY DEF Reserve, Knows, May, TaskSteps
  <2>2. /\ snap \in Snapshot /\ Available(snap) >= Need(r)
        /\ LockGameState(s) /\ pc' = [pc EXCEPT ![s] = "insert"]
        /\ job' = [job EXCEPT ![s] = TaskWork(r, @.id, m, Need(r) - m, 0)]
    <3>1. snap # NoSnap => Available(snap) \in Int /\ Need(r) \in Int
      BY <2>1, SnapshotFields, TaskJobFields, ConstantsAssumption DEF Rows, Available, Need
    <3> QED
      BY <1>3, <3>1 DEF Reserve, Rows
  <2>3. snap.mako \in Nat /\ snap.storage \in Nat /\ r \in Requests /\ job[s].id \in Nat
    BY <2>1, <2>2, SnapshotFields, TaskJobFields
  <2>4. Quantity[r] \in Nat
    BY <2>3, ConstantsAssumption
  <2>5. m \in Nat /\ Need(r) - m \in Nat /\ m <= snap.mako /\ Need(r) - m <= snap.storage
    BY <2>2, <2>3, <2>4 DEF Min2, Need, Available
  <2> HIDE DEF m
  <2>6. j \in TaskJob /\ j.req = r /\ j.mako = m /\ j.storage = Need(r) - m
    BY <2>3, <2>5 DEF TaskWork, TaskJob
  <2>7. pc' = [pc EXCEPT ![s] = p] /\ job' = [job EXCEPT ![s] = j]
    BY <2>2 DEF SessionTypes
  <2>8. seen' = [seen EXCEPT ![s] = snap] /\ lock' \in Sessions \union {Nobody}
    BY <2>2 DEF LockGameState, SessionTypes
  <2>9. p \in TaskSteps /\ p \notin PutSteps /\ May(p, j, snap)
    BY <2>1, <2>2, <2>5, <2>6 DEF May, TaskSteps, PutSteps
  <2> HIDE DEF j, p, r
  <2> QED
    BY <1>1, <2>2, <2>6, <2>7, <2>8, <2>9, GoOnKeeps
<1> QED
  BY <1>2, <1>3

\* A server change that the row can pay is a row.
LEMMA ChangeRow ==
  ASSUME NEW row \in Snapshot, NEW dm \in Int, NEW dt \in Int, row.mako + dm \in Nat, row.storage + dt \in Nat
  PROVE  LET next == ServerChange(row, dm, dt) IN
         /\ next \in Snapshot /\ next # NoSnap
         /\ next.ver = row.ver + 1 /\ next.op = "craft" /\ next.gains = row.gains
         /\ next.mako = row.mako + dm /\ next.storage = row.storage + dt
<1>1. row.ver + 1 \in Nat /\ row.gains \in Int
  BY SnapshotFields
<1>2. ServerChange(row, dm, dt) \in Snapshot
  BY <1>1 DEF ServerChange, NewSnapshot, Snapshot
<1> QED
  BY <1>2, ConstantsAssumption DEF ServerChange, NewSnapshot

\* A task is inserted once, with the materials that the row lost.
LEMMA InsertKeeps ==
  ASSUME TaskInv, NEW s \in Sessions, InsertTask(s)
  PROVE  TaskInv'
<1> USE DEF TaskInv
<1> DEFINE j == job[s]
<1>1. EndSession(s) /\ UNCHANGED client
  BY DEF InsertTask
<1>0. j \in TaskJob /\ j.req \in Requests /\ j.mako \in Nat /\ j.storage \in Nat
  BY TaskJobFields DEF InsertTask, Knows, May, TaskSteps
<1>2. PICK r \in Requests : r = j.req /\ j.mako \in Nat /\ j.storage \in Nat /\ j \in TaskJob
  BY <1>0
<1>3. CASE task[r] # NoTask
  <2>1. Rows' /\ (\A q \in Requests : Outcome(q)')
    BY <1>2, <1>3, RowsRest DEF InsertTask, history
  <2> QED
    BY <1>1, <2>1, EndStep
<1>4. CASE task[r] = NoTask
  <2> DEFINE t == NewTask(created[r] + 1, InitialStatus(r), j.mako, j.storage, 0)
  <2>1. t \in Task /\ t # NoTask /\ t.status \in {"Pending", "InProgress"} /\ t.mako = j.mako /\ t.storage = j.storage
    <3>1. t \in Task
      BY <1>2 DEF Rows, NewTask, Task, InitialStatus
    <3> QED
      BY <3>1, ConstantsAssumption DEF NewTask, InitialStatus
  <2>2. /\ task' = [task EXCEPT ![r] = t]
        /\ elapsed' = [elapsed EXCEPT ![r] = 0]
        /\ created' = [created EXCEPT ![r] = @ + 1]
        /\ snap' = IF Kind[r] = "craft" THEN ServerChange(seen[s], -j.mako, -j.storage) ELSE snap
        /\ held' = held + j.mako + j.storage
        /\ UNCHANGED <<puts, cancelled, completed>>
    BY <1>2, <1>4 DEF InsertTask
  <2>3. snap' \in Snapshot \union {NoSnap}
    <3>1. CASE Kind[r] = "craft"
      <4>1. seen[s] \in Snapshot /\ j.mako <= seen[s].mako /\ j.storage <= seen[s].storage
        BY <1>2, <3>1 DEF InsertTask, Knows, May
      <4>2. seen[s].mako \in Nat /\ seen[s].storage \in Nat
        BY <4>1, SnapshotFields
      <4>3. seen[s].mako + (-j.mako) \in Nat /\ seen[s].storage + (-j.storage) \in Nat
            /\ -j.mako \in Int /\ -j.storage \in Int
        BY <1>2, <4>1, <4>2
      <4> QED
        BY <2>2, <3>1, <4>1, <4>3, ChangeRow
    <3> QED
      BY <2>2, <3>1 DEF Rows
  <2>4. Kind[r] # "craft" => t.mako = 0 /\ t.storage = 0
    BY <1>2, <2>1 DEF InsertTask, Knows, May
  <2> HIDE DEF t, j
  <2>5. Rows'
    BY <1>2, <2>1, <2>2, <2>3 DEF Rows
  <2>6. Outcome(r)'
    <3>1. task'[r] = t /\ cancelled'[r] = cancelled[r] /\ completed'[r] = completed[r] /\ created'[r] = created[r] + 1
      BY <1>2, <2>2 DEF Rows
    <3>2. created[r] \in Nat /\ cancelled[r] \in Nat
      BY <1>2 DEF Rows
    <3> QED
      BY <1>2, <1>4, <2>1, <2>4, <3>1, <3>2 DEF Outcome, Done
  <2>7. ASSUME NEW q \in Requests, q # r PROVE Outcome(q)'
    BY <2>2, <2>7, OutcomeKept DEF Rows
  <2>8. \A q \in Requests : Outcome(q)'
    BY <2>6, <2>7
  <2> QED
    BY <1>1, <2>5, <2>8, EndStep
<1> QED
  BY <1>3, <1>4

\* A refund fits and its row is locked where the database can.
LEMMA RefundKeeps ==
  ASSUME TaskInv, NEW s \in Sessions, Refund(s)
  PROVE  TaskInv'
<1> USE DEF TaskInv
<1>1. Rows' /\ (\A r \in Requests : Outcome(r)') /\ GameType'
  BY RowsRest, GameRests DEF Refund
<1>2. CASE EndSession(s)
  BY <1>1, <1>2, EndKeeps
<1>3. CASE ~EndSession(s)
  <2> DEFINE j == job[s]
             p == "delete"
  <2>1. j \in TaskJob /\ Kind[j.req] = "craft"
    BY DEF Refund, Knows, May, TaskSteps
  <2>2. snap \in Snapshot /\ LockGameState(s) /\ pc' = [pc EXCEPT ![s] = p] /\ UNCHANGED job
    BY <1>3 DEF Refund, Rows
  <2>3. job' = [job EXCEPT ![s] = j]
    BY <2>2 DEF SessionTypes
  <2>4. seen' = [seen EXCEPT ![s] = snap] /\ lock' \in Sessions \union {Nobody}
    BY <2>2 DEF LockGameState, SessionTypes
  <2>5. p \in TaskSteps /\ p \notin PutSteps /\ May(p, j, snap)
    BY <2>1, <2>2 DEF May, TaskSteps, PutSteps
  <2> HIDE DEF j, p
  <2> QED
    BY <1>1, <2>1, <2>2, <2>3, <2>4, <2>5, GoOnKeeps
<1> QED
  BY <1>2, <1>3

\* A task is deleted while it may still be cancelled, and its materials go back.
LEMMA DeleteKeeps ==
  ASSUME TaskInv, NEW s \in Sessions, DeleteTask(s)
  PROVE  TaskInv'
<1> USE DEF TaskInv
<1> DEFINE j == job[s]
<1>1. EndSession(s) /\ UNCHANGED client
  BY DEF DeleteTask
<1>0. j \in TaskJob /\ j.req \in Requests /\ j.mako \in Nat /\ j.storage \in Nat
  BY TaskJobFields DEF DeleteTask, Knows, May, TaskSteps
<1>2. PICK r \in Requests : r = j.req /\ j.mako \in Nat /\ j.storage \in Nat /\ j \in TaskJob
  BY <1>0
<1>3. CASE ~StillIn(j, Cancellable)
  <2>1. Rows' /\ (\A q \in Requests : Outcome(q)')
    BY <1>2, <1>3, RowsRest DEF DeleteTask, history
  <2> QED
    BY <1>1, <2>1, EndStep
<1>4. CASE StillIn(j, Cancellable)
  <2>1. /\ task' = [task EXCEPT ![r] = NoTask]
        /\ cancelled' = [cancelled EXCEPT ![r] = @ + 1]
        /\ snap' = IF Kind[r] = "craft" THEN ServerChange(seen[s], j.mako, j.storage) ELSE snap
        /\ held' = held - (j.mako + j.storage)
        /\ UNCHANGED <<puts, elapsed, created, completed>>
    BY <1>2, <1>4 DEF DeleteTask
  <2>2. snap' \in Snapshot \union {NoSnap}
    <3>1. CASE Kind[r] = "craft"
      <4>1. seen[s] \in Snapshot
        BY <1>2, <3>1 DEF DeleteTask, Knows, May
      <4>2. seen[s].mako \in Nat /\ seen[s].storage \in Nat
        BY <4>1, SnapshotFields
      <4>3. seen[s].mako + j.mako \in Nat /\ seen[s].storage + j.storage \in Nat /\ j.mako \in Int /\ j.storage \in Int
        BY <1>2, <4>2
      <4> QED
        BY <2>1, <3>1, <4>1, <4>3, ChangeRow
    <3> QED
      BY <2>1, <3>1 DEF Rows
  <2>3. task[r] # NoTask /\ ~Done(r)
    BY <1>2, <1>4 DEF StillIn, Cancellable, Done
  <2> HIDE DEF j
  <2>7. j.mako + j.storage \in Int
    BY <1>2
  <2> HIDE DEF j
  <2>4. Rows'
    BY <1>2, <2>1, <2>2, <2>7 DEF Rows
  <2>5. Outcome(r)'
    <3>1. task'[r] = NoTask /\ cancelled'[r] = cancelled[r] + 1 /\ completed'[r] = completed[r] /\ created'[r] = created[r]
      BY <1>2, <2>1 DEF Rows
    <3>2. cancelled[r] \in Nat
      BY <1>2 DEF Rows
    <3> QED
      BY <2>3, <3>1, <3>2 DEF Outcome, Done
  <2>6. ASSUME NEW q \in Requests, q # r PROVE Outcome(q)'
    BY <2>1, <2>6, OutcomeKept DEF Rows
  <2>8. \A q \in Requests : Outcome(q)'
    BY <2>5, <2>6
  <2> QED
    BY <1>1, <2>4, <2>8, EndStep
<1> QED
  BY <1>3, <1>4

\* A task that goes to another status, and is done if and only if it is counted.
LEMMA StatusStep ==
  ASSUME Rows, \A q \in Requests : Outcome(q), NEW r \in Requests, NEW t \in Task, t # NoTask,
         task[r] # NoTask, ~Done(r), t.mako = task[r].mako, t.storage = task[r].storage,
         task' = [task EXCEPT ![r] = t],
         t.status = "Completed", completed' = [completed EXCEPT ![r] = @ + 1],
         UNCHANGED <<snap, puts, elapsed, created, cancelled, held>>
  PROVE  Rows' /\ \A q \in Requests : Outcome(q)'
<1>1. Rows'
  BY DEF Rows
<1>2. Outcome(r)'
  BY DEF Rows, Outcome, Done
<1>3. ASSUME NEW q \in Requests, q # r PROVE Outcome(q)'
  BY <1>3, OutcomeKept DEF Rows
<1> QED
  BY <1>1, <1>2, <1>3

\* A task is finished once.
LEMMA FinalizeKeeps ==
  ASSUME TaskInv, NEW s \in Sessions, Finalize(s)
  PROVE  TaskInv'
<1> USE DEF TaskInv
<1> DEFINE j == job[s]
           r == j.req
<1>1. EndSession(s) /\ UNCHANGED client
  BY DEF Finalize
<1>2. j \in TaskJob /\ r \in Requests /\ j.result \in Nat
  BY TaskJobFields DEF Finalize, Knows, May, TaskSteps
<1>3. CASE ~StillIn(j, {"InProgress"})
  <2>1. Rows' /\ (\A q \in Requests : Outcome(q)')
    BY <1>3, RowsRest DEF Finalize, history
  <2> QED
    BY <1>1, <2>1, EndStep
<1>4. CASE StillIn(j, {"InProgress"})
  <2> DEFINE t == NewTask(task[r].id, "Completed", task[r].mako, task[r].storage, j.result)
  <2>1. task[r] \in Task /\ task[r] # NoTask /\ ~Done(r)
    BY <1>2, <1>4 DEF StillIn, Done, Rows
  <2>2. t \in Task /\ t.status = "Completed" /\ t.mako = task[r].mako /\ t.storage = task[r].storage
    BY <1>2, <2>1 DEF NewTask, Task
  <2>3. t # NoTask
    BY <2>2, ConstantsAssumption
  <2>4. /\ task' = [task EXCEPT ![r] = t]
        /\ completed' = [completed EXCEPT ![r] = @ + 1]
        /\ UNCHANGED <<snap, puts, elapsed, created, cancelled, held>>
    BY <1>2, <1>4 DEF Finalize, Rows
  <2> HIDE DEF t, j
  <2>5. Rows' /\ (\A q \in Requests : Outcome(q)')
    BY <1>2, <2>1, <2>2, <2>3, <2>4, StatusStep
  <2> QED
    BY <1>1, <2>5, EndStep
<1> QED
  BY <1>3, <1>4

\* Start, claim and the completion of a task without a quantity.
LEMMA TransitionKeeps ==
  ASSUME TaskInv, NEW r \in Requests, Start(r) \/ Claim(r) \/ CompleteOpen(r)
  PROVE  TaskInv'
<1> USE DEF TaskInv
<1> DEFINE Moves(st) == [task[r] EXCEPT !.status = st]
<1>0. GameType' /\ SessionTypes' /\ \A s \in Sessions : Knows(s)'
  BY RestKeeps, GameRests DEF Start, Claim, CompleteOpen, Transition
<1>1. task[r] \in Task /\ task[r] # NoTask
  BY DEF Start, Claim, CompleteOpen, Transition, Rows
<1>2. CASE Start(r) \/ Claim(r)
  <2>1. PICK st \in {"InProgress", "Claimed"} :
          /\ task' = [task EXCEPT ![r] = Moves(st)]
          /\ Done(r) <=> st = "Claimed"
          /\ UNCHANGED <<snap, puts, elapsed, created, cancelled, completed, held>>
    BY <1>1, <1>2 DEF Start, Claim, Transition, Done
  <2>2. Moves(st) \in Task /\ Moves(st).status = st
        /\ Moves(st).mako = task[r].mako /\ Moves(st).storage = task[r].storage
    BY <1>1 DEF Task
  <2>3. Moves(st) # NoTask
    BY <2>2, ConstantsAssumption
  <2> HIDE DEF Moves
  <2>4. Rows'
    BY <2>1, <2>2 DEF Rows
  <2>5. Outcome(r)'
    BY <1>1, <2>1, <2>2, <2>3 DEF Rows, Outcome, Done
  <2>6. ASSUME NEW q \in Requests, q # r PROVE Outcome(q)'
    BY <2>1, <2>6, OutcomeKept DEF Rows
  <2> QED
    BY <1>0, <2>4, <2>5, <2>6
<1>3. CASE CompleteOpen(r)
  <2> DEFINE t == Moves("Completed")
  <2>1. /\ task' = [task EXCEPT ![r] = t] /\ ~Done(r)
        /\ completed' = [completed EXCEPT ![r] = @ + 1]
        /\ UNCHANGED <<snap, puts, elapsed, created, cancelled, held>>
    BY <1>1, <1>3 DEF CompleteOpen, Transition, Done
  <2>2. t \in Task /\ t.status = "Completed" /\ t.mako = task[r].mako /\ t.storage = task[r].storage
    BY <1>1 DEF Task
  <2>3. t # NoTask
    BY <2>2, ConstantsAssumption
  <2> HIDE DEF t
  <2> QED
    BY <1>0, <1>1, <2>1, <2>2, <2>3, StatusStep
<1> QED
  BY <1>2, <1>3

\* Time passes.
LEMMA TickKeeps ==
  ASSUME TaskInv, NEW r \in Requests, Tick(r)
  PROVE  TaskInv'
<1> USE DEF TaskInv
<1>1. GameType' /\ SessionTypes' /\ \A s \in Sessions : Knows(s)'
  BY RestKeeps, GameRests DEF Tick
<1>2. Rows' /\ \A q \in Requests : Outcome(q)'
  BY DEF Tick, Rows, Outcome, Done, history
<1> QED
  BY <1>1, <1>2

-------------------------------------------------------------------------------
(* The steps of a session that serves an upload, and of the game *)

\* An upload begins with the body that the game sent.
LEMMA BeginPutKeeps ==
  ASSUME TaskInv, NEW s \in Sessions, BeginPut(s)
  PROVE  TaskInv'
<1> USE DEF TaskInv
<1> DEFINE j == PutWork(client.sent, 3)
           p == "latest"
<1>1. Rows' /\ (\A r \in Requests : Outcome(r)') /\ GameType'
  BY RowsRest, GameRests DEF BeginPut
<1>2. j \in PutJob
  <2>1. client.sent \in PutBody
    BY DEF BeginPut, GameType
  <2> QED
    BY <2>1 DEF PutWork, PutJob
<1>3. p \in PutSteps /\ p \notin TaskSteps /\ May(p, j, seen[s])
  BY <1>2 DEF May, TaskSteps, PutSteps
<1>4. pc' = [pc EXCEPT ![s] = p] /\ job' = [job EXCEPT ![s] = j]
      /\ seen' = [seen EXCEPT ![s] = seen[s]] /\ seen[s] \in Snapshot \union {NoSnap}
      /\ lock' \in Sessions \union {Nobody}
  BY DEF BeginPut, SessionTypes
<1> HIDE DEF j, p
<1> QED
  BY <1>1, <1>2, <1>3, <1>4, GoOnKeeps

\* An upload that conflicts with the row ends; another goes on with the row.
LEMMA ReadKeeps ==
  ASSUME TaskInv, NEW s \in Sessions, ReadLatest(s)
  PROVE  TaskInv'
<1> USE DEF TaskInv
<1> DEFINE j == job[s]
           p == "put"
<1>1. Rows' /\ (\A r \in Requests : Outcome(r)') /\ GameType'
  BY RowsRest, GameRests DEF ReadLatest
<1>2. CASE EndSession(s)
  BY <1>1, <1>2, EndKeeps
<1>3. CASE ~EndSession(s)
  <2>1. j \in PutJob
    BY DEF ReadLatest, Knows, May, PutSteps
  <2>2. ~Conflicts(j.body, snap) /\ seen' = [seen EXCEPT ![s] = snap]
        /\ pc' = [pc EXCEPT ![s] = p] /\ UNCHANGED <<job, lock>> /\ snap \in Snapshot \union {NoSnap}
    BY <1>3 DEF ReadLatest, Rows
  <2>3. job' = [job EXCEPT ![s] = j] /\ lock' \in Sessions \union {Nobody}
    BY <2>2 DEF SessionTypes
  <2>4. p \in PutSteps /\ p \notin TaskSteps /\ May(p, j, snap)
    BY <2>1, <2>2 DEF May, TaskSteps, PutSteps
  <2> HIDE DEF j, p
  <2> QED
    BY <1>1, <2>1, <2>2, <2>3, <2>4, GoOnKeeps
<1> QED
  BY <1>2, <1>3

\* An accepted upload is the row.
LEMMA PersistKeeps ==
  ASSUME TaskInv, NEW s \in Sessions, Persist(s)
  PROVE  TaskInv'
<1> USE DEF TaskInv
<1>1. PICK b \in PutBody : b = job[s].body
  BY DEF Persist, Knows, May, PutSteps, PutJob
<1>2. b.ver \in Nat /\ b.mako \in Nat /\ b.storage \in Nat /\ b.gains \in Int
  BY PutFields
<1>3. NewSnapshot(b.ver, "put", b.mako, b.storage, b.gains) \in Snapshot
  BY <1>2 DEF NewSnapshot, Snapshot
<1>4. Rows'
  BY <1>1, <1>2, <1>3 DEF Persist, Rows, history
<1>5. \A r \in Requests : Outcome(r)'
  BY DEF Persist, Outcome, Done, history
<1>6. GameType'
  BY <1>1, <1>2 DEF Persist, GameType
<1>7. EndSession(s)
  BY DEF Persist
<1> QED
  BY <1>4, <1>5, <1>6, <1>7, EndKeeps

\* A lost race ends the upload or reads the row again.
LEMMA RaceKeeps ==
  ASSUME TaskInv, NEW s \in Sessions, PersistRace(s)
  PROVE  TaskInv'
<1> USE DEF TaskInv
<1>1. Rows' /\ (\A r \in Requests : Outcome(r)') /\ GameType'
  BY RowsRest, GameRests DEF PersistRace
<1>2. CASE EndSession(s)
  BY <1>1, <1>2, EndKeeps
<1>3. CASE ~EndSession(s)
  <2> DEFINE j == [job[s] EXCEPT !.tries = job[s].tries - 1]
             p == "latest"
  <2>1. job[s] \in PutJob /\ job[s].tries # 1
    BY <1>3 DEF PersistRace, Knows, May, PutSteps
  <2>2. j \in PutJob
    <3>1. job[s].tries \in 1..3
      BY <2>1 DEF PutJob
    <3>2. job[s].tries - 1 \in 1..3
      BY <2>1, <3>1
    <3> QED
      BY <2>1, <3>2 DEF PutJob
  <2>3. pc' = [pc EXCEPT ![s] = p] /\ job' = [job EXCEPT ![s] = j] /\ seen' = [seen EXCEPT ![s] = NoSnap]
        /\ lock' \in Sessions \union {Nobody}
    BY <1>3 DEF PersistRace, SessionTypes
  <2>4. p \in PutSteps /\ p \notin TaskSteps /\ May(p, j, NoSnap)
    BY <2>2 DEF May, TaskSteps, PutSteps
  <2> HIDE DEF j, p
  <2> QED
    BY <1>1, <2>2, <2>3, <2>4, GoOnKeeps
<1> QED
  BY <1>2, <1>3

\* The game plays, uploads and fetches.
LEMMA GameKeeps ==
  ASSUME TaskInv, ClientPlay \/ ClientSend \/ ClientFetch
  PROVE  TaskInv'
<1> USE DEF TaskInv
<1>1. Rows' /\ (\A r \in Requests : Outcome(r)')
  BY RowsRest DEF ClientPlay, ClientSend, ClientFetch
<1>2. SessionTypes' /\ \A s \in Sessions : Knows(s)'
  BY RestKeeps DEF ClientPlay, ClientSend, ClientFetch
<1>3. client.ver \in Nat /\ client.base \in Nat /\ client.sent \in PutBody \union {NoPut}
      /\ client.mako \in Nat /\ client.storage \in Nat /\ client.gains \in Int
  BY DEF GameType
<1>4. CASE ClientPlay
  <2>1. PICK d \in {-1, 1} :
          /\ client.mako + d \in 0..MakoRoom
          /\ client' = Game(client.ver, client.base, client.sent, client.mako + d, client.storage,
                            client.gains + d)
    BY <1>4 DEF ClientPlay
  <2>2. client.mako + d \in Nat /\ client.gains + d \in Int
    BY <1>3, <2>1, ConstantsAssumption
  <2>3. GameType'
    BY <1>3, <2>1, <2>2 DEF GameType, Game
  <2> QED
    BY <1>1, <1>2, <2>3
<1>5. CASE ClientSend
  <2>1. NewPut(client.ver + 1, client.base, client.mako, client.storage, client.gains) \in PutBody
    BY <1>3 DEF NewPut, PutBody
  <2>2. GameType'
    BY <1>3, <1>5, <2>1 DEF ClientSend, GameType, Game
  <2> QED
    BY <1>1, <1>2, <2>2
<1>6. CASE ClientFetch
  <2>1. snap \in Snapshot
    BY <1>6 DEF ClientFetch, Rows
  <2>2. snap.ver \in Nat /\ snap.mako \in Nat /\ snap.storage \in Nat /\ snap.gains \in Int
    BY <2>1, SnapshotFields
  <2>3. GameType'
    BY <1>3, <1>6, <2>2 DEF ClientFetch, GameType, Game
  <2> QED
    BY <1>1, <1>2, <2>3
<1> QED
  BY <1>4, <1>5, <1>6

\* Every step keeps the invariant.
LEMMA TaskInvNext ==
  ASSUME TaskInv, [Next]_vars PROVE TaskInv'
<1>1. CASE UNCHANGED vars
  <2>1. UNCHANGED <<snap, puts, task, elapsed, history>> /\ UNCHANGED <<pc, job, seen, lock>> /\ UNCHANGED client
    BY <1>1 DEF vars, history
  <2> QED
    BY <2>1, RowsRest, RestKeeps, GameRests DEF TaskInv
<1>2. ASSUME NEW s \in Sessions, NEW r \in Requests, BeginCreate(s, r) \/ BeginDelete(s, r) \/ BeginFinalize(s, r)
      PROVE  TaskInv'
  BY <1>2, BeginKeeps
<1>3. ASSUME NEW s \in Sessions, Reserve(s) \/ InsertTask(s) \/ Refund(s) \/ DeleteTask(s) \/ Finalize(s)
      PROVE  TaskInv'
  BY <1>3, ReserveKeeps, InsertKeeps, RefundKeeps, DeleteKeeps, FinalizeKeeps
<1>4. ASSUME NEW s \in Sessions, BeginPut(s) \/ ReadLatest(s) \/ Persist(s) \/ PersistRace(s) \/ Abort(s)
      PROVE  TaskInv'
  BY <1>4, BeginPutKeeps, ReadKeeps, PersistKeeps, RaceKeeps, AbortKeeps
<1>5. ASSUME NEW r \in Requests, Start(r) \/ CompleteOpen(r) \/ Claim(r) \/ Tick(r)
      PROVE  TaskInv'
  BY <1>5, TransitionKeeps, TickKeeps
<1>6. CASE ClientPlay \/ ClientSend \/ ClientFetch
  BY <1>6, GameKeeps
<1> QED
  BY <1>1, <1>2, <1>3, <1>4, <1>5, <1>6 DEF Next

\* The invariant holds in every run.
LEMMA TaskInvAlways == Spec => []TaskInv
<1>1. Init => TaskInv
  BY TaskInvInit
<1>2. TaskInv /\ [Next]_vars => TaskInv'
  BY TaskInvNext
<1> QED
  BY <1>1, <1>2, PTL DEF Spec

\* On any database, rows, bodies and what sessions keep have their types.
THEOREM TasksTypeCorrect == Spec => []TypeOK
<1> DEFINE Known == database \in {"locking", "sqlite"}
<1>1. Init => Known
  BY DEF Init
<1>2. Known /\ [Next]_vars => Known'
  BY DEF Next, vars
<1>3. TaskInv /\ Known => TypeOK
  BY DEF TaskInv, Rows, SessionTypes, GameType, TypeOK, TaskSteps, PutSteps
<1> QED
  BY <1>1, <1>2, <1>3, TaskInvAlways, PTL DEF Spec

\* On any database, a task that was inserted is live, cancelled or completed, and
\* only one of them, whatever sessions do between the reads and the conditional
\* writes of delete() and _finalize_in_progress().
THEOREM TasksHaveOneOutcome == Spec => []OneOutcome
<1>1. TaskInv => OneOutcome
  BY SMTT(30) DEF TaskInv, Outcome, Done, OneOutcome
<1> QED
  BY <1>1, TaskInvAlways, PTL

\* Only an accepted upload writes an operation, and over the row it was checked with.
LEMMA PutStep ==
  ASSUME TaskInv, Next, puts' # puts
  PROVE  \E s \in Sessions : Persist(s)
BY DEF Next, Abort, BeginCreate, BeginDelete, BeginFinalize, Reserve, InsertTask, Refund, DeleteTask,
       Finalize, BeginPut, ReadLatest, PersistRace, Start, CompleteOpen, Claim, Transition, Tick,
       ClientPlay, ClientSend, ClientFetch

\* On any database, an accepted upload replaces an older snapshot only.
THEOREM UploadsNeverRewind == Spec => PutNeverRewinds
<1>1. TaskInv /\ [Next]_vars => [puts' # puts /\ snap # NoSnap => snap'.ver > snap.ver]_vars
  <2> SUFFICES ASSUME TaskInv, [Next]_vars, puts' # puts, snap # NoSnap
               PROVE  snap'.ver > snap.ver
    OBVIOUS
  <2>1. PICK s \in Sessions : Persist(s)
    BY PutStep DEF vars
  <2>2. PICK b \in PutBody : b = job[s].body /\ ~Conflicts(b, seen[s])
    BY <2>1 DEF Persist, TaskInv, Knows, May, PutSteps, PutJob
  <2>3. seen[s] # NoSnap /\ snap.ver = seen[s].ver
    BY <2>1 DEF Persist, Unraced
  <2>4. ~(b.ver <= snap.ver)
    BY <2>2, <2>3 DEF Conflicts
  <2>5. snap'.ver = b.ver
    BY <2>1, <2>2 DEF Persist, NewSnapshot
  <2>6. b.ver \in Nat /\ snap.ver \in Nat
    BY PutFields, SnapshotFields DEF TaskInv, Rows
  <2> QED
    BY <2>4, <2>5, <2>6
<1> QED
  BY <1>1, TaskInvAlways, PTL DEF Spec, PutNeverRewinds

-------------------------------------------------------------------------------
(* Part 2: a database that honours SELECT ... FOR UPDATE *)

\* The bodies of uploads that may still be accepted: the last one the game sent
\* and those that sessions serve.
Bodies == {b \in PutBody : \/ b = client.sent
                           \/ \E s \in Sessions : pc[s] \in PutSteps /\ b = job[s].body}

\* What an inventory holds with the reservations is what the player contributed.
Balanced(x) == x.mako + x.storage + held = x.gains

\* A session between its reservation or refund and its commit has the row to itself.
Holds(s) == pc[s] \in {"insert", "delete"} /\ Kind[job[s].req] = "craft" => lock = s /\ seen[s] = snap

\* A row a session has read is the row of that version.
ReadOnce(s) == seen[s] # NoSnap => /\ snap # NoSnap
                                   /\ seen[s].ver <= snap.ver
                                   /\ seen[s].ver = snap.ver => seen[s] = snap

\* Uploads are numbered, and the later knows no less of the server.
Numbered ==
  /\ \A b \in Bodies : b.ver <= client.ver /\ b.base <= client.base
  /\ \A b, c \in Bodies : b.ver < c.ver => b.base <= c.base
  /\ IF snap = NoSnap THEN client.base = 0 ELSE client.base <= snap.ver

\* Whatever may be stored next is balanced: all of it while nothing is stored, what
\* knows the row after a server change, and what is later than the row after an upload.
Acceptable ==
  /\ snap = NoSnap => Balanced(client) /\ \A b \in Bodies : Balanced(b)
  /\ snap # NoSnap => Balanced(snap)
  /\ snap # NoSnap /\ snap.op = "craft" =>
       /\ client.base = snap.ver => Balanced(client)
       /\ \A b \in Bodies : b.base = snap.ver => Balanced(b)
  /\ snap # NoSnap /\ snap.op = "put" =>
       /\ Balanced(client)
       /\ \A b \in Bodies : b.ver > snap.ver => Balanced(b)

LockInv ==
  /\ TaskInv
  /\ \A s \in Sessions : Holds(s) /\ ReadOnce(s)
  /\ Numbered /\ Acceptable

\* What is served was sent: no step but the game's own adds a body.
LEMMA BodiesOnlySent ==
  ASSUME client'.sent = client.sent,
         \A s \in Sessions : pc'[s] \in PutSteps =>
           \/ pc[s] \in PutSteps /\ job'[s].body = job[s].body
           \/ job'[s].body = client.sent
  PROVE  Bodies' \subseteq Bodies
BY DEF Bodies

\* A session that ends adds none.
LEMMA EndBodies ==
  ASSUME SessionTypes, NEW s \in Sessions, EndSession(s), client'.sent = client.sent
  PROVE  Bodies' \subseteq Bodies
<1>1. ASSUME NEW q \in Sessions, pc'[q] \in PutSteps
      PROVE  pc[q] \in PutSteps /\ job'[q].body = job[q].body
  BY <1>1 DEF EndSession, SessionTypes, PutSteps
<1> QED
  BY <1>1, BodiesOnlySent

\* Where neither the row, the game nor the reservations change, what may be
\* stored next does not.
LEMMA QuietStep ==
  ASSUME Numbered, Acceptable, Bodies' \subseteq Bodies, UNCHANGED <<snap, held, client>>
  PROVE  Numbered' /\ Acceptable'
<1>1. Numbered'
  BY DEF Numbered
<1>2. Acceptable'
  BY DEF Acceptable, Balanced
<1> QED
  BY <1>1, <1>2

\* Where the row does not change, one session's step leaves the others theirs.
LEMMA OneMoves ==
  ASSUME LockInv, NEW s \in Sessions, snap' = snap, Holds(s)', ReadOnce(s)',
         \A q \in Sessions : q # s => /\ pc'[q] = pc[q] /\ job'[q] = job[q] /\ seen'[q] = seen[q]
                                      /\ lock = q => lock' = q
  PROVE  \A q \in Sessions : Holds(q)' /\ ReadOnce(q)'
BY DEF LockInv, Holds, ReadOnce

\* A session that ends holds nothing.
LEMMA EndLock ==
  ASSUME LockInv, NEW s \in Sessions, EndSession(s), snap' = snap
  PROVE  \A q \in Sessions : Holds(q)' /\ ReadOnce(q)'
<1> USE DEF LockInv, TaskInv
<1>1. pc'[s] = "idle" /\ seen'[s] = NoSnap
  BY DEF EndSession, SessionTypes
<1>2. Holds(s)' /\ ReadOnce(s)'
  BY <1>1 DEF Holds, ReadOnce
<1>3. \A q \in Sessions : q # s => /\ pc'[q] = pc[q] /\ job'[q] = job[q] /\ seen'[q] = seen[q]
                                   /\ lock = q => lock' = q
  BY DEF EndSession, SessionTypes
<1> HIDE DEF LockInv, TaskInv
<1> QED
  BY <1>2, <1>3, OneMoves

\* A session that ends and changes nothing else.
LEMMA EndQuietly ==
  ASSUME LockInv, NEW s \in Sessions, EndSession(s), UNCHANGED <<snap, held, client>>
  PROVE  /\ \A q \in Sessions : Holds(q)' /\ ReadOnce(q)'
         /\ Numbered' /\ Acceptable'
<1>1. Bodies' \subseteq Bodies
  BY EndBodies DEF LockInv, TaskInv
<1>2. \A q \in Sessions : Holds(q)' /\ ReadOnce(q)'
  BY EndLock
<1>3. Numbered' /\ Acceptable'
  BY <1>1, QuietStep DEF LockInv
<1> QED
  BY <1>2, <1>3

\* A writer that ends with a later row: nobody else held it, and what others have
\* read is older.
LEMMA WriterEnds ==
  ASSUME LockInv, TaskInv', NEW s \in Sessions, EndSession(s), lock \in {Nobody, s},
         snap' # NoSnap, snap # NoSnap => snap'.ver > snap.ver
  PROVE  \A q \in Sessions : Holds(q)' /\ ReadOnce(q)'
<1> USE DEF LockInv, TaskInv
<1>1. Holds(s)' /\ ReadOnce(s)'
  BY DEF EndSession, SessionTypes, Holds, ReadOnce
<1>2. ASSUME NEW q \in Sessions, q # s PROVE Holds(q)' /\ ReadOnce(q)'
  <2>1. pc'[q] = pc[q] /\ job'[q] = job[q] /\ seen'[q] = seen[q] /\ lock # q
    BY <1>2, ConstantsAssumption DEF EndSession, SessionTypes
  <2>2. Holds(q)'
    BY <2>1 DEF Holds
  <2>3. seen[q] # NoSnap => snap # NoSnap /\ seen[q].ver \in Nat /\ snap.ver \in Nat /\ snap'.ver \in Nat
                            /\ seen[q].ver <= snap.ver
    BY SnapshotFields DEF ReadOnce, SessionTypes, Rows
  <2>4. ReadOnce(q)'
    BY <2>1, <2>3 DEF ReadOnce
  <2> QED
    BY <2>2, <2>4
<1> QED
  BY <1>1, <1>2

\* A reservation or a refund moves material between the row and the reservations.
LEMMA ServerStep ==
  ASSUME LockInv, TaskInv', Bodies' \subseteq Bodies, client' = client, NEW n \in Int,
         snap # NoSnap, snap' # NoSnap, snap'.ver = snap.ver + 1, snap'.op = "craft",
         snap'.gains = snap.gains, snap'.mako + snap'.storage = snap.mako + snap.storage - n,
         held' = held + n
  PROVE  Numbered' /\ Acceptable'
<1> USE DEF LockInv, TaskInv
<1>1. snap \in Snapshot /\ snap.ver \in Nat /\ snap.mako \in Nat /\ snap.storage \in Nat /\ snap.gains \in Int
      /\ snap' \in Snapshot /\ held \in Int
  BY SnapshotFields DEF Rows
<1>2. snap'.mako \in Nat /\ snap'.storage \in Nat
  BY <1>1, SnapshotFields
<1>3. client.base \in Nat /\ client.base <= snap.ver
  BY DEF GameType, Numbered
<1>4. ASSUME NEW b \in Bodies PROVE b.base \in Nat /\ b.base <= client.base
  BY PutFields DEF Bodies, Numbered
<1>5. Numbered'
  BY <1>1, <1>3 DEF Numbered
<1>6. Balanced(snap)'
  BY <1>1, <1>2 DEF Acceptable, Balanced
<1>7. client'.base # snap'.ver
  BY <1>1, <1>3
<1>8. ASSUME NEW b \in Bodies PROVE b.base # snap'.ver
  BY <1>1, <1>3, <1>4
<1>9. Acceptable'
  BY <1>6, <1>7, <1>8 DEF Acceptable
<1> QED
  BY <1>5, <1>9

\* Initially nothing is stored and the game's inventory is the player's.
LEMMA LockInvInit ==
  ASSUME Init PROVE LockInv
<1>1. TaskInv
  BY TaskInvInit
<1>2. client = Game(0, 0, NoPut, FirstMako, FirstStorage, FirstMako + FirstStorage)
      /\ client.base = 0 /\ client.sent = NoPut
  BY DEF Init, Game
<1>3. Bodies = {}
  BY <1>2, ConstantsAssumption DEF Init, Bodies, PutSteps
<1>4. Balanced(client)
  <2>1. FirstMako \in Nat /\ FirstStorage \in Nat
    BY ConstantsAssumption
  <2> QED
    BY <2>1, <1>2 DEF Init, Balanced, Game
<1>5. Numbered /\ Acceptable
  BY <1>2, <1>3, <1>4 DEF Init, Numbered, Acceptable
<1>6. \A s \in Sessions : Holds(s) /\ ReadOnce(s)
  BY DEF Init, Holds, ReadOnce
<1> QED
  BY <1>1, <1>5, <1>6 DEF LockInv

\* A handler begins, and holds no row yet.
LEMMA BeginLocks ==
  ASSUME LockInv, TaskInv', NEW s \in Sessions, NEW r \in Requests,
         BeginCreate(s, r) \/ BeginDelete(s, r) \/ BeginFinalize(s, r)
  PROVE  LockInv'
<1> USE DEF LockInv, TaskInv
<1>0. UNCHANGED <<snap, held, client, seen, lock>>
  BY DEF BeginCreate, BeginDelete, BeginFinalize, history
<1>1. /\ pc'[s] \notin PutSteps
      /\ pc'[s] \in {"insert", "delete"} => Kind[job'[s].req] # "craft"
      /\ \A q \in Sessions : q # s => pc'[q] = pc[q] /\ job'[q] = job[q]
  <2>1. CASE BeginCreate(s, r)
    BY <2>1 DEF BeginCreate, SessionTypes, PutSteps, TaskWork
  <2>2. CASE BeginDelete(s, r)
    BY <2>2 DEF BeginDelete, SessionTypes, PutSteps, TaskWork
  <2>3. CASE BeginFinalize(s, r)
    BY <2>3 DEF BeginFinalize, SessionTypes, PutSteps, TaskWork
  <2> QED
    BY <2>1, <2>2, <2>3
<1>2. Holds(s)' /\ ReadOnce(s)'
  BY <1>0, <1>1 DEF Holds, ReadOnce
<1>3. \A q \in Sessions : Holds(q)' /\ ReadOnce(q)'
  BY <1>0, <1>1, <1>2, OneMoves
<1>4. Bodies' \subseteq Bodies
  BY <1>0, <1>1, BodiesOnlySent
<1>5. Numbered' /\ Acceptable'
  BY <1>0, <1>4, QuietStep
<1> QED
  BY <1>3, <1>5

\* A session that goes on after reading the row under its lock has that row.
LEMMA LockRead ==
  ASSUME LockInv, ForUpdateLocks, NEW s \in Sessions, LockGameState(s), snap \in Snapshot,
         pc'[s] \in {"insert", "delete"},
         \A q \in Sessions : q # s => pc'[q] = pc[q] /\ job'[q] = job[q],
         UNCHANGED <<snap, held, client>>
  PROVE  /\ \A q \in Sessions : Holds(q)' /\ ReadOnce(q)'
         /\ Numbered' /\ Acceptable'
<1>1. seen'[s] = snap /\ lock' = s /\ lock \in {Nobody, s}
      /\ \A q \in Sessions : q # s => seen'[q] = seen[q]
  BY DEF LockGameState, LockIsFree, LockInv, TaskInv, SessionTypes
<1>2. Holds(s)'
  BY <1>1 DEF Holds
<1>3. ReadOnce(s)'
  BY <1>1, SnapshotFields DEF ReadOnce
<1>4. \A q \in Sessions : q # s => lock # q
  BY <1>1, ConstantsAssumption
<1>5. \A q \in Sessions : Holds(q)' /\ ReadOnce(q)'
  BY <1>1, <1>2, <1>3, <1>4, OneMoves
<1>6. Bodies' \subseteq Bodies
  BY BodiesOnlySent DEF PutSteps
<1> QED
  BY <1>5, <1>6, QuietStep DEF LockInv

\* A reservation waits for the row, and has it until it commits.
LEMMA ReserveLocks ==
  ASSUME LockInv, TaskInv', ForUpdateLocks, NEW s \in Sessions, Reserve(s) \/ Refund(s)
  PROVE  LockInv'
<1>1. UNCHANGED <<snap, held, client>>
  BY DEF Reserve, Refund, history
<1>2. CASE EndSession(s)
  BY <1>1, <1>2, EndQuietly DEF LockInv
<1>3. CASE ~EndSession(s)
  <2>1. LockGameState(s) /\ snap \in Snapshot
    BY <1>3 DEF Reserve, Refund, LockInv, TaskInv, Rows
  <2>2. pc'[s] \in {"insert", "delete"}
        /\ \A q \in Sessions : q # s => pc'[q] = pc[q] /\ job'[q] = job[q]
    BY <1>3 DEF Reserve, Refund, LockInv, TaskInv, SessionTypes
  <2> QED
    BY <1>1, <2>1, <2>2, LockRead DEF LockInv
<1> QED
  BY <1>2, <1>3

\* A commit of a reservation or a refund by the session that has the row.
LEMMA WriterStep ==
  ASSUME LockInv, TaskInv', NEW s \in Sessions, EndSession(s), UNCHANGED client,
         pc[s] \in {"insert", "delete"}, Kind[job[s].req] = "craft",
         NEW dm \in Int, NEW dt \in Int, snap \in Snapshot, snap.mako + dm \in Nat, snap.storage + dt \in Nat,
         snap' = ServerChange(seen[s], dm, dt), held' = held - (dm + dt)
  PROVE  LockInv'
<1>1. lock = s /\ seen[s] = snap
  BY DEF LockInv, Holds
<1>2. /\ snap' # NoSnap /\ snap'.ver = snap.ver + 1 /\ snap'.op = "craft" /\ snap'.gains = snap.gains
      /\ snap'.mako = snap.mako + dm /\ snap'.storage = snap.storage + dt
  BY <1>1, ChangeRow
<1>3. snap.ver \in Nat /\ snap.mako \in Nat /\ snap.storage \in Nat /\ snap # NoSnap
  BY SnapshotFields
<1>4. snap'.ver > snap.ver /\ lock \in {Nobody, s}
  BY <1>1, <1>2, <1>3
<1>5. \A q \in Sessions : Holds(q)' /\ ReadOnce(q)'
  BY <1>2, <1>4, WriterEnds
<1>6. Bodies' \subseteq Bodies
  BY EndBodies DEF LockInv, TaskInv
<1>7. PICK n \in Int : n = -(dm + dt)
  OBVIOUS
<1>8. snap'.mako + snap'.storage = snap.mako + snap.storage - n /\ held' = held + n
  <2>1. held \in Int
    BY DEF LockInv, TaskInv, Rows
  <2> QED
    BY <1>2, <1>3, <1>7, <2>1
<1>9. Numbered' /\ Acceptable'
  BY <1>2, <1>3, <1>6, <1>8, ServerStep
<1> QED
  BY <1>5, <1>9 DEF LockInv

\* A task is inserted with the materials that its reservation saw.
LEMMA InsertLocks ==
  ASSUME LockInv, TaskInv', NEW s \in Sessions, InsertTask(s)
  PROVE  LockInv'
<1> DEFINE j == job[s]
<1>1. EndSession(s) /\ UNCHANGED client /\ pc[s] = "insert"
  BY DEF InsertTask
<1>2. j \in TaskJob /\ j.mako \in Nat /\ j.storage \in Nat /\ Knows(s)
  BY <1>1, TaskJobFields DEF LockInv, TaskInv, Knows, May, TaskSteps
<1>3. held \in Int
  BY DEF LockInv, TaskInv, Rows
<1>4. CASE task[j.req] # NoTask
  <2>1. UNCHANGED <<snap, held, client>>
    BY <1>4 DEF InsertTask
  <2> QED
    BY <1>1, <2>1, EndQuietly DEF LockInv
<1>5. CASE task[j.req] = NoTask /\ Kind[j.req] # "craft"
  <2>1. j.mako = 0 /\ j.storage = 0
    BY <1>1, <1>2, <1>5 DEF Knows, May
  <2>2. held' = held + j.mako + j.storage /\ snap' = snap
    BY <1>5 DEF InsertTask
  <2>3. UNCHANGED <<snap, held, client>>
    BY <1>1, <1>3, <2>1, <2>2
  <2> QED
    BY <1>1, <2>3, EndQuietly DEF LockInv
<1>6. CASE task[j.req] = NoTask /\ Kind[j.req] = "craft"
  <2>1. seen[s] \in Snapshot /\ j.mako <= seen[s].mako /\ j.storage <= seen[s].storage /\ seen[s] = snap
    BY <1>1, <1>2, <1>6 DEF Knows, May, LockInv, Holds
  <2>2. snap.mako \in Nat /\ snap.storage \in Nat
    BY <2>1, SnapshotFields
  <2>3. held' = held + j.mako + j.storage /\ snap' = ServerChange(seen[s], -j.mako, -j.storage)
    BY <1>6 DEF InsertTask
  <2>4. PICK dm \in Int, dt \in Int : dm = -j.mako /\ dt = -j.storage
    BY <1>2
  <2>5. snap.mako + dm \in Nat /\ snap.storage + dt \in Nat /\ held' = held - (dm + dt)
    BY <1>2, <1>3, <2>1, <2>2, <2>3, <2>4
  <2>6. snap' = ServerChange(seen[s], dm, dt) /\ snap \in Snapshot
    BY <2>1, <2>3, <2>4
  <2> QED
    BY <1>1, <1>6, <2>5, <2>6, WriterStep
<1> QED
  BY <1>4, <1>5, <1>6

\* A cancelled task gives back what its refund saw fit.
LEMMA DeleteLocks ==
  ASSUME LockInv, TaskInv', NEW s \in Sessions, DeleteTask(s)
  PROVE  LockInv'
<1> DEFINE j == job[s]
<1>1. EndSession(s) /\ UNCHANGED client /\ pc[s] = "delete"
  BY DEF DeleteTask
<1>2. j \in TaskJob /\ j.mako \in Nat /\ j.storage \in Nat /\ Knows(s)
  BY <1>1, TaskJobFields DEF LockInv, TaskInv, Knows, May, TaskSteps
<1>3. held \in Int
  BY DEF LockInv, TaskInv, Rows
<1>4. CASE ~StillIn(j, Cancellable)
  <2>1. UNCHANGED <<snap, held, client>>
    BY <1>4 DEF DeleteTask
  <2> QED
    BY <1>1, <2>1, EndQuietly DEF LockInv
<1>5. CASE StillIn(j, Cancellable) /\ Kind[j.req] # "craft"
  <2>1. j.mako = 0 /\ j.storage = 0
    BY <1>1, <1>2, <1>5 DEF Knows, May
  <2>2. held' = held - (j.mako + j.storage) /\ snap' = snap
    BY <1>5 DEF DeleteTask
  <2>3. UNCHANGED <<snap, held, client>>
    BY <1>1, <1>3, <2>1, <2>2
  <2> QED
    BY <1>1, <2>3, EndQuietly DEF LockInv
<1>6. CASE StillIn(j, Cancellable) /\ Kind[j.req] = "craft"
  <2>1. seen[s] \in Snapshot /\ seen[s] = snap
    BY <1>1, <1>2, <1>6 DEF Knows, May, LockInv, Holds
  <2>2. snap.mako \in Nat /\ snap.storage \in Nat
    BY <2>1, SnapshotFields
  <2>3. held' = held - (j.mako + j.storage) /\ snap' = ServerChange(seen[s], j.mako, j.storage)
    BY <1>6 DEF DeleteTask
  <2>4. PICK dm \in Int, dt \in Int : dm = j.mako /\ dt = j.storage
    BY <1>2
  <2>5. snap.mako + dm \in Nat /\ snap.storage + dt \in Nat /\ held' = held - (dm + dt)
    BY <1>2, <1>3, <2>2, <2>3, <2>4
  <2>6. snap' = ServerChange(seen[s], dm, dt) /\ snap \in Snapshot
    BY <2>1, <2>3, <2>4
  <2> QED
    BY <1>1, <1>6, <2>5, <2>6, WriterStep
<1> QED
  BY <1>4, <1>5, <1>6

\* A task that is finished leaves the row alone.
LEMMA FinalizeLocks ==
  ASSUME LockInv, TaskInv', NEW s \in Sessions, Finalize(s) \/ Abort(s)
  PROVE  LockInv'
<1>1. EndSession(s) /\ UNCHANGED <<snap, held, client>>
  BY DEF Finalize, Abort, history
<1> QED
  BY <1>1, EndQuietly DEF LockInv

\* An upload that begins, reads the row or reads it again changes nothing.
LEMMA UploadLocks ==
  ASSUME LockInv, TaskInv', NEW s \in Sessions, BeginPut(s) \/ ReadLatest(s) \/ PersistRace(s)
  PROVE  LockInv'
<1>1. UNCHANGED <<snap, held, client>>
  BY DEF BeginPut, ReadLatest, PersistRace, history
<1>2. CASE EndSession(s)
  BY <1>1, <1>2, EndQuietly DEF LockInv
<1>3. CASE ~EndSession(s)
  <2>1. /\ pc'[s] \in PutSteps /\ lock' = lock
        /\ job'[s].body = client.sent \/ (pc[s] \in PutSteps /\ job'[s].body = job[s].body)
        /\ seen'[s] \in {seen[s], snap, NoSnap}
        /\ \A q \in Sessions : q # s => pc'[q] = pc[q] /\ job'[q] = job[q] /\ seen'[q] = seen[q]
    <3>1. CASE BeginPut(s)
      <4>1. PICK j \in {PutWork(client.sent, 3)} : j.body = client.sent
        BY DEF PutWork
      <4>2. pc' = [pc EXCEPT ![s] = "latest"] /\ job' = [job EXCEPT ![s] = j] /\ UNCHANGED <<lock, seen>>
        BY <3>1, <4>1 DEF BeginPut
      <4>3. pc'[s] = "latest" /\ job'[s] = j
            /\ \A q \in Sessions : q # s => pc'[q] = pc[q] /\ job'[q] = job[q]
        BY <4>2 DEF LockInv, TaskInv, SessionTypes
      <4> QED
        BY <4>1, <4>2, <4>3 DEF PutSteps
    <3>2. CASE ReadLatest(s)
      BY <1>3, <3>2 DEF ReadLatest, LockInv, TaskInv, SessionTypes, PutSteps
    <3>3. CASE PersistRace(s)
      <4>1. job[s] \in PutJob
        BY <3>3 DEF PersistRace, LockInv, TaskInv, Knows, May, PutSteps
      <4>2. [job[s] EXCEPT !.tries = job[s].tries - 1].body = job[s].body
        BY <4>1 DEF PutJob
      <4>3. job'[s] = [job[s] EXCEPT !.tries = job[s].tries - 1]
        BY <1>3, <3>3 DEF PersistRace, LockInv, TaskInv, SessionTypes
      <4>4. pc'[s] = "latest" /\ lock' = lock /\ pc[s] = "put" /\ seen'[s] = NoSnap
            /\ \A q \in Sessions : q # s => pc'[q] = pc[q] /\ job'[q] = job[q] /\ seen'[q] = seen[q]
        BY <1>3, <3>3 DEF PersistRace, LockInv, TaskInv, SessionTypes
      <4> QED
        BY <4>2, <4>3, <4>4 DEF PutSteps
    <3> QED
      BY <3>1, <3>2, <3>3
  <2>2. Holds(s)'
    BY <2>1 DEF Holds, PutSteps
  <2>3. ReadOnce(s)'
    BY <1>1, <2>1, SnapshotFields DEF ReadOnce, LockInv, TaskInv, Rows
  <2>4. \A q \in Sessions : Holds(q)' /\ ReadOnce(q)'
    BY <1>1, <2>1, <2>2, <2>3, OneMoves
  <2>5. Bodies' \subseteq Bodies
    BY <1>1, <2>1, BodiesOnlySent
  <2> QED
    BY <1>1, <2>4, <2>5, QuietStep DEF LockInv
<1> QED
  BY <1>2, <1>3

\* What an accepted upload was checked with is the row it replaces.
LEMMA CheckedRow ==
  ASSUME LockInv, NEW s \in Sessions, Persist(s)
  PROVE  \E b \in Bodies :
           /\ b = job[s].body /\ job[s].kind = "put"
           /\ snap # NoSnap => b.ver > snap.ver /\ (snap.op = "craft" => b.base = snap.ver)
           /\ snap' = NewSnapshot(b.ver, "put", b.mako, b.storage, b.gains)
           /\ b.ver \notin puts /\ puts' = puts \union {b.ver}
           /\ (client' = client \/ client' = [client EXCEPT !.base = b.ver])
<1> USE DEF LockInv, TaskInv
<1>1. job[s] \in PutJob /\ pc[s] = "put" /\ ~Conflicts(job[s].body, seen[s])
  BY DEF Persist, Knows, May, PutSteps
<1>2. PICK b \in PutBody : b = job[s].body
  BY <1>1 DEF PutJob
<1>3. b \in Bodies /\ job[s].kind = "put"
  BY <1>1, <1>2 DEF Bodies, PutSteps, PutJob
<1>4. snap # NoSnap => seen[s] = snap
  BY DEF Persist, Unraced, ReadOnce
<1>5. snap # NoSnap => b.ver > snap.ver /\ (snap.op = "craft" => b.base = snap.ver)
  <2>1. snap # NoSnap => snap.ver \in Nat
    BY SnapshotFields DEF Rows
  <2> QED
    BY <1>1, <1>2, <1>4, <2>1, PutFields DEF Conflicts
<1>6. /\ snap' = NewSnapshot(b.ver, "put", b.mako, b.storage, b.gains)
      /\ b.ver \notin puts /\ puts' = puts \union {b.ver}
      /\ (client' = client \/ client' = [client EXCEPT !.base = b.ver])
  BY <1>2 DEF Persist
<1> QED
  BY <1>2, <1>3, <1>5, <1>6

\* An accepted upload is balanced, and so is what may follow it.
LEMMA PersistLocks ==
  ASSUME LockInv, TaskInv', ForUpdateLocks, NEW s \in Sessions, Persist(s)
  PROVE  LockInv'
<1> USE DEF LockInv, TaskInv
<1>1. PICK b \in Bodies :
        /\ snap # NoSnap => b.ver > snap.ver /\ (snap.op = "craft" => b.base = snap.ver)
        /\ snap' = NewSnapshot(b.ver, "put", b.mako, b.storage, b.gains)
        /\ (client' = client \/ client' = [client EXCEPT !.base = b.ver])
  BY CheckedRow
<1>2. b.ver \in Nat /\ b.base \in Nat /\ b.mako \in Nat /\ b.storage \in Nat /\ b.gains \in Int
  BY PutFields DEF Bodies
<1>3. snap' # NoSnap /\ snap'.ver = b.ver /\ snap'.op = "put" /\ snap'.mako = b.mako
      /\ snap'.storage = b.storage /\ snap'.gains = b.gains
  <2>1. NewSnapshot(b.ver, "put", b.mako, b.storage, b.gains) \in Snapshot
    BY <1>2 DEF NewSnapshot, Snapshot
  <2> QED
    BY <1>1, <2>1, ConstantsAssumption DEF NewSnapshot
<1>4. EndSession(s) /\ lock \in {Nobody, s} /\ held' = held
  BY DEF Persist, LockIsFree, SessionTypes, history
<1>5. \A q \in Sessions : Holds(q)' /\ ReadOnce(q)'
  BY <1>1, <1>3, <1>4, WriterEnds
<1>6. /\ client'.sent = client.sent /\ client'.ver = client.ver /\ client'.mako = client.mako
      /\ client'.storage = client.storage /\ client'.gains = client.gains
      /\ (client'.base = client.base \/ client'.base = b.ver)
  BY <1>1 DEF GameType
<1>7. Bodies' \subseteq Bodies
  BY <1>4, <1>6, EndBodies
<1>8. client.base \in Nat /\ client.base <= b.ver
  <2>1. snap # NoSnap => snap.ver \in Nat
    BY SnapshotFields DEF Rows
  <2> QED
    BY <1>1, <1>2, <2>1 DEF Numbered, GameType
<1>9. Numbered'
  <2>1. client.base <= client'.base /\ client'.base <= b.ver
    BY <1>2, <1>6, <1>8
  <2>2. ASSUME NEW c \in Bodies PROVE c.ver <= client'.ver /\ c.base <= client'.base
    <3>1. c.base \in Nat /\ c.base <= client.base /\ c.ver <= client.ver
      BY PutFields DEF Bodies, Numbered
    <3> QED
      BY <1>2, <1>6, <1>8, <2>1, <3>1
  <2> QED
    BY <1>3, <1>7, <2>1, <2>2 DEF Numbered
<1>10. Balanced(b) /\ Balanced(client) /\ \A c \in Bodies : c.ver > b.ver => Balanced(c)
  <2>1. CASE snap = NoSnap
    BY <2>1 DEF Acceptable
  <2>2. CASE snap # NoSnap /\ snap.op = "put"
    <3>1. snap.ver \in Nat
      BY <2>2, SnapshotFields DEF Rows
    <3>2. ASSUME NEW c \in Bodies, c.ver > b.ver PROVE Balanced(c)
      <4>1. c.ver \in Nat
        BY PutFields DEF Bodies
      <4>2. c.ver > snap.ver
        BY <1>1, <1>2, <2>2, <3>1, <3>2, <4>1
      <4> QED
        BY <2>2, <4>2 DEF Acceptable
    <3> QED
      BY <1>1, <2>2, <3>2 DEF Acceptable
  <2>3. CASE snap # NoSnap /\ snap.op = "craft"
    <3>1. snap.ver \in Nat /\ b.base = snap.ver
      BY <1>1, <2>3, SnapshotFields DEF Rows
    <3>2. b.base <= client.base /\ client.base <= snap.ver
      BY <2>3 DEF Numbered
    <3>3. client.base = snap.ver
      BY <1>8, <3>1, <3>2
    <3>4. ASSUME NEW c \in Bodies, c.ver > b.ver PROVE Balanced(c)
      <4>1. c.base \in Nat /\ c.ver \in Nat
        BY PutFields DEF Bodies
      <4>2. b.base <= c.base /\ c.base <= client.base
        BY <1>2, <3>4, <4>1 DEF Numbered
      <4>3. c.base = snap.ver
        BY <3>1, <3>3, <4>1, <4>2
      <4> QED
        BY <2>3, <4>3 DEF Acceptable
    <3> QED
      BY <2>3, <3>1, <3>3, <3>4 DEF Acceptable
  <2> QED
    <3>1. snap # NoSnap => snap.op \in {"put", "craft"}
      BY SnapshotFields DEF Rows
    <3> QED
      BY <2>1, <2>2, <2>3, <3>1
<1>11. Acceptable'
  <2>1. Balanced(snap)' /\ Balanced(client)'
    BY <1>3, <1>4, <1>6, <1>10 DEF Balanced
  <2>2. \A c \in Bodies' : c.ver > snap'.ver => c.mako + c.storage + held' = c.gains
    BY <1>3, <1>4, <1>7, <1>10 DEF Balanced
  <2> QED
    BY <1>3, <2>1, <2>2 DEF Acceptable, Balanced
<1> QED
  BY <1>5, <1>9, <1>11

\* Tasks that move on and time that passes touch no material.
LEMMA RestLocks ==
  ASSUME LockInv, TaskInv', UNCHANGED <<pc, job, seen, lock, snap, held, client>>
  PROVE  LockInv'
<1>1. Bodies' \subseteq Bodies
  BY DEF Bodies
<1>2. \A q \in Sessions : Holds(q)' /\ ReadOnce(q)'
  BY DEF LockInv, Holds, ReadOnce
<1> QED
  BY <1>1, <1>2, QuietStep DEF LockInv

\* The player's contribution is counted when it is made.
LEMMA PlayLocks ==
  ASSUME LockInv, TaskInv', ClientPlay
  PROVE  LockInv'
<1> USE DEF LockInv, TaskInv
<1>1. PICK d \in {-1, 1} :
        client' = Game(client.ver, client.base, client.sent, client.mako + d, client.storage, client.gains + d)
  BY DEF ClientPlay
<1>2. /\ client'.sent = client.sent /\ client'.ver = client.ver /\ client'.base = client.base
      /\ client'.mako = client.mako + d /\ client'.storage = client.storage /\ client'.gains = client.gains + d
  BY <1>1 DEF Game
<1>3. UNCHANGED <<pc, job, seen, lock, snap, held>>
  BY DEF ClientPlay, history
<1>4. \A q \in Sessions : Holds(q)' /\ ReadOnce(q)'
  BY <1>3 DEF Holds, ReadOnce
<1>5. Bodies' \subseteq Bodies
  BY <1>2, <1>3, BodiesOnlySent
<1>6. Numbered'
  BY <1>2, <1>3, <1>5 DEF Numbered
<1>7. Balanced(client) => Balanced(client)'
  <2>1. client.mako \in Nat /\ client.storage \in Nat /\ client.gains \in Int /\ held \in Int
    BY DEF GameType, Rows
  <2> QED
    BY <1>2, <1>3, <2>1 DEF Balanced
<1>8. Acceptable'
  <2>1. \A c \in Bodies' : c \in Bodies /\ (Balanced(c) => c.mako + c.storage + held' = c.gains)
    BY <1>3, <1>5 DEF Balanced
  <2>2. snap # NoSnap => Balanced(snap)'
    BY <1>3 DEF Acceptable, Balanced
  <2> QED
    BY <1>2, <1>3, <1>7, <2>1, <2>2 DEF Acceptable, Balanced
<1> QED
  BY <1>4, <1>6, <1>8

\* What the game sends is numbered after, and knows as much as, all it sent before.
LEMMA SendLocks ==
  ASSUME LockInv, TaskInv', ClientSend
  PROVE  LockInv'
<1> USE DEF LockInv, TaskInv
<1>0. NewPut(client.ver + 1, client.base, client.mako, client.storage, client.gains) \in PutBody
  BY DEF GameType, NewPut, PutBody
<1>1. PICK new \in PutBody : new = NewPut(client.ver + 1, client.base, client.mako, client.storage, client.gains)
  BY <1>0
<1>2. /\ new.ver = client.ver + 1 /\ new.base = client.base /\ new.mako = client.mako
      /\ new.storage = client.storage /\ new.gains = client.gains
  BY <1>1 DEF NewPut
<1>3. client' = Game(client.ver + 1, client.base, new, client.mako, client.storage, client.gains)
      /\ UNCHANGED <<pc, job, seen, lock, snap, held>>
  BY <1>1 DEF ClientSend, history
<1>4. /\ client'.sent = new /\ client'.ver = client.ver + 1 /\ client'.base = client.base
      /\ client'.mako = client.mako /\ client'.storage = client.storage /\ client'.gains = client.gains
  BY <1>3 DEF Game
<1>5. \A q \in Sessions : Holds(q)' /\ ReadOnce(q)'
  BY <1>3 DEF Holds, ReadOnce
<1>6. ASSUME NEW c \in Bodies' PROVE c \in Bodies \/ c = new
  BY <1>3, <1>4, <1>6 DEF Bodies
<1>7. client.ver \in Nat /\ client.base \in Nat
  BY DEF GameType
<1>8. ASSUME NEW c \in Bodies PROVE c.ver \in Nat /\ c.base \in Nat /\ c.ver <= client.ver /\ c.base <= client.base
  BY PutFields DEF Bodies, Numbered
<1>9. Numbered'
  <2>1. ASSUME NEW c \in Bodies' PROVE c.ver <= client'.ver /\ c.base <= client'.base
    BY <1>2, <1>4, <1>6, <1>7, <1>8
  <2>2. ASSUME NEW c \in Bodies', NEW e \in Bodies', c.ver < e.ver PROVE c.base <= e.base
    <3>1. CASE c \in Bodies /\ e \in Bodies
      BY <2>2, <3>1 DEF Numbered
    <3>2. CASE c \in Bodies /\ e = new
      BY <1>2, <1>8, <3>2
    <3>3. CASE c = new /\ e \in Bodies
      BY <1>2, <1>7, <1>8, <2>2, <3>3
    <3>4. CASE c = new /\ e = new
      BY <1>2, <1>7, <2>2, <3>4
    <3> QED
      BY <1>6, <3>1, <3>2, <3>3, <3>4
  <2> QED
    BY <1>3, <1>4, <2>1, <2>2 DEF Numbered
<1>10. (Balanced(client) => Balanced(client)') /\ (Balanced(client) => Balanced(new))
  BY <1>2, <1>3, <1>4 DEF Balanced
<1>11. Acceptable'
  <2>1. \A c \in Bodies' : Balanced(c) => c.mako + c.storage + held' = c.gains
    BY <1>3 DEF Balanced
  <2>2. snap # NoSnap => Balanced(snap)'
    BY <1>3 DEF Acceptable, Balanced
  <2>3. snap = NoSnap => Balanced(client)' /\ \A c \in Bodies' : Balanced(c)
    BY <1>6, <1>10 DEF Acceptable
  <2>4. snap # NoSnap /\ snap.op = "craft" =>
          /\ client'.base = snap.ver => Balanced(client)'
          /\ \A c \in Bodies' : c.base = snap.ver => Balanced(c)
    BY <1>2, <1>4, <1>6, <1>10 DEF Acceptable
  <2>5. snap # NoSnap /\ snap.op = "put" =>
          /\ Balanced(client)'
          /\ \A c \in Bodies' : c.ver > snap.ver => Balanced(c)
    BY <1>6, <1>10 DEF Acceptable
  <2> QED
    BY <1>3, <2>1, <2>2, <2>3, <2>4, <2>5 DEF Acceptable, Balanced
<1> QED
  BY <1>5, <1>9, <1>11

\* What the game fetches is the row.
LEMMA FetchLocks ==
  ASSUME LockInv, TaskInv', ClientFetch
  PROVE  LockInv'
<1> USE DEF LockInv, TaskInv
<1>1. UNCHANGED <<pc, job, seen, lock, snap, held>>
  BY DEF ClientFetch, history
<1>2. snap # NoSnap /\ snap.ver \in Nat
  BY SnapshotFields DEF ClientFetch, Rows
<1>3. /\ client'.ver = IF snap.ver > client.ver THEN snap.ver ELSE client.ver
      /\ client'.base = snap.ver /\ client'.sent = client.sent
      /\ client'.mako = snap.mako /\ client'.storage = snap.storage /\ client'.gains = snap.gains
  BY DEF ClientFetch, Game
<1>4. \A q \in Sessions : Holds(q)' /\ ReadOnce(q)'
  BY <1>1 DEF Holds, ReadOnce
<1>5. Bodies' \subseteq Bodies
  BY <1>1, <1>3 DEF Bodies
<1>6. client.ver \in Nat /\ client.base \in Nat /\ client.base <= snap.ver
  BY <1>2 DEF GameType, Numbered
<1>7. Numbered'
  <2>1. ASSUME NEW c \in Bodies PROVE c.ver <= client'.ver /\ c.base <= client'.base
    <3>1. c.ver \in Nat /\ c.base \in Nat /\ c.ver <= client.ver /\ c.base <= client.base
      BY PutFields DEF Bodies, Numbered
    <3> QED
      BY <1>2, <1>3, <1>6, <3>1
  <2>2. client'.base <= snap'.ver
    BY <1>1, <1>2, <1>3
  <2> QED
    BY <1>1, <1>2, <1>5, <2>1, <2>2 DEF Numbered
<1>8. Balanced(snap)' /\ Balanced(client)'
  BY <1>1, <1>2, <1>3 DEF Acceptable, Balanced
<1>9. Acceptable'
  <2>1. \A c \in Bodies' : c \in Bodies /\ (Balanced(c) => c.mako + c.storage + held' = c.gains)
    BY <1>1, <1>5 DEF Balanced
  <2> QED
    BY <1>1, <1>2, <1>8, <2>1 DEF Acceptable, Balanced
<1> QED
  BY <1>4, <1>7, <1>9

\* Every step keeps the invariant, where row locks exist.
LEMMA LockInvNext ==
  ASSUME LockInv, ForUpdateLocks, [Next]_vars PROVE LockInv'
<1>0. TaskInv'
  BY TaskInvNext DEF LockInv
<1>1. CASE UNCHANGED vars
  BY <1>0, <1>1, RestLocks DEF vars
<1>2. ASSUME NEW s \in Sessions, NEW r \in Requests, BeginCreate(s, r) \/ BeginDelete(s, r) \/ BeginFinalize(s, r)
      PROVE  LockInv'
  BY <1>0, <1>2, BeginLocks
<1>3. ASSUME NEW s \in Sessions, Reserve(s) \/ InsertTask(s) \/ Refund(s) \/ DeleteTask(s) \/ Finalize(s)
      PROVE  LockInv'
  BY <1>0, <1>3, ReserveLocks, InsertLocks, DeleteLocks, FinalizeLocks
<1>4. ASSUME NEW s \in Sessions, BeginPut(s) \/ ReadLatest(s) \/ Persist(s) \/ PersistRace(s) \/ Abort(s)
      PROVE  LockInv'
  BY <1>0, <1>4, UploadLocks, PersistLocks, FinalizeLocks
<1>5. ASSUME NEW r \in Requests, Start(r) \/ CompleteOpen(r) \/ Claim(r) \/ Tick(r)
      PROVE  LockInv'
  <2>1. UNCHANGED <<pc, job, seen, lock, snap, held, client>>
    BY <1>5 DEF Start, CompleteOpen, Claim, Tick, Transition, history
  <2> QED
    BY <1>0, <2>1, RestLocks
<1>6. CASE ClientPlay \/ ClientSend \/ ClientFetch
  BY <1>0, <1>6, PlayLocks, SendLocks, FetchLocks
<1> QED
  BY <1>1, <1>2, <1>3, <1>4, <1>5, <1>6 DEF Next

\* The database stays the one it is.
LEMMA SameDatabase ==
  ASSUME [Next]_vars PROVE ForUpdateLocks' <=> ForUpdateLocks
BY DEF Next, vars, ForUpdateLocks

\* Where row locks exist, the invariant holds in every run.
LEMMA LockInvAlways == Spec => [](ForUpdateLocks => LockInv)
<1>1. Init => (ForUpdateLocks => LockInv)
  BY LockInvInit
<1>2. (ForUpdateLocks => LockInv) /\ [Next]_vars => (ForUpdateLocks => LockInv)'
  BY LockInvNext, SameDatabase
<1> QED
  BY <1>1, <1>2, PTL DEF Spec

\* Where the row lock exists that the code asks for, no material is lost or
\* duplicated by reservations, refunds and uploads that overlap.
LEMMA LocksConserveTotal == Spec => [](ForUpdateLocks => Conservation)
<1>1. LockInv => Conservation
  <2> SUFFICES ASSUME LockInv, snap # NoSnap
               PROVE  snap.mako + snap.storage + held = snap.gains
    BY DEF Conservation
  <2> QED
    BY DEF LockInv, Acceptable, Balanced
<1> QED
  BY <1>1, LockInvAlways, PTL

\* Where it exists, every change of the snapshot has a later version.
THEOREM LocksOrderStateVersions == Spec => LocksOrderVersions
<1>1. (ForUpdateLocks => LockInv) /\ [Next]_vars
        => [ForUpdateLocks /\ snap # NoSnap /\ snap' # snap => snap'.ver > snap.ver]_vars
  <2> SUFFICES ASSUME LockInv, [Next]_vars, snap # NoSnap, snap' # snap
               PROVE  snap'.ver > snap.ver
    OBVIOUS
  <2>1. PICK s \in Sessions : InsertTask(s) \/ DeleteTask(s) \/ Persist(s)
    BY DEF Next, vars, Abort, BeginCreate, BeginDelete, BeginFinalize, Reserve, Refund, Finalize,
           BeginPut, ReadLatest, PersistRace, Start, CompleteOpen, Claim, Transition, Tick,
           ClientPlay, ClientSend, ClientFetch
  <2>2. snap \in Snapshot /\ snap.ver \in Nat
    BY SnapshotFields DEF LockInv, TaskInv, Rows
  <2>3. CASE InsertTask(s) \/ DeleteTask(s)
    <3>1. \E dm, dt : snap' = ServerChange(seen[s], dm, dt)
      BY <2>3 DEF InsertTask, DeleteTask
    <3>2. pc[s] \in {"insert", "delete"} /\ Kind[job[s].req] = "craft"
      BY <2>3 DEF InsertTask, DeleteTask
    <3>3. seen[s] = snap
      BY <3>2 DEF LockInv, Holds
    <3>4. snap'.ver = snap.ver + 1
      BY <3>1, <3>3 DEF ServerChange, NewSnapshot
    <3> QED
      BY <2>2, <3>4
  <2>4. CASE Persist(s)
    <3>1. PICK b \in Bodies : b.ver > snap.ver /\ snap' = NewSnapshot(b.ver, "put", b.mako, b.storage, b.gains)
      BY <2>4, CheckedRow
    <3>2. snap'.ver = b.ver
      BY <3>1 DEF NewSnapshot
    <3> QED
      BY <3>1, <3>2
  <2> QED
    BY <2>1, <2>3, <2>4
<1> QED
  BY <1>1, LockInvAlways, PTL DEF Spec, LocksOrderVersions

\* Where it exists, no upload replaces a reservation or a refund that the game has
\* not fetched.
THEOREM LocksShowServerChanges == Spec => LocksShowServerChange
<1> DEFINE Seen == \E s \in Sessions : job[s].kind = "put" /\ job[s].body.base = snap.ver
                                       /\ job[s].body.ver \in puts' \ puts
<1>1. (ForUpdateLocks => LockInv) /\ [Next]_vars
        => [ForUpdateLocks /\ puts' # puts /\ snap # NoSnap /\ snap.op = "craft" => Seen]_vars
  <2> SUFFICES ASSUME LockInv, [Next]_vars, puts' # puts, snap # NoSnap, snap.op = "craft"
               PROVE  Seen
    OBVIOUS
  <2>1. PICK s \in Sessions : Persist(s)
    BY PutStep DEF LockInv, vars
  <2>2. PICK b \in Bodies : /\ b = job[s].body /\ job[s].kind = "put" /\ b.base = snap.ver
                            /\ b.ver \notin puts /\ puts' = puts \union {b.ver}
    BY <2>1, CheckedRow
  <2> QED
    BY <2>2
<1> QED
  BY <1>1, LockInvAlways, PTL DEF Spec, LocksShowServerChange

-------------------------------------------------------------------------------
(* Part 3: sums over a finite set *)

\* A set of naturals with an element has a smallest one.
LEMMA SmallestNumber ==
  ASSUME NEW T \in SUBSET Nat, T # {}
  PROVE  \E x \in T : \A y \in T : x <= y
<1>1. PICK x \in T : \A y \in T : <<y, x>> \notin OpToRel(<, Nat)
  BY NatLessThanWellFounded, WFMin
<1>2. \A y \in T : ~(y < x)
  BY <1>1 DEF OpToRel
<1> QED
  BY <1>2

\* A set that has 0, and with a number the next, has all of them.
LEMMA Numbers ==
  ASSUME NEW T, 0 \in T, \A n \in Nat : n \in T => n + 1 \in T
  PROVE  \A n \in Nat : n \in T
<1> DEFINE Out == {n \in Nat : n \notin T}
<1> SUFFICES ASSUME Out # {} PROVE FALSE
  OBVIOUS
<1>1. PICK n \in Out : \A m \in Out : n <= m
  <2>1. Out \subseteq Nat
    OBVIOUS
  <2> HIDE DEF Out
  <2> QED BY <2>1, SmallestNumber
<1>2. n \in Nat /\ n # 0
  OBVIOUS
<1>3. n - 1 \in Nat /\ n - 1 \notin Out
  BY <1>1, <1>2
<1> QED
  BY <1>2, <1>3

\* A fold takes a last element off a finite set until none is left.
Foldable(S, D, base, last, step) ==
  /\ IsFiniteSet(S) /\ base \in D
  /\ \A E \in SUBSET S : E # {} => last[E] \in E
  /\ \A x \in S, d \in D : step[x][d] \in D

Unfolds(f, S, base, last, step) ==
  \A E \in SUBSET S : f[E] = IF E = {} THEN base ELSE step[last[E]][f[E \ {last[E]}]]

\* What is defined so exists.
LEMMA FoldExists ==
  ASSUME NEW S, NEW D, NEW base, NEW last, NEW step, Foldable(S, D, base, last, step)
  PROVE  \E f \in [SUBSET S -> D] : Unfolds(f, S, base, last, step)
<1> USE DEF Foldable
<1> DEFINE Rest(E) == E \ {last[E]}
           Value(f, E) == IF E = {} THEN base ELSE step[last[E]][f[Rest(E)]]
           Upto(f, n) == \A E \in SUBSET S : Cardinality(E) <= n => f[E] = Value(f, E)
           Solved(n) == \E f \in [SUBSET S -> D] : Upto(f, n)
<1>1. ASSUME NEW E \in SUBSET S
      PROVE  /\ IsFiniteSet(E) /\ Cardinality(E) \in Nat
             /\ Cardinality(E) = 0 <=> E = {}
  BY FS_Subset, FS_CardinalityType, FS_EmptySet
<1>2. ASSUME NEW E \in SUBSET S, E # {}
      PROVE  Rest(E) \in SUBSET S /\ Cardinality(Rest(E)) = Cardinality(E) - 1
  <2>1. last[E] \in E
    BY <1>2
  <2> QED
    BY <1>1, <2>1, FS_RemoveElement
<1>3. ASSUME NEW f \in [SUBSET S -> D], NEW E \in SUBSET S PROVE Value(f, E) \in D
  <2>1. CASE E = {}
    BY <2>1
  <2>2. CASE E # {}
    BY <2>2, <1>2, SMTT(30)
  <2> QED
    BY <2>1, <2>2
<1>4. ASSUME NEW n \in Nat, Solved(n) PROVE Solved(n + 1)
  <2> PICK f \in [SUBSET S -> D] : Upto(f, n)
    BY <1>4
  <2> DEFINE g == [E \in SUBSET S |-> IF Cardinality(E) <= n THEN f[E] ELSE Value(f, E)]
  <2>1. g \in [SUBSET S -> D]
    BY <1>3
  <2>2. ASSUME NEW E \in SUBSET S, E # {}, Cardinality(E) <= n + 1
        PROVE  g[Rest(E)] = f[Rest(E)]
    <3> HIDE DEF Rest
    <3>1. /\ Cardinality(E) \in Nat
          /\ Rest(E) \in SUBSET S /\ Cardinality(Rest(E)) = Cardinality(E) - 1
      BY <1>1, <1>2, <2>2
    <3>2. Cardinality(Rest(E)) <= n
      BY <2>2, <3>1, SMTT(30)
    <3> QED
      BY <3>1, <3>2
  <2>3. ASSUME NEW E \in SUBSET S, Cardinality(E) <= n + 1 PROVE g[E] = Value(g, E)
    <3>1. Value(g, E) = Value(f, E)
      BY <2>2, <2>3, ZenonT(60)
    <3>2. CASE Cardinality(E) <= n
      BY <3>1, <3>2, ZenonT(60)
    <3>3. CASE ~(Cardinality(E) <= n)
      BY <3>1, <3>3
    <3> QED
      BY <3>2, <3>3, ZenonT(60)
  <2> QED
    BY <2>1, <2>3
<1>5. Solved(0)
  <2> DEFINE g == [E \in SUBSET S |-> base]
  <2>1. ASSUME NEW E \in SUBSET S, Cardinality(E) <= 0 PROVE E = {}
    BY <1>1, <2>1
  <2>2. g \in [SUBSET S -> D] /\ Upto(g, 0)
    BY <2>1
  <2> QED
    BY <2>2
<1>6. ASSUME NEW n \in Nat PROVE Solved(n)
  <2> DEFINE T == {m \in Nat : Solved(m)}
  <2> HIDE DEF Solved
  <2>1. 0 \in T /\ \A m \in Nat : m \in T => m + 1 \in T
    BY <1>4, <1>5
  <2>2. \A m \in Nat : m \in T
    <3> HIDE DEF T
    <3> QED BY <2>1, Numbers
  <2> QED
    BY <2>2
<1>7. PICK f \in [SUBSET S -> D] : Upto(f, Cardinality(S))
  BY <1>1, <1>6
<1>8. ASSUME NEW E \in SUBSET S PROVE Cardinality(E) <= Cardinality(S)
  BY FS_Subset
<1> QED
  BY <1>7, <1>8 DEF Unfolds

\* A property that a set has if it has it without any of its elements is one of
\* all finite sets.
LEMMA FiniteSetsAll ==
  ASSUME NEW S, IsFiniteSet(S), NEW T,
         \A E \in SUBSET S : (\A x \in E : E \ {x} \in T) => E \in T
  PROVE  S \in T
<1> DEFINE N == {n \in Nat : \A E \in SUBSET S : Cardinality(E) = n => E \in T}
<1>1. ASSUME NEW E \in SUBSET S
      PROVE  /\ IsFiniteSet(E) /\ Cardinality(E) \in Nat
             /\ Cardinality(E) = 0 <=> E = {}
             /\ \A x \in E : Cardinality(E \ {x}) = Cardinality(E) - 1
  BY FS_Subset, FS_CardinalityType, FS_EmptySet, FS_RemoveElement
<1>2. 0 \in N
  BY <1>1
<1>3. ASSUME NEW n \in Nat, n \in N PROVE n + 1 \in N
  <2> SUFFICES ASSUME NEW E \in SUBSET S, Cardinality(E) = n + 1, NEW x \in E
               PROVE  E \ {x} \in T
    OBVIOUS
  <2>1. E \ {x} \in SUBSET S /\ Cardinality(E \ {x}) = n
    BY <1>1
  <2> QED
    BY <1>3, <2>1
<1>4. \A n \in Nat : n \in N
  <2> HIDE DEF N
  <2> QED BY <1>2, <1>3, Numbers
<1> QED
  BY <1>1, <1>4

-------------------------------------------------------------------------------
\* The element that the sum takes first, and the sum of a function's values.
One(E) == CHOOSE x \in E : TRUE
Total(f) == FoldFunction(+, 0, f)

\* t[E] is the sum of f's values on E.
AddsUp(t, S, f) ==
  /\ t \in [SUBSET S -> Int] /\ Total(f) = t[S] /\ t[{}] = 0
  /\ \A E \in SUBSET S : E # {} => t[E] = f[One(E)] + t[E \ {One(E)}]

\* An element of a set that has one.
LEMMA OneIsOne == \A E : E # {} => One(E) \in E
BY DEF One

\* The sum of a function's values, element by element.
LEMMA SumUnfolds ==
  ASSUME NEW S, IsFiniteSet(S), NEW f \in [S -> Int]
  PROVE  \E t : AddsUp(t, S, f)
<1> DEFINE D == Int
           zero == 0
           last == [E \in SUBSET S |-> One(E)]
           step == [x \in S |-> [d \in D |-> f[x] + d]]
           Body(t) == [E \in SUBSET S |-> IF E = {} THEN 0
                                          ELSE LET x == CHOOSE x \in E : TRUE IN f[x] + t[E \ {x}]]
           t == CHOOSE u : u = Body(u)
<1>1. ASSUME NEW E \in SUBSET S, E # {} PROVE One(E) \in E /\ One(E) \in S
  BY <1>1, OneIsOne
<1>2. Foldable(S, D, zero, last, step)
  <2>1. \A E \in SUBSET S : E # {} => last[E] \in E
    BY <1>1
  <2>2. zero \in D /\ \A x \in S, d \in D : step[x][d] \in D
    OBVIOUS
  <2> HIDE DEF D, zero, last, step
  <2> QED
    BY <2>1, <2>2 DEF Foldable
<1>3. PICK u \in [SUBSET S -> D] : Unfolds(u, S, zero, last, step)
  <2> HIDE DEF D, zero, last, step
  <2> QED BY <1>2, FoldExists
<1>4. u = Body(u)
  <2>1. ASSUME NEW E \in SUBSET S PROVE u[E] = Body(u)[E]
    <3>1. CASE E = {}
      <4> HIDE DEF last, step
      <4> QED BY <1>3, <3>1 DEF Unfolds
    <3>2. CASE E # {}
      <4>1. One(E) \in S /\ E \ {One(E)} \in SUBSET S /\ last[E] = One(E)
        BY <1>1, <3>2
      <4>2. u[E] = step[last[E]][u[E \ {last[E]}]]
        <5> HIDE DEF last, step
        <5> QED BY <1>3, <3>2 DEF Unfolds
      <4>3. u[E] = f[One(E)] + u[E \ {One(E)}]
        <5> HIDE DEF last
        <5> QED BY <4>1, <4>2
      <4> QED
        BY <3>2, <4>3 DEF One
    <3> QED
      BY <3>1, <3>2
  <2> QED BY <2>1
<1>5. t = Body(t)
  <2> HIDE DEF Body
  <2> QED BY <1>4
<1>6. Total(f) = t[S]
  BY DEF Total, FoldFunction, FoldFunctionOnSet, MapThenFoldSet
<1> HIDE DEF t
<1>7. t[{}] = 0 /\ \A E \in SUBSET S : E # {} => t[E] = f[One(E)] + t[E \ {One(E)}]
  BY <1>5 DEF One
<1>8. ASSUME NEW E \in SUBSET S PROVE t[E] \in Int
  <2> DEFINE T == {F \in SUBSET S : t[F] \in Int}
  <2> HIDE DEF Body
  <2>1. ASSUME NEW F \in SUBSET S, \A x \in F : F \ {x} \in T PROVE F \in T
    <3>1. CASE F = {}
      <4>1. t[F] = 0
        BY <1>7, <3>1
      <4> QED
        BY <4>1
    <3>2. CASE F # {}
      <4>1. One(F) \in F /\ f[One(F)] \in Int /\ t[F \ {One(F)}] \in Int
        BY <1>1, <2>1, <3>2
      <4>2. t[F] = f[One(F)] + t[F \ {One(F)}]
        BY <1>7, <3>2
      <4>3. t[F] \in Int
        BY <4>1, <4>2
      <4> QED
        BY <4>3
    <3> QED
      BY <3>1, <3>2
  <2>2. IsFiniteSet(E) /\ \A F \in SUBSET E : F \in SUBSET S
    BY FS_Subset
  <2>3. E \in T
    <3> HIDE DEF T
    <3> QED BY <2>1, <2>2, FiniteSetsAll
  <2> QED
    BY <2>3
<1>9. t \in [SUBSET S -> Int]
  BY <1>5, <1>8
<1> QED
  BY <1>6, <1>7, <1>9 DEF AddsUp

\* One value that changes changes the sum by as much.
LEMMA TotalChanges ==
  ASSUME NEW S, IsFiniteSet(S), NEW f \in [S -> Int], NEW x \in S, NEW n \in Int,
         NEW g, g = [f EXCEPT ![x] = n]
  PROVE  Total(g) = Total(f) + (n - f[x])
<1>1. g \in [S -> Int] /\ g[x] = n /\ \A y \in S : y # x => g[y] = f[y]
  OBVIOUS
<1>2. PICK t : AddsUp(t, S, f)
  BY SumUnfolds
<1>3. PICK u : AddsUp(u, S, g)
  BY <1>1, SumUnfolds
<1> DEFINE Change(E) == IF x \in E THEN n - f[x] ELSE 0
           T == {E \in SUBSET S : u[E] = t[E] + Change(E)}
<1>4. ASSUME NEW E \in SUBSET S
      PROVE  /\ u[E] \in Int /\ t[E] \in Int /\ t[{}] = 0 /\ u[{}] = 0
             /\ E # {} => /\ u[E] = g[One(E)] + u[E \ {One(E)}]
                          /\ t[E] = f[One(E)] + t[E \ {One(E)}]
  BY <1>2, <1>3 DEF AddsUp
<1>5. ASSUME NEW E \in SUBSET S, \A y \in E : E \ {y} \in T PROVE E \in T
  <2>1. CASE E = {}
    <3>1. u[E] = 0 /\ t[E] = 0 /\ Change(E) = 0
      BY <1>4, <2>1
    <3> HIDE DEF Change
    <3> QED BY <3>1
  <2>2. CASE E # {}
    <3> DEFINE y == One(E)
               F == E \ {y}
    <3>1. y \in E /\ y \in S /\ F \in SUBSET S /\ F \in T
      BY <1>5, <2>2, OneIsOne
    <3>2. u[E] = g[y] + u[F] /\ t[E] = f[y] + t[F]
      BY <1>4, <2>2
    <3>3. u[F] = t[F] + Change(F)
      BY <3>1
    <3>4. u[F] \in Int /\ t[F] \in Int /\ f[y] \in Int /\ f[x] \in Int
      BY <1>4, <3>1
    <3>5. CASE y = x
      <4>1. g[y] = n /\ Change(F) = 0 /\ Change(E) = n - f[x]
        BY <1>1, <3>1, <3>5
      <4> HIDE DEF y, F, Change, T
      <4>2. u[E] = t[E] + Change(E)
        BY <3>2, <3>3, <3>4, <3>5, <4>1
      <4> QED
        BY <4>2 DEF T
    <3>6. CASE y # x
      <4>1. g[y] = f[y]
        BY <1>1, <3>1, <3>6
      <4>2. Change(E) = Change(F) /\ Change(F) \in Int
        BY <3>1, <3>4, <3>6
      <4> HIDE DEF y, F, Change, T
      <4>3. u[E] = t[E] + Change(E)
        BY <3>2, <3>3, <3>4, <4>1, <4>2
      <4> QED
        BY <4>3 DEF T
    <3> QED
      BY <3>5, <3>6
  <2> QED
    BY <2>1, <2>2
<1>6. S \in T
  <2> HIDE DEF T
  <2> QED BY <1>5, FiniteSetsAll
<1>7. Total(g) = u[S] /\ Total(f) = t[S]
  BY <1>2, <1>3 DEF AddsUp
<1> QED
  BY <1>6, <1>7

\* The sum of nothing but zeros.
LEMMA TotalOfZeros ==
  ASSUME NEW S, IsFiniteSet(S), NEW f \in [S -> Int], \A x \in S : f[x] = 0
  PROVE  Total(f) = 0
<1>1. PICK t : AddsUp(t, S, f)
  BY SumUnfolds
<1> DEFINE T == {E \in SUBSET S : t[E] = 0}
<1>3. ASSUME NEW E \in SUBSET S, \A x \in E : E \ {x} \in T PROVE E \in T
  <2>1. CASE E = {}
    BY <1>1, <2>1 DEF AddsUp
  <2>2. CASE E # {}
    <3> DEFINE y == One(E)
    <3>1. y \in S /\ t[E \ {y}] = 0
      BY <1>3, <2>2, OneIsOne
    <3>2. t[E] = f[y] + t[E \ {y}] /\ f[y] = 0
      BY <1>1, <2>2, <3>1 DEF AddsUp
    <3> QED
      BY <3>1, <3>2
  <2> QED
    BY <2>1, <2>2
<1>4. S \in T
  <2> HIDE DEF T
  <2> QED BY <1>3, FiniteSetsAll
<1> QED
  BY <1>1, <1>4 DEF AddsUp

-------------------------------------------------------------------------------
(* Part 4: what live rows record as reserved, on any database *)

\* What a row reserves.
Amount(row) == IF row = NoTask THEN 0 ELSE row.mako + row.storage

\* A row's id counts the rows that its request created.
IdsCount == \A r \in Requests : task[r] # NoTask => task[r].id <= created[r]

\* A session that cancels a row has what the row reserves, if it is still there: a
\* later row of the same request has another id.
ReadRow(s) ==
  pc[s] \in {"refund", "delete"} =>
    LET j == job[s] IN
    /\ j.id <= created[j.req]
    /\ task[j.req] # NoTask /\ task[j.req].id = j.id
         => task[j.req].mako = j.mako /\ task[j.req].storage = j.storage

ReservedInv ==
  TaskInv /\ IdsCount /\ (\A s \in Sessions : ReadRow(s)) /\ HeldIsReserved

\* What is held is the total of the rows' amounts.
LEMMA HeldIs ==
  HeldIsReserved <=> held = Total([r \in Requests |-> Amount(task[r])])
BY DEF HeldIsReserved, Total, Amount

\* The same of the next state.
LEMMA HeldIsNext ==
  HeldIsReserved' <=> (held = Total([r \in Requests |-> Amount(task[r])]))'
BY HeldIs, PTL

\* The amount of a row.
LEMMA AmountType ==
  ASSUME NEW row \in Task \union {NoTask} PROVE Amount(row) \in Int
<1>1. CASE row = NoTask
  BY <1>1 DEF Amount
<1>2. CASE row # NoTask
  <2>1. row.mako \in Nat /\ row.storage \in Nat
    BY <1>2 DEF Task
  <2> QED
    BY <1>2, <2>1 DEF Amount
<1> QED
  BY <1>1, <1>2

\* One row that is written changes what is reserved by the difference.
LEMMA RowWritten ==
  ASSUME IsFiniteSet(Requests), HeldIsReserved, Rows, NEW r \in Requests,
         NEW row \in Task \union {NoTask}, task' = [task EXCEPT ![r] = row],
         held' = held + (Amount(row) - Amount(task[r]))
  PROVE  HeldIsReserved'
<1> DEFINE f == [q \in Requests |-> Amount(task[q])]
           g == [q \in Requests |-> Amount(task'[q])]
           n == Amount(row)
<1>1. f \in [Requests -> Int] /\ n \in Int
  BY AmountType DEF Rows
<1>2. g = [f EXCEPT ![r] = n] /\ f[r] = Amount(task[r])
  BY DEF Rows
<1>3. held = Total(f)
  BY HeldIs
<1> HIDE DEF f, g, n
<1>4. Total(g) = Total(f) + (n - f[r])
  BY <1>1, <1>2, TotalChanges
<1>5. held' = Total(g)
  BY <1>2, <1>3, <1>4 DEF n
<1> QED
  BY <1>5, HeldIsNext DEF g

\* Sessions that cancel are those that did, with the jobs they had.
Quiet ==
  \A q \in Sessions :
    pc'[q] \in {"refund", "delete"} => pc[q] \in {"refund", "delete"} /\ job'[q] = job[q]

\* One row is written: it reserves what it did, or is new, or gone.
LEMMA WrittenKeeps ==
  ASSUME ReservedInv, Rows', Quiet, NEW r \in Requests, NEW row \in Task \union {NoTask},
         task' = [task EXCEPT ![r] = row],
         created' = created \/ created' = [created EXCEPT ![r] = @ + 1],
         row # NoTask =>
           \/ /\ task[r] # NoTask /\ row.id = task[r].id
              /\ row.mako = task[r].mako /\ row.storage = task[r].storage
           \/ created' = [created EXCEPT ![r] = @ + 1] /\ row.id = created[r] + 1
  PROVE  IdsCount' /\ \A s \in Sessions : ReadRow(s)'
<1> USE DEF ReservedInv, TaskInv
<1>1. task'[r] = row /\ \A q \in Requests : q # r => task'[q] = task[q]
  BY DEF Rows
<1>2. \A q \in Requests : created[q] \in Nat /\ created'[q] \in Nat /\ created[q] <= created'[q]
  BY DEF Rows
<1>3. \A q \in Requests : task[q] # NoTask => task[q].id \in Nat
  BY DEF Rows, Task
<1>4. ASSUME NEW q \in Requests, task'[q] # NoTask PROVE task'[q].id <= created'[q]
  <2>1. CASE q # r
    BY <1>1, <1>2, <1>3, <1>4, <2>1 DEF IdsCount
  <2>2. CASE q = r /\ task[r] # NoTask /\ row.id = task[r].id
    BY <1>1, <1>2, <1>3, <2>2 DEF IdsCount
  <2>3. CASE q = r /\ created' = [created EXCEPT ![r] = @ + 1] /\ row.id = created[r] + 1
    <3>1. created'[r] = created[r] + 1
      BY <2>3 DEF Rows
    <3> QED
      BY <1>1, <1>2, <2>3, <3>1
  <2> QED
    BY <1>1, <1>4, <2>1, <2>2, <2>3
<1>5. ASSUME NEW s \in Sessions, pc'[s] \in {"refund", "delete"}
      PROVE  ReadRow(s)'
  <2>1. PICK j \in TaskJob : j = job[s] /\ j = job'[s]
    BY <1>5 DEF Quiet, Knows, May, TaskSteps
  <2>2. PICK q \in Requests : q = j.req /\ j.id \in Nat
    BY TaskJobFields
  <2>3. /\ j.id <= created[q]
        /\ task[q] # NoTask /\ task[q].id = j.id => task[q].mako = j.mako /\ task[q].storage = j.storage
    BY <1>5, <2>1, <2>2 DEF Quiet, ReadRow
  <2>4. j.id <= created'[q]
    BY <1>2, <2>2, <2>3
  <2>5. ASSUME task'[q] # NoTask, task'[q].id = j.id
        PROVE  task'[q].mako = j.mako /\ task'[q].storage = j.storage
    <3>1. CASE q # r
      BY <1>1, <2>3, <2>5, <3>1
    <3>2. CASE q = r /\ row.id = created[r] + 1
      BY <1>1, <1>2, <2>2, <2>3, <2>5, <3>2
    <3>3. CASE /\ q = r /\ task[r] # NoTask /\ row.id = task[r].id
               /\ row.mako = task[r].mako /\ row.storage = task[r].storage
      BY <1>1, <2>3, <2>5, <3>3
    <3> QED
      BY <1>1, <2>5, <3>1, <3>2, <3>3
  <2> QED
    BY <2>1, <2>2, <2>4, <2>5 DEF ReadRow
<1> QED
  BY <1>4, <1>5 DEF IdsCount, ReadRow

\* No row is written and nobody begins to cancel.
LEMMA UnwrittenKeeps ==
  ASSUME ReservedInv, TaskInv', Quiet, UNCHANGED <<task, created, held>>
  PROVE  ReservedInv'
<1>1. HeldIsReserved'
  BY HeldIs, HeldIsNext DEF ReservedInv
<1>2. IdsCount' /\ \A s \in Sessions : ReadRow(s)'
  BY DEF ReservedInv, IdsCount, ReadRow, Quiet
<1> QED
  BY <1>1, <1>2 DEF ReservedInv

\* A session that ends does not begin to cancel.
LEMMA EndQuiet ==
  ASSUME SessionTypes, NEW s \in Sessions, EndSession(s)
  PROVE  Quiet
BY DEF SessionTypes, EndSession, Quiet

\* The steps that leave the tasks alone.
LEMMA OthersReserved ==
  ASSUME ReservedInv, TaskInv', NEW s \in Sessions,
         \/ \E r \in Requests : BeginCreate(s, r) \/ BeginFinalize(s, r)
         \/ Reserve(s) \/ Refund(s)
         \/ BeginPut(s) \/ ReadLatest(s) \/ Persist(s) \/ PersistRace(s) \/ Abort(s)
  PROVE  ReservedInv'
<1>1. SessionTypes
  BY DEF ReservedInv, TaskInv
<1>2. UNCHANGED <<task, created, held>>
  BY DEF BeginCreate, BeginFinalize, Reserve, Refund, BeginPut, ReadLatest, Persist, PersistRace,
         Abort, history
<1>3. Quiet
  <2>1. CASE EndSession(s)
    BY <1>1, <2>1, EndQuiet
  <2>2. CASE ~EndSession(s)
    <3>1. CASE BeginPut(s) \/ \E r \in Requests : BeginCreate(s, r) \/ BeginFinalize(s, r)
      BY <1>1, <3>1 DEF BeginCreate, BeginFinalize, BeginPut, SessionTypes, Quiet
    <3>2. CASE Reserve(s)
      BY <1>1, <2>2, <3>2 DEF Reserve, SessionTypes, Quiet
    <3>3. CASE Refund(s)
      BY <1>1, <2>2, <3>3 DEF Refund, SessionTypes, Quiet
    <3>4. CASE ReadLatest(s) \/ PersistRace(s)
      BY <1>1, <2>2, <3>4 DEF ReadLatest, PersistRace, SessionTypes, Quiet
    <3>5. CASE Persist(s) \/ Abort(s)
      BY <2>2, <3>5 DEF Persist, Abort
    <3> QED
      BY <3>1, <3>2, <3>3, <3>4, <3>5
  <2> QED
    BY <2>1, <2>2
<1> QED
  BY <1>2, <1>3, UnwrittenKeeps

\* A session that begins to cancel has read the row.
LEMMA BeginDeleteReserved ==
  ASSUME ReservedInv, TaskInv', NEW s \in Sessions, NEW r \in Requests, BeginDelete(s, r)
  PROVE  ReservedInv'
<1> USE DEF ReservedInv, TaskInv
<1> DEFINE j == TaskWork(r, task[r].id, task[r].mako, task[r].storage, 0)
<1>1. task[r] # NoTask /\ UNCHANGED <<task, created, held>> /\ job' = [job EXCEPT ![s] = j]
  BY DEF BeginDelete, history
<1>2. j.req = r /\ j.id = task[r].id /\ j.mako = task[r].mako /\ j.storage = task[r].storage
  BY DEF TaskWork
<1>3. job'[s] = j
  BY <1>1 DEF SessionTypes
<1> HIDE DEF j
<1>4. ReadRow(s)'
  BY <1>1, <1>2, <1>3 DEF ReadRow, IdsCount
<1>5. ASSUME NEW q \in Sessions, q # s PROVE ReadRow(q)'
  <2>1. pc'[q] = pc[q] /\ job'[q] = job[q]
    BY <1>1, <1>5 DEF BeginDelete, SessionTypes
  <2> QED
    BY <1>1, <2>1 DEF ReadRow
<1>6. HeldIsReserved' /\ IdsCount'
  BY <1>1, HeldIs, HeldIsNext DEF IdsCount
<1> QED
  BY <1>4, <1>5, <1>6

\* A row that is inserted reserves what its session took.
LEMMA InsertReserved ==
  ASSUME IsFiniteSet(Requests), ReservedInv, TaskInv', NEW s \in Sessions, InsertTask(s)
  PROVE  ReservedInv'
<1> USE DEF ReservedInv, TaskInv
<1>1. PICK j \in TaskJob : j = job[s] /\ j.req \in Requests /\ j.mako \in Nat /\ j.storage \in Nat
  BY TaskJobFields DEF InsertTask, Knows, May, TaskSteps
<1>2. PICK r \in Requests : r = j.req
  BY <1>1
<1>3. Quiet
  BY EndQuiet DEF InsertTask
<1>4. CASE task[r] # NoTask
  <2>1. UNCHANGED <<task, created, held>>
    BY <1>1, <1>2, <1>4 DEF InsertTask
  <2> QED
    BY <1>3, <2>1, UnwrittenKeeps
<1>5. CASE task[r] = NoTask
  <2> DEFINE row == NewTask(created[r] + 1, InitialStatus(r), j.mako, j.storage, 0)
  <2>1. /\ task' = [task EXCEPT ![r] = row] /\ created' = [created EXCEPT ![r] = @ + 1]
        /\ held' = held + j.mako + j.storage
    BY <1>1, <1>2, <1>5 DEF InsertTask
  <2>2. row \in Task
    BY <1>1 DEF Rows, NewTask, Task, InitialStatus
  <2>3. row # NoTask /\ row.id = created[r] + 1 /\ row.mako = j.mako /\ row.storage = j.storage
    BY <2>2, ConstantsAssumption DEF NewTask
  <2> HIDE DEF row
  <2>4. IdsCount' /\ \A q \in Sessions : ReadRow(q)'
    BY <1>3, <2>1, <2>2, <2>3, WrittenKeeps
  <2>5. held' = held + (Amount(row) - Amount(task[r]))
    BY <1>1, <1>5, <2>1, <2>3 DEF Amount, Rows
  <2>6. HeldIsReserved'
    BY <2>1, <2>2, <2>5, RowWritten
  <2> QED
    BY <2>4, <2>6
<1> QED
  BY <1>4, <1>5

\* A row that is deleted releases what it reserved.
LEMMA DeleteReserved ==
  ASSUME IsFiniteSet(Requests), ReservedInv, TaskInv', NEW s \in Sessions, DeleteTask(s)
  PROVE  ReservedInv'
<1> USE DEF ReservedInv, TaskInv
<1>1. PICK j \in TaskJob : j = job[s] /\ j.req \in Requests /\ j.mako \in Nat /\ j.storage \in Nat
  BY TaskJobFields DEF DeleteTask, Knows, May, TaskSteps
<1>2. PICK r \in Requests : r = j.req
  BY <1>1
<1>3. Quiet
  BY EndQuiet DEF DeleteTask
<1>4. CASE ~StillIn(j, Cancellable)
  <2>1. UNCHANGED <<task, created, held>>
    BY <1>1, <1>2, <1>4 DEF DeleteTask
  <2> QED
    BY <1>3, <2>1, UnwrittenKeeps
<1>5. CASE StillIn(j, Cancellable)
  <2>1. /\ task' = [task EXCEPT ![r] = NoTask] /\ created' = created
        /\ held' = held - (j.mako + j.storage)
    BY <1>1, <1>2, <1>5 DEF DeleteTask
  <2>2. task[r] # NoTask /\ task[r].mako = j.mako /\ task[r].storage = j.storage
    BY <1>1, <1>2, <1>5 DEF StillIn, ReadRow, DeleteTask
  <2> DEFINE row == NoTask
  <2>3. row \in Task \union {NoTask} /\ row = NoTask /\ task' = [task EXCEPT ![r] = row]
    BY <2>1
  <2>4. held' = held + (Amount(row) - Amount(task[r]))
    BY <1>1, <2>1, <2>2 DEF Amount, Rows
  <2> HIDE DEF row
  <2>5. IdsCount' /\ \A q \in Sessions : ReadRow(q)'
    BY <1>3, <2>1, <2>3, WrittenKeeps
  <2>6. HeldIsReserved'
    BY <2>3, <2>4, RowWritten
  <2> QED
    BY <2>5, <2>6
<1> QED
  BY <1>4, <1>5

\* A row that moves on reserves what it did.
LEMMA MoveReserved ==
  ASSUME IsFiniteSet(Requests), ReservedInv, TaskInv', Quiet, NEW r \in Requests, NEW row \in Task,
         task[r] # NoTask, task' = [task EXCEPT ![r] = row], row.id = task[r].id,
         row.mako = task[r].mako, row.storage = task[r].storage, UNCHANGED <<created, held>>
  PROVE  ReservedInv'
<1> USE DEF ReservedInv, TaskInv
<1>1. row # NoTask
  BY ConstantsAssumption
<1>2. IdsCount' /\ \A q \in Sessions : ReadRow(q)'
  BY WrittenKeeps
<1>3. Amount(row) = Amount(task[r]) /\ Amount(row) \in Int /\ held \in Int
  BY <1>1, AmountType DEF Amount, Rows
<1>4. held' = held + (Amount(row) - Amount(task[r]))
  BY <1>3
<1>5. HeldIsReserved'
  BY <1>4, RowWritten
<1> QED
  BY <1>2, <1>5

\* A task that is finished reserves what it did: its materials are used up.
LEMMA FinalizeReserved ==
  ASSUME IsFiniteSet(Requests), ReservedInv, TaskInv', NEW s \in Sessions, Finalize(s)
  PROVE  ReservedInv'
<1> USE DEF ReservedInv, TaskInv
<1>1. PICK j \in TaskJob : j = job[s] /\ j.req \in Requests /\ j.result \in Nat
  BY TaskJobFields DEF Finalize, Knows, May, TaskSteps
<1>2. PICK r \in Requests : r = j.req
  BY <1>1
<1>3. Quiet /\ UNCHANGED <<created, held>>
  BY EndQuiet DEF Finalize
<1>4. CASE ~StillIn(j, {"InProgress"})
  <2>1. UNCHANGED task
    BY <1>1, <1>4 DEF Finalize
  <2> QED
    BY <1>3, <2>1, UnwrittenKeeps
<1>5. CASE StillIn(j, {"InProgress"})
  <2> DEFINE row == NewTask(task[r].id, "Completed", task[r].mako, task[r].storage, j.result)
  <2>1. task[r] \in Task /\ task[r] # NoTask
    BY <1>2, <1>5 DEF StillIn, Rows
  <2>2. /\ row \in Task /\ row.id = task[r].id
        /\ row.mako = task[r].mako /\ row.storage = task[r].storage
    BY <1>1, <2>1 DEF NewTask, Task
  <2>3. task' = [task EXCEPT ![r] = row]
    BY <1>1, <1>2, <1>5 DEF Finalize, Rows
  <2> HIDE DEF row
  <2> QED
    BY <1>3, <2>1, <2>2, <2>3, MoveReserved
<1> QED
  BY <1>4, <1>5

\* So does one that is started, completed without a quantity, or claimed.
LEMMA TransitionReserved ==
  ASSUME IsFiniteSet(Requests), ReservedInv, TaskInv', NEW r \in Requests,
         Start(r) \/ Claim(r) \/ CompleteOpen(r)
  PROVE  ReservedInv'
<1> USE DEF ReservedInv, TaskInv
<1>1. PICK st \in {"InProgress", "Claimed", "Completed"} : task' = [task EXCEPT ![r].status = st]
  BY DEF Start, Claim, CompleteOpen, Transition
<1>2. /\ task[r] \in Task /\ task[r] # NoTask
      /\ UNCHANGED <<pc, job, created, held>>
  BY DEF Start, Claim, CompleteOpen, Transition, Rows
<1> DEFINE row == [task[r] EXCEPT !.status = st]
<1>3. /\ row \in Task /\ row.id = task[r].id
      /\ row.mako = task[r].mako /\ row.storage = task[r].storage
  BY <1>2 DEF Task
<1>4. task' = [task EXCEPT ![r] = row]
  BY <1>1
<1> HIDE DEF row
<1>5. Quiet
  BY <1>2 DEF Quiet
<1> QED
  BY <1>2, <1>3, <1>4, <1>5, MoveReserved

\* Initially nothing is reserved.
LEMMA InitReserved ==
  ASSUME IsFiniteSet(Requests), Init PROVE ReservedInv
<1> DEFINE f == [r \in Requests |-> Amount(task[r])]
<1>1. f \in [Requests -> Int] /\ \A r \in Requests : f[r] = 0
  BY DEF Init, Amount
<1> HIDE DEF f
<1>2. Total(f) = 0
  BY <1>1, TotalOfZeros
<1>3. held = Total(f)
  BY <1>2 DEF Init
<1>4. HeldIsReserved
  BY <1>3, HeldIs DEF f
<1>5. IdsCount /\ \A s \in Sessions : ReadRow(s)
  BY DEF Init, IdsCount, ReadRow
<1> QED
  BY <1>4, <1>5, TaskInvInit DEF ReservedInv

\* Every step keeps what is held equal to what is reserved.
LEMMA NextReserved ==
  ASSUME IsFiniteSet(Requests), ReservedInv, [Next]_vars PROVE ReservedInv'
<1>0. TaskInv'
  BY TaskInvNext DEF ReservedInv
<1>1. ASSUME UNCHANGED <<pc, job, task, created, held>> PROVE ReservedInv'
  <2>1. Quiet
    BY <1>1 DEF Quiet
  <2> QED
    BY <1>0, <1>1, <2>1, UnwrittenKeeps
<1>2. CASE UNCHANGED vars
  BY <1>1, <1>2 DEF vars
<1>3. ASSUME NEW s \in Sessions, NEW r \in Requests,
             BeginCreate(s, r) \/ BeginDelete(s, r) \/ BeginFinalize(s, r)
      PROVE  ReservedInv'
  BY <1>0, <1>3, OthersReserved, BeginDeleteReserved
<1>4. ASSUME NEW s \in Sessions, InsertTask(s) \/ DeleteTask(s) \/ Finalize(s)
      PROVE  ReservedInv'
  BY <1>0, <1>4, InsertReserved, DeleteReserved, FinalizeReserved
<1>5. ASSUME NEW s \in Sessions,
             \/ Reserve(s) \/ Refund(s)
             \/ BeginPut(s) \/ ReadLatest(s) \/ Persist(s) \/ PersistRace(s) \/ Abort(s)
      PROVE  ReservedInv'
  BY <1>0, <1>5, OthersReserved
<1>6. ASSUME NEW r \in Requests, Start(r) \/ CompleteOpen(r) \/ Claim(r)
      PROVE  ReservedInv'
  BY <1>0, <1>6, TransitionReserved
<1>7. ASSUME NEW r \in Requests, Tick(r) PROVE ReservedInv'
  BY <1>1, <1>7 DEF Tick, history
<1>8. CASE ClientPlay \/ ClientSend \/ ClientFetch
  BY <1>1, <1>8 DEF ClientPlay, ClientSend, ClientFetch, history
<1> QED
  BY <1>2, <1>3, <1>4, <1>5, <1>6, <1>7, <1>8 DEF Next

\* On any database, what live rows record as reserved is what reservations took and
\* cancellations have not given back, for any finite set of requests, each of which
\* may create, cancel and create again.
THEOREM ReservationsAreRecorded ==
  ASSUME IsFiniteSet(Requests) PROVE Spec => []HeldIsReserved
<1>1. Init => ReservedInv
  BY InitReserved
<1>2. ReservedInv /\ [Next]_vars => ReservedInv'
  BY NextReserved
<1>3. ReservedInv => HeldIsReserved
  BY DEF ReservedInv
<1> QED
  BY <1>1, <1>2, <1>3, PTL DEF Spec

\* On any database the rows record what is reserved, and where the row lock exists
\* no material is lost or duplicated by overlapping reservations, refunds and
\* uploads: for any finite set of requests, any quantities, rooms and play.
THEOREM LocksConserveMaterial ==
  ASSUME IsFiniteSet(Requests) PROVE Spec => []LocksConserve
<1>1. HeldIsReserved /\ (ForUpdateLocks => Conservation) => LocksConserve
  BY DEF LocksConserve
<1> QED
  BY <1>1, ReservationsAreRecorded, LocksConserveTotal, PTL
-------------------------------------------------------------------------------
(* Part 5: TaskLedger, the reservations whose steps take effect at once *)

\* A crafting task reserves just what it needs, and so does the session that inserts
\* or cancels it.
RowNeeds(r) == Kind[r] = "craft" /\ task[r] # NoTask => task[r].mako + task[r].storage = Need(r)
JobNeeds(s) == pc[s] \in {"insert", "refund", "delete"} /\ Kind[job[s].req] = "craft"
                 => job[s].mako + job[s].storage = Need(job[s].req)
NeedInv == TaskInv /\ (\A r \in Requests : RowNeeds(r)) /\ (\A s \in Sessions : JobNeeds(s))

\* What a request needs.
LEMMA NeedType ==
  ASSUME NEW r \in Requests PROVE Need(r) \in Nat
BY ConstantsAssumption DEF Need

\* Rows that rest need what they did.
LEMMA RowsNeed ==
  ASSUME NeedInv, UNCHANGED task
  PROVE  \A r \in Requests : RowNeeds(r)'
BY DEF NeedInv, RowNeeds

\* Sessions of which one moves, to a step and a job of which JobNeeds holds.
LEMMA OneNeeds ==
  ASSUME NeedInv, NEW s \in Sessions, JobNeeds(s)',
         \A q \in Sessions : q # s => pc'[q] = pc[q] /\ job'[q] = job[q]
  PROVE  \A q \in Sessions : JobNeeds(q)'
BY DEF NeedInv, JobNeeds

\* A session that ends needs nothing.
LEMMA EndNeeds ==
  ASSUME NeedInv, NEW s \in Sessions, EndSession(s)
  PROVE  \A q \in Sessions : JobNeeds(q)'
<1>1. JobNeeds(s)' /\ \A q \in Sessions : q # s => pc'[q] = pc[q] /\ job'[q] = job[q]
  BY DEF NeedInv, TaskInv, SessionTypes, EndSession, JobNeeds
<1> QED
  BY <1>1, OneNeeds

\* A session that begins to cancel needs what the row reserves.
LEMMA BeginNeeds ==
  ASSUME NeedInv, TaskInv', NEW s \in Sessions, NEW r \in Requests,
         BeginCreate(s, r) \/ BeginDelete(s, r) \/ BeginFinalize(s, r)
  PROVE  NeedInv'
<1> USE DEF NeedInv, TaskInv
<1>1. UNCHANGED task /\ \A q \in Sessions : q # s => pc'[q] = pc[q] /\ job'[q] = job[q]
  BY DEF BeginCreate, BeginDelete, BeginFinalize, SessionTypes
<1>2. CASE BeginCreate(s, r)
  <2>1. job'[s].req = r /\ (Kind[r] = "craft" => pc'[s] = "reserve")
    BY <1>2 DEF BeginCreate, SessionTypes, TaskWork
  <2>2. JobNeeds(s)'
    BY <2>1 DEF JobNeeds
  <2> QED
    BY <1>1, <2>2, RowsNeed, OneNeeds
<1>3. CASE BeginDelete(s, r)
  <2>1. /\ task[r] # NoTask
        /\ job'[s].req = r /\ job'[s].mako = task[r].mako /\ job'[s].storage = task[r].storage
    BY <1>3 DEF BeginDelete, SessionTypes, TaskWork
  <2>2. JobNeeds(s)'
    BY <2>1 DEF JobNeeds, RowNeeds, Need
  <2> QED
    BY <1>1, <2>2, RowsNeed, OneNeeds
<1>4. CASE BeginFinalize(s, r)
  <2>1. pc'[s] = "finalize"
    BY <1>4 DEF BeginFinalize, SessionTypes
  <2>2. JobNeeds(s)'
    BY <2>1 DEF JobNeeds
  <2> QED
    BY <1>1, <2>2, RowsNeed, OneNeeds
<1> QED
  BY <1>2, <1>3, <1>4

\* A reservation takes just what is needed.
LEMMA ReserveNeeds ==
  ASSUME NeedInv, TaskInv', NEW s \in Sessions, Reserve(s)
  PROVE  NeedInv'
<1> USE DEF NeedInv, TaskInv
<1>1. UNCHANGED task
  BY DEF Reserve
<1>2. CASE EndSession(s)
  BY <1>1, <1>2, RowsNeed, EndNeeds
<1>3. CASE ~EndSession(s)
  <2>1. job[s] \in TaskJob /\ job[s].req \in Requests /\ snap # NoSnap
    BY <1>3, TaskJobFields DEF Reserve, Knows, May, TaskSteps
  <2>2. PICK r \in Requests : r = job[s].req
    BY <2>1
  <2>3. snap.mako \in Nat /\ Need(r) \in Nat
    BY <2>1, NeedType, SnapshotFields DEF Rows
  <2> DEFINE m == Min2(snap.mako, Need(r))
  <2>4. m \in Nat /\ m + (Need(r) - m) = Need(r)
    BY <2>3 DEF Min2
  <2>5. /\ job' = [job EXCEPT ![s] = TaskWork(r, job[s].id, m, Need(r) - m, 0)]
        /\ pc' = [pc EXCEPT ![s] = "insert"]
    BY <1>3, <2>2 DEF Reserve
  <2> HIDE DEF m
  <2>6. /\ job'[s] = TaskWork(r, job[s].id, m, Need(r) - m, 0)
        /\ \A q \in Sessions : q # s => pc'[q] = pc[q] /\ job'[q] = job[q]
    BY <2>5 DEF SessionTypes
  <2>7. job'[s].req = r /\ job'[s].mako = m /\ job'[s].storage = Need(r) - m
    BY <2>6 DEF TaskWork
  <2>8. JobNeeds(s)'
    BY <2>4, <2>7 DEF JobNeeds, Need
  <2> QED
    BY <1>1, <2>6, <2>8, RowsNeed, OneNeeds
<1> QED
  BY <1>2, <1>3

\* A refund that was read returns what was needed.
LEMMA RefundNeeds ==
  ASSUME NeedInv, TaskInv', NEW s \in Sessions, Refund(s)
  PROVE  NeedInv'
<1> USE DEF NeedInv, TaskInv
<1>1. UNCHANGED task
  BY DEF Refund
<1>2. CASE EndSession(s)
  BY <1>1, <1>2, RowsNeed, EndNeeds
<1>3. CASE ~EndSession(s)
  <2>1. pc[s] = "refund" /\ job' = job /\ \A q \in Sessions : q # s => pc'[q] = pc[q]
    BY <1>3 DEF Refund, SessionTypes
  <2>2. JobNeeds(s)'
    BY <2>1 DEF JobNeeds, Need
  <2> QED
    BY <1>1, <2>1, <2>2, RowsNeed, OneNeeds
<1> QED
  BY <1>2, <1>3

\* One row is written and its session ends.
LEMMA WriteNeeds ==
  ASSUME NeedInv, TaskInv', NEW s \in Sessions, EndSession(s), NEW r \in Requests,
         NEW row \in Task \union {NoTask}, task' = [task EXCEPT ![r] = row],
         Kind[r] = "craft" /\ row # NoTask => row.mako + row.storage = Need(r)
  PROVE  NeedInv'
<1>1. ASSUME NEW q \in Requests PROVE RowNeeds(q)'
  <2>1. task'[q] = IF q = r THEN row ELSE task[q]
    BY DEF NeedInv, TaskInv, Rows
  <2> QED
    BY <2>1 DEF NeedInv, RowNeeds, Need
<1> QED
  BY <1>1, EndNeeds DEF NeedInv

\* A row that is inserted reserves what its session took.
LEMMA InsertNeeds ==
  ASSUME NeedInv, TaskInv', NEW s \in Sessions, InsertTask(s)
  PROVE  NeedInv'
<1> USE DEF NeedInv, TaskInv
<1>1. PICK j \in TaskJob : j = job[s] /\ j.req \in Requests /\ j.mako \in Nat /\ j.storage \in Nat
  BY TaskJobFields DEF InsertTask, Knows, May, TaskSteps
<1>2. PICK r \in Requests : r = j.req
  BY <1>1
<1>3. EndSession(s)
  BY DEF InsertTask
<1>4. CASE task[r] # NoTask
  <2>1. UNCHANGED task
    BY <1>1, <1>2, <1>4 DEF InsertTask
  <2> QED
    BY <1>3, <2>1, RowsNeed, EndNeeds
<1>5. CASE task[r] = NoTask
  <2> DEFINE row == NewTask(created[r] + 1, InitialStatus(r), j.mako, j.storage, 0)
  <2>1. task' = [task EXCEPT ![r] = row]
    BY <1>1, <1>2, <1>5 DEF InsertTask
  <2>2. row \in Task /\ row.mako = j.mako /\ row.storage = j.storage
    BY <1>1 DEF Rows, NewTask, Task, InitialStatus
  <2>3. Kind[r] = "craft" => j.mako + j.storage = Need(r)
    BY <1>1, <1>2 DEF InsertTask, JobNeeds
  <2> HIDE DEF row
  <2> QED
    BY <1>3, <2>1, <2>2, <2>3, WriteNeeds
<1> QED
  BY <1>4, <1>5

\* So does one that a session deletes or finishes.
LEMMA EndTaskNeeds ==
  ASSUME NeedInv, TaskInv', NEW s \in Sessions, DeleteTask(s) \/ Finalize(s)
  PROVE  NeedInv'
<1> USE DEF NeedInv, TaskInv
<1>1. PICK j \in TaskJob : j = job[s] /\ j.req \in Requests /\ j.result \in Nat
  BY TaskJobFields DEF DeleteTask, Finalize, Knows, May, TaskSteps
<1>2. PICK r \in Requests : r = j.req
  BY <1>1
<1>3. EndSession(s)
  BY DEF DeleteTask, Finalize
<1>4. CASE UNCHANGED task
  BY <1>3, <1>4, RowsNeed, EndNeeds
<1>5. CASE DeleteTask(s) /\ ~UNCHANGED task
  <2> DEFINE row == NoTask
  <2>1. task' = [task EXCEPT ![r] = row] /\ row = NoTask
    BY <1>1, <1>2, <1>5 DEF DeleteTask
  <2> HIDE DEF row
  <2> QED
    BY <1>3, <2>1, WriteNeeds
<1>6. CASE Finalize(s) /\ ~UNCHANGED task
  <2> DEFINE row == NewTask(task[r].id, "Completed", task[r].mako, task[r].storage, j.result)
  <2>1. StillIn(j, {"InProgress"})
    BY <1>1, <1>6 DEF Finalize
  <2>2. task[r] \in Task /\ task[r] # NoTask
    BY <1>2, <2>1 DEF StillIn, Rows
  <2>3. row \in Task /\ row.mako = task[r].mako /\ row.storage = task[r].storage
    BY <1>1, <2>2 DEF NewTask, Task
  <2>4. task' = [task EXCEPT ![r] = row]
    BY <1>1, <1>2, <1>6, <2>1 DEF Finalize, Rows
  <2>5. Kind[r] = "craft" => task[r].mako + task[r].storage = Need(r)
    BY <2>2 DEF RowNeeds
  <2> HIDE DEF row
  <2> QED
    BY <1>3, <2>3, <2>4, <2>5, WriteNeeds
<1> QED
  BY <1>4, <1>5, <1>6

\* So does one that moves on.
LEMMA TransitionNeeds ==
  ASSUME NeedInv, TaskInv', NEW r \in Requests, Start(r) \/ Claim(r) \/ CompleteOpen(r)
  PROVE  NeedInv'
<1> USE DEF NeedInv, TaskInv
<1>1. PICK st \in {"InProgress", "Claimed", "Completed"} : task' = [task EXCEPT ![r].status = st]
  BY DEF Start, Claim, CompleteOpen, Transition
<1>2. task[r] \in Task /\ task[r] # NoTask /\ UNCHANGED <<pc, job>>
  BY DEF Start, Claim, CompleteOpen, Transition, Rows
<1> DEFINE row == [task[r] EXCEPT !.status = st]
<1>3. row.mako = task[r].mako /\ row.storage = task[r].storage
  BY <1>2 DEF Task
<1>4. task' = [task EXCEPT ![r] = row]
  BY <1>1
<1> HIDE DEF row
<1>5. ASSUME NEW q \in Requests PROVE RowNeeds(q)'
  <2>1. task'[q] = IF q = r THEN row ELSE task[q]
    BY <1>4 DEF Rows
  <2> QED
    BY <1>2, <1>3, <2>1 DEF RowNeeds, Need
<1>6. \A s \in Sessions : JobNeeds(s)'
  BY <1>2 DEF JobNeeds, Need
<1> QED
  BY <1>5, <1>6

\* An upload needs nothing.
LEMMA UploadNeeds ==
  ASSUME NeedInv, TaskInv', NEW s \in Sessions,
         BeginPut(s) \/ ReadLatest(s) \/ Persist(s) \/ PersistRace(s) \/ Abort(s)
  PROVE  NeedInv'
<1> USE DEF NeedInv, TaskInv
<1>1. UNCHANGED task
  BY DEF BeginPut, ReadLatest, Persist, PersistRace, Abort
<1>2. CASE EndSession(s)
  BY <1>1, <1>2, RowsNeed, EndNeeds
<1>3. CASE ~EndSession(s)
  <2>1. /\ pc'[s] \in PutSteps
        /\ \A q \in Sessions : q # s => pc'[q] = pc[q] /\ job'[q] = job[q]
    BY <1>3 DEF BeginPut, ReadLatest, Persist, PersistRace, Abort, SessionTypes, PutSteps
  <2>2. JobNeeds(s)'
    BY <2>1 DEF JobNeeds, PutSteps
  <2> QED
    BY <1>1, <2>1, <2>2, RowsNeed, OneNeeds
<1> QED
  BY <1>2, <1>3

\* Every step keeps what tasks reserve equal to what they need.
LEMMA NeedInvNext ==
  ASSUME NeedInv, [Next]_vars PROVE NeedInv'
<1>0. TaskInv'
  BY TaskInvNext DEF NeedInv
<1>1. ASSUME UNCHANGED <<pc, job, task>> PROVE NeedInv'
  <2>1. \A s \in Sessions : JobNeeds(s)'
    BY <1>1 DEF NeedInv, JobNeeds, Need
  <2> QED
    BY <1>0, <1>1, <2>1, RowsNeed DEF NeedInv
<1>2. CASE UNCHANGED vars
  BY <1>1, <1>2 DEF vars
<1>3. ASSUME NEW s \in Sessions, NEW r \in Requests,
             BeginCreate(s, r) \/ BeginDelete(s, r) \/ BeginFinalize(s, r)
      PROVE  NeedInv'
  BY <1>0, <1>3, BeginNeeds
<1>4. ASSUME NEW s \in Sessions, Reserve(s) \/ InsertTask(s) \/ Refund(s) \/ DeleteTask(s) \/ Finalize(s)
      PROVE  NeedInv'
  BY <1>0, <1>4, ReserveNeeds, InsertNeeds, RefundNeeds, EndTaskNeeds
<1>5. ASSUME NEW s \in Sessions, BeginPut(s) \/ ReadLatest(s) \/ Persist(s) \/ PersistRace(s) \/ Abort(s)
      PROVE  NeedInv'
  BY <1>0, <1>5, UploadNeeds
<1>6. ASSUME NEW r \in Requests, Start(r) \/ CompleteOpen(r) \/ Claim(r)
      PROVE  NeedInv'
  BY <1>0, <1>6, TransitionNeeds
<1>7. ASSUME NEW r \in Requests, Tick(r) PROVE NeedInv'
  BY <1>1, <1>7 DEF Tick
<1>8. CASE ClientPlay \/ ClientSend \/ ClientFetch
  BY <1>1, <1>8 DEF ClientPlay, ClientSend, ClientFetch
<1> QED
  BY <1>2, <1>3, <1>4, <1>5, <1>6, <1>7, <1>8 DEF Next

\* On any database, crafting tasks reserve just what they need, in every run.
LEMMA NeedInvAlways == Spec => []NeedInv
<1>1. Init => NeedInv
  BY TaskInvInit DEF Init, NeedInv, RowNeeds, JobNeeds
<1>2. NeedInv /\ [Next]_vars => NeedInv'
  BY NeedInvNext
<1> QED
  BY <1>1, <1>2, PTL DEF Spec
\* Nothing of what the ledger shows changes.
LedgerRests ==
  /\ UNCHANGED <<snap, held>> /\ client'.base = client.base
  /\ CraftRows' = CraftRows /\ UsedUp' = UsedUp
\* One step of the ledger, and the variables that it is mapped to.
ledgerVars == <<IF ForUpdateLocks THEN StoredInventory ELSE NoSnap,
                IF ForUpdateLocks THEN client.base ELSE 0,
                IF ForUpdateLocks THEN CraftRows ELSE {},
                IF ForUpdateLocks THEN UsedUp ELSE {},
                IF ForUpdateLocks THEN held ELSE 0>>

\* Then the ledger rests.
LEMMA LedgerStutters ==
  ASSUME ForUpdateLocks' <=> ForUpdateLocks, LedgerRests
  PROVE  UNCHANGED ledgerVars
BY DEF LedgerRests, ledgerVars, StoredInventory, Available

\* On SQLite it always does.
LEMMA LedgerUnused ==
  ASSUME ForUpdateLocks' <=> ForUpdateLocks, ~ForUpdateLocks
  PROVE  UNCHANGED ledgerVars
BY DEF ledgerVars

\* Where tasks rest, so do their rows in the ledger.
LEMMA TasksRest ==
  ASSUME UNCHANGED <<snap, held, task>>, client'.base = client.base PROVE LedgerRests
BY DEF LedgerRests, CraftRows, UsedUp

\* What the ledger sees of a row.
LEMMA StoredRow ==
  ASSUME snap \in Snapshot
  PROVE  /\ StoredInventory = [ver |-> snap.ver, op |-> snap.op, amount |-> snap.mako + snap.storage,
                               gains |-> snap.gains]
         /\ StoredInventory \in Inventory /\ StoredInventory # NoSnap
<1>1. /\ snap # NoSnap /\ snap.ver \in Nat /\ snap.mako \in Nat /\ snap.storage \in Nat
      /\ snap.gains \in Int /\ snap.op \in {"put", "craft"}
  BY SnapshotFields
<1>2. StoredInventory = [ver |-> snap.ver, op |-> snap.op, amount |-> snap.mako + snap.storage,
                               gains |-> snap.gains]
  BY <1>1 DEF StoredInventory, Available
<1>3. snap.mako + snap.storage \in Int
  BY <1>1
<1>4. StoredInventory \in Inventory
  BY <1>1, <1>2, <1>3 DEF Inventory
<1> QED
  BY <1>2, <1>4, ConstantsAssumption

\* The same of the next state.
LEMMA StoredRowNext ==
  ASSUME snap' \in Snapshot
  PROVE  /\ StoredInventory' = [ver |-> snap'.ver, op |-> snap'.op, amount |-> snap'.mako + snap'.storage,
                                gains |-> snap'.gains]
         /\ StoredInventory' \in Inventory /\ StoredInventory' # NoSnap
<1>1. /\ snap' # NoSnap /\ snap'.ver \in Nat /\ snap'.mako \in Nat /\ snap'.storage \in Nat
      /\ snap'.gains \in Int /\ snap'.op \in {"put", "craft"}
  BY SnapshotFields
<1>2. StoredInventory' = [ver |-> snap'.ver, op |-> snap'.op, amount |-> snap'.mako + snap'.storage,
                                gains |-> snap'.gains]
  BY <1>1 DEF StoredInventory, Available
<1>3. snap'.mako + snap'.storage \in Int
  BY <1>1
<1>4. StoredInventory' \in Inventory
  BY <1>1, <1>2, <1>3 DEF Inventory
<1> QED
  BY <1>2, <1>4, ConstantsAssumption

\* A server change by n moves the stored amount by n, and what is out by as much back.
LEMMA LedgerMoves ==
  ASSUME ForUpdateLocks, ForUpdateLocks', snap \in Snapshot, NEW dm \in Int, NEW dt \in Int,
         snap.mako + dm \in Nat, snap.storage + dt \in Nat, snap' = ServerChange(snap, dm, dt),
         NEW n \in Int, n = dm + dt, held \in Int, held' = held - n, client' = client
  PROVE  Ledger!Move(n)
<1>1. /\ snap.ver \in Nat /\ snap.mako \in Nat /\ snap.storage \in Nat /\ snap.gains \in Int
  BY SnapshotFields
<1>2. /\ snap' \in Snapshot /\ snap'.ver = snap.ver + 1 /\ snap'.op = "craft" /\ snap'.gains = snap.gains
      /\ snap'.mako = snap.mako + dm /\ snap'.storage = snap.storage + dt
  BY ChangeRow
<1>3. snap'.mako + snap'.storage = (snap.mako + snap.storage) + n
  BY <1>1, <1>2
<1>4. /\ StoredInventory = [ver |-> snap.ver, op |-> snap.op, amount |-> snap.mako + snap.storage,
                               gains |-> snap.gains]
      /\ StoredInventory # NoSnap
  BY StoredRow
<1>5. StoredInventory' = [ver |-> snap.ver + 1, op |-> "craft",
                          amount |-> (snap.mako + snap.storage) + n, gains |-> snap.gains]
  BY <1>2, <1>3, StoredRowNext
<1> QED
  BY <1>4, <1>5 DEF Ledger!Move

\* A crafting row that is written appears in the ledger, other rows do not.
LEMMA LedgerRow ==
  ASSUME task \in [Requests -> Task \union {NoTask}], NEW r \in Requests,
         NEW row \in Task \union {NoTask}, task' = [task EXCEPT ![r] = row]
  PROVE  /\ Kind[r] # "craft" => CraftRows' = CraftRows /\ UsedUp' = UsedUp
         /\ Kind[r] = "craft" =>
              /\ row = NoTask => CraftRows' = CraftRows \ {r} /\ UsedUp' = UsedUp \ {r}
              /\ row # NoTask => CraftRows' = CraftRows \union {r}
              /\ row # NoTask /\ row.status \in {"Completed", "Claimed"} => UsedUp' = UsedUp \union {r}
              /\ row # NoTask /\ row.status \in Cancellable => UsedUp' = UsedUp \ {r}
<1>1. \A q \in Requests : task'[q] = IF q = r THEN row ELSE task[q]
  OBVIOUS
<1>2. CASE Kind[r] # "craft"
  <2>1. \A q \in Requests : Kind[q] = "craft" => task'[q] = task[q]
    BY <1>1, <1>2
  <2> QED
    BY <1>2, <2>1 DEF CraftRows, UsedUp
<1>3. CASE Kind[r] = "craft"
  <2>1. row = NoTask => CraftRows' = CraftRows \ {r} /\ UsedUp' = UsedUp \ {r}
    BY <1>1, <1>3 DEF CraftRows, UsedUp
  <2>2. row # NoTask => CraftRows' = CraftRows \union {r}
    BY <1>1, <1>3 DEF CraftRows
  <2>3. row # NoTask /\ row.status \in {"Completed", "Claimed"} => UsedUp' = UsedUp \union {r}
    BY <1>1, <1>3 DEF CraftRows, UsedUp
  <2>4. row # NoTask /\ row.status \in Cancellable => UsedUp' = UsedUp \ {r}
    BY <1>1, <1>3 DEF CraftRows, UsedUp, Cancellable
  <2> QED
    BY <1>3, <2>1, <2>2, <2>3, <2>4
<1> QED
  BY <1>2, <1>3

\* A task that is inserted takes its materials at once; other tasks take none.
LEMMA InsertTakes ==
  ASSUME ForUpdateLocks, ForUpdateLocks', LockInv, NeedInv, NEW s \in Sessions, InsertTask(s)
  PROVE  LedgerRests \/ \E r \in Requests : Ledger!Take(r)
<1> USE DEF NeedInv, TaskInv
<1>1. PICK j \in TaskJob : j = job[s] /\ j.req \in Requests /\ j.mako \in Nat /\ j.storage \in Nat
  BY TaskJobFields DEF InsertTask, Knows, May, TaskSteps
<1>2. PICK r \in Requests : r = j.req
  BY <1>1
<1>3. CASE task[r] # NoTask
  BY <1>1, <1>2, <1>3, TasksRest DEF InsertTask
<1>4. CASE task[r] = NoTask
  <2> DEFINE row == NewTask(created[r] + 1, InitialStatus(r), j.mako, j.storage, 0)
  <2>1. /\ task' = [task EXCEPT ![r] = row] /\ held' = held + j.mako + j.storage
        /\ snap' = IF Kind[r] = "craft" THEN ServerChange(seen[s], -j.mako, -j.storage) ELSE snap
    BY <1>1, <1>2, <1>4 DEF InsertTask
  <2>2. row \in Task
    BY <1>1 DEF Rows, NewTask, Task, InitialStatus
  <2>3. row # NoTask /\ row.status \in Cancellable
    BY <2>2, ConstantsAssumption DEF NewTask, InitialStatus, Cancellable
  <2>4. task \in [Requests -> Task \union {NoTask}] /\ held \in Int
    BY DEF Rows
  <2> HIDE DEF row
  <2>5. CASE Kind[r] # "craft"
    <3>1. j.mako = 0 /\ j.storage = 0
      BY <1>1, <1>2, <2>5 DEF InsertTask, Knows, May
    <3>2. UNCHANGED <<snap, held, client>>
      BY <2>1, <2>4, <2>5, <3>1 DEF InsertTask
    <3>3. CraftRows' = CraftRows /\ UsedUp' = UsedUp
      BY <2>1, <2>2, <2>4, <2>5, LedgerRow
    <3> QED
      BY <3>2, <3>3 DEF LedgerRests
  <2>6. CASE Kind[r] = "craft"
    <3>1. seen[s] \in Snapshot /\ j.mako <= seen[s].mako /\ j.storage <= seen[s].storage
      BY <1>1, <1>2, <2>6 DEF InsertTask, Knows, May
    <3>2. seen[s] = snap
      BY <1>1, <1>2, <2>6 DEF InsertTask, LockInv, Holds
    <3>3. snap \in Snapshot /\ snap.mako \in Nat /\ snap.storage \in Nat
      BY <3>1, <3>2, SnapshotFields
    <3>4. j.mako + j.storage = Need(r) /\ Need(r) \in Nat
      BY <1>1, <1>2, <2>6, NeedType DEF InsertTask, JobNeeds
    <3>5. /\ -j.mako \in Int /\ -j.storage \in Int /\ -Need(r) \in Int
          /\ -Need(r) = (-j.mako) + (-j.storage) /\ held' = held - (-Need(r))
          /\ snap.mako + (-j.mako) \in Nat /\ snap.storage + (-j.storage) \in Nat
          /\ Need(r) <= snap.mako + snap.storage
      BY <1>1, <2>1, <2>4, <3>1, <3>2, <3>3, <3>4
    <3>6. snap' = ServerChange(snap, -j.mako, -j.storage)
      BY <2>1, <2>6, <3>2
    <3>7. Ledger!Move(-Need(r))
      <4>1. client' = client
        BY DEF InsertTask
      <4> QED
        BY <2>4, <3>3, <3>5, <3>6, <4>1, LedgerMoves
    <3>8. StoredInventory # NoSnap /\ StoredInventory.amount = snap.mako + snap.storage
      BY <3>3, StoredRow
    <3>9. CraftRows' = CraftRows \union {r} /\ r \notin CraftRows
      BY <1>4, <2>1, <2>2, <2>3, <2>4, <2>6, LedgerRow DEF CraftRows
    <3>10. UsedUp' = UsedUp
      <4>1. UsedUp' = UsedUp \ {r}
        BY <2>1, <2>2, <2>3, <2>4, <2>6, LedgerRow
      <4> QED
        BY <3>9, <4>1 DEF UsedUp
    <3>11. [q \in Requests |-> Need(q)][r] = Need(r)
      OBVIOUS
    <3>12. Ledger!Take(r)
      BY <3>5, <3>7, <3>8, <3>9, <3>10, <3>11 DEF Ledger!Take
    <3> QED
      BY <3>12
  <2> QED
    BY <2>5, <2>6
<1> QED
  BY <1>3, <1>4

\* A task that is cancelled gives back at once just what it took.
LEMMA DeleteGivesBack ==
  ASSUME ForUpdateLocks, ForUpdateLocks', LockInv, NeedInv, NEW s \in Sessions, DeleteTask(s)
  PROVE  LedgerRests \/ \E r \in Requests : Ledger!GiveBack(r)
<1> USE DEF NeedInv, TaskInv
<1>1. PICK j \in TaskJob : j = job[s] /\ j.req \in Requests /\ j.mako \in Nat /\ j.storage \in Nat
  BY TaskJobFields DEF DeleteTask, Knows, May, TaskSteps
<1>2. PICK r \in Requests : r = j.req
  BY <1>1
<1>3. CASE ~StillIn(j, Cancellable)
  BY <1>1, <1>2, <1>3, TasksRest DEF DeleteTask
<1>4. CASE StillIn(j, Cancellable)
  <2> DEFINE row == NoTask
  <2>1. /\ task' = [task EXCEPT ![r] = row] /\ row = NoTask /\ row \in Task \union {NoTask}
        /\ held' = held - (j.mako + j.storage)
        /\ snap' = IF Kind[r] = "craft" THEN ServerChange(seen[s], j.mako, j.storage) ELSE snap
    BY <1>1, <1>2, <1>4 DEF DeleteTask
  <2>2. task[r] # NoTask /\ task[r].status \in Cancellable
    BY <1>2, <1>4 DEF StillIn
  <2>3. task \in [Requests -> Task \union {NoTask}] /\ held \in Int
    BY DEF Rows
  <2> HIDE DEF row
  <2>4. CASE Kind[r] # "craft"
    <3>1. j.mako = 0 /\ j.storage = 0
      BY <1>1, <1>2, <2>4 DEF DeleteTask, Knows, May
    <3>2. UNCHANGED <<snap, held, client>>
      BY <2>1, <2>3, <2>4, <3>1 DEF DeleteTask
    <3>3. CraftRows' = CraftRows /\ UsedUp' = UsedUp
      BY <2>1, <2>3, <2>4, LedgerRow
    <3> QED
      BY <3>2, <3>3 DEF LedgerRests
  <2>5. CASE Kind[r] = "craft"
    <3>1. seen[s] \in Snapshot
      BY <1>1, <1>2, <2>5 DEF DeleteTask, Knows, May
    <3>2. seen[s] = snap
      BY <1>1, <1>2, <2>5 DEF DeleteTask, LockInv, Holds
    <3>3. snap \in Snapshot /\ snap.mako \in Nat /\ snap.storage \in Nat
      BY <3>1, <3>2, SnapshotFields
    <3>4. j.mako + j.storage = Need(r) /\ Need(r) \in Nat
      BY <1>1, <1>2, <2>5, NeedType DEF DeleteTask, JobNeeds
    <3>5. /\ j.mako \in Int /\ j.storage \in Int /\ Need(r) \in Int
          /\ Need(r) = j.mako + j.storage /\ held' = held - Need(r)
          /\ snap.mako + j.mako \in Nat /\ snap.storage + j.storage \in Nat
      BY <1>1, <2>1, <2>3, <3>3, <3>4
    <3>6. snap' = ServerChange(snap, j.mako, j.storage)
      BY <2>1, <2>5, <3>2
    <3>7. Ledger!Move(Need(r))
      <4>1. client' = client
        BY DEF DeleteTask
      <4> QED
        BY <2>3, <3>3, <3>5, <3>6, <4>1, LedgerMoves
    <3>8. CraftRows' = CraftRows \ {r} /\ UsedUp' = UsedUp \ {r}
      BY <2>1, <2>3, <2>5, LedgerRow
    <3>9. r \in CraftRows \ UsedUp
      BY <2>2, <2>5 DEF CraftRows, UsedUp, Cancellable
    <3>10. UsedUp' = UsedUp
      BY <3>8, <3>9
    <3>11. [q \in Requests |-> Need(q)][r] = Need(r)
      OBVIOUS
    <3>12. Ledger!GiveBack(r)
      BY <3>7, <3>8, <3>9, <3>10, <3>11 DEF Ledger!GiveBack
    <3> QED
      BY <3>12
  <2> QED
    BY <2>4, <2>5
<1> QED
  BY <1>3, <1>4

\* A crafting task that is finished uses up what it took.
LEMMA FinalizeUsesUp ==
  ASSUME ForUpdateLocks, ForUpdateLocks', NeedInv, NEW s \in Sessions, Finalize(s)
  PROVE  LedgerRests \/ \E r \in Requests : Ledger!UseUp(r)
<1> USE DEF NeedInv, TaskInv
<1>1. PICK j \in TaskJob : j = job[s] /\ j.req \in Requests /\ j.result \in Nat
  BY TaskJobFields DEF Finalize, Knows, May, TaskSteps
<1>2. PICK r \in Requests : r = j.req
  BY <1>1
<1>3. UNCHANGED <<snap, held, client>>
  BY DEF Finalize
<1>4. CASE ~StillIn(j, {"InProgress"})
  BY <1>1, <1>3, <1>4, TasksRest DEF Finalize
<1>5. CASE StillIn(j, {"InProgress"})
  <2> DEFINE row == NewTask(task[r].id, "Completed", task[r].mako, task[r].storage, j.result)
  <2>1. task[r] \in Task /\ task[r] # NoTask /\ task[r].status = "InProgress"
        /\ task \in [Requests -> Task \union {NoTask}]
    BY <1>2, <1>5 DEF StillIn, Rows
  <2>2. row \in Task /\ row.status = "Completed"
    BY <1>1, <2>1 DEF NewTask, Task
  <2>3. row # NoTask
    BY <2>2, ConstantsAssumption
  <2>4. task' = [task EXCEPT ![r] = row]
    BY <1>1, <1>2, <1>5 DEF Finalize, Rows
  <2> HIDE DEF row
  <2>5. CASE Kind[r] # "craft"
    BY <1>3, <2>1, <2>2, <2>4, <2>5, LedgerRow DEF LedgerRests
  <2>6. CASE Kind[r] = "craft"
    <3>1. CraftRows' = CraftRows \union {r} /\ UsedUp' = UsedUp \union {r}
      BY <2>1, <2>2, <2>3, <2>4, <2>6, LedgerRow
    <3>2. r \in CraftRows \ UsedUp
      BY <2>1, <2>6 DEF CraftRows, UsedUp
    <3>3. CraftRows' = CraftRows /\ StoredInventory' = StoredInventory
      BY <1>3, <3>1, <3>2 DEF StoredInventory, Available
    <3>4. Ledger!UseUp(r)
      BY <1>3, <3>1, <3>2, <3>3 DEF Ledger!UseUp
    <3> QED
      BY <3>4
  <2> QED
    BY <2>5, <2>6
<1> QED
  BY <1>4, <1>5

\* The other steps of a task are not steps of the ledger.
LEMMA TransitionRests ==
  ASSUME TaskInv, NEW r \in Requests, Start(r) \/ Claim(r) \/ CompleteOpen(r)
  PROVE  LedgerRests
<1> USE DEF TaskInv
<1>1. PICK st \in {"InProgress", "Claimed", "Completed"} :
        /\ task' = [task EXCEPT ![r].status = st] /\ task[r] # NoTask
        /\ st = "Claimed" => task[r].status = "Completed"
        /\ st = "InProgress" => task[r].status = "Pending"
        /\ st = "Completed" => Kind[r] = "open"
  BY DEF Start, Claim, CompleteOpen, Transition
<1>2. task[r] \in Task /\ task \in [Requests -> Task \union {NoTask}] /\ UNCHANGED <<snap, held, client>>
  BY <1>1 DEF Start, Claim, CompleteOpen, Transition, Rows
<1> DEFINE row == [task[r] EXCEPT !.status = st]
<1>3. row \in Task /\ row.status = st
  BY <1>2 DEF Task
<1>4. row # NoTask
  BY <1>3, ConstantsAssumption
<1>5. task' = [task EXCEPT ![r] = row]
  BY <1>1
<1> HIDE DEF row
<1>6. CASE Kind[r] # "craft"
  BY <1>2, <1>3, <1>5, <1>6, LedgerRow DEF LedgerRests
<1>7. CASE Kind[r] = "craft"
  <2>1. r \in CraftRows /\ CraftRows' = CraftRows \union {r}
    BY <1>1, <1>2, <1>3, <1>4, <1>5, <1>7, LedgerRow DEF CraftRows
  <2>2. CASE st = "Claimed"
    <3>1. r \in UsedUp /\ UsedUp' = UsedUp \union {r}
      BY <1>1, <1>2, <1>3, <1>4, <1>5, <1>7, <2>1, <2>2, LedgerRow DEF UsedUp
    <3> QED
      BY <1>2, <2>1, <3>1 DEF LedgerRests
  <2>3. CASE st = "InProgress"
    <3>1. r \notin UsedUp
      BY <1>1, <2>3 DEF UsedUp
    <3>2. UsedUp' = UsedUp \ {r}
      BY <1>2, <1>3, <1>4, <1>5, <1>7, <2>3, LedgerRow DEF Cancellable
    <3> QED
      BY <1>2, <2>1, <3>1, <3>2 DEF LedgerRests
  <2> QED
    BY <1>1, <1>7, <2>2, <2>3
<1> QED
  BY <1>6, <1>7

\* An accepted upload is one of the ledger: later than what is stored, it has counted
\* in what tasks have taken, and the game knows of what tasks have done.
LEMMA PersistUploads ==
  ASSUME ForUpdateLocks, ForUpdateLocks', LockInv, LockInv', NEW s \in Sessions, Persist(s)
  PROVE  Ledger!Upload
<1>1. PICK b \in Bodies :
        /\ snap # NoSnap => b.ver > snap.ver /\ (snap.op = "craft" => b.base = snap.ver)
        /\ snap' = NewSnapshot(b.ver, "put", b.mako, b.storage, b.gains)
        /\ (client' = client \/ client' = [client EXCEPT !.base = b.ver])
  BY CheckedRow
<1>2. /\ b.ver \in Nat /\ b.base \in Nat /\ b.mako \in Nat /\ b.storage \in Nat /\ b.gains \in Int
      /\ b.base <= client.base
  BY PutFields DEF Bodies, LockInv, Numbered
<1>3. snap' \in Snapshot /\ snap'.ver = b.ver /\ snap'.op = "put"
  BY <1>1, <1>2 DEF NewSnapshot, Snapshot
<1>4. UNCHANGED <<task, held>>
  BY DEF Persist, history
<1>5. CraftRows' = CraftRows /\ UsedUp' = UsedUp
  BY <1>4 DEF CraftRows, UsedUp
<1>6. snap'.mako + snap'.storage + held' = snap'.gains
  <2>1. snap' # NoSnap
    BY <1>3, SnapshotFields
  <2> QED
    BY <2>1 DEF LockInv, Acceptable, Balanced
<1>7. /\ StoredInventory' \in Inventory
      /\ StoredInventory' = [ver |-> snap'.ver, op |-> snap'.op, amount |-> snap'.mako + snap'.storage,
                             gains |-> snap'.gains]
  BY <1>3, StoredRowNext
<1>8. StoredInventory'.op = "put" /\ StoredInventory'.amount + held = StoredInventory'.gains
  BY <1>3, <1>4, <1>6, <1>7
<1>9. client'.base \in {client.base, StoredInventory'.ver}
  BY <1>1, <1>3, <1>7 DEF LockInv, TaskInv, GameType
<1>10. StoredInventory # NoSnap =>
         /\ StoredInventory'.ver > StoredInventory.ver
         /\ StoredInventory.op = "craft" => client.base = StoredInventory.ver
  <2>1. snap # NoSnap => snap \in Snapshot /\ snap.ver \in Nat /\ client.base <= snap.ver /\ client.base \in Nat
    BY SnapshotFields DEF LockInv, TaskInv, Rows, GameType, Numbered
  <2>2. snap = NoSnap => StoredInventory = NoSnap
    BY DEF StoredInventory
  <2>3. snap # NoSnap => StoredInventory.ver = snap.ver /\ StoredInventory.op = snap.op
    BY <2>1, StoredRow
  <2>4. snap # NoSnap /\ snap.op = "craft" => client.base = snap.ver
    BY <1>1, <1>2, <2>1
  <2> QED
    BY <1>1, <1>3, <1>7, <2>2, <2>3, <2>4
<1>11. StoredInventory' \in Ledger!Inventory
  BY <1>7 DEF Inventory, Ledger!Inventory
<1> QED
  BY <1>4, <1>5, <1>8, <1>9, <1>10, <1>11 DEF Ledger!Upload

\* What the game fetches, it knows.
LEMMA FetchFetches ==
  ASSUME ForUpdateLocks, ForUpdateLocks', TaskInv, ClientFetch
  PROVE  Ledger!Fetch
<1>1. snap \in Snapshot /\ client'.base = snap.ver /\ UNCHANGED <<snap, task, held>>
  BY DEF ClientFetch, Game, TaskInv, Rows, history
<1>2. StoredInventory # NoSnap /\ StoredInventory.ver = snap.ver
  BY <1>1, StoredRow
<1>3. StoredInventory' = StoredInventory /\ CraftRows' = CraftRows /\ UsedUp' = UsedUp
  BY <1>1 DEF StoredInventory, Available, CraftRows, UsedUp
<1> QED
  BY <1>1, <1>2, <1>3 DEF Ledger!Fetch

\* What the game plays and sends is not seen.
LEMMA GameRestsInLedger ==
  ASSUME ClientPlay \/ ClientSend PROVE LedgerRests
<1>1. client'.base = client.base /\ UNCHANGED <<snap, held, task>>
  BY DEF ClientPlay, ClientSend, Game, history
<1> QED
  BY <1>1, TasksRest

\* Where row locks exist, every step is one of the ledger, or not seen in it.
LEMMA LedgerStep ==
  ASSUME ForUpdateLocks, LockInv, LockInv', NeedInv, [Next]_vars
  PROVE  Ledger!Next \/ UNCHANGED ledgerVars
<1>1. ForUpdateLocks'
  BY SameDatabase
<1>2. SUFFICES Ledger!Next \/ LedgerRests
  BY <1>1, LedgerStutters
<1>3. CASE UNCHANGED vars
  BY <1>3, TasksRest DEF vars
<1>4. ASSUME NEW s \in Sessions,
             \/ \E r \in Requests : BeginCreate(s, r) \/ BeginDelete(s, r) \/ BeginFinalize(s, r)
             \/ Reserve(s) \/ Refund(s) \/ BeginPut(s) \/ ReadLatest(s) \/ PersistRace(s) \/ Abort(s)
      PROVE  LedgerRests
  BY <1>4, TasksRest DEF BeginCreate, BeginDelete, BeginFinalize, Reserve, Refund, BeginPut,
                         ReadLatest, PersistRace, Abort, history
<1>5. ASSUME NEW s \in Sessions, InsertTask(s) \/ DeleteTask(s) \/ Finalize(s) \/ Persist(s)
      PROVE  Ledger!Next \/ LedgerRests
  BY <1>1, <1>5, InsertTakes, DeleteGivesBack, FinalizeUsesUp, PersistUploads DEF Ledger!Next
<1>6. ASSUME NEW r \in Requests, Start(r) \/ CompleteOpen(r) \/ Claim(r)
      PROVE  LedgerRests
  BY <1>6, TransitionRests DEF NeedInv
<1>7. CASE \E r \in Requests : Tick(r)
  BY <1>7, TasksRest DEF Tick, history
<1>8. CASE ClientPlay \/ ClientSend
  BY <1>8, GameRestsInLedger
<1>9. CASE ClientFetch
  BY <1>1, <1>9, FetchFetches DEF NeedInv, Ledger!Next
<1> QED
  BY <1>3, <1>4, <1>5, <1>6, <1>7, <1>8, <1>9 DEF Next

\* OfflineTasks implements TaskLedger: where the row lock exists that the code asks
\* for, creations, cancellations, completions and uploads that overlap have the
\* effect of one after another, for any sessions, requests, quantities and play.
THEOREM TasksImplementLedger == Spec => ImplementsTaskLedger
<1>1. Init => Ledger!Init
  <2> SUFFICES ASSUME Init PROVE Ledger!Init
    OBVIOUS
  <2>1. client.base = 0 /\ held = 0
    BY DEF Init, Game
  <2>2. StoredInventory = NoSnap
    BY DEF Init, StoredInventory
  <2>3. CraftRows = {}
    BY DEF Init, CraftRows
  <2>4. UsedUp = {}
    BY <2>3 DEF UsedUp
  <2> QED
    BY <2>1, <2>2, <2>3, <2>4 DEF Ledger!Init
<1>2. (ForUpdateLocks => LockInv) /\ (ForUpdateLocks => LockInv)' /\ NeedInv /\ [Next]_vars
        => [Ledger!Next]_ledgerVars
  <2> SUFFICES ASSUME ForUpdateLocks => LockInv, (ForUpdateLocks => LockInv)', NeedInv, [Next]_vars
               PROVE  Ledger!Next \/ UNCHANGED ledgerVars
    OBVIOUS
  <2>1. ForUpdateLocks' <=> ForUpdateLocks
    BY SameDatabase
  <2>2. CASE ForUpdateLocks
    BY <2>1, <2>2, LedgerStep
  <2>3. CASE ~ForUpdateLocks
    BY <2>1, <2>3, LedgerUnused
  <2> QED
    BY <2>2, <2>3
<1> QED
  BY <1>1, <1>2, LockInvAlways, NeedInvAlways, PTL
     DEF Spec, ImplementsTaskLedger, Ledger!Spec, ledgerVars
================================================================================
