----------------------------- MODULE OfflineTasks -----------------------------
(***************************************************************************)
(* Offline tasks and the game state snapshot of one save slot.             *)
(*                                                                         *)
(* WebClients create, collect and cancel tasks; the GameClient starts,     *)
(* completes and claims them and uploads the inventory.  A crafting task   *)
(* takes its materials out of the stored snapshot when it is created and   *)
(* gives them back when it is cancelled, so two services write one row.    *)
(*                                                                         *)
(* A handler runs in a database session: its SELECTs see the latest        *)
(* committed state, and everything from its first write to COMMIT is one   *)
(* step, because SQLite has a single writer and the driver opens the       *)
(* transaction at the first DML statement.  An object a session has read   *)
(* keeps the values it had when it was read.  SELECT ... FOR UPDATE locks  *)
(* the row in a database that has row locks; SQLite, which ignores it, is  *)
(* the other database the code is configured for.                          *)
(***************************************************************************)
EXTENDS Integers, FiniteSets, Functions

CONSTANTS
  Sessions,        \* database sessions of concurrent HTTP handlers
  Requests,        \* creation_request_id values of POST /api/v1/tasks
  Kind,            \* Kind[r]: "craft", "gather" (has a quantity), "open" (has none)
  Quantity,        \* Quantity[r]: requested items (MAX_GATHER_QUANTITY for "open")
  MakoRoom, StorageRoom,    \* material that fits into each container
  FirstMako, FirstStorage,  \* the game's inventory before its first upload
  PlayRange,       \* bound: net contributions of the player
  MaxVersion,      \* bound: client state versions
  MaxCreations,    \* bound: tasks one request id may create, one after another
  NoSnap, NoTask, NoPut, Nobody   \* absent row, row, body, lock holder

VARIABLES
  database, \* "locking" (it has row locks) or "sqlite": what the services run on
  snap,     \* the game_state_snapshots row of the slot, or NoSnap
  puts,     \* operation ids in game_state_operations
  task,     \* task[r]: the offline_tasks row created by request r, or NoTask
  elapsed,  \* elapsed[r]: items' worth of time since started_at
  pc,       \* pc[s]: the next database step of session s
  job,      \* job[s]: the request, or the PUT body, that session s serves
  seen,     \* seen[s]: the snapshot row as session s read it
  lock,     \* session that holds the row lock of the snapshot, or Nobody
  client,   \* the GameClient: its inventory and what it knows of the server
  \* History, read by no action's guard:
  created, cancelled, completed,   \* per request: rows inserted, deleted, finished
  held      \* material taken by reservations and not refunded

vars == <<database, snap, puts, task, elapsed, pc, job, seen, lock, client,
          created, cancelled, completed, held>>
history == <<created, cancelled, completed, held>>

(***************************************************************************)
(* Rows and bodies.  "gains" is a history field: the net material the      *)
(* player has contributed to the inventory that the record describes.      *)
(***************************************************************************)
Snapshot == [ver : Nat, op : {"put", "craft"},
             mako : Nat, storage : Nat, gains : Int]
PutBody == [ver : Nat, base : Nat, mako : Nat, storage : Nat, gains : Int]
Task == [id : Nat, status : {"Pending", "InProgress", "Completed", "Claimed"},
         mako : Nat, storage : Nat, result : Nat]
\* What TaskLedger sees of a snapshot.
Inventory == [ver : Nat, op : {"put", "craft"}, amount : Int, gains : Int]
\* What a session keeps: the request and the task row it read, or the body.
TaskJob == [kind : {"task"}, req : Requests, id : Nat,
            mako : Nat, storage : Nat, result : Nat]
PutJob == [kind : {"put"}, body : PutBody, tries : 1..3]
Unset == [kind |-> "none"]

ASSUME ConstantsAssumption ==
  /\ Kind \in [Requests -> {"craft", "gather", "open"}]
  /\ Quantity \in [Requests -> Nat \ {0}]
  /\ {MakoRoom, StorageRoom, FirstMako, FirstStorage} \subseteq Nat
  /\ PlayRange \subseteq Int
  /\ MaxVersion \in Nat /\ MaxCreations \in Nat
  /\ Nobody \notin Sessions
  /\ NoSnap \notin Snapshot \union Inventory /\ NoTask \notin Task /\ NoPut \notin PutBody

NewSnapshot(ver, op, mako, storage, gains) ==
  [ver |-> ver, op |-> op, mako |-> mako, storage |-> storage, gains |-> gains]
NewPut(ver, base, mako, storage, gains) ==
  [ver |-> ver, base |-> base, mako |-> mako, storage |-> storage, gains |-> gains]
NewTask(id, status, mako, storage, result) ==
  [id |-> id, status |-> status, mako |-> mako, storage |-> storage, result |-> result]
TaskWork(r, id, mako, storage, result) ==
  [kind |-> "task", req |-> r, id |-> id, mako |-> mako, storage |-> storage, result |-> result]
PutWork(body, tries) == [kind |-> "put", body |-> body, tries |-> tries]
Game(ver, base, sent, mako, storage, gains) ==
  [ver |-> ver, base |-> base, sent |-> sent, mako |-> mako, storage |-> storage, gains |-> gains]

\* Does the database honour SELECT ... FOR UPDATE?
ForUpdateLocks == database = "locking"

Cancellable == {"Pending", "InProgress"}
Min2(a, b) == IF a < b THEN a ELSE b
\* A result of one item costs two PlantStem.
Need(r) == 2 * Quantity[r]

-------------------------------------------------------------------------------
Init ==
  /\ database \in {"locking", "sqlite"}
  /\ snap = NoSnap /\ puts = {}
  /\ task = [r \in Requests |-> NoTask]
  /\ elapsed = [r \in Requests |-> 0]
  /\ pc = [s \in Sessions |-> "idle"]
  /\ job = [s \in Sessions |-> Unset]
  /\ seen = [s \in Sessions |-> NoSnap]
  /\ lock = Nobody
  /\ client = Game(0, 0, NoPut, FirstMako, FirstStorage, FirstMako + FirstStorage)
  /\ created = [r \in Requests |-> 0]
  /\ cancelled = [r \in Requests |-> 0]
  /\ completed = [r \in Requests |-> 0]
  /\ held = 0

(***************************************************************************)
(* Sessions.  A finished handler, an error response, a rollback and a      *)
(* cancelled request all end the session's transaction.                    *)
(***************************************************************************)
EndSession(s) ==
  /\ pc' = [pc EXCEPT ![s] = "idle"]
  /\ job' = [job EXCEPT ![s] = Unset]
  /\ seen' = [seen EXCEPT ![s] = NoSnap]
  /\ lock' = IF lock = s THEN Nobody ELSE lock

LockIsFree(s) == ForUpdateLocks => lock \in {Nobody, s}

\* Mutant: the row is read without FOR UPDATE.
ReadGameState(s) ==
  /\ seen' = [seen EXCEPT ![s] = snap]
  /\ UNCHANGED lock

\* lock_game_state: read the row, and lock it where the database can.
LockGameState(s) ==
  /\ LockIsFree(s)
  /\ seen' = [seen EXCEPT ![s] = snap]
  /\ lock' = IF ForUpdateLocks THEN s ELSE lock

\* The client disconnects, the timeout middleware cancels the handler, or
\* the process dies: the transaction is rolled back.
Abort(s) ==
  /\ pc[s] # "idle"
  /\ EndSession(s)
  /\ UNCHANGED <<snap, puts, task, elapsed, client, history>>

-------------------------------------------------------------------------------
(* POST /api/v1/tasks *)

\* create, up to the check for a task of the same creation_request_id; when
\* there is one it is returned and nothing changes.
BeginCreate(s, r) ==
  /\ pc[s] = "idle" /\ task[r] = NoTask /\ created[r] < MaxCreations
  /\ pc' = [pc EXCEPT ![s] = IF Kind[r] = "craft" THEN "reserve" ELSE "insert"]
  /\ job' = [job EXCEPT ![s] = TaskWork(r, created[r] + 1, 0, 0, 0)]
  /\ UNCHANGED <<snap, puts, task, elapsed, seen, lock, client, history>>

Available(row) == row.mako + row.storage

\* _reserve_crafting_materials on the row as read: MAKO first, then storage.
Reserve(s) ==
  /\ pc[s] = "reserve"
  /\ LockIsFree(s)
  /\ LET r == job[s].req IN
     IF snap = NoSnap \/ (snap # NoSnap /\ Available(snap) < Need(r))
     THEN EndSession(s)
     ELSE LET fromMako == Min2(snap.mako, Need(r)) IN
          /\ LockGameState(s)
          /\ pc' = [pc EXCEPT ![s] = "insert"]
          /\ job' = [job EXCEPT ![s] = TaskWork(r, @.id, fromMako, Need(r) - fromMako, 0)]
  /\ UNCHANGED <<snap, puts, task, elapsed, client, history>>

\* _store_server_inventory_change: the whole payload and the version of the
\* row as it was READ, written with no check of the row as it is now.
ServerChange(row, dMako, dStorage) ==
  NewSnapshot(row.ver + 1, "craft", row.mako + dMako, row.storage + dStorage, row.gains)

InitialStatus(r) == IF Kind[r] = "open" THEN "Pending" ELSE "InProgress"

\* The writes of create and its commit; a second row for the creation request
\* violates uq_offline_tasks_creation_request and rolls everything back.
InsertTask(s) ==
  /\ pc[s] = "insert"
  /\ LET r == job[s].req  j == job[s] IN
     IF task[r] # NoTask
     THEN UNCHANGED <<snap, task, elapsed, created, held>>
     ELSE /\ task' = [task EXCEPT ![r] =
                        NewTask(created[r] + 1, InitialStatus(r), j.mako, j.storage, 0)]
          /\ elapsed' = [elapsed EXCEPT ![r] = 0]
          /\ created' = [created EXCEPT ![r] = @ + 1]
          /\ snap' = IF Kind[r] = "craft"
                     THEN ServerChange(seen[s], -j.mako, -j.storage) ELSE snap
          /\ held' = held + j.mako + j.storage
  /\ EndSession(s)
  /\ UNCHANGED <<puts, client, cancelled, completed>>

-------------------------------------------------------------------------------
(* DELETE /api/v1/tasks/{id} *)

BeginDelete(s, r) ==
  /\ pc[s] = "idle" /\ task[r] # NoTask /\ task[r].status \in Cancellable
  /\ pc' = [pc EXCEPT ![s] = IF Kind[r] = "craft" THEN "refund" ELSE "delete"]
  /\ job' = [job EXCEPT ![s] = TaskWork(r, task[r].id, task[r].mako, task[r].storage, 0)]
  /\ UNCHANGED <<snap, puts, task, elapsed, seen, lock, client, history>>

\* _add_material: the refunded amount must fit into free stack space.
Fits(row, j) ==
  /\ j.mako > 0 => row.mako + j.mako <= MakoRoom
  /\ j.storage > 0 => row.storage + j.storage <= StorageRoom

\* _refund_crafting_materials on the row as read.
Refund(s) ==
  /\ pc[s] = "refund"
  /\ LockIsFree(s)
  /\ IF snap = NoSnap \/ (snap # NoSnap /\ ~Fits(snap, job[s]))
     THEN EndSession(s)
     ELSE /\ LockGameState(s)
          /\ pc' = [pc EXCEPT ![s] = "delete"]
          /\ UNCHANGED job
  /\ UNCHANGED <<snap, puts, task, elapsed, client, history>>

\* Mutant: the row is matched by its id alone, in whatever state it is now.
StillThere(j, statuses) == task[j.req] # NoTask /\ task[j.req].id = j.id
\* The task row a session read is still there, in one of these states.
StillIn(j, statuses) ==
  /\ task[j.req] # NoTask
  /\ task[j.req].id = j.id
  /\ task[j.req].status \in statuses

\* The writes of delete: the refunded snapshot, then delete_owned_if_status;
\* no row deleted means an error and the refund is rolled back.
DeleteTask(s) ==
  /\ pc[s] = "delete"
  /\ LET j == job[s] IN
     IF StillIn(j, Cancellable)
     THEN /\ task' = [task EXCEPT ![j.req] = NoTask]
          /\ cancelled' = [cancelled EXCEPT ![j.req] = @ + 1]
          /\ snap' = IF Kind[j.req] = "craft"
                     THEN ServerChange(seen[s], j.mako, j.storage) ELSE snap
          /\ held' = held - (j.mako + j.storage)
     ELSE UNCHANGED <<snap, task, cancelled, held>>
  /\ EndSession(s)
  /\ UNCHANGED <<puts, elapsed, client, created, completed>>

-------------------------------------------------------------------------------
(* Progress of a task: start, collect, complete, claim *)

\* _transition: a conditional UPDATE in one step.
Transition(r, expected, new) ==
  /\ task[r] # NoTask /\ task[r].status = expected
  /\ task' = [task EXCEPT ![r].status = new]
  /\ UNCHANGED <<snap, puts, elapsed, pc, job, seen, lock, client,
                 created, cancelled, held>>

Start(r) == Transition(r, "Pending", "InProgress") /\ UNCHANGED completed
Claim(r) == Transition(r, "Completed", "Claimed") /\ UNCHANGED completed
\* complete() of a task without a quantity.
CompleteOpen(r) ==
  /\ Kind[r] = "open"
  /\ Transition(r, "InProgress", "Completed")
  /\ completed' = [completed EXCEPT ![r] = @ + 1]

\* _finalize_in_progress up to its UPDATE, for collect() by the WebClient and
\* for complete() of a task with a quantity: nothing is written for no items,
\* or for a crafting task that is not done.
BeginFinalize(s, r) ==
  LET result == Min2(Quantity[r], elapsed[r]) IN
  /\ pc[s] = "idle" /\ task[r] # NoTask /\ task[r].status = "InProgress"
  /\ result > 0
  /\ Kind[r] = "craft" => result = Quantity[r]
  /\ pc' = [pc EXCEPT ![s] = "finalize"]
  /\ job' = [job EXCEPT ![s] = TaskWork(r, task[r].id, 0, 0, result)]
  /\ UNCHANGED <<snap, puts, task, elapsed, seen, lock, client, history>>

Finalize(s) ==
  /\ pc[s] = "finalize"
  /\ LET j == job[s] IN
     IF StillIn(j, {"InProgress"})
     THEN /\ task' = [task EXCEPT ![j.req] = NewTask(@.id, "Completed", @.mako, @.storage, j.result)]
          /\ completed' = [completed EXCEPT ![j.req] = @ + 1]
     ELSE UNCHANGED <<task, completed>>
  /\ EndSession(s)
  /\ UNCHANGED <<snap, puts, elapsed, client, created, cancelled, held>>

\* Time passes: one more item of the task would be done.
Tick(r) ==
  /\ task[r] # NoTask /\ elapsed[r] < Quantity[r]
  /\ elapsed' = [elapsed EXCEPT ![r] = @ + 1]
  /\ UNCHANGED <<snap, puts, task, pc, job, seen, lock, client, history>>

-------------------------------------------------------------------------------
(* PUT and GET /api/v1/game-state *)

\* put, up to the replay check; the GameClient may send a body again.
BeginPut(s) ==
  /\ pc[s] = "idle"
  /\ client.sent # NoPut /\ client.sent.ver \notin puts
  /\ pc' = [pc EXCEPT ![s] = "latest"]
  /\ job' = [job EXCEPT ![s] = PutWork(client.sent, 3)]
  /\ UNCHANGED <<snap, puts, task, elapsed, seen, lock, client, history>>

\* Mutant: the base version sent by the client is not compared.
ConflictsVersionOnly(body, row) == row # NoSnap /\ body.ver <= row.ver
\* The two version conflicts of put, on the row as read.
Conflicts(body, row) ==
  /\ row # NoSnap
  /\ \/ row.op = "craft" /\ body.base # row.ver
     \/ body.ver <= row.ver

ReadLatest(s) ==
  /\ pc[s] = "latest"
  /\ IF Conflicts(job[s].body, snap)
     THEN EndSession(s)
     ELSE /\ seen' = [seen EXCEPT ![s] = snap]
          /\ pc' = [pc EXCEPT ![s] = "put"]
          /\ UNCHANGED <<job, lock>>
  /\ UNCHANGED <<snap, puts, task, elapsed, client, history>>

\* Mutant: the UPDATE has no WHERE on the version that was read.
UnracedUnchecked(row) == TRUE
\* The row is still at the version that was read, or is still absent.
Unraced(row) ==
  IF row = NoSnap THEN snap = NoSnap ELSE snap # NoSnap /\ snap.ver = row.ver

\* persist: compare-and-set of the snapshot and the operation row.  The answer
\* may not reach the client.
Persist(s) ==
  LET body == job[s].body IN
  /\ pc[s] = "put" /\ LockIsFree(s)
  /\ Unraced(seen[s]) /\ body.ver \notin puts
  /\ snap' = NewSnapshot(body.ver, "put", body.mako, body.storage, body.gains)
  /\ puts' = puts \union {body.ver}
  /\ \/ UNCHANGED client
     \/ client.base < body.ver /\ client' = [client EXCEPT !.base = body.ver]
  /\ EndSession(s)
  /\ UNCHANGED <<task, elapsed, history>>

\* A lost race: roll back, answer a replay of the same operation, else retry.
PersistRace(s) ==
  LET body == job[s].body IN
  /\ pc[s] = "put" /\ LockIsFree(s)
  /\ ~(Unraced(seen[s]) /\ body.ver \notin puts)
  /\ IF body.ver \in puts \/ job[s].tries = 1
     THEN EndSession(s)
     ELSE /\ pc' = [pc EXCEPT ![s] = "latest"]
          /\ job' = [job EXCEPT ![s].tries = @ - 1]
          /\ seen' = [seen EXCEPT ![s] = NoSnap]
          /\ UNCHANGED lock
  /\ UNCHANGED <<snap, puts, task, elapsed, client, history>>

-------------------------------------------------------------------------------
(* The GameClient (not part of this repository).  It numbers its uploads,  *)
(* sends the version it last saw on the server as X-Base-State-Version,    *)
(* and takes over the inventory it fetches.                                *)

ClientPlay ==
  /\ \E d \in {-1, 1} :
       /\ client.mako + d \in 0..MakoRoom /\ client.gains + d \in PlayRange
       /\ client' = Game(client.ver, client.base, client.sent, client.mako + d, client.storage,
                         client.gains + d)
  /\ UNCHANGED <<snap, puts, task, elapsed, pc, job, seen, lock, history>>

ClientSend ==
  /\ client.ver < MaxVersion
  /\ LET put == NewPut(client.ver + 1, client.base, client.mako, client.storage, client.gains) IN
     client' = Game(client.ver + 1, client.base, put, client.mako, client.storage, client.gains)
  /\ UNCHANGED <<snap, puts, task, elapsed, pc, job, seen, lock, history>>

ClientFetch ==
  /\ snap # NoSnap /\ snap.ver # client.base
  /\ client' = Game(IF snap.ver > client.ver THEN snap.ver ELSE client.ver, snap.ver, client.sent,
                    snap.mako, snap.storage, snap.gains)
  /\ UNCHANGED <<snap, puts, task, elapsed, pc, job, seen, lock, history>>

-------------------------------------------------------------------------------
Next ==
  /\ \/ \E s \in Sessions :
          \/ \E r \in Requests :
               BeginCreate(s, r) \/ BeginDelete(s, r) \/ BeginFinalize(s, r)
          \/ Reserve(s) \/ InsertTask(s)
          \/ Refund(s) \/ DeleteTask(s)
          \/ Finalize(s)
          \/ BeginPut(s) \/ ReadLatest(s) \/ Persist(s) \/ PersistRace(s)
          \/ Abort(s)
     \/ \E r \in Requests : Start(r) \/ CompleteOpen(r) \/ Claim(r) \/ Tick(r)
     \/ ClientPlay \/ ClientSend \/ ClientFetch
  /\ UNCHANGED database

Spec == Init /\ [][Next]_vars

-------------------------------------------------------------------------------
\* The type of every variable: rows, bodies and jobs have the fields that the
\* models and repositories give them (app/db/models.py).
TypeOK ==
  /\ database \in {"locking", "sqlite"}
  /\ snap \in Snapshot \union {NoSnap}
  /\ puts \in SUBSET Nat
  /\ task \in [Requests -> Task \union {NoTask}]
  /\ elapsed \in [Requests -> Nat]
  /\ pc \in [Sessions -> {"idle", "reserve", "insert", "refund", "delete",
                          "finalize", "latest", "put"}]
  /\ job \in [Sessions -> TaskJob \union PutJob \union {Unset}]
  /\ seen \in [Sessions -> Snapshot \union {NoSnap}]
  /\ lock \in Sessions \union {Nobody}
  /\ client \in [ver : Nat, base : Nat, sent : PutBody \union {NoPut},
                 mako : Nat, storage : Nat, gains : Int]
  /\ created \in [Requests -> Nat]
  /\ cancelled \in [Requests -> Nat]
  /\ completed \in [Requests -> Nat]
  /\ held \in Int

\* Every task that was ever inserted has exactly one of three fates: it is
\* still Pending or InProgress, it was cancelled (and its materials refunded),
\* or it was completed.  In particular no task is both refunded and completed,
\* none is completed twice by the GameClient and the WebClient, and none is
\* inserted beside a live task of the same request, whatever two sessions do
\* between the reads and the conditional writes of delete() and
\* _finalize_in_progress().
OneOutcome ==
  \A r \in Requests :
    /\ task[r] # NoTask => created[r] > 0
    /\ created[r] = cancelled[r] + (IF task[r] = NoTask THEN 0 ELSE 1)
    /\ completed[r] = IF /\ task[r] # NoTask
                         /\ task[r].status \in {"Completed", "Claimed"}
                      THEN 1 ELSE 0

\* The materials that live rows record as reserved are all the materials that
\* reservations took and cancellations have not given back: the reservation
\* columns of a row and the inventory change commit or roll back together.
HeldIsReserved ==
  LET Reserved(r) == IF task[r] = NoTask THEN 0 ELSE task[r].mako + task[r].storage
  IN  held = FoldFunction(+, 0, [r \in Requests |-> Reserved(r)])

\* No material is lost or duplicated: what the snapshot holds and what the
\* reservations hold add up to what the player contributed.  A reservation
\* that overwrites another one, a refund that overwrites an upload, and an
\* upload that brings back materials reserved meanwhile all break it.
Conservation ==
  snap # NoSnap => snap.mako + snap.storage + held = snap.gains

\* What live rows record as reserved is what reservations took and have not given
\* back, on both databases; where the row lock exists that the code asks for, no
\* material is lost or duplicated by overlapping reservations, refunds and uploads.
LocksConserve == HeldIsReserved /\ (ForUpdateLocks => Conservation)

\* Where the row lock exists, the stored state version never goes back and every
\* change of the snapshot has a version of its own (game_state_service.put's
\* "state_version <= latest.state_version" conflict, for uploads and server changes).
LocksOrderVersions ==
  [][ForUpdateLocks /\ snap # NoSnap /\ snap' # snap => snap'.ver > snap.ver]_vars

\* An accepted upload never replaces a snapshot of its own or a later version,
\* whatever other sessions wrote between its read of the row and its UPDATE.
PutNeverRewinds ==
  [][puts' # puts /\ snap # NoSnap => snap'.ver > snap.ver]_vars

\* Where the row lock exists, an uploaded inventory never silently replaces a server
\* change that the GameClient has not fetched: an upload accepted over a craft-reserve
\* or craft-refund snapshot was made from that snapshot's version.
LocksShowServerChange ==
  [][ForUpdateLocks /\ puts' # puts /\ snap # NoSnap /\ snap.op = "craft"
       => \E s \in Sessions : job[s].kind = "put" /\ job[s].body.base = snap.ver
                              /\ job[s].body.ver \in puts' \ puts]_vars

-------------------------------------------------------------------------------
(* Where the row lock exists, the handlers implement TaskLedger, whose steps  *)
(* take effect at once: the writes of create, delete, _finalize_in_progress   *)
(* and put are its steps, and what handlers do before is not seen.  SQLite    *)
(* promises nothing of the kind, and is mapped to a ledger that rests.        *)

CraftRows == {r \in Requests : Kind[r] = "craft" /\ task[r] # NoTask}
UsedUp == {r \in CraftRows : task[r].status \in {"Completed", "Claimed"}}
StoredInventory ==
  IF snap = NoSnap THEN NoSnap
  ELSE [ver |-> snap.ver, op |-> snap.op, amount |-> Available(snap), gains |-> snap.gains]

Ledger == INSTANCE TaskLedger WITH
  Tasks <- Requests, Material <- [r \in Requests |-> Need(r)], Nothing <- NoSnap,
  stored <- IF ForUpdateLocks THEN StoredInventory ELSE NoSnap,
  known <- IF ForUpdateLocks THEN client.base ELSE 0,
  taken <- IF ForUpdateLocks THEN CraftRows ELSE {},
  spent <- IF ForUpdateLocks THEN UsedUp ELSE {},
  out <- IF ForUpdateLocks THEN held ELSE 0

\* Overlapping creations, cancellations, completions and uploads have the effect of
\* one after another: a task takes what it needs from an inventory that has it, and
\* gives back just that or uses it up; an upload has counted in all that is taken, and
\* replaces no change by a task that the game has not fetched.
ImplementsTaskLedger == Ledger!Spec
===============================================================================
