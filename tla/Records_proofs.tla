------------------------------ MODULE Records_proofs -------------------------------
(***************************************************************************)
(* Proofs about Records: an event and its outbox row live and die          *)
(* together, an event id stands for one body and a report id for one       *)
(* report, the reports of a command follow its lifecycle but where one     *)
(* overtook another between check and transaction, and the last copy of a  *)
(* legacy file is removed only after its memories were found in the        *)
(* database, unless it was put there behind the run's back -- for any      *)
(* number of requests, files and contents, any retention times, and any    *)
(* stops of the sweep.                                                     *)
(***************************************************************************)
EXTENDS Records, TLAPS, FiniteSetTheorems

-------------------------------------------------------------------------------
(* Part 1: events and their outbox rows *)

EventRow == [body : EventBodies, content : BOOLEAN, expires : Nat, audit : Nat]
OutboxStates == {"Pending", "Completed", "Tombstone"}

\* A handler is idle or serves a request, and has its id and its body.
Asks(kind, id, body) ==
  /\ kind = "event" => id \in EventIds /\ body \in EventBodies
  /\ kind = "result" => id \in Operations /\ body \in Reports
Serving(x, step, kind, id, body, received, newer) ==
  x = Service(step, kind, id, body, received, newer) /\ Asks(kind, id, body)
Serves(x) ==
  \/ x = Waiting
  \/ \E step, kind, id, body, received, newer : Serving(x, step, kind, id, body, received, newer)

HandlersServe == DOMAIN handler = Handlers /\ \A h \in Handlers : Serves(handler[h])

EventTypes ==
  /\ clock \in Nat
  /\ event \in [EventIds -> EventRow \union {NoRow}]
  /\ queued \in [EventIds -> OutboxStates \union {NoRow}]
  /\ HandlersServe

EventInv == EventTypes /\ EventsAreQueued

\* A stored event is a row, and the row is not the absent one.
LEMMA EventRows ==
  ASSUME NEW body \in EventBodies, NEW content \in BOOLEAN, NEW t \in Nat, NEW u \in Nat
  PROVE  /\ [body |-> body, content |-> content, expires |-> t, audit |-> u] \in EventRow
         /\ [body |-> body, content |-> content, expires |-> t, audit |-> u] # NoRow
<1>1. [body |-> body, content |-> content, expires |-> t, audit |-> u] \in EventRow
  BY DEF EventRow
<1> QED
  BY <1>1, CommandsAssumption DEF EventRow

\* Erasing the content of an event leaves a row.
LEMMA Erased ==
  ASSUME NEW row \in EventRow
  PROVE  /\ [row EXCEPT !.content = FALSE] \in EventRow
         /\ [row EXCEPT !.content = FALSE] # NoRow
         /\ [row EXCEPT !.content = FALSE].content = FALSE
<1>1. [row EXCEPT !.content = FALSE] \in EventRow
  BY DEF EventRow
<1>2. [row EXCEPT !.content = FALSE].content = FALSE
  BY DEF EventRow
<1> QED
  BY <1>1, <1>2, CommandsAssumption DEF EventRow

\* What a handler becomes keeps what it knows, whatever it goes on to do.
LEMMA HandlerGoesOn ==
  ASSUME HandlersServe, NEW h \in Handlers, NEW x, Serves(x),
         handler' = [handler EXCEPT ![h] = x]
  PROVE  HandlersServe'
BY DEF HandlersServe

\* An idle handler serves nothing.
LEMMA IdleServes == Serves(Waiting)
BY DEF Serves

\* The next step of the same service.
LEMMA NextStage ==
  ASSUME NEW s, NEW step, NEW kind, NEW id, NEW body, NEW received, NEW newer
  PROVE  [Service(step, kind, id, body, received, newer) EXCEPT !.step = s]
         = Service(s, kind, id, body, received, newer)
BY DEF Service

\* The same service, overtaken once more.
LEMMA OvertakenOnce ==
  ASSUME NEW step, NEW kind, NEW id, NEW body, NEW received, NEW newer
  PROVE  [Service(step, kind, id, body, received, newer) EXCEPT !.newer = @ + 1]
         = Service(step, kind, id, body, received, newer + 1)
BY DEF Service

\* A request that is answered leaves its handler idle.
LEMMA AnsweredServes ==
  ASSUME HandlersServe, NEW h \in Handlers, Answered(h)
  PROVE  HandlersServe'
BY HandlerGoesOn, IdleServes DEF Answered

\* A request that goes on is the same request.
LEMMA StageServes ==
  ASSUME HandlersServe, NEW h \in Handlers, NEW s, Stage(h, s), ~Doing(h, "idle")
  PROVE  HandlersServe'
<1>1. PICK step, kind, id, body, received, newer :
        Serving(handler[h], step, kind, id, body, received, newer)
  BY DEF HandlersServe, Serves, Doing, Waiting
<1>2. Serving(Service(s, kind, id, body, received, newer), s, kind, id, body, received, newer)
  BY <1>1 DEF Serving
<1>3. handler' = [handler EXCEPT ![h] = Service(s, kind, id, body, received, newer)]
  <2>1. [handler[h] EXCEPT !.step = s] = Service(s, kind, id, body, received, newer)
    BY <1>1, NextStage DEF Serving
  <2>2. handler' = [handler EXCEPT ![h] = [handler[h] EXCEPT !.step = s]]
    BY DEF Stage
  <2> QED
    BY <2>1, <2>2
<1> QED
  BY <1>2, <1>3, HandlerGoesOn DEF Serves

\* A request that begins, or that is checked, has its id and body.
LEMMA ServiceServes ==
  ASSUME HandlersServe, NEW h \in Handlers, NEW s, NEW kind, NEW id, NEW body,
         NEW received, NEW newer, Asks(kind, id, body),
         handler' = [handler EXCEPT ![h] = Service(s, kind, id, body, received, newer)]
  PROVE  HandlersServe'
<1>1. Serving(Service(s, kind, id, body, received, newer), s, kind, id, body, received, newer)
  BY DEF Serving
<1> QED
  BY <1>1, HandlerGoesOn DEF Serves

\* A request that was overtaken is the same request.
LEMMA OvertakenServes ==
  ASSUME HandlersServe, NEW h \in Handlers, NEW c, handler' = Overtaken(h, c)
  PROVE  HandlersServe'
<1>1. DOMAIN handler' = Handlers
  BY DEF Overtaken
<1>2. ASSUME NEW g \in Handlers PROVE Serves(handler'[g])
  <2>1. CASE g = h
    BY <2>1, IdleServes DEF Overtaken
  <2>2. CASE g # h /\ Doing(g, "store") /\ Reporting(g, c)
    <3>1. handler'[g] = [handler[g] EXCEPT !.newer = @ + 1]
      BY <2>2, Zenon DEF Overtaken
    <3>2. PICK step, kind, id, body, received, newer :
            Serving(handler[g], step, kind, id, body, received, newer)
      BY <2>2 DEF HandlersServe, Serves, Doing, Reporting, Waiting
    <3>3. handler'[g] = Service(step, kind, id, body, received, newer + 1)
      BY <3>1, <3>2, OvertakenOnce DEF Serving
    <3> QED
      BY <3>2, <3>3 DEF Serves, Serving
  <2>3. CASE g # h /\ ~(Doing(g, "store") /\ Reporting(g, c))
    BY <2>3 DEF Overtaken, HandlersServe
  <2> QED
    BY <2>1, <2>2, <2>3
<1> QED
  BY <1>1, <1>2 DEF HandlersServe

\* The event of a request that serves one.
LEMMA ServedEvent ==
  ASSUME HandlersServe, NEW h \in Handlers, ~Doing(h, "idle"), handler[h].kind = "event"
  PROVE  handler[h].id \in EventIds /\ handler[h].body \in EventBodies
<1>1. PICK step, kind, id, body, received, newer :
        Serving(handler[h], step, kind, id, body, received, newer)
  BY DEF HandlersServe, Serves, Doing, Waiting
<1> QED
  BY <1>1 DEF Serving, Service, Asks

\* The report of a request that serves one.
LEMMA ServedReport ==
  ASSUME HandlersServe, NEW h \in Handlers, ~Doing(h, "idle"), handler[h].kind = "result"
  PROVE  handler[h].id \in Operations /\ handler[h].body \in Reports
<1>1. PICK step, kind, id, body, received, newer :
        Serving(handler[h], step, kind, id, body, received, newer)
  BY DEF HandlersServe, Serves, Doing, Waiting
<1> QED
  BY <1>1 DEF Serving, Service, Asks

\* A step that leaves events alone.
LEMMA EventsLeftAlone ==
  ASSUME EventInv, HandlersServe', UNCHANGED <<clock, eventVars>>
  PROVE  EventInv'
BY DEF EventInv, EventTypes, EventsAreQueued, eventVars

\* The initial state has no event.
LEMMA InitEvents == Init => EventInv
BY IdleServes, CommandsAssumption
   DEF Init, CommandsInit, EventInv, EventTypes, HandlersServe, EventsAreQueued

\* The steps of requests that report a result.
LEMMA ResultSteps ==
  ASSUME EventInv, NEW h \in Handlers,
         \/ \E o \in Operations, r \in Reports : ReceiveResult(h, o, r)
         \/ FindResult(h) \/ CheckResult(h) \/ StoreResult(h) \/ ReplayResult(h) \/ Abandon(h)
  PROVE  EventInv'
<1> USE DEF EventInv, EventTypes
<1>1. CASE \E o \in Operations, r \in Reports : ReceiveResult(h, o, r)
  <2>1. PICK o \in Operations, r \in Reports : ReceiveResult(h, o, r)
    BY <1>1
  <2>2. PICK zero : handler' = [handler EXCEPT ![h] = Service("find", "result", o, r, zero, zero)]
    BY <2>1 DEF ReceiveResult
  <2>3. Asks("result", o, r)
    BY DEF Asks
  <2>4. HandlersServe'
    BY <2>2, <2>3, ServiceServes
  <2> QED
    BY <2>1, <2>4, EventsLeftAlone DEF ReceiveResult
<1>2. CASE FindResult(h)
  <2>1. Answered(h) \/ Stage(h, "check")
    BY <1>2 DEF FindResult, Replayed
  <2>2. HandlersServe'
    BY <1>2, <2>1, AnsweredServes, StageServes DEF FindResult, Doing
  <2> QED
    BY <1>2, <2>2, EventsLeftAlone DEF FindResult
<1>3. CASE CheckResult(h)
  <2>1. Asks("result", handler[h].id, handler[h].body)
    BY <1>3, ServedReport DEF CheckResult, Doing, Asks
  <2>2. HandlersServe'
    <3>1. CASE Answered(h)
      BY <3>1, AnsweredServes
    <3>2. CASE handler' = [handler EXCEPT ![h] =
                             Service("store", "result", handler[h].id, handler[h].body, clock, 0)]
      BY <2>1, <3>2, ServiceServes
    <3> QED
      BY <1>3, <3>1, <3>2, Zenon DEF CheckResult
  <2> QED
    BY <1>3, <2>2, EventsLeftAlone DEF CheckResult
<1>4. CASE StoreResult(h)
  <2>1. (\E c : handler' = Overtaken(h, c)) \/ Stage(h, "again")
    BY <1>4 DEF StoreResult
  <2>2. HandlersServe'
    BY <1>4, <2>1, OvertakenServes, StageServes DEF StoreResult, Doing
  <2> QED
    BY <1>4, <2>2, EventsLeftAlone DEF StoreResult
<1>5. CASE ReplayResult(h)
  <2>1. Answered(h)
    BY <1>5 DEF ReplayResult, Replayed
  <2> QED
    BY <1>5, <2>1, AnsweredServes, EventsLeftAlone DEF ReplayResult
<1>6. CASE Abandon(h)
  BY <1>6, AnsweredServes, EventsLeftAlone DEF Abandon
<1> QED
  BY <1>1, <1>2, <1>3, <1>4, <1>5, <1>6

\* A stored event comes with its outbox row.
LEMMA StoreEventKeeps ==
  ASSUME EventInv, NEW h \in Handlers, StoreEvent(h)
  PROVE  EventInv'
<1> DEFINE e == handler[h].id
<1> DEFINE row == [body |-> handler[h].body, content |-> TRUE, expires |-> clock + EventTime,
                   audit |-> clock + AuditTime]
<1>1. e \in EventIds /\ handler[h].body \in EventBodies
  BY ServedEvent DEF StoreEvent, Doing, EventInv, EventTypes
<1>2. row \in EventRow /\ row # NoRow
  <2>1. clock + EventTime \in Nat /\ clock + AuditTime \in Nat
    BY CommandsAssumption DEF EventInv, EventTypes
  <2> QED
    BY <1>1, <2>1, EventRows
<1>3. CASE event[e] # NoRow
  <2>1. Stage(h, "again") /\ UNCHANGED <<clock, eventVars>>
    BY <1>3 DEF StoreEvent
  <2>2. HandlersServe'
    BY <2>1, StageServes DEF StoreEvent, Doing, EventInv, EventTypes
  <2> QED
    BY <2>1, <2>2, EventsLeftAlone
<1>4. CASE event[e] = NoRow
  <2>1. /\ event' = [event EXCEPT ![e] = row]
        /\ queued' = [queued EXCEPT ![e] = "Pending"]
        /\ Answered(h) /\ clock' = clock
    BY <1>4 DEF StoreEvent
  <2>2. HandlersServe'
    BY <2>1, AnsweredServes DEF EventInv, EventTypes
  <2>3. row.content = TRUE
    OBVIOUS
  <2> HIDE DEF row, e
  <2>4. EventTypes'
    BY <1>1, <1>2, <2>1, <2>2 DEF EventInv, EventTypes, OutboxStates
  <2>5. EventsAreQueued'
    BY <1>1, <1>2, <2>1, <2>3, CommandsAssumption DEF EventInv, EventTypes, EventsAreQueued
  <2> QED
    BY <2>4, <2>5 DEF EventInv
<1> QED
  BY <1>3, <1>4

\* The steps of requests that report an event.
LEMMA EventSteps ==
  ASSUME EventInv, NEW h \in Handlers,
         \/ \E e \in EventIds, body \in EventBodies : ReceiveEvent(h, e, body)
         \/ FindEvent(h) \/ StoreEvent(h) \/ ReplayEvent(h)
  PROVE  EventInv'
<1> USE DEF EventInv, EventTypes
<1>1. CASE \E e \in EventIds, body \in EventBodies : ReceiveEvent(h, e, body)
  <2>1. PICK e \in EventIds, body \in EventBodies : ReceiveEvent(h, e, body)
    BY <1>1
  <2>2. PICK zero : handler' = [handler EXCEPT ![h] = Service("find", "event", e, body, zero, zero)]
    BY <2>1 DEF ReceiveEvent
  <2>3. Asks("event", e, body)
    BY DEF Asks
  <2>4. HandlersServe'
    BY <2>2, <2>3, ServiceServes
  <2> QED
    BY <2>1, <2>4, EventsLeftAlone DEF ReceiveEvent
<1>2. CASE FindEvent(h)
  <2>1. Answered(h) \/ Stage(h, "store")
    BY <1>2 DEF FindEvent, Replayed
  <2>2. HandlersServe'
    BY <1>2, <2>1, AnsweredServes, StageServes DEF FindEvent, Doing
  <2> QED
    BY <1>2, <2>2, EventsLeftAlone DEF FindEvent
<1>3. CASE ReplayEvent(h)
  <2>1. Answered(h)
    BY <1>3 DEF ReplayEvent, AnswerStored, Replayed
  <2> QED
    BY <1>3, <2>1, AnsweredServes, EventsLeftAlone DEF ReplayEvent
<1> QED
  BY <1>1, <1>2, <1>3, StoreEventKeeps

\* The worker completes an event whose content is still there.
LEMMA ProcessKeeps ==
  ASSUME EventInv, NEW e \in EventIds, Process(e)
  PROVE  EventInv'
<1>1. HandlersServe'
  BY DEF EventInv, EventTypes, Process, HandlersServe
<1>2. EventTypes'
  BY <1>1 DEF EventInv, EventTypes, Process, OutboxStates
<1>3. EventsAreQueued'
  BY CommandsAssumption DEF EventInv, EventTypes, EventsAreQueued, Process
<1> QED
  BY <1>2, <1>3 DEF EventInv

\* Erasing contents makes tombstones of exactly their outbox rows.
LEMMA PurgeEventsKeeps ==
  ASSUME EventInv, PurgeEvents
  PROVE  EventInv'
<1> DEFINE due == {e \in EventIds : event[e] # NoRow /\ event[e].content /\ event[e].expires <= clock}
<1>1. /\ event' = [e \in EventIds |-> IF e \in due THEN [event[e] EXCEPT !.content = FALSE] ELSE event[e]]
      /\ queued' = [e \in EventIds |-> IF e \in due THEN "Tombstone" ELSE queued[e]]
      /\ clock' = clock /\ handler' = handler
  BY DEF PurgeEvents, commandVars
<1>2. HandlersServe'
  BY <1>1 DEF EventInv, EventTypes, HandlersServe
<1>3. \A e \in due : event[e] \in EventRow
  BY DEF EventInv, EventTypes
<1>4. \A e \in due : /\ event'[e] \in EventRow /\ event'[e] # NoRow /\ event'[e].content = FALSE
                     /\ queued'[e] = "Tombstone"
  <2>1. TAKE e \in due
  <2>2. event'[e] = [event[e] EXCEPT !.content = FALSE] /\ queued'[e] = "Tombstone"
    BY <1>1
  <2> QED
    BY <1>3, <2>1, <2>2, Erased
<1>5. \A e \in EventIds \ due : event'[e] = event[e] /\ queued'[e] = queued[e]
  BY <1>1
<1>6. DOMAIN event' = EventIds /\ DOMAIN queued' = EventIds /\ due \subseteq EventIds
  BY <1>1
<1>7. event' \in [EventIds -> EventRow \union {NoRow}] /\ queued' \in [EventIds -> OutboxStates \union {NoRow}]
  <2> HIDE DEF due
  <2>1. \A e \in EventIds : event'[e] \in EventRow \union {NoRow} /\ queued'[e] \in OutboxStates \union {NoRow}
    BY <1>4, <1>5 DEF EventInv, EventTypes, OutboxStates
  <2>2. event' = [e \in EventIds |-> event'[e]] /\ queued' = [e \in EventIds |-> queued'[e]]
    BY <1>1
  <2> QED
    BY <2>1, <2>2
<1>8. EventsAreQueued'
  <2> HIDE DEF due
  <2> QED
    BY <1>4, <1>5, CommandsAssumption DEF EventInv, EventsAreQueued
<1> QED
  BY <1>1, <1>2, <1>7, <1>8 DEF EventInv, EventTypes

\* An event whose audit time is over goes with its outbox row.
LEMMA PurgeAuditKeeps ==
  ASSUME EventInv, PurgeAudit
  PROVE  EventInv'
<1> DEFINE due == {e \in EventIds : event[e] # NoRow /\ ~event[e].content /\ event[e].audit <= clock}
<1>1. /\ event' = [e \in EventIds |-> IF e \in due THEN NoRow ELSE event[e]]
      /\ queued' = [e \in EventIds |-> IF e \in due THEN NoRow ELSE queued[e]]
      /\ clock' = clock /\ handler' = handler
  BY DEF PurgeAudit, OutboxWithout
<1> HIDE DEF due
<1>2. HandlersServe'
  BY <1>1 DEF EventInv, EventTypes, HandlersServe
<1>3. EventTypes'
  BY <1>1, <1>2 DEF EventInv, EventTypes
<1>4. EventsAreQueued'
  BY <1>1 DEF EventInv, EventsAreQueued
<1> QED
  BY <1>3, <1>4 DEF EventInv

\* Every step keeps events and outbox rows together.
LEMMA NextEvents == EventInv /\ [Next]_recordVars => EventInv'
<1> SUFFICES ASSUME EventInv, [Next]_recordVars PROVE EventInv'
  OBVIOUS
<1>1. CASE UNCHANGED <<clock, eventVars, handler>>
  <2>1. HandlersServe'
    BY <1>1 DEF EventInv, EventTypes, HandlersServe
  <2> QED
    BY <1>1, <2>1, EventsLeftAlone
<1>2. CASE Requests
  <2>1. CASE \E c \in CommandIds : Propose(c)
    BY <1>1, <2>1 DEF Propose
  <2> QED
    BY <1>2, <2>1, ResultSteps, EventSteps, ProcessKeeps DEF Requests
<1>3. CASE PurgeEvents
  BY <1>3, PurgeEventsKeeps
<1>4. CASE PurgeAudit
  BY <1>4, PurgeAuditKeeps
<1>5. CASE ReconcileFiles \/ ProcessFiles \/ FindExpired \/ ProcessExpired
  BY <1>1, <1>5 DEF ReconcileFiles, ProcessFiles, FindExpired, ProcessExpired, commandVars, eventVars
<1>6. CASE EndSweep \/ StopSweep \/ ((ChangeFile \/ ChangeRows) /\ UNCHANGED <<commandVars, sweep>>)
  BY <1>1, <1>6 DEF EndSweep, StopSweep, commandVars, eventVars
<1>7. CASE Tick
  <2>1. clock' \in Nat /\ UNCHANGED <<eventVars, handler>>
    BY <1>7 DEF Tick, EventInv, EventTypes
  <2>2. HandlersServe'
    BY <2>1 DEF EventInv, EventTypes, HandlersServe
  <2> QED
    BY <2>1, <2>2 DEF EventInv, EventTypes, EventsAreQueued, eventVars
<1>8. CASE UNCHANGED recordVars
  BY <1>1, <1>8 DEF recordVars, commandVars, eventVars
<1> QED
  BY <1>2, <1>3, <1>4, <1>5, <1>6, <1>7, <1>8 DEF Next

\* An event and its outbox row appear and disappear together, and a row whose
\* event has no content is a tombstone.
THEOREM EventsStayQueued == Spec => []EventsAreQueued
<1>1. EventInv => EventsAreQueued
  BY DEF EventInv
<1> QED
  BY <1>1, InitEvents, NextEvents, PTL DEF Spec

-------------------------------------------------------------------------------
(* Part 2: legacy files *)

\* What a run may take away: its memories are in the database, or it was put there
\* behind the run's back.
Removable(f, x) == x = NoFile \/ <<f, x>> \in verified \union slipped

\* The source that a run is about to move or unlink.
SourceRemovable ==
  work.step \in {"verified", "replace", "unlink"} => Removable(work.key[1], legacy[work.key[1]])

\* The file in the quarantine that a run is about to overwrite or delete.
PlaceRemovable ==
  work.step \in {"replace", "delete"} => Removable(work.key[1], isolated[work.key])

\* A file in the quarantine that has the hash in its name came there by a run.
IntactRemovable == \A k \in Keys : Intact(k) => Removable(k[1], k[2])

FileInv ==
  /\ lost \subseteq slipped
  /\ DOMAIN legacy = Files /\ DOMAIN isolated = Keys
  /\ SourceRemovable /\ PlaceRemovable /\ IntactRemovable

\* What a step removes without loss of anything but what slipped in.
LEMMA LosesWhatSlipped ==
  ASSUME FileInv, NEW f, NEW x, Removable(f, x), Losing(f, x), slipped' = slipped
  PROVE  lost' \subseteq slipped'
BY DEF FileInv, Removable, Losing

\* What was removable stays so.
LEMMA StaysRemovable ==
  ASSUME verified \subseteq verified', slipped \subseteq slipped', NEW f, NEW x, Removable(f, x)
  PROVE  x = NoFile \/ <<f, x>> \in verified' \union slipped'
BY DEF Removable

\* Nothing is there, nothing is lost.
LEMMA InitFiles == Init => FileInv
BY DEF Init, QuarantineInit, FileInv, SourceRemovable, PlaceRemovable, IntactRemovable, Intact,
       Removable, Nothing

\* Steps of requests, and the first two of the sweep.
LEMMA FilesLeftAlone ==
  ASSUME FileInv, UNCHANGED <<legacy, isolated, work, History>>
  PROVE  FileInv'
BY DEF FileInv, History, SourceRemovable, PlaceRemovable, IntactRemovable, Intact, Removable

\* A step that moves nothing, and takes up nothing that it would remove.
LEMMA WorkGoesOn ==
  ASSUME FileInv, UNCHANGED <<legacy, isolated, lost>>, verified \subseteq verified',
         slipped \subseteq slipped', SourceRemovable', PlaceRemovable'
  PROVE  FileInv'
<1>1. IntactRemovable'
  BY StaysRemovable DEF FileInv, IntactRemovable, Intact, Removable
<1> QED
  BY <1>1 DEF FileInv

\* The work that removes nothing.
LEMMA Harmless ==
  ASSUME work'.step \notin {"verified", "replace", "unlink", "delete"}
  PROVE  SourceRemovable' /\ PlaceRemovable'
BY DEF SourceRemovable, PlaceRemovable

\* Hashing and comparing.
LEMMA ScanKeeps ==
  ASSUME FileInv, (\E f \in Files : Hash(f)) \/ Compare
  PROVE  FileInv'
<1>1. CASE \E f \in Files : Hash(f)
  <2>1. UNCHANGED <<legacy, isolated, lost, verified, slipped>>
    BY <1>1 DEF Hash, History
  <2>2. work' = work \/ work'.step = "read"
    BY <1>1 DEF Hash, Work
  <2>3. CASE work' = work
    BY <2>1, <2>3, FilesLeftAlone DEF History
  <2>4. CASE work'.step = "read"
    BY <2>1, <2>4, Harmless, WorkGoesOn
  <2> QED
    BY <2>2, <2>3, <2>4
<1>2. CASE Compare
  <2> DEFINE f == work.key[1]
             x == legacy[f]
  <2>1. UNCHANGED <<legacy, isolated, lost, slipped>>
    BY <1>2 DEF Compare
  <2>2. CASE work' = Nothing /\ UNCHANGED verified
    <3>1. work'.step = "none"
      BY <2>2 DEF Nothing
    <3> QED
      BY <2>1, <2>2, <3>1, Harmless, WorkGoesOn
  <2>3. CASE work' = Work("verified", work.key) /\ verified' = verified \union {<<f, x>>}
    <3>1. work'.step = "verified" /\ work'.key = work.key
      BY <2>3 DEF Work
    <3>2. SourceRemovable' /\ PlaceRemovable'
      BY <2>1, <2>3, <3>1 DEF SourceRemovable, PlaceRemovable, Removable
    <3> QED
      BY <2>1, <2>3, <3>2, WorkGoesOn
  <2> QED
    BY <1>2, <2>2, <2>3 DEF Compare
<1> QED
  BY <1>1, <1>2

\* A place is found when it is free, or when its file has the hash.
LEMMA FindPlaceKeeps ==
  ASSUME FileInv, FindPlace
  PROVE  FileInv'
<1>1. /\ work.step = "verified" /\ UNCHANGED <<legacy, isolated, lost, verified, slipped>>
      /\ work' = CASE ~Present(isolated, work.key) -> Work("replace", work.key)
                   [] Intact(work.key) -> Work("unlink", work.key)
                   [] OTHER -> Nothing
  BY DEF FindPlace, Now, History
<1>2. Removable(work.key[1], legacy[work.key[1]])
  BY <1>1 DEF FileInv, SourceRemovable
<1>3. CASE work' = Nothing
  <2>1. work'.step = "none"
    BY <1>3 DEF Nothing
  <2> QED
    BY <1>1, <2>1, Harmless, WorkGoesOn
<1>4. CASE work' = Work("replace", work.key) /\ ~Present(isolated, work.key)
  <2>1. work'.step = "replace" /\ work'.key = work.key /\ isolated[work.key] = NoFile
    BY <1>4 DEF Work, Present
  <2>2. SourceRemovable' /\ PlaceRemovable'
    BY <1>1, <1>2, <2>1 DEF SourceRemovable, PlaceRemovable, Removable
  <2> QED
    BY <1>1, <2>2, WorkGoesOn
<1>5. CASE work' = Work("unlink", work.key)
  <2>1. work'.step = "unlink" /\ work'.key = work.key
    BY <1>5 DEF Work
  <2>2. SourceRemovable' /\ PlaceRemovable'
    BY <1>1, <1>2, <2>1 DEF SourceRemovable, PlaceRemovable, Removable
  <2> QED
    BY <1>1, <2>2, WorkGoesOn
<1> QED
  BY <1>1, <1>3, <1>4, <1>5

\* What a move overwrites has slipped in; what it moves was verified or slipped in.
LEMMA ReplaceKeeps ==
  ASSUME FileInv, Replace
  PROVE  FileInv'
<1> DEFINE key == work.key
           f == key[1]
<1>1. work.step = "replace" /\ UNCHANGED <<verified, slipped>>
  BY DEF Replace, Now
<1>2. Removable(f, legacy[f]) /\ Removable(f, isolated[key])
  BY <1>1 DEF FileInv, SourceRemovable, PlaceRemovable
<1>3. CASE ~Present(legacy, f)
  <2>1. work'.step = "none" /\ UNCHANGED <<legacy, isolated, lost>>
    BY <1>3 DEF Replace, Nothing
  <2> QED
    BY <1>1, <2>1, Harmless, WorkGoesOn
<1>4. CASE Present(legacy, f)
  <2>1. /\ isolated' = [isolated EXCEPT ![key] = legacy[f]]
        /\ legacy' = [legacy EXCEPT ![f] = NoFile]
        /\ work'.step = "moved" /\ Losing(f, isolated[key])
    BY <1>4 DEF Replace, Work
  <2>2. lost' \subseteq slipped'
    BY <1>1, <1>2, <2>1, LosesWhatSlipped
  <2>3. IntactRemovable'
    <3> SUFFICES ASSUME NEW k \in Keys, isolated'[k] = k[2]
                 PROVE  k[2] = NoFile \/ <<k[1], k[2]>> \in verified \union slipped
      BY <1>1 DEF IntactRemovable, Intact, Removable
    <3>1. CASE k = key
      BY <1>2, <2>1, <3>1 DEF FileInv, Removable
    <3>2. CASE k # key
      BY <2>1, <3>2 DEF FileInv, IntactRemovable, Intact, Removable
    <3> QED
      BY <3>1, <3>2
  <2>4. SourceRemovable' /\ PlaceRemovable'
    BY <2>1, Harmless
  <2> QED
    BY <2>1, <2>2, <2>3, <2>4 DEF FileInv
<1> QED
  BY <1>3, <1>4

\* What is unlinked was verified or slipped in.
LEMMA UnlinkKeeps ==
  ASSUME FileInv, Unlink
  PROVE  FileInv'
<1> DEFINE f == work.key[1]
<1>1. /\ work.step = "unlink" /\ UNCHANGED <<isolated, verified, slipped>>
      /\ legacy' = [legacy EXCEPT ![f] = NoFile] /\ work'.step = "moved" /\ Losing(f, legacy[f])
  BY DEF Unlink, Now, Work
<1>2. lost' \subseteq slipped'
  BY <1>1, LosesWhatSlipped DEF FileInv, SourceRemovable
<1>3. SourceRemovable' /\ PlaceRemovable'
  BY <1>1, Harmless
<1> QED
  BY <1>1, <1>2, <1>3 DEF FileInv, IntactRemovable, Intact, Removable

\* The report of the move.
LEMMA MovedKeeps ==
  ASSUME FileInv, NEW now, Moved(now)
  PROVE  FileInv'
<1>1. work'.step = "none" /\ UNCHANGED <<legacy, isolated, lost, verified, slipped>>
  BY DEF Moved, History, Nothing
<1> QED
  BY <1>1, Harmless, WorkGoesOn

\* Only a file with the hash in its name is to be deleted.
LEMMA CheckKeeps ==
  ASSUME FileInv, NEW k \in Keys, CheckExpired(k)
  PROVE  FileInv'
<1>1. UNCHANGED <<legacy, isolated, lost, verified, slipped>>
  BY DEF CheckExpired, History
<1>2. CASE work' = work
  BY <1>1, <1>2, FilesLeftAlone DEF History
<1>3. CASE Intact(k) /\ work' = Work("delete", k)
  <2>1. work'.step = "delete" /\ work'.key = k /\ isolated[k] = k[2]
    BY <1>3 DEF Work, Intact
  <2>2. Removable(k[1], isolated[k])
    BY <1>3, <2>1 DEF FileInv, IntactRemovable
  <2>3. SourceRemovable' /\ PlaceRemovable'
    BY <1>1, <2>1, <2>2 DEF SourceRemovable, PlaceRemovable, Removable
  <2> QED
    BY <1>1, <2>3, WorkGoesOn
<1> QED
  BY <1>2, <1>3 DEF CheckExpired, StillTheSame

\* What is deleted had the hash in its name, or slipped in.
LEMMA DeleteKeeps ==
  ASSUME FileInv, DeleteExpired
  PROVE  FileInv'
<1> DEFINE key == work.key
<1>1. /\ work.step = "delete" /\ UNCHANGED <<legacy, verified, slipped>>
      /\ isolated' = [isolated EXCEPT ![key] = NoFile] /\ work'.step = "none"
      /\ Losing(key[1], isolated[key])
  BY DEF DeleteExpired, Now, Nothing
<1>2. lost' \subseteq slipped'
  BY <1>1, LosesWhatSlipped DEF FileInv, PlaceRemovable
<1>3. IntactRemovable'
  <2> SUFFICES ASSUME NEW k \in Keys, isolated'[k] = k[2]
               PROVE  k[2] = NoFile \/ <<k[1], k[2]>> \in verified \union slipped
    BY <1>1 DEF IntactRemovable, Intact, Removable
  <2>1. isolated'[k] = NoFile \/ isolated'[k] = isolated[k]
    BY <1>1 DEF FileInv
  <2> QED
    BY <2>1 DEF FileInv, IntactRemovable, Intact, Removable
<1>4. SourceRemovable' /\ PlaceRemovable'
  BY <1>1, Harmless
<1> QED
  BY <1>1, <1>2, <1>3, <1>4 DEF FileInv

\* What is put where a run is about to remove something has slipped in.
LEMMA ChangeKeeps ==
  ASSUME FileInv, ChangeFile
  PROVE  FileInv'
<1>1. UNCHANGED <<work, verified, lost>>
  BY DEF ChangeFile
<1>2. ASSUME NEW f \in Files, NEW x,
             legacy' = [legacy EXCEPT ![f] = x], isolated' = isolated, Slips(f, x, SourceAtRisk(f))
      PROVE  FileInv'
  <2>1. slipped \subseteq slipped'
    BY <1>2 DEF Slips
  <2>2. SourceRemovable'
    <3> SUFFICES ASSUME work.step \in {"verified", "replace", "unlink"}
                 PROVE  \/ legacy'[work.key[1]] = NoFile
                        \/ <<work.key[1], legacy'[work.key[1]]>> \in verified \union slipped'
      BY <1>1 DEF SourceRemovable, Removable
    <3>1. CASE work.key[1] = f
      BY <1>2, <3>1 DEF FileInv, Slips, SourceAtRisk
    <3>2. CASE work.key[1] # f
      BY <1>2, <2>1, <3>2 DEF FileInv, SourceRemovable, Removable
    <3> QED
      BY <3>1, <3>2
  <2>3. PlaceRemovable' /\ IntactRemovable'
    BY <1>1, <1>2, <2>1 DEF FileInv, PlaceRemovable, IntactRemovable, Intact, Removable
  <2> QED
    BY <1>1, <1>2, <2>1, <2>2, <2>3 DEF FileInv
<1>3. ASSUME NEW k \in Keys, NEW x, x # k[2],
             isolated' = [isolated EXCEPT ![k] = x], legacy' = legacy,
             Slips(k[1], x, PlaceAtRisk(k))
      PROVE  FileInv'
  <2>1. slipped \subseteq slipped'
    BY <1>3 DEF Slips
  <2>2. PlaceRemovable'
    <3> SUFFICES ASSUME work.step \in {"replace", "delete"}
                 PROVE  \/ isolated'[work.key] = NoFile
                        \/ <<work.key[1], isolated'[work.key]>> \in verified \union slipped'
      BY <1>1 DEF PlaceRemovable, Removable
    <3>1. CASE work.key = k
      BY <1>3, <3>1 DEF FileInv, Slips, PlaceAtRisk
    <3>2. CASE work.key # k
      BY <1>3, <2>1, <3>2 DEF FileInv, PlaceRemovable, Removable
    <3> QED
      BY <3>1, <3>2
  <2>3. SourceRemovable'
    BY <1>1, <1>3, <2>1 DEF FileInv, SourceRemovable, Removable
  <2>4. IntactRemovable'
    <3> SUFFICES ASSUME NEW j \in Keys, isolated'[j] = j[2]
                 PROVE  j[2] = NoFile \/ <<j[1], j[2]>> \in verified \union slipped'
      BY <1>1 DEF IntactRemovable, Intact, Removable
    <3>1. j # k
      BY <1>3 DEF FileInv
    <3> QED
      BY <1>3, <2>1, <3>1 DEF FileInv, IntactRemovable, Intact, Removable
  <2> QED
    BY <1>1, <1>3, <2>1, <2>2, <2>3, <2>4 DEF FileInv
<1> QED
  BY <1>2, <1>3 DEF ChangeFile

\* A run that stops forgets what it had in its hands.
LEMMA StopKeeps ==
  ASSUME FileInv, StopRun
  PROVE  FileInv'
<1>1. work'.step = "none" /\ UNCHANGED <<legacy, isolated, lost, verified, slipped>>
  BY DEF StopRun, History, Nothing
<1> QED
  BY <1>1, Harmless, WorkGoesOn

\* Every step keeps what is safe.
LEMMA NextFiles == FileInv /\ [Next]_recordVars => FileInv'
<1> SUFFICES ASSUME FileInv, [Next]_recordVars PROVE FileInv'
  OBVIOUS
<1>1. CASE UNCHANGED <<legacy, isolated, work, History>>
  BY <1>1, FilesLeftAlone
<1>2. CASE PurgeEvents \/ PurgeAudit \/ Tick \/ UNCHANGED recordVars
           \/ (Requests /\ UNCHANGED <<quarantineVars, sweep>>)
  BY <1>1, <1>2 DEF PurgeEvents, PurgeAudit, Tick, recordVars, quarantineVars, History
<1>3. CASE ReconcileFiles \/ FindExpired \/ EndSweep
  BY <1>1, <1>3 DEF ReconcileFiles, FindExpired, EndSweep, Reconcile, SelectExpired, CommitExpired
<1>4. CASE ProcessFiles
  BY <1>4, ScanKeeps, FindPlaceKeeps, ReplaceKeeps, UnlinkKeeps, MovedKeeps DEF ProcessFiles
<1>5. CASE ProcessExpired
  BY <1>5, CheckKeeps, DeleteKeeps DEF ProcessExpired
<1>6. CASE StopSweep
  BY <1>6, StopKeeps DEF StopSweep
<1>7. CASE ChangeFile
  BY <1>7, ChangeKeeps
<1>8. CASE ChangeRows
  BY <1>1, <1>8 DEF ChangeRows
<1> QED
  BY <1>2, <1>3, <1>4, <1>5, <1>6, <1>7, <1>8 DEF Next

\* The last copy of a legacy file is removed only when its memories were found in
\* the database, wherever the run stops and whatever operators put into the two
\* directories before; what is put there between the run's look at a place and the
\* move or the deletion may be lost, and only that.
THEOREM NothingUnverifiedIsEverLost == Spec => []NothingUnverifiedIsLost
<1>1. FileInv => NothingUnverifiedIsLost
  BY DEF FileInv, NothingUnverifiedIsLost
<1> QED
  BY <1>1, InitFiles, NextFiles, PTL DEF Spec

-------------------------------------------------------------------------------
(* Lemmas: rows that are left of a table, and rows that are put into one *)

\* How many numbers of a finite set are not above one of them.
Rank(places, i) == Cardinality({k \in places : k <= i})

\* A larger number of the set has a higher rank.
LEMMA RanksClimb ==
  ASSUME NEW places \in SUBSET Nat, IsFiniteSet(places), NEW i \in places, NEW j \in places, i < j
  PROVE  Rank(places, i) < Rank(places, j)
<1> DEFINE low == {k \in places : k <= i}
           high == {k \in places : k <= j}
<1>1. low \subseteq high /\ j \in high /\ j \notin low
  <2>1. i \in Nat /\ j \in Nat /\ \A k \in places : k \in Nat
    OBVIOUS
  <2>2. \A k \in low : k \in high
    BY <2>1
  <2>3. j \in high /\ ~(j <= i)
    BY <2>1
  <2> QED
    BY <2>2, <2>3
<1>2. IsFiniteSet(high)
  BY FS_Subset
<1>3. IsFiniteSet(low) /\ Cardinality(low) <= Cardinality(high)
      /\ Cardinality(low) # Cardinality(high)
  <2> HIDE DEF low, high
  <2> QED
    BY <1>1, <1>2, FS_Subset, Zenon
<1>4. Cardinality(low) \in Nat /\ Cardinality(high) \in Nat
  BY <1>2, <1>3, FS_CardinalityType
<1> QED
  BY <1>3, <1>4 DEF Rank

\* Ranks are the numbers from one to the size of the set.
LEMMA EveryRank ==
  ASSUME NEW places \in SUBSET Nat, IsFiniteSet(places)
  PROVE  /\ Cardinality(places) \in Nat
         /\ \A i \in places : Rank(places, i) \in 1..Cardinality(places)
         /\ \A n \in 1..Cardinality(places) : \E i \in places : Rank(places, i) = n
<1> DEFINE size == Cardinality(places)
           f == [i \in places |-> Rank(places, i)]
<1>1. size \in Nat
  BY FS_CardinalityType
<1>2. \A i \in places : Rank(places, i) \in 1..size
  <2> TAKE i \in places
  <2> DEFINE below == {k \in places : k <= i}
  <2>1. IsFiniteSet(below) /\ Cardinality(below) <= size /\ Cardinality(below) \in Nat
    BY FS_Subset, FS_CardinalityType
  <2>2. Cardinality(below) # 0
    <3>1. i \in below
      OBVIOUS
    <3> HIDE DEF below
    <3> QED
      BY <2>1, <3>1, FS_EmptySet
  <2> QED
    BY <1>1, <2>1, <2>2 DEF Rank
<1>3. f \in Injection(places, 1..size)
  <2>1. \A i, j \in places : f[i] = f[j] => i = j
    <3> SUFFICES ASSUME NEW i \in places, NEW j \in places, i # j PROVE f[i] # f[j]
      OBVIOUS
    <3>1. i < j \/ j < i
      OBVIOUS
    <3>2. f[i] < f[j] \/ f[j] < f[i]
      BY <3>1, RanksClimb
    <3> QED
      BY <1>1, <1>2, <3>2
  <2> QED
    BY <1>2, <2>1 DEF Injection, IsInjective
<1>4. IsFiniteSet(1..size) /\ Cardinality(1..size) = size
  BY <1>1, FS_Interval
<1>5. f \in Surjection(places, 1..size)
  <2> HIDE DEF f
  <2> QED
    BY <1>3, <1>4, FS_Injection
<1>6. \A n \in 1..size : \E i \in places : f[i] = n
  <2> HIDE DEF f
  <2> QED
    BY <1>5 DEF Surjection
<1> QED
  BY <1>1, <1>2, <1>6

\* Nth lists the numbers of a finite set in their order.
LEMMA NthLists ==
  ASSUME NEW places \in SUBSET Nat, IsFiniteSet(places)
  PROVE  /\ \A n \in 1..Cardinality(places) : Nth(places, n) \in places
         /\ \A i \in places : \E n \in 1..Cardinality(places) : Nth(places, n) = i
         /\ \A m, n \in 1..Cardinality(places) : m < n => Nth(places, m) < Nth(places, n)
<1> DEFINE size == Cardinality(places)
<1>1. \A n \in 1..size : Nth(places, n) \in places /\ Rank(places, Nth(places, n)) = n
  BY EveryRank DEF Nth, Rank
<1>2. \A i \in places : Nth(places, Rank(places, i)) = i
  <2> TAKE i \in places
  <2> DEFINE j == Nth(places, Rank(places, i))
  <2>1. j \in places /\ Rank(places, j) = Rank(places, i)
    BY <1>1, EveryRank
  <2>2. Rank(places, i) \in Nat
    BY EveryRank
  <2>3. i \in Nat /\ j \in Nat
    BY <2>1
  <2> HIDE DEF j
  <2>4. ~(j < i) /\ ~(i < j)
    BY <2>1, <2>2, RanksClimb
  <2>5. i = j
    BY <2>3, <2>4
  <2> QED
    BY <2>5 DEF j
<1>3. \A m, n \in 1..size : m < n => Nth(places, m) < Nth(places, n)
  <2> SUFFICES ASSUME NEW m \in 1..size, NEW n \in 1..size, m < n, ~(Nth(places, m) < Nth(places, n))
               PROVE  FALSE
    OBVIOUS
  <2> DEFINE i == Nth(places, m)
             j == Nth(places, n)
  <2>1. i \in places /\ j \in places /\ Rank(places, i) = m /\ Rank(places, j) = n
    BY <1>1
  <2>2. i = j \/ j < i
    <3>1. i \in Nat /\ j \in Nat /\ ~(i < j)
      BY <2>1
    <3> HIDE DEF i, j
    <3> QED
      BY <3>1
  <2>3. CASE i = j
    BY <2>1, <2>3
  <2>4. CASE j < i
    <3>1. n < m
      <4> HIDE DEF i, j
      <4> QED
        BY <2>1, <2>4, RanksClimb
    <3> QED
      BY <3>1, EveryRank
  <2> QED
    BY <2>2, <2>3, <2>4
<1> QED
  BY <1>1, <1>2, <1>3, EveryRank

\* What a sublist consists of.
LEMMA SublistRange ==
  ASSUME NEW S, NEW s \in Seq(S), NEW places \in SUBSET DOMAIN s
  PROVE  /\ Sublist(s, places) \in Seq(S)
         /\ Len(Sublist(s, places)) = Cardinality(places)
         /\ ToSet(Sublist(s, places)) = {s[i] : i \in places}
<1>1. places \in SUBSET Nat /\ IsFiniteSet(places) /\ Cardinality(places) \in Nat
  <2>1. IsFiniteSet(1..Len(s))
    BY FS_Interval
  <2> QED
    BY <2>1, FS_Subset, FS_CardinalityType
<1> DEFINE t == Sublist(s, places)
<1>2. t = [n \in 1..Cardinality(places) |-> s[Nth(places, n)]]
  BY DEF Sublist
<1>3. t \in Seq(S) /\ Len(t) = Cardinality(places) /\ DOMAIN t = 1..Cardinality(places)
  <2>1. \A n \in 1..Cardinality(places) : s[Nth(places, n)] \in S
    BY <1>1, NthLists
  <2> QED
    BY <1>1, <1>2, <2>1
<1>4. ToSet(t) = {s[i] : i \in places}
  <2>1. ToSet(t) = {t[n] : n \in 1..Cardinality(places)}
    <3> HIDE DEF t
    <3> QED
      BY <1>3 DEF ToSet
  <2>2. \A n \in 1..Cardinality(places) : t[n] = s[Nth(places, n)] /\ Nth(places, n) \in places
    BY <1>1, <1>2, NthLists
  <2>3. \A i \in places : \E n \in 1..Cardinality(places) : t[n] = s[i]
    BY <1>1, <1>2, NthLists
  <2> HIDE DEF t
  <2>4. \A x \in ToSet(t) : \E i \in places : x = s[i]
    BY <2>1, <2>2
  <2>5. \A i \in places : s[i] \in ToSet(t)
    BY <2>1, <2>3
  <2> QED
    BY <2>4, <2>5
<1> QED
  BY <1>3, <1>4

\* t is the end of s.
EndOf(t, s) ==
  /\ t # <<>> => Last(t) = Last(s) /\ s # <<>>
  /\ Len(t) <= Len(s)
  /\ \A m, n \in 1..Len(t) : m < n => \E i, j \in 1..Len(s) : i < j /\ t[m] = s[i] /\ t[n] = s[j]
  /\ \A n \in 2..Len(t) : \E i \in 2..Len(s) : t[n - 1] = s[i - 1] /\ t[n] = s[i]

\* A sublist that has all places from one of them on is the end of the sequence.
LEMMA SublistIsEnd ==
  ASSUME NEW S, NEW s \in Seq(S), NEW places \in SUBSET DOMAIN s,
         \A i \in places : \A j \in DOMAIN s : i <= j => j \in places
  PROVE  EndOf(Sublist(s, places), s)
<1> DEFINE t == Sublist(s, places)
           size == Cardinality(places)
<1>1. places \in SUBSET (1..Len(s)) /\ places \in SUBSET Nat /\ IsFiniteSet(places) /\ size \in Nat /\ size <= Len(s)
  <2>1. IsFiniteSet(1..Len(s)) /\ Cardinality(1..Len(s)) = Len(s)
    <3>1. 1 \in Int /\ Len(s) \in Int /\ Len(s) >= 0
      OBVIOUS
    <3> QED
      BY <3>1, FS_Interval, SMTT(30)
  <2> QED
    BY <2>1, FS_Subset, FS_CardinalityType
<1>2. Len(t) = size /\ t \in Seq(S)
  BY SublistRange
<1>3. \A n \in 1..size : t[n] = s[Nth(places, n)] /\ Nth(places, n) \in places
  BY <1>1, NthLists DEF Sublist
<1>4. \A n \in 2..size : Nth(places, n) = Nth(places, n - 1) + 1
  <2> TAKE n \in 2..size
  <2> DEFINE i == Nth(places, n - 1)
             j == Nth(places, n)
  <2>1. n - 1 \in 1..size /\ n \in 1..size /\ n - 1 < n
    BY <1>1
  <2>2. i \in places /\ j \in places /\ i < j
    BY <1>1, <2>1, NthLists
  <2>3. i + 1 \in places
    BY <1>1, <2>2
  <2>4. PICK m \in 1..size : Nth(places, m) = i + 1
    BY <1>1, <2>3, NthLists
  <2>5. ~(m < n - 1) /\ m # n - 1
    <3>1. m < n - 1 => Nth(places, m) < i
      BY <1>1, <2>1, NthLists
    <3> QED
      BY <1>1, <2>2, <2>4, <3>1
  <2>6. ~(n < m)
    <3>1. n < m => j < Nth(places, m)
      BY <1>1, <2>1, NthLists
    <3> QED
      BY <1>1, <2>2, <2>4, <3>1
  <2>7. m = n
    BY <1>1, <2>1, <2>5, <2>6
  <2> QED
    BY <2>4, <2>7
<1>5. size # 0 => Nth(places, size) = Len(s)
  <2> SUFFICES ASSUME size # 0 PROVE Nth(places, size) = Len(s)
    OBVIOUS
  <2>1. Nth(places, size) \in places
    BY <1>1, <1>3
  <2>2. Len(s) \in places
    BY <1>1, <2>1
  <2>3. PICK m \in 1..size : Nth(places, m) = Len(s)
    BY <1>1, <2>2, NthLists
  <2>4. m < size => Nth(places, m) < Nth(places, size)
    BY <1>1, NthLists
  <2> QED
    BY <1>1, <2>1, <2>3, <2>4
<1>6. \A n \in 2..size : \E i \in 2..Len(s) : t[n - 1] = s[i - 1] /\ t[n] = s[i]
  <2> TAKE n \in 2..size
  <2> DEFINE i == Nth(places, n)
  <2>1. n - 1 \in 1..size /\ n \in 1..size
    BY <1>1
  <2>2. Nth(places, n - 1) \in 1..Len(s) /\ i = Nth(places, n - 1) + 1 /\ i \in 1..Len(s)
    BY <1>1, <1>3, <1>4, <2>1
  <2>3. i \in 2..Len(s) /\ Nth(places, n - 1) = i - 1
    BY <2>2
  <2>4. t[n - 1] = s[i - 1] /\ t[n] = s[i]
    BY <1>3, <2>1, <2>3
  <2> QED
    BY <2>3, <2>4
<1>7. \A m, n \in 1..size : m < n => \E i, j \in 1..Len(s) : i < j /\ t[m] = s[i] /\ t[n] = s[j]
  BY <1>1, <1>3, NthLists
<1>8. t # <<>> => Last(t) = Last(s) /\ s # <<>>
  <2> SUFFICES ASSUME t # <<>> PROVE Last(t) = Last(s) /\ s # <<>>
    OBVIOUS
  <2>1. size # 0
    BY <1>2
  <2>2. Last(t) = t[size] /\ t[size] = s[Len(s)]
    BY <1>1, <1>2, <1>3, <1>5, <2>1 DEF Last
  <2> QED
    BY <1>1, <2>1, <2>2 DEF Last
<1> QED
  BY <1>1, <1>2, <1>6, <1>7, <1>8 DEF EndOf

\* What it means to insert.
LEMMA InsertAtIs ==
  \A s, i, e : InsertAt(s, i, e) = SubSeq(s, 1, i - 1) \o <<e>> \o SubSeq(s, i, Len(s))
BY DEF InsertAt

\* The rows with one more behind the first p.
With(s, p, row) == InsertAt(s, p + 1, row)

\* u consists of the rows s and one more at its place.
IsWith(u, S, s, p, row) ==
  /\ u \in Seq(S) /\ ToSet(u) = ToSet(s) \union {row} /\ Len(u) = Len(s) + 1
  /\ \A i \in 1..p : u[i] = s[i]
  /\ u[p + 1] = row
  /\ \A i \in p + 2..Len(s) + 1 : u[i] = s[i - 1]

\* An inserted row is the only one that is new, at its place.
LEMMA Inserted ==
  ASSUME NEW S, NEW s \in Seq(S), NEW p \in 0..Len(s), NEW row \in S
  PROVE  IsWith(With(s, p, row), S, s, p, row)
<1> DEFINE front == SubSeq(s, 1, p)
           back == SubSeq(s, p + 1, Len(s))
           t == front \o <<row>> \o back
<1>1. InsertAt(s, p + 1, row) = t
  <2> DEFINE q == p + 1
  <2>1. q - 1 = p
    OBVIOUS
  <2>2. back = SubSeq(s, q, Len(s))
    OBVIOUS
  <2>3. InsertAt(s, q, row) = t
    <3> HIDE DEF q, back
    <3> QED
      BY <2>1, <2>2, InsertAtIs, Zenon
  <2> QED
    BY <2>3
<1>2. front \in Seq(S) /\ back \in Seq(S) /\ Len(front) = p /\ Len(back) = Len(s) - p
  OBVIOUS
<1>3. /\ \A i \in 1..p : front[i] = s[i]
      /\ \A i \in 1..Len(s) - p : back[i] = s[p + i]
  OBVIOUS
<1>4. t \in Seq(S) /\ Len(t) = Len(s) + 1
  <2> HIDE DEF front, back
  <2> QED
    BY <1>2
<1>5. /\ \A i \in 1..p : t[i] = s[i]
      /\ t[p + 1] = row
      /\ \A i \in p + 2..Len(s) + 1 : t[i] = s[i - 1]
  <2> HIDE DEF front, back
  <2>1. \A i \in 1..p : t[i] = front[i]
    BY <1>2
  <2>2. t[p + 1] = row
    BY <1>2
  <2>3. \A i \in p + 2..Len(s) + 1 : t[i] = back[i - p - 1]
    BY <1>2
  <2> HIDE DEF t
  <2>4. \A i \in p + 2..Len(s) + 1 : t[i] = s[i - 1]
    <3> TAKE i \in p + 2..Len(s) + 1
    <3>1. i - p - 1 \in 1..Len(s) - p /\ p + (i - p - 1) = i - 1
      OBVIOUS
    <3>2. back[i - p - 1] = s[p + (i - p - 1)]
      BY <1>3, <3>1
    <3> QED
      BY <2>3, <3>1, <3>2
  <2> QED
    BY <1>3, <2>1, <2>2, <2>4
<1> HIDE DEF t
<1>6. \A i \in 1..Len(s) : \E j \in 1..Len(t) : t[j] = s[i]
  <2> TAKE i \in 1..Len(s)
  <2>1. CASE i <= p
    BY <1>4, <1>5, <2>1
  <2>2. CASE i > p
    <3>1. i + 1 \in p + 2..Len(s) + 1 /\ i + 1 \in 1..Len(t)
      BY <1>4, <2>2
    <3>2. t[i + 1] = s[i + 1 - 1] /\ i + 1 - 1 = i
      BY <1>5, <3>1
    <3> QED
      BY <3>1, <3>2
  <2> QED
    BY <2>1, <2>2
<1>7. \A j \in 1..Len(t) : t[j] = row \/ \E i \in 1..Len(s) : t[j] = s[i]
  <2> TAKE j \in 1..Len(t)
  <2>1. j \in 1..p \/ j = p + 1 \/ j \in p + 2..Len(s) + 1
    BY <1>4
  <2>2. CASE j \in p + 2..Len(s) + 1
    <3>1. j - 1 \in 1..Len(s) /\ t[j] = s[j - 1]
      BY <1>5, <2>2
    <3> QED
      BY <3>1
  <2> QED
    BY <1>5, <2>1, <2>2
<1>8. ToSet(t) = ToSet(s) \union {row}
  <2>1. ToSet(t) = {t[i] : i \in 1..Len(t)} /\ ToSet(s) = {s[i] : i \in 1..Len(s)}
    BY <1>4 DEF ToSet
  <2>2. row \in ToSet(t)
    BY <1>4, <1>5, <2>1
  <2>3. \A x \in ToSet(s) : x \in ToSet(t)
    BY <1>6, <2>1
  <2>4. \A x \in ToSet(t) : x \in ToSet(s) \union {row}
    BY <1>7, <2>1
  <2> QED
    BY <2>2, <2>3, <2>4
<1> QED
  <2>1. With(s, p, row) = t
    BY <1>1 DEF With
  <2> QED
    BY <1>4, <1>5, <1>8, <2>1 DEF IsWith

\* A row that is inserted behind all others is appended.
LEMMA InsertedLast ==
  ASSUME NEW S, NEW s \in Seq(S), NEW row \in S
  PROVE  InsertAt(s, Len(s) + 1, row) = Append(s, row)
<1> DEFINE q == Len(s) + 1
           t == SubSeq(s, 1, Len(s)) \o <<row>> \o SubSeq(s, q, Len(s))
<1>1. InsertAt(s, q, row) = t
  <2>1. q - 1 = Len(s)
    OBVIOUS
  <2> HIDE DEF q
  <2> QED
    BY <2>1, InsertAtIs, Zenon
<1>2. SubSeq(s, 1, Len(s)) = s /\ SubSeq(s, q, Len(s)) = <<>>
  OBVIOUS
<1>3. t = s \o <<row>> \o <<>>
  <2> HIDE DEF q
  <2> QED
    BY <1>2
<1>4. s \o <<row>> \o <<>> = Append(s, row)
  OBVIOUS
<1> QED
  BY <1>1, <1>3, <1>4

-------------------------------------------------------------------------------
(* Part 3: what an id was answered for *)

ResultRow == [id : Operations, body : Reports, audit : Nat]

\* h serves a report.
Posting(h) == ~Doing(h, "idle") /\ handler[h].kind = "result"

ResultTypes ==
  /\ results \in [CommandIds -> Seq(ResultRow)]
  /\ candidate \in [CommandIds -> Nat \union {NoRow}]
  /\ DOMAIN answers = Ids
  /\ \A h \in Handlers : Posting(h) => handler[h].received \in Nat /\ handler[h].newer \in Nat

\* An id has one row.
OneRow == \A r, s \in StoredResults : r.id = s.id => r = s

\* A row with this id and body is stored.
HasBody(i, body) ==
  \/ i \in Operations /\ \E row \in StoredResults : row.id = i /\ row.body = body
  \/ i \in EventIds /\ event[i] # NoRow /\ event[i].body = body

\* Ids were answered for bodies that are stored.
AnswersStored == \A i \in Ids : \A body \in answers[i] : HasBody(i, body)

AnswersInv == ResultTypes /\ OneRow /\ AnswersStored

\* An id has one body.
LEMMA OneBody ==
  ASSUME OneRow, NEW i, NEW a, NEW b, HasBody(i, a), HasBody(i, b)
  PROVE  a = b
<1>1. i \notin Operations \/ i \notin EventIds
  BY CommandsAssumption
<1> QED
  BY <1>1 DEF OneRow, HasBody

\* So an id is answered for one.
LEMMA OneAnswer == AnswersInv => SameAnswer
<1> SUFFICES ASSUME AnswersInv, NEW i \in Ids PROVE Cardinality(answers[i]) <= 1
  BY DEF SameAnswer
<1>1. \A a, b \in answers[i] : a = b
  BY OneBody DEF AnswersInv, AnswersStored
<1>2. CASE answers[i] = {}
  BY <1>2, FS_EmptySet
<1>3. CASE answers[i] # {}
  <2>1. PICK a \in answers[i] : TRUE
    BY <1>3
  <2>2. answers[i] = {a}
    BY <1>1, <2>1
  <2>3. Cardinality({a}) = 1
    BY FS_Singleton
  <2> QED
    BY <2>2, <2>3
<1> QED
  BY <1>2, <1>3

\* What h answers, or nothing.
Answers(h, o, b) == o = handler[h].id /\ b = handler[h].body /\ Answer(h)

\* What is answered for is stored, and what is stored stays.
LEMMA AnswersKept ==
  ASSUME AnswersStored, DOMAIN answers = Ids,
         \A i, body : HasBody(i, body) => HasBody(i, body)',
         \/ answers' = answers
         \/ \E h \in Handlers : \E o, b : Answers(h, o, b) /\ HasBody(o, b)'
  PROVE  AnswersStored' /\ DOMAIN answers' = Ids
<1>1. CASE answers' = answers
  BY <1>1 DEF AnswersStored
<1>2. CASE \E h \in Handlers : \E o, b : Answers(h, o, b) /\ HasBody(o, b)'
  <2>1. PICK h \in Handlers : \E o, b : Answers(h, o, b) /\ HasBody(o, b)'
    BY <1>2
  <2>0. PICK o, b : Answers(h, o, b) /\ HasBody(o, b)'
    BY <2>1
  <2>2. answers' = [answers EXCEPT ![o] = @ \union {b}]
    BY <2>0 DEF Answer, Answers
  <2>3. \A i \in Ids : \A body \in answers'[i] : body \in answers[i] \/ (i = o /\ body = b)
    BY <2>2
  <2>4. AnswersStored'
    <3> SUFFICES ASSUME NEW i \in Ids, NEW body \in answers'[i] PROVE HasBody(i, body)'
      BY DEF AnswersStored
    <3>1. CASE body \in answers[i]
      BY <3>1 DEF AnswersStored
    <3> QED
      BY <2>0, <2>3, <3>1
  <2> QED
    BY <2>2, <2>4
<1> QED
  BY <1>1, <1>2

\* Handlers that write no row.
LEMMA OnlyAnswers ==
  ASSUME AnswersInv, UNCHANGED <<results, candidate, event>>,
         \/ answers' = answers
         \/ \E h \in Handlers : \E o, b : Answers(h, o, b) /\ HasBody(o, b),
         \A h \in Handlers : Posting(h)' => handler'[h].received \in Nat /\ handler'[h].newer \in Nat
  PROVE  AnswersInv'
<1>1. StoredResults' = StoredResults
  BY DEF StoredResults
<1>2. \A i, body : HasBody(i, body) <=> HasBody(i, body)'
  BY <1>1 DEF HasBody
<1>3. AnswersStored' /\ DOMAIN answers' = Ids
  BY <1>2, AnswersKept DEF AnswersInv, ResultTypes
<1>4. OneRow'
  BY <1>1 DEF AnswersInv, OneRow
<1> QED
  BY <1>3, <1>4 DEF AnswersInv, ResultTypes

\* A report that is being served is the one that was, if any was.
Unmoved(g) ==
  Posting(g)' =>
    /\ Posting(g)
    /\ handler'[g].id = handler[g].id /\ handler'[g].body = handler[g].body
    /\ handler'[g].received = handler[g].received /\ handler'[g].newer = handler[g].newer
    /\ ~Doing(g, "store") => ~Doing(g, "store")'

\* A request that is answered, or goes on, moves no other one.
LEMMA OthersUnmoved ==
  ASSUME HandlersServe, NEW h \in Handlers,
         \/ Answered(h)
         \/ ~Doing(h, "idle") /\ \E s \in {"check", "store", "again"} :
              Stage(h, s) /\ (s = "store" => ~Posting(h))
  PROVE  \A g \in Handlers : Unmoved(g)
<1>1. CASE Answered(h)
  <2>1. handler'[h].step = "idle" /\ \A g \in Handlers \ {h} : handler'[g] = handler[g]
    BY <1>1 DEF Answered, HandlersServe, Waiting
  <2> QED
    BY <2>1 DEF Unmoved, Posting, Doing
<1>2. CASE ~Doing(h, "idle") /\ \E s \in {"check", "store", "again"} :
             Stage(h, s) /\ (s = "store" => ~Posting(h))
  <2>1. PICK s \in {"check", "store", "again"} : Stage(h, s) /\ (s = "store" => ~Posting(h))
    BY <1>2
  <2>2. PICK step, kind, id, body, received, newer :
          Serving(handler[h], step, kind, id, body, received, newer)
    BY <1>2 DEF HandlersServe, Serves, Doing, Waiting
  <2>3. /\ handler[h] = Service(step, kind, id, body, received, newer)
        /\ handler'[h] = Service(s, kind, id, body, received, newer)
    BY <2>1, <2>2, NextStage DEF Stage, HandlersServe, Serving
  <2>4. \A g \in Handlers \ {h} : handler'[g] = handler[g]
    BY <2>1 DEF Stage, HandlersServe
  <2>5. Unmoved(h)
    BY <1>2, <2>1, <2>3 DEF Unmoved, Posting, Doing, Service
  <2>6. \A g \in Handlers \ {h} : Unmoved(g)
    BY <2>4 DEF Unmoved, Posting, Doing
  <2> QED
    BY <2>5, <2>6
<1> QED
  BY <1>1, <1>2

\* A request that begins, or that was checked, moves no other one.
LEMMA ServiceMoves ==
  ASSUME HandlersServe, NEW h \in Handlers, NEW s, NEW kind, NEW id, NEW body,
         NEW received, NEW newer,
         handler' = [handler EXCEPT ![h] = Service(s, kind, id, body, received, newer)]
  PROVE  /\ handler'[h].step = s /\ handler'[h].kind = kind /\ handler'[h].id = id
         /\ handler'[h].body = body
         /\ handler'[h].received = received /\ handler'[h].newer = newer
         /\ \A g \in Handlers \ {h} : Unmoved(g)
<1>1. handler'[h] = Service(s, kind, id, body, received, newer)
  BY DEF HandlersServe
<1>2. \A g \in Handlers \ {h} : Unmoved(g)
  BY DEF HandlersServe, Unmoved, Posting, Doing
<1> QED
  BY <1>1, <1>2 DEF Service

\* Moments of receipt, and how many were stored since, are numbers.
LEMMA CountsStay ==
  ASSUME AnswersInv, NEW h \in Handlers, \A g \in Handlers \ {h} : Unmoved(g),
         Unmoved(h) \/ (handler'[h].received \in Nat /\ handler'[h].newer \in Nat)
  PROVE  \A g \in Handlers :
           Posting(g)' => handler'[g].received \in Nat /\ handler'[g].newer \in Nat
BY DEF AnswersInv, ResultTypes, Unmoved

\* A report that is stored makes its own request idle, and the others of its command
\* that were checked count it.
LEMMA OvertakenMoves ==
  ASSUME HandlersServe, NEW h \in Handlers, NEW c, handler' = Overtaken(h, c), NEW g \in Handlers,
         Posting(g)'
  PROVE  /\ Posting(g) /\ g # h /\ (Doing(g, "store")' => Doing(g, "store"))
         /\ handler'[g].id = handler[g].id /\ handler'[g].body = handler[g].body
         /\ handler'[g].received = handler[g].received
         /\ handler'[g].newer = IF Doing(g, "store") /\ Reporting(g, c) THEN handler[g].newer + 1
                                ELSE handler[g].newer
<1>1. g # h
  <2> SUFFICES ASSUME g = h PROVE FALSE
    OBVIOUS
  <2>1. handler'[g] = Waiting
    BY DEF Overtaken
  <2> QED
    BY <2>1 DEF Posting, Doing, Waiting
<1>2. CASE Doing(g, "store") /\ Reporting(g, c)
  <2>1. handler'[g] = [handler[g] EXCEPT !.newer = @ + 1]
    BY <1>1, <1>2, Zenon DEF Overtaken
  <2>2. PICK step, kind, id, body, received, newer :
          Serving(handler[g], step, kind, id, body, received, newer)
    BY <1>2 DEF HandlersServe, Serves, Doing, Reporting, Waiting
  <2>3. /\ handler'[g] = Service(step, kind, id, body, received, newer + 1)
        /\ handler[g] = Service(step, kind, id, body, received, newer)
    BY <2>1, <2>2, OvertakenOnce DEF Serving
  <2> QED
    BY <1>1, <1>2, <2>3 DEF Posting, Reporting, Doing, Service
<1>3. CASE ~(Doing(g, "store") /\ Reporting(g, c))
  <2>1. handler'[g] = handler[g]
    BY <1>1, <1>3 DEF Overtaken
  <2> QED
    BY <1>1, <1>3, <2>1 DEF Posting, Doing
<1> QED
  BY <1>2, <1>3

\* A row is one of some command's.
LEMMA RowOfCommand ==
  \A row : row \in StoredResults <=> \E c \in CommandIds : row \in ToSet(results[c])
BY DEF StoredResults

\* Requests that answer what is stored, and requests that go on, or end, without an
\* answer.
LEMMA AnswerSteps ==
  ASSUME AnswersInv, EventInv, NEW h \in Handlers,
         \/ \E o \in Operations, r \in Reports : ReceiveResult(h, o, r)
         \/ \E e \in EventIds, body \in EventBodies : ReceiveEvent(h, e, body)
         \/ FindResult(h) \/ CheckResult(h) \/ ReplayResult(h) \/ Abandon(h)
         \/ FindEvent(h) \/ ReplayEvent(h)
  PROVE  AnswersInv'
<1>1. UNCHANGED <<results, candidate, event>>
  BY DEF ReceiveResult, ReceiveEvent, FindResult, CheckResult, ReplayResult, Abandon, FindEvent,
         ReplayEvent, eventVars
<1>2. answers' = answers \/ \E o, b : Answers(h, o, b) /\ HasBody(o, b)
  <2>1. CASE FindResult(h) \/ ReplayResult(h)
    <3> DEFINE o == handler[h].id
    <3>1. o \in Operations
      BY <2>1, ServedReport DEF FindResult, ReplayResult, Doing, EventInv, EventTypes
    <3>2. answers' = answers \/ (HasResult(o) /\ ResultOf(o).body = handler[h].body /\ Answer(h))
      BY <2>1 DEF FindResult, ReplayResult, Replayed
    <3>3. HasResult(o) => HasBody(o, ResultOf(o).body)
      BY <3>1 DEF HasResult, ResultOf, HasBody
    <3> QED
      BY <3>2, <3>3 DEF Answers
  <2>2. CASE FindEvent(h) \/ ReplayEvent(h)
    <3> DEFINE e == handler[h].id
    <3>1. e \in EventIds
      BY <2>2, ServedEvent DEF FindEvent, ReplayEvent, Doing, EventInv, EventTypes
    <3>2. answers' = answers \/ (event[e] # NoRow /\ event[e].body = handler[h].body /\ Answer(h))
      BY <2>2 DEF FindEvent, ReplayEvent, AnswerStored, Replayed
    <3> QED
      BY <3>1, <3>2 DEF Answers, HasBody
  <2>3. CASE ~(FindResult(h) \/ ReplayResult(h) \/ FindEvent(h) \/ ReplayEvent(h))
    BY <2>3 DEF ReceiveResult, ReceiveEvent, CheckResult, Abandon
  <2> QED
    BY <2>1, <2>2, <2>3
<1>3. \A g \in Handlers : Posting(g)' => handler'[g].received \in Nat /\ handler'[g].newer \in Nat
  <2> USE DEF EventInv, EventTypes
  <2>1. CASE \E o \in Operations, r \in Reports : ReceiveResult(h, o, r)
    <3>1. PICK o \in Operations, r \in Reports : ReceiveResult(h, o, r)
      BY <2>1
    <3>2. PICK zero \in Nat : handler' = [handler EXCEPT ![h] = Service("find", "result", o, r, zero, zero)]
      BY <3>1 DEF ReceiveResult
    <3>3. /\ handler'[h].received = zero /\ handler'[h].newer = zero
          /\ \A g \in Handlers \ {h} : Unmoved(g)
      BY <3>2, ServiceMoves
    <3> QED
      BY <3>3, CountsStay
  <2>2. CASE \E e \in EventIds, body \in EventBodies : ReceiveEvent(h, e, body)
    <3>1. PICK e \in EventIds, body \in EventBodies : ReceiveEvent(h, e, body)
      BY <2>2
    <3>2. PICK zero \in Nat : handler' = [handler EXCEPT ![h] = Service("find", "event", e, body, zero, zero)]
      BY <3>1 DEF ReceiveEvent
    <3>3. /\ handler'[h].received = zero /\ handler'[h].newer = zero
          /\ \A g \in Handlers \ {h} : Unmoved(g)
      BY <3>2, ServiceMoves
    <3> QED
      BY <3>3, CountsStay
  <2>3. CASE FindResult(h) \/ ReplayResult(h) \/ Abandon(h) \/ FindEvent(h) \/ ReplayEvent(h)
    <3>1. \A g \in Handlers : Unmoved(g)
      BY <2>3, OthersUnmoved
         DEF FindResult, ReplayResult, Abandon, FindEvent, ReplayEvent, AnswerStored, Replayed,
             Doing, Posting
    <3> QED
      BY <3>1, CountsStay
  <2>4. CASE CheckResult(h)
    <3>1. CASE Answered(h)
      BY <3>1, OthersUnmoved, CountsStay
    <3>2. CASE ~Answered(h)
      <4>1. PICK zero \in Nat : handler' = [handler EXCEPT ![h] =
              Service("store", "result", handler[h].id, handler[h].body, clock, zero)]
        BY <2>4, <3>2 DEF CheckResult
      <4>2. PICK o, b, t : handler' = [handler EXCEPT ![h] = Service("store", "result", o, b, t, zero)]
                           /\ t \in Nat
        BY <4>1
      <4>3. /\ handler'[h].received = t /\ handler'[h].newer = zero
            /\ \A g \in Handlers \ {h} : Unmoved(g)
        BY <4>2, ServiceMoves
      <4> QED
        BY <4>2, <4>3, CountsStay
    <3> QED
      BY <3>1, <3>2
  <2> QED
    BY <2>1, <2>2, <2>3, <2>4
<1> QED
  BY <1>1, <1>2, <1>3, OnlyAnswers

\* A report is stored, among those of its command.
Stores(h, o, body, row, place) ==
  LET c == body.command IN
  /\ o = handler[h].id /\ body = handler[h].body /\ o \in Operations /\ body \in Reports
  /\ row = [id |-> o, body |-> body, audit |-> handler[h].received + AuditTime] /\ row \in ResultRow
  /\ ~HasResult(o) /\ candidate[c] # NoRow
  /\ place \in Places(results[c], row, handler[h].newer)
  /\ results' = [results EXCEPT ![c] = InsertAt(@, place + 1, row)]
  /\ ended' = IF body.status \in Ends THEN ended \union {c} ELSE ended
  /\ raced' = IF handler[h].newer > 0 THEN raced \union {c} ELSE raced
  /\ Answer(h) /\ handler' = Overtaken(h, c)
  /\ UNCHANGED <<clock, candidate, eventVars>>

\* It is, or it is not.
LEMMA StoresOrNot ==
  ASSUME AnswersInv, EventInv, NEW h \in Handlers, StoreResult(h)
  PROVE  \/ \E o, body, row, place : Stores(h, o, body, row, place)
         \/ UNCHANGED <<clock, candidate, results, eventVars, answers, fates>> /\ Stage(h, "again")
<1> DEFINE o == handler[h].id
           body == handler[h].body
           c == body.command
           row == [id |-> o, body |-> body, audit |-> handler[h].received + AuditTime]
<1>1. o \in Operations /\ body \in Reports
  BY ServedReport DEF StoreResult, Doing, EventInv, EventTypes
<1>2. CASE HasResult(o) \/ candidate[c] = NoRow
  BY <1>2 DEF StoreResult
<1>3. CASE ~HasResult(o) /\ candidate[c] # NoRow
  <2>1. PICK place \in Places(results[c], row, handler[h].newer) :
          results' = [results EXCEPT ![c] = InsertAt(@, place + 1, row)]
    BY <1>3 DEF StoreResult
  <2>2. row \in ResultRow
    <3>1. handler[h].received + AuditTime \in Nat
      BY CommandsAssumption DEF AnswersInv, ResultTypes, StoreResult, Posting, Doing
    <3> QED
      BY <1>1, <3>1 DEF ResultRow
  <2>3. /\ ended' = IF body.status \in Ends THEN ended \union {c} ELSE ended
        /\ raced' = IF handler[h].newer > 0 THEN raced \union {c} ELSE raced
        /\ Answer(h) /\ handler' = Overtaken(h, c) /\ UNCHANGED <<clock, candidate, eventVars>>
    BY <1>3 DEF StoreResult
  <2>4. Stores(h, o, body, row, place)
    BY <1>1, <1>3, <2>1, <2>2, <2>3, Zenon DEF Stores
  <2> QED
    BY <2>4
<1> QED
  BY <1>2, <1>3

\* What a stored report adds to the rows.
LEMMA StoredRow ==
  ASSUME AnswersInv, NEW h, NEW o, NEW body, NEW row, NEW place, Stores(h, o, body, row, place)
  PROVE  /\ StoredResults' = StoredResults \union {row}
         /\ results' \in [CommandIds -> Seq(ResultRow)]
         /\ \A c \in CommandIds \ {body.command} : results'[c] = results[c]
         /\ results'[body.command] = InsertAt(results[body.command], place + 1, row)
<1> DEFINE c == body.command
           rows == InsertAt(results[c], place + 1, row)
<1>1. c \in CommandIds /\ results[c] \in Seq(ResultRow) /\ results \in [CommandIds -> Seq(ResultRow)]
  BY DEF Stores, Reports, AnswersInv, ResultTypes
<1>2. place \in 0..Len(results[c]) /\ row \in ResultRow /\ results' = [results EXCEPT ![c] = rows]
  BY DEF Stores, Places
<1>3. rows \in Seq(ResultRow) /\ ToSet(rows) = ToSet(results[c]) \union {row}
  <2> DEFINE s == results[c]
  <2>1. s \in Seq(ResultRow) /\ place \in 0..Len(s) /\ row \in ResultRow
        /\ rows = With(s, place, row)
    BY <1>1, <1>2 DEF With
  <2> HIDE DEF s, rows
  <2>2. IsWith(rows, ResultRow, s, place, row)
    BY <2>1, Inserted
  <2> QED
    BY <2>2 DEF s, IsWith
<1> HIDE DEF rows, c
<1>4. results'[c] = rows /\ \A d \in CommandIds \ {c} : results'[d] = results[d]
  BY <1>1, <1>2
<1>5. results' \in [CommandIds -> Seq(ResultRow)]
  BY <1>1, <1>2, <1>3
<1>6. StoredResults' = StoredResults \union {row}
  <2>1. \A r \in StoredResults' : r \in StoredResults \/ r = row
    BY <1>3, <1>4 DEF StoredResults
  <2>2. \A r \in StoredResults : r \in StoredResults'
    BY <1>3, <1>4 DEF StoredResults
  <2>3. row \in StoredResults'
    BY <1>1, <1>3, <1>4 DEF StoredResults
  <2> QED
    BY <2>1, <2>2, <2>3
<1> QED
  BY <1>4, <1>5, <1>6 DEF c, rows

\* The answer for a report that is stored is for what is stored, once.
LEMMA StoreResultAnswers ==
  ASSUME AnswersInv, EventInv, NEW h \in Handlers, StoreResult(h)
  PROVE  AnswersInv'
<1>1. HandlersServe /\ ~Doing(h, "idle")
  BY DEF EventInv, EventTypes, StoreResult, Doing
<1>2. CASE \E o, body, row, place : Stores(h, o, body, row, place)
  <2>1. PICK o, body, row, place : Stores(h, o, body, row, place)
    BY <1>2
  <2>2. /\ StoredResults' = StoredResults \union {row} /\ ~HasResult(o) /\ o \in Operations
        /\ results' \in [CommandIds -> Seq(ResultRow)]
        /\ row.id = o /\ row.body = body /\ event' = event /\ candidate' = candidate
        /\ Answers(h, o, body)
    <3>1. /\ ~HasResult(o) /\ o \in Operations /\ event' = event /\ candidate' = candidate
          /\ row = [id |-> o, body |-> body, audit |-> handler[h].received + AuditTime]
          /\ Answers(h, o, body)
      BY <2>1 DEF Stores, Answers, eventVars
    <3>2. StoredResults' = StoredResults \union {row} /\ results' \in [CommandIds -> Seq(ResultRow)]
      BY <2>1, StoredRow
    <3>3. row.id = o /\ row.body = body
      BY <3>1
    <3> QED
      BY <3>1, <3>2, <3>3
  <2>3. OneRow'
    BY <2>2 DEF AnswersInv, OneRow, HasResult
  <2>4. \A i, b : HasBody(i, b) => HasBody(i, b)'
    BY <2>2 DEF HasBody
  <2>5. HasBody(o, body)'
    BY <2>2 DEF HasBody
  <2>6. AnswersStored' /\ DOMAIN answers' = Ids
    BY <2>2, <2>4, <2>5, AnswersKept DEF AnswersInv, ResultTypes
  <2>7. \A g \in Handlers : Posting(g)' => handler'[g].received \in Nat /\ handler'[g].newer \in Nat
    <3> TAKE g \in Handlers
    <3> HAVE Posting(g)'
    <3>1. handler' = Overtaken(h, body.command)
      BY <2>1 DEF Stores
    <3>2. /\ Posting(g) /\ handler'[g].received = handler[g].received
          /\ handler'[g].newer \in {handler[g].newer, handler[g].newer + 1}
      BY <1>1, <3>1, OvertakenMoves
    <3> QED
      BY <3>2 DEF AnswersInv, ResultTypes
  <2> QED
    BY <2>2, <2>3, <2>6, <2>7 DEF AnswersInv, ResultTypes
<1>3. CASE UNCHANGED <<clock, candidate, results, eventVars, answers, fates>> /\ Stage(h, "again")
  <2>1. \A g \in Handlers : Posting(g)' => handler'[g].received \in Nat /\ handler'[g].newer \in Nat
    BY <1>1, <1>3, OthersUnmoved, CountsStay
  <2> QED
    BY <1>3, <2>1, OnlyAnswers DEF eventVars
<1> QED
  BY <1>2, <1>3, StoresOrNot

\* The answer for an event that is stored is for what is stored.
LEMMA StoreEventAnswers ==
  ASSUME AnswersInv, EventInv, NEW h \in Handlers, StoreEvent(h)
  PROVE  AnswersInv'
<1> DEFINE e == handler[h].id
<1>1. HandlersServe /\ ~Doing(h, "idle") /\ ~Posting(h)
  BY DEF EventInv, EventTypes, StoreEvent, Doing, Posting
<1>2. e \in EventIds /\ handler[h].body \in EventBodies
  BY <1>1, ServedEvent DEF StoreEvent
<1>3. Answered(h) \/ Stage(h, "again")
  BY DEF StoreEvent
<1>4. \A g \in Handlers : Posting(g)' => handler'[g].received \in Nat /\ handler'[g].newer \in Nat
  BY <1>1, <1>3, OthersUnmoved, CountsStay
<1>5. CASE event[e] # NoRow
  BY <1>4, <1>5, OnlyAnswers DEF StoreEvent, eventVars
<1>6. CASE event[e] = NoRow
  <2>1. PICK o, b : o = e /\ b = handler[h].body
    OBVIOUS
  <2>2. /\ event' = [event EXCEPT ![o] = [body |-> b, content |-> TRUE, expires |-> clock + EventTime,
                                          audit |-> clock + AuditTime]]
        /\ Answers(h, o, b) /\ UNCHANGED <<candidate, results>>
    BY <1>6, <2>1 DEF StoreEvent, Answers
  <2>3. event'[o].body = b /\ event'[o] # NoRow /\ \A x \in EventIds \ {o} : event'[x] = event[x]
    <3>1. clock + EventTime \in Nat /\ clock + AuditTime \in Nat
      BY CommandsAssumption DEF EventInv, EventTypes
    <3> QED
      BY <1>2, <2>1, <2>2, <3>1, EventRows DEF EventInv, EventTypes
  <2>4. StoredResults' = StoredResults /\ event[o] = NoRow /\ o \in EventIds
    BY <1>2, <1>6, <2>1, <2>2 DEF StoredResults
  <2>5. \A i, x : HasBody(i, x) => HasBody(i, x)'
    BY <2>3, <2>4 DEF HasBody
  <2>6. HasBody(o, b)'
    BY <2>3, <2>4 DEF HasBody
  <2>7. AnswersStored' /\ DOMAIN answers' = Ids
    BY <2>2, <2>5, <2>6, AnswersKept DEF AnswersInv, ResultTypes
  <2>8. OneRow'
    BY <2>4 DEF AnswersInv, OneRow
  <2> QED
    BY <1>4, <2>2, <2>7, <2>8 DEF AnswersInv, ResultTypes
<1> QED
  BY <1>5, <1>6

\* A step that leaves rows, answers and handlers alone.
LEMMA AnswersLeftAlone ==
  ASSUME AnswersInv, UNCHANGED <<results, event, handler, answers>>,
         candidate' \in [CommandIds -> Nat \union {NoRow}]
  PROVE  AnswersInv'
<1>1. StoredResults' = StoredResults
  BY DEF StoredResults
<1>2. \A i, body : HasBody(i, body) <=> HasBody(i, body)'
  BY <1>1 DEF HasBody
<1>3. AnswersStored' /\ OneRow'
  BY <1>1, <1>2 DEF AnswersInv, AnswersStored, OneRow
<1> QED
  BY <1>3 DEF AnswersInv, ResultTypes, Posting, Doing

\* An event whose content is erased has the body that it had.
LEMMA PurgeEventsAnswers ==
  ASSUME AnswersInv, EventInv, PurgeEvents
  PROVE  AnswersInv'
<1>1. UNCHANGED <<results, candidate, handler, answers>>
  BY DEF PurgeEvents
<1>2. \A e \in EventIds : event[e] # NoRow => event'[e] # NoRow /\ event'[e].body = event[e].body
  <2> TAKE e \in EventIds
  <2> SUFFICES ASSUME event[e] # NoRow PROVE event'[e] # NoRow /\ event'[e].body = event[e].body
    OBVIOUS
  <2>1. event[e] \in EventRow
    BY DEF EventInv, EventTypes
  <2>2. event'[e] \in {event[e], [event[e] EXCEPT !.content = FALSE]}
    BY DEF PurgeEvents
  <2>3. [event[e] EXCEPT !.content = FALSE].body = event[e].body
    BY <2>1 DEF EventRow
  <2> QED
    BY <2>1, <2>2, <2>3, Erased
<1>3. StoredResults' = StoredResults
  BY <1>1 DEF StoredResults
<1>4. \A i, body : HasBody(i, body) => HasBody(i, body)'
  BY <1>2, <1>3 DEF HasBody
<1>5. AnswersStored' /\ OneRow'
  BY <1>1, <1>3, <1>4 DEF AnswersInv, AnswersStored, OneRow
<1> QED
  BY <1>1, <1>5 DEF AnswersInv, ResultTypes, Posting, Doing

\* Rows whose audit time is over go, the others stay.
LEMMA KeptRows ==
  ASSUME AnswersInv, EventInv, PurgeAudit
  PROVE  /\ results' \in [CommandIds -> Seq(ResultRow)]
         /\ StoredResults' = {row \in StoredResults : row.audit > clock}
<1>1. \A c \in CommandIds : /\ results'[c] = Kept(results[c]) /\ results[c] \in Seq(ResultRow)
                            /\ Kept(results[c]) \in Seq(ResultRow)
                            /\ ToSet(Kept(results[c])) = {row \in ToSet(results[c]) : row.audit > clock}
  <2> TAKE c \in CommandIds
  <2> DEFINE rows == results[c]
             places == {i \in DOMAIN rows : rows[i].audit > clock}
  <2>1. rows \in Seq(ResultRow) /\ results'[c] = Kept(rows)
    BY DEF AnswersInv, ResultTypes, PurgeAudit
  <2>2. Kept(rows) \in Seq(ResultRow) /\ ToSet(Kept(rows)) = {rows[i] : i \in places}
    <3> HIDE DEF rows
    <3>1. places \in SUBSET DOMAIN rows /\ Kept(rows) = Sublist(rows, places)
      BY DEF Kept
    <3> QED
      BY <2>1, <3>1, SublistRange
  <2>3. {rows[i] : i \in places} = {row \in ToSet(rows) : row.audit > clock}
    BY DEF ToSet
  <2> QED
    BY <2>1, <2>2, <2>3
<1>2. results' \in [CommandIds -> Seq(ResultRow)]
  BY <1>1 DEF PurgeAudit
<1>3. \A row \in StoredResults' : row \in StoredResults /\ row.audit > clock
  BY <1>1, <1>2 DEF StoredResults
<1>4. \A row \in StoredResults : row.audit > clock => row \in StoredResults'
  BY <1>1, <1>2 DEF StoredResults
<1> QED
  BY <1>2, <1>3, <1>4

\* With a row its answers are forgotten.
LEMMA PurgeAuditAnswers ==
  ASSUME AnswersInv, EventInv, PurgeAudit
  PROVE  AnswersInv'
<1> DEFINE due == {e \in EventIds : event[e] # NoRow /\ ~event[e].content /\ event[e].audit <= clock}
           gone == {row.id : row \in {r \in StoredResults : r.audit <= clock}}
<1>1. /\ event' = [e \in EventIds |-> IF e \in due THEN NoRow ELSE event[e]]
      /\ answers' = [i \in Ids |-> IF i \in gone \union due THEN {} ELSE answers[i]]
      /\ UNCHANGED handler /\ candidate' \in [CommandIds -> Nat \union {NoRow}]
  BY DEF PurgeAudit, AnswersInv, ResultTypes
<1>2. \A row \in StoredResults : row.audit \in Nat /\ (row.id \notin gone => row.audit > clock)
  <2>1. \A row \in StoredResults : row \in ResultRow
    BY DEF StoredResults, ToSet, AnswersInv, ResultTypes
  <2> QED
    BY <2>1 DEF ResultRow, EventInv, EventTypes
<1>3. \A row \in StoredResults : row.id \notin gone => row \in StoredResults'
  BY <1>2, KeptRows
<1> HIDE DEF due, gone
<1>4. \A i \in Ids : \A body : i \notin gone \union due /\ HasBody(i, body) => HasBody(i, body)'
  BY <1>1, <1>3 DEF HasBody
<1>5. AnswersStored'
  <2> SUFFICES ASSUME NEW i \in Ids, NEW body \in answers'[i] PROVE HasBody(i, body)'
    BY DEF AnswersStored
  <2>1. i \notin gone \union due /\ body \in answers[i]
    BY <1>1
  <2> QED
    BY <1>4, <2>1 DEF AnswersInv, AnswersStored
<1>6. OneRow'
  BY KeptRows DEF AnswersInv, OneRow
<1>7. results' \in [CommandIds -> Seq(ResultRow)]
  BY KeptRows
<1> QED
  BY <1>1, <1>5, <1>6, <1>7 DEF AnswersInv, ResultTypes, Posting, Doing

\* Nothing is stored at first.
LEMMA InitAnswers == Init => AnswersInv
<1> SUFFICES ASSUME Init PROVE AnswersInv
  OBVIOUS
<1>1. ResultTypes
  BY DEF Init, CommandsInit, ResultTypes, Posting, Doing, Waiting
<1>2. StoredResults = {}
  BY DEF Init, CommandsInit, StoredResults, ToSet
<1> QED
  BY <1>1, <1>2 DEF Init, CommandsInit, AnswersInv, OneRow, AnswersStored

\* Every step keeps answers with their rows.
LEMMA NextAnswers == AnswersInv /\ EventInv /\ [Next]_recordVars => AnswersInv'
<1> SUFFICES ASSUME AnswersInv, EventInv, [Next]_recordVars PROVE AnswersInv'
  OBVIOUS
<1>1. CASE UNCHANGED <<results, event, handler, answers, candidate>>
  BY <1>1, AnswersLeftAlone DEF AnswersInv, ResultTypes
<1>2. CASE Requests
  <2>1. CASE \E c \in CommandIds : Propose(c)
    <3>1. PICK c \in CommandIds : Propose(c)
      BY <2>1
    <3>2. clock + AuditTime \in Nat
      BY CommandsAssumption DEF EventInv, EventTypes
    <3>3. candidate' \in [CommandIds -> Nat \union {NoRow}]
      BY <3>1, <3>2 DEF Propose, AnswersInv, ResultTypes
    <3> QED
      BY <3>1, <3>3, AnswersLeftAlone DEF Propose, eventVars
  <2>2. CASE \E e \in EventIds : Process(e)
    BY <1>1, <2>2 DEF Process
  <2> QED
    BY <1>2, <2>1, <2>2, AnswerSteps, StoreResultAnswers, StoreEventAnswers DEF Requests
<1>3. CASE PurgeEvents
  BY <1>3, PurgeEventsAnswers
<1>4. CASE PurgeAudit
  BY <1>4, PurgeAuditAnswers
<1>5. CASE ReconcileFiles \/ ProcessFiles \/ FindExpired \/ ProcessExpired
           \/ EndSweep \/ StopSweep \/ ((ChangeFile \/ ChangeRows) /\ UNCHANGED <<commandVars, sweep>>)
           \/ UNCHANGED recordVars
  BY <1>1, <1>5 DEF ReconcileFiles, ProcessFiles, FindExpired, ProcessExpired, EndSweep, StopSweep,
                    commandVars, recordVars
<1>6. CASE Tick
  BY <1>1, <1>6 DEF Tick, eventVars
<1> QED
  BY <1>2, <1>3, <1>4, <1>5, <1>6 DEF Next

\* As long as the server remembers the id of an event or a report, it answers it for
\* one body only, whatever handlers do at once and whatever the sweep deletes.
THEOREM AnswersAreForOneBody == Spec => []SameAnswer
<1>1. Init => EventInv /\ AnswersInv
  BY InitEvents, InitAnswers
<1>2. EventInv /\ AnswersInv /\ [Next]_recordVars => (EventInv /\ AnswersInv)'
  BY NextEvents, NextAnswers
<1> QED
  BY <1>1, <1>2, OneAnswer, PTL DEF Spec

-------------------------------------------------------------------------------
(* Part 4: the states of a command *)

\* Reports of a command expire in the order in which they are listed, ...
RowsInOrder ==
  \A c \in CommandIds : \A i, j \in 1..Len(results[c]) :
    i < j => results[c][i].audit <= results[c][j].audit

\* ... none before the candidate, which is there as long as one of them is.
CandidateHolds ==
  \A c \in CommandIds :
    /\ candidate[c] # NoRow => candidate[c] <= clock + AuditTime
    /\ results[c] # <<>> => candidate[c] # NoRow
    /\ \A row \in ToSet(results[c]) : candidate[c] <= row.audit

\* A report that was checked will not expire before its candidate, and unless it was
\* overtaken what was checked still holds.
StoreReady(h) ==
  LET c == handler[h].body.command
      rows == results[c] IN
  Doing(h, "store") /\ Posting(h) =>
    /\ candidate[c] # NoRow => candidate[c] <= handler[h].received + AuditTime
    /\ handler[h].newer = 0 /\ rows # <<>> =>
         handler[h].body.status \in Following[Last(rows).body.status]

\* Unless it was raced, the last report of a command that ended says so, and its
\* candidate goes with it.
EndedStays ==
  /\ ended \subseteq CommandIds
  /\ \A c \in ended \ raced : /\ results[c] = <<>> => candidate[c] = NoRow
                              /\ results[c] # <<>> => Last(results[c]).body.status \in Ends

CommandInv ==
  /\ RowsInOrder /\ CandidateHolds /\ EndedStays /\ ResultsFollowLifecycle
  /\ \A h \in Handlers : StoreReady(h)

\* Handlers that are not moved are as ready as they were.
LEMMA UnmovedReady ==
  ASSUME CommandInv, NEW g \in Handlers, Unmoved(g), UNCHANGED <<candidate, results>>
  PROVE  StoreReady(g)'
BY DEF CommandInv, StoreReady, Unmoved, Posting

\* The steps of handlers that write no row, for commands.
LEMMA HandlersReady ==
  ASSUME CommandInv, UNCHANGED <<clock, candidate, results, fates>>,
         \A g \in Handlers : StoreReady(g)'
  PROVE  CommandInv'
BY DEF CommandInv, RowsInOrder, CandidateHolds, EndedStays, ResultsFollowLifecycle, fates

\* Every handler's steps but the one that stores a report.
LEMMA HandlerSteps ==
  ASSUME CommandInv, AnswersInv, EventInv, NEW h \in Handlers,
         \/ \E o \in Operations, r \in Reports : ReceiveResult(h, o, r)
         \/ \E e \in EventIds, body \in EventBodies : ReceiveEvent(h, e, body)
         \/ FindResult(h) \/ CheckResult(h) \/ ReplayResult(h) \/ Abandon(h)
         \/ FindEvent(h) \/ StoreEvent(h) \/ ReplayEvent(h)
  PROVE  CommandInv'
<1> USE DEF EventInv, EventTypes
<1>1. UNCHANGED <<clock, candidate, results, fates>>
  BY DEF ReceiveResult, ReceiveEvent, FindResult, CheckResult, ReplayResult, Abandon, FindEvent,
         StoreEvent, ReplayEvent
<1>2. CASE \E o \in Operations, r \in Reports : ReceiveResult(h, o, r)
  <2>1. PICK o \in Operations, r \in Reports : ReceiveResult(h, o, r)
    BY <1>2
  <2>2. PICK zero : handler' = [handler EXCEPT ![h] = Service("find", "result", o, r, zero, zero)]
    BY <2>1 DEF ReceiveResult
  <2>3. handler'[h].step = "find" /\ \A g \in Handlers \ {h} : Unmoved(g)
    BY <2>2, ServiceMoves
  <2>4. StoreReady(h)'
    BY <2>3 DEF StoreReady, Doing
  <2> QED
    BY <1>1, <2>3, <2>4, UnmovedReady, HandlersReady
<1>3. CASE \E e \in EventIds, body \in EventBodies : ReceiveEvent(h, e, body)
  <2>1. PICK e \in EventIds, body \in EventBodies : ReceiveEvent(h, e, body)
    BY <1>3
  <2>2. PICK zero : handler' = [handler EXCEPT ![h] = Service("find", "event", e, body, zero, zero)]
    BY <2>1 DEF ReceiveEvent
  <2>3. handler'[h].step = "find" /\ \A g \in Handlers \ {h} : Unmoved(g)
    BY <2>2, ServiceMoves
  <2>4. StoreReady(h)'
    BY <2>3 DEF StoreReady, Doing
  <2> QED
    BY <1>1, <2>3, <2>4, UnmovedReady, HandlersReady
<1>4. CASE FindResult(h) \/ ReplayResult(h) \/ Abandon(h) \/ FindEvent(h) \/ StoreEvent(h)
           \/ ReplayEvent(h) \/ Answered(h)
  <2>1. \A g \in Handlers : Unmoved(g)
    BY <1>4, OthersUnmoved
       DEF FindResult, ReplayResult, Abandon, FindEvent, StoreEvent, ReplayEvent, AnswerStored,
           Replayed, Doing, Posting
  <2> QED
    BY <1>1, <2>1, UnmovedReady, HandlersReady
<1>5. CASE CheckResult(h) /\ ~Answered(h)
  <2>0. ASSUME NEW o, NEW body, NEW t, NEW zero,
               handler' = [handler EXCEPT ![h] = Service("store", "result", o, body, t, zero)]
        PROVE  /\ handler'[h].body = body /\ handler'[h].received = t
               /\ \A g \in Handlers \ {h} : Unmoved(g)
    BY <2>0, ServiceMoves
  <2>1. PICK o, body, t, zero :
          /\ handler' = [handler EXCEPT ![h] = Service("store", "result", o, body, t, zero)]
          /\ body = handler[h].body /\ t = clock
    <3>1. PICK body : body = handler[h].body
      OBVIOUS
    <3>2. handler' = [handler EXCEPT ![h] =
                        Service("store", "result", handler[h].id, body, clock, 0)]
      BY <1>5, <3>1 DEF CheckResult
    <3> QED
      BY <3>1, <3>2
  <2>2. MayFollow(results[body.command], body.status) /\ body.command \in CommandIds
    BY <1>5, <2>1, ServedReport DEF CheckResult, Doing, Reports
  <2>3. /\ handler'[h].body = body /\ handler'[h].received = t
        /\ \A g \in Handlers \ {h} : Unmoved(g)
    BY <2>0, <2>1, Zenon
  <2>4. StoreReady(h)'
    <3> DEFINE c == body.command
    <3>1. results[c] # <<>> => body.status \in Following[Last(results[c]).body.status]
      BY <2>2 DEF MayFollow
    <3>2. candidate[c] # NoRow => candidate[c] <= clock + AuditTime
      BY <2>2 DEF CommandInv, CandidateHolds
    <3>3. handler'[h].body.command = c /\ results' = results /\ candidate' = candidate
      BY <1>1, <2>3
    <3> HIDE DEF c
    <3> QED
      BY <2>1, <2>3, <3>1, <3>2, <3>3 DEF StoreReady
  <2> QED
    BY <1>1, <2>3, <2>4, UnmovedReady, HandlersReady
<1> QED
  BY <1>2, <1>3, <1>4, <1>5

\* A report that no other overtook is appended, and follows the last one.
LEMMA StoresNext ==
  ASSUME CommandInv, AnswersInv, NEW h \in Handlers, Posting(h), Doing(h, "store"),
         NEW o, NEW body, NEW row, NEW place, Stores(h, o, body, row, place), handler[h].newer = 0
  PROVE  LET rows == results[body.command] IN
         /\ results' = [results EXCEPT ![body.command] = Append(rows, row)]
         /\ rows # <<>> => body.status \in Following[Last(rows).body.status]
<1> DEFINE c == body.command
           rows == results[c]
<1>1. /\ body = handler[h].body /\ c \in CommandIds /\ row \in ResultRow
      /\ place \in Places(rows, row, handler[h].newer)
      /\ results' = [results EXCEPT ![c] = InsertAt(rows, place + 1, row)]
  BY DEF Stores, Reports
<1>2. rows \in Seq(ResultRow)
  BY <1>1 DEF AnswersInv, ResultTypes
<1>3. place = Len(rows)
  <2>1. place \in 0..Len(rows) /\ Len(rows) - place <= 0
    BY <1>1 DEF Places
  <2> QED
    BY <1>2, <2>1
<1>4. InsertAt(rows, place + 1, row) = Append(rows, row)
  <2>1. rows \in Seq(ResultRow) /\ row \in ResultRow
    BY <1>1, <1>2
  <2> HIDE DEF rows
  <2>2. InsertAt(rows, Len(rows) + 1, row) = Append(rows, row)
    BY <2>1, InsertedLast
  <2> QED
    BY <1>3, <2>2
<1>5. rows # <<>> => body.status \in Following[Last(rows).body.status]
  BY <1>1 DEF CommandInv, StoreReady
<1> QED
  BY <1>1, <1>4, <1>5

\* A command that ended takes no report, but one that was overtaken.
LEMMA EndedRefuses ==
  ASSUME CommandInv, AnswersInv, NEW h \in Handlers, Posting(h), Doing(h, "store"),
         NEW o, NEW body, NEW row, NEW place, Stores(h, o, body, row, place), handler[h].newer = 0
  PROVE  body.command \notin ended \ raced
<1> SUFFICES ASSUME body.command \in ended \ raced PROVE FALSE
  OBVIOUS
<1> DEFINE rows == results[body.command]
<1>1. rows # <<>> /\ Last(rows).body.status \in Ends
  BY DEF Stores, CommandInv, EndedStays
<1>2. body.status \in Following[Last(rows).body.status]
  BY <1>1, StoresNext
<1> QED
  BY <1>1, <1>2 DEF Ends

\* What appending a row to a sequence of rows does.
LEMMA Appended ==
  ASSUME NEW rows \in Seq(ResultRow), NEW row \in ResultRow
  PROVE  LET t == Append(rows, row) IN
         /\ Len(t) = Len(rows) + 1 /\ t # <<>> /\ Last(t) = row
         /\ \A i \in 1..Len(rows) : t[i] = rows[i]
         /\ rows # <<>> => t[Len(t) - 1] = Last(rows)
<1> DEFINE t == Append(rows, row)
<1>1. t \in Seq(ResultRow) /\ Len(t) = Len(rows) + 1 /\ t # <<>> /\ t[Len(t)] = row
      /\ \A i \in 1..Len(rows) : t[i] = rows[i]
  OBVIOUS
<1>2. rows # <<>> => Len(rows) \in 1..Len(rows)
  OBVIOUS
<1> HIDE DEF t
<1>3. rows # <<>> => t[Len(t) - 1] = Last(rows)
  BY <1>1, <1>2 DEF Last
<1> QED
  BY <1>1, <1>3 DEF t, Last

\* A row that is put where its time belongs keeps the order of the rows.
LEMMA InsertedInOrder ==
  ASSUME NEW rows \in Seq(ResultRow), NEW row \in ResultRow, NEW newer,
         NEW place \in Places(rows, row, newer),
         \A i, j \in 1..Len(rows) : i < j => rows[i].audit <= rows[j].audit,
         NEW t, t = With(rows, place, row)
  PROVE  \A i, j \in 1..Len(t) : i < j => t[i].audit <= t[j].audit
<1>1. /\ place \in 0..Len(rows) /\ DOMAIN rows = 1..Len(rows)
      /\ \A i \in 1..place : rows[i].audit <= row.audit
      /\ \A i \in place + 1..Len(rows) : row.audit <= rows[i].audit
  BY DEF Places
<1>2. /\ Len(t) = Len(rows) + 1
      /\ \A i \in 1..place : t[i] = rows[i]
      /\ t[place + 1] = row
      /\ \A i \in place + 2..Len(rows) + 1 : t[i] = rows[i - 1]
  <2>1. IsWith(t, ResultRow, rows, place, row)
    BY <1>1, Inserted
  <2> QED
    BY <2>1 DEF IsWith
<1> SUFFICES ASSUME NEW i \in 1..Len(t), NEW j \in 1..Len(t), i < j PROVE t[i].audit <= t[j].audit
  OBVIOUS
<1>3. Len(rows) \in Nat
  OBVIOUS
<1>4. CASE j <= place
  BY <1>1, <1>2, <1>3, <1>4
<1>5. CASE j = place + 1
  BY <1>1, <1>2, <1>3, <1>5
<1>6. CASE j > place + 1
  <2>1. j - 1 \in place + 1..Len(rows) /\ t[j] = rows[j - 1]
    BY <1>1, <1>2, <1>3, <1>6
  <2>2. CASE i <= place
    <3>1. t[i] = rows[i] /\ i \in 1..Len(rows) /\ j - 1 \in 1..Len(rows) /\ i < j - 1
      BY <1>1, <1>2, <1>3, <2>1, <2>2
    <3> QED
      BY <2>1, <3>1
  <2>3. CASE i = place + 1
    BY <1>1, <1>2, <2>1, <2>3
  <2>4. CASE i > place + 1
    <3>1. t[i] = rows[i - 1] /\ i - 1 \in 1..Len(rows) /\ j - 1 \in 1..Len(rows) /\ i - 1 < j - 1
      BY <1>1, <1>2, <1>3, <2>1, <2>4
    <3> QED
      BY <2>1, <3>1
  <2> QED
    BY <1>1, <2>2, <2>3, <2>4
<1> QED
  BY <1>1, <1>4, <1>5, <1>6

\* Storing a report keeps the states of its command in their order, unless another
\* overtook it.
LEMMA StoresKeeps ==
  ASSUME CommandInv, AnswersInv, EventInv, NEW h \in Handlers, Posting(h), Doing(h, "store"),
         NEW o, NEW body, NEW row, NEW place, Stores(h, o, body, row, place)
  PROVE  CommandInv'
<1> DEFINE c == body.command
           rows == results[c]
           t == InsertAt(rows, place + 1, row)
<1>1. /\ c \in CommandIds /\ rows \in Seq(ResultRow) /\ row \in ResultRow
      /\ row.body = body /\ row.audit = handler[h].received + AuditTime
      /\ body = handler[h].body /\ candidate[c] # NoRow
      /\ place \in Places(rows, row, handler[h].newer)
      /\ UNCHANGED <<clock, candidate>> /\ handler' = Overtaken(h, c)
      /\ ended' = IF body.status \in Ends THEN ended \union {c} ELSE ended
      /\ raced' = IF handler[h].newer > 0 THEN raced \union {c} ELSE raced
  <2>1. row = [id |-> o, body |-> body, audit |-> handler[h].received + AuditTime]
    BY DEF Stores
  <2>2. row.body = body /\ row.audit = handler[h].received + AuditTime
    BY <2>1
  <2> QED
    BY <2>2 DEF Stores, Reports, AnswersInv, ResultTypes
<1>2. results'[c] = t /\ \A d \in CommandIds \ {c} : results'[d] = results[d]
  BY StoredRow
<1>3. handler[h].newer \in Nat
  BY DEF AnswersInv, ResultTypes
<1>4. t # <<>> /\ ToSet(t) = ToSet(rows) \union {row}
  <2>1. place \in 0..Len(rows)
    BY <1>1 DEF Places
  <2>2. t = With(rows, place, row)
    BY DEF With
  <2> HIDE DEF rows, c, t
  <2>3. ToSet(t) = ToSet(rows) \union {row} /\ Len(t) = Len(rows) + 1 /\ t \in Seq(ResultRow)
    <3>1. IsWith(t, ResultRow, rows, place, row)
      BY <1>1, <2>1, <2>2, Inserted
    <3> QED
      BY <3>1 DEF IsWith
  <2>4. Len(rows) \in Nat
    BY <1>1
  <2> QED
    BY <2>3, <2>4
<1>5. \A i, j \in 1..Len(t) : i < j => t[i].audit <= t[j].audit
  <2>1. \A i, j \in 1..Len(rows) : i < j => rows[i].audit <= rows[j].audit
    BY <1>1 DEF CommandInv, RowsInOrder
  <2>2. t = With(rows, place, row)
    BY DEF With
  <2> HIDE DEF rows, c, t
  <2> QED
    BY <1>1, <2>1, <2>2, InsertedInOrder
<1> HIDE DEF t, c
<1>6. RowsInOrder'
  BY <1>1, <1>2, <1>5 DEF CommandInv, RowsInOrder
<1>7. CandidateHolds'
  <2>1. candidate[c] <= row.audit
    BY <1>1 DEF CommandInv, StoreReady, c
  <2> QED
    BY <1>1, <1>2, <1>4, <2>1 DEF CommandInv, CandidateHolds
<1>8. \A g \in Handlers : StoreReady(g)'
  <2> SUFFICES ASSUME NEW g \in Handlers, Doing(g, "store")', Posting(g)' PROVE StoreReady(g)'
    BY DEF StoreReady
  <2> DEFINE d == handler[g].body.command
  <2>1. /\ Posting(g) /\ Doing(g, "store") /\ handler'[g].body = handler[g].body
        /\ handler'[g].received = handler[g].received /\ handler[g].newer \in Nat
        /\ handler'[g].newer = IF Doing(g, "store") /\ Reporting(g, c) THEN handler[g].newer + 1
                               ELSE handler[g].newer
    BY <1>1, OvertakenMoves DEF EventInv, EventTypes, AnswersInv, ResultTypes
  <2>2. d \in CommandIds
    BY <2>1, ServedReport DEF Posting, EventInv, EventTypes, Reports
  <2>3. candidate'[d] # NoRow => candidate'[d] <= handler'[g].received + AuditTime
    BY <1>1, <2>1 DEF CommandInv, StoreReady
  <2>4. CASE d = c
    <3>1. handler'[g].newer # 0
      BY <2>1, <2>4 DEF Reporting, Posting
    <3> QED
      BY <2>1, <2>3, <3>1 DEF StoreReady
  <2>5. CASE d # c
    <3>1. handler'[g].newer = handler[g].newer /\ results'[d] = results[d]
      BY <1>2, <2>1, <2>2, <2>5 DEF Reporting
    <3> QED
      BY <2>1, <2>3, <3>1 DEF StoreReady, CommandInv
  <2> QED
    BY <2>4, <2>5
<1>9. ended' \subseteq CommandIds /\ raced \subseteq raced' /\ \A d \in ended' : d \in ended \/ d = c
  BY <1>1 DEF CommandInv, EndedStays
<1>10. CASE handler[h].newer > 0
  <2>1. c \in raced'
    BY <1>1, <1>10
  <2>2. EndedStays'
    BY <1>1, <1>2, <1>9, <2>1 DEF CommandInv, EndedStays
  <2>3. ResultsFollowLifecycle'
    BY <1>1, <1>2, <1>9, <2>1 DEF CommandInv, ResultsFollowLifecycle
  <2> QED
    BY <1>6, <1>7, <1>8, <2>2, <2>3 DEF CommandInv
<1>11. CASE handler[h].newer = 0
  <2>1. t = Append(rows, row)
    <3>1. results' = [results EXCEPT ![c] = Append(rows, row)]
      BY <1>11, StoresNext DEF c
    <3> QED
      BY <1>1, <1>2, <3>1 DEF AnswersInv, ResultTypes
  <2>2. /\ Len(t) = Len(rows) + 1 /\ Last(t) = row
        /\ \A i \in 1..Len(rows) : t[i] = rows[i]
        /\ rows # <<>> => t[Len(t) - 1] = Last(rows)
    <3> HIDE DEF rows
    <3> QED
      BY <1>1, <2>1, Appended
  <2>3. rows # <<>> => body.status \in Following[Last(rows).body.status]
    BY <1>11, StoresNext DEF c
  <2>4. c \notin ended \ raced /\ raced' = raced
    BY <1>1, <1>11, EndedRefuses DEF c
  <2>5. EndedStays'
    <3>1. c \in ended' \ raced' => body.status \in Ends
      BY <1>1, <2>4
    <3> QED
      BY <1>1, <1>2, <1>4, <1>9, <2>2, <2>4, <3>1 DEF CommandInv, EndedStays
  <2>6. ResultsFollowLifecycle'
    <3>1. c \notin raced => \A i \in 2..Len(t) : t[i].body.status \in Following[t[i - 1].body.status]
      <4> SUFFICES ASSUME c \notin raced, NEW i \in 2..Len(t)
                   PROVE  t[i].body.status \in Following[t[i - 1].body.status]
        OBVIOUS
      <4>0. Len(rows) \in Nat
        BY <1>1
      <4>1. CASE i \in 2..Len(rows)
        <5>1. i - 1 \in 1..Len(rows) /\ i \in 1..Len(rows)
          BY <4>0, <4>1
        <5> QED
          BY <1>1, <2>2, <4>1, <5>1 DEF CommandInv, ResultsFollowLifecycle
      <4>2. CASE i = Len(t)
        <5>1. rows # <<>>
          BY <2>2, <4>0, <4>2
        <5>2. t[i] = row /\ t[i - 1] = Last(rows)
          BY <2>2, <4>2, <5>1 DEF Last
        <5> QED
          BY <1>1, <2>3, <5>1, <5>2
      <4> QED
        BY <2>2, <4>0, <4>1, <4>2
    <3> QED
      BY <1>1, <1>2, <2>4, <3>1 DEF CommandInv, ResultsFollowLifecycle
  <2> QED
    BY <1>6, <1>7, <1>8, <2>5, <2>6 DEF CommandInv
<1> QED
  BY <1>3, <1>10, <1>11

\* Deleting old reports from the front keeps the states of their commands.
LEMMA PurgeKeepsOrder ==
  ASSUME CommandInv, AnswersInv, EventInv, PurgeAudit
  PROVE  CommandInv'
<1> DEFINE left(c) == Kept(results[c])
<1>1. /\ UNCHANGED <<clock, handler, fates>> /\ clock \in Nat /\ AuditTime \in Nat
      /\ \A c \in CommandIds :
           /\ results'[c] = left(c)
           /\ candidate'[c] = IF candidate[c] # NoRow /\ candidate[c] <= clock /\ left(c) = <<>> THEN NoRow
                              ELSE candidate[c]
  BY CommandsAssumption DEF PurgeAudit, Unused, EventInv, EventTypes, fates
<1>2. \A c \in CommandIds :
        /\ results[c] \in Seq(ResultRow) /\ left(c) \in Seq(ResultRow)
        /\ ToSet(left(c)) = {row \in ToSet(results[c]) : row.audit > clock}
        /\ EndOf(left(c), results[c])
  <2> TAKE c \in CommandIds
  <2> DEFINE rows == results[c]
             places == {i \in DOMAIN rows : rows[i].audit > clock}
  <2>1. rows \in Seq(ResultRow)
    BY DEF AnswersInv, ResultTypes
  <2>2. \A i \in places : \A j \in DOMAIN rows : i <= j => j \in places
    <3> SUFFICES ASSUME NEW i \in places, NEW j \in DOMAIN rows, i <= j PROVE rows[j].audit > clock
      OBVIOUS
    <3>1. i \in 1..Len(rows) /\ j \in 1..Len(rows) /\ rows[i].audit > clock
      BY <2>1
    <3>2. rows[i] \in ResultRow /\ rows[j] \in ResultRow
      BY <2>1, <3>1
    <3>3. i = j \/ rows[i].audit <= rows[j].audit
      BY <3>1 DEF CommandInv, RowsInOrder
    <3> QED
      BY <1>1, <3>1, <3>2, <3>3 DEF ResultRow
  <2>3. Kept(rows) = Sublist(rows, places) /\ places \in SUBSET DOMAIN rows
    BY DEF Kept
  <2>4. {rows[i] : i \in places} = {row \in ToSet(rows) : row.audit > clock}
    BY DEF ToSet
  <2>5. /\ Sublist(rows, places) \in Seq(ResultRow)
        /\ ToSet(Sublist(rows, places)) = {row \in ToSet(rows) : row.audit > clock}
    <3> HIDE DEF rows, places
    <3> QED
      BY <2>1, <2>3, <2>4, SublistRange
  <2>6. EndOf(Sublist(rows, places), rows)
    <3> HIDE DEF rows, places
    <3> QED
      BY <2>1, <2>2, <2>3, SublistIsEnd
  <2> HIDE DEF places
  <2> QED
    BY <2>1, <2>3, <2>5, <2>6
<1> HIDE DEF left
<1>3. RowsInOrder'
  <2> SUFFICES ASSUME NEW c \in CommandIds
               PROVE  \A m, n \in 1..Len(left(c)) : m < n => left(c)[m].audit <= left(c)[n].audit
    BY <1>1 DEF RowsInOrder
  <2> QED
    BY <1>2, ZenonT(60) DEF CommandInv, RowsInOrder, EndOf
<1>4. CandidateHolds'
  <2> SUFFICES ASSUME NEW c \in CommandIds
               PROVE  /\ candidate'[c] # NoRow => candidate'[c] <= clock + AuditTime
                      /\ left(c) # <<>> => candidate'[c] # NoRow
                      /\ \A row \in ToSet(left(c)) : candidate'[c] <= row.audit
    BY <1>1 DEF CandidateHolds
  <2>1. left(c) = <<>> => ToSet(left(c)) = {}
    BY DEF ToSet
  <2> QED
    BY <1>1, <1>2, <2>1 DEF CommandInv, CandidateHolds, EndOf
<1>5. \A g \in Handlers : StoreReady(g)'
  <2> SUFFICES ASSUME NEW g \in Handlers, Doing(g, "store")', Posting(g)' PROVE StoreReady(g)'
    BY DEF StoreReady
  <2> DEFINE c == handler[g].body.command
  <2>1. Posting(g) /\ Doing(g, "store") /\ handler'[g] = handler[g]
    BY <1>1 DEF Posting, Doing
  <2>2. c \in CommandIds
    BY <2>1, ServedReport DEF Posting, EventInv, EventTypes, Reports
  <2>3. /\ candidate[c] # NoRow => candidate[c] <= handler[g].received + AuditTime
        /\ handler[g].newer = 0 /\ results[c] # <<>> =>
             handler[g].body.status \in Following[Last(results[c]).body.status]
    BY <2>1 DEF CommandInv, StoreReady
  <2>4. candidate'[c] # NoRow => candidate'[c] <= handler[g].received + AuditTime
    BY <1>1, <2>2, <2>3
  <2>5. left(c) # <<>> => Last(left(c)) = Last(results[c]) /\ results[c] # <<>>
    BY <1>2, <2>2 DEF EndOf
  <2> QED
    BY <1>1, <2>1, <2>2, <2>3, <2>4, <2>5 DEF StoreReady
<1>6. EndedStays'
  <2> SUFFICES ASSUME NEW c \in ended \ raced
               PROVE  /\ left(c) = <<>> => candidate'[c] = NoRow
                      /\ left(c) # <<>> => Last(left(c)).body.status \in Ends
    BY <1>1 DEF CommandInv, EndedStays, fates
  <2>1. c \in CommandIds
    BY DEF CommandInv, EndedStays
  <2>2. CASE left(c) # <<>>
    BY <1>2, <2>1, <2>2 DEF CommandInv, EndedStays, EndOf
  <2>3. CASE left(c) = <<>> /\ candidate[c] # NoRow
    <3>1. results[c] # <<>>
      BY <2>3 DEF CommandInv, EndedStays
    <3>2. 1 \in DOMAIN results[c] /\ results[c][1] \in ResultRow
      BY <1>2, <2>1, <3>1
    <3>3. results[c][1] \in ToSet(results[c])
      BY <3>2 DEF ToSet
    <3>4. results[c][1].audit <= clock
      <4>1. ToSet(left(c)) = {}
        BY <2>3 DEF ToSet
      <4> QED
        BY <1>1, <1>2, <2>1, <3>2, <3>3, <4>1 DEF ResultRow
    <3>5. candidate[c] <= results[c][1].audit /\ candidate[c] \in Nat
      BY <2>1, <2>3, <3>3 DEF CommandInv, CandidateHolds, AnswersInv, ResultTypes
    <3>6. candidate[c] <= clock
      BY <1>1, <3>2, <3>4, <3>5 DEF ResultRow
    <3> QED
      BY <1>1, <2>1, <2>3, <3>6
  <2>4. CASE left(c) = <<>> /\ candidate[c] = NoRow
    BY <1>1, <2>1, <2>4
  <2> QED
    BY <2>2, <2>3, <2>4
<1>7. ResultsFollowLifecycle'
  <2> SUFFICES ASSUME NEW c \in CommandIds \ raced, NEW n \in 2..Len(left(c))
               PROVE  left(c)[n].body.status \in Following[left(c)[n - 1].body.status]
    BY <1>1 DEF ResultsFollowLifecycle, fates
  <2>1. PICK i \in 2..Len(results[c]) : left(c)[n - 1] = results[c][i - 1] /\ left(c)[n] = results[c][i]
    BY <1>2 DEF EndOf
  <2> QED
    BY <2>1 DEF CommandInv, ResultsFollowLifecycle
<1> QED
  BY <1>3, <1>4, <1>5, <1>6, <1>7 DEF CommandInv

\* A new candidate is of a command without reports, stored or not.
LEMMA ProposeKeeps ==
  ASSUME CommandInv, AnswersInv, EventInv, NEW c \in CommandIds, Propose(c)
  PROVE  CommandInv'
<1>1. /\ candidate' = [candidate EXCEPT ![c] = clock + AuditTime] /\ results[c] = <<>> /\ c \notin ended
      /\ UNCHANGED <<clock, results, handler, fates>> /\ \A h \in Handlers : ~Reporting(h, c)
  BY DEF Propose
<1>2. clock + AuditTime \in Nat /\ NoRow \notin Nat
  BY CommandsAssumption DEF EventInv, EventTypes
<1>3. ToSet(results[c]) = {}
  BY <1>1 DEF ToSet
<1>4. candidate'[c] = clock + AuditTime /\ \A d \in CommandIds \ {c} : candidate'[d] = candidate[d]
  BY <1>1 DEF AnswersInv, ResultTypes
<1>5. CandidateHolds'
  BY <1>1, <1>2, <1>3, <1>4 DEF CommandInv, CandidateHolds
<1>6. EndedStays'
  BY <1>1, <1>4 DEF CommandInv, EndedStays, fates
<1>7. \A g \in Handlers : StoreReady(g)'
  <2> SUFFICES ASSUME NEW g \in Handlers, Doing(g, "store")', Posting(g)' PROVE StoreReady(g)'
    BY DEF StoreReady
  <2>1. Posting(g) /\ Doing(g, "store") /\ handler' = handler
    BY <1>1 DEF Posting, Doing
  <2>2. handler[g].body.command \in CommandIds \ {c}
    BY <1>1, <2>1, ServedReport DEF Posting, Reporting, EventInv, EventTypes, Reports
  <2> QED
    BY <1>1, <1>4, <2>1, <2>2 DEF CommandInv, StoreReady
<1> QED
  BY <1>1, <1>5, <1>6, <1>7 DEF CommandInv, RowsInOrder, ResultsFollowLifecycle, fates

\* Time passes.
LEMMA TickKeeps ==
  ASSUME CommandInv, AnswersInv, EventInv, Tick
  PROVE  CommandInv'
<1>1. clock' = clock + 1 /\ UNCHANGED <<candidate, results, handler, fates>>
  BY DEF Tick
<1>2. clock \in Nat /\ AuditTime \in Nat
  BY CommandsAssumption DEF EventInv, EventTypes
<1>3. CandidateHolds'
  BY <1>1, <1>2 DEF CommandInv, CandidateHolds, AnswersInv, ResultTypes
<1>4. \A g \in Handlers : StoreReady(g)'
  BY <1>1 DEF CommandInv, StoreReady, Posting, Doing
<1> QED
  BY <1>1, <1>3, <1>4 DEF CommandInv, RowsInOrder, EndedStays, ResultsFollowLifecycle, fates

\* A step that leaves commands and handlers alone.
LEMMA CommandsLeftAlone ==
  ASSUME CommandInv, UNCHANGED <<clock, candidate, results, handler, fates>>
  PROVE  CommandInv'
<1>1. \A g \in Handlers : StoreReady(g)'
  BY DEF CommandInv, StoreReady, Posting, Doing
<1> QED
  BY <1>1 DEF CommandInv, RowsInOrder, CandidateHolds, EndedStays, ResultsFollowLifecycle, fates

\* No command has a report at first.
LEMMA InitCommands == Init => CommandInv
BY DEF Init, CommandsInit, CommandInv, RowsInOrder, CandidateHolds, EndedStays,
       ResultsFollowLifecycle, StoreReady, Posting, Doing, Waiting, ToSet

\* Every step keeps the states of commands in their order, ...
LEMMA NextCommands ==
  ASSUME CommandInv, AnswersInv, EventInv, [Next]_recordVars
  PROVE  CommandInv'
<1>1. CASE UNCHANGED <<clock, candidate, results, handler, fates>>
  BY <1>1, CommandsLeftAlone
<1>2. CASE Requests
  <2>1. CASE \E h \in Handlers : StoreResult(h)
    <3>1. PICK h \in Handlers : StoreResult(h)
      BY <2>1
    <3>2. Posting(h) /\ Doing(h, "store") /\ ~Doing(h, "idle")
      BY <3>1 DEF StoreResult, Posting, Doing
    <3>3. CASE \E o, body, row, place : Stores(h, o, body, row, place)
      BY <3>2, <3>3, StoresKeeps
    <3>4. CASE UNCHANGED <<clock, candidate, results, eventVars, answers, fates>> /\ Stage(h, "again")
      <4>1. \A g \in Handlers : Unmoved(g)
        BY <3>2, <3>4, OthersUnmoved DEF EventInv, EventTypes
      <4> QED
        BY <3>4, <4>1, UnmovedReady, HandlersReady
    <3> QED
      BY <3>1, <3>3, <3>4, StoresOrNot
  <2>2. CASE \E c \in CommandIds : Propose(c)
    BY <2>2, ProposeKeeps
  <2>3. CASE \E e \in EventIds : Process(e)
    BY <1>1, <2>3 DEF Process
  <2> QED
    BY <1>2, <2>1, <2>2, <2>3, HandlerSteps DEF Requests
<1>3. CASE PurgeAudit
  BY <1>3, PurgeKeepsOrder
<1>4. CASE Tick
  BY <1>4, TickKeeps
<1>5. CASE PurgeEvents \/ ReconcileFiles \/ ProcessFiles
           \/ FindExpired \/ ProcessExpired
           \/ EndSweep \/ StopSweep \/ ((ChangeFile \/ ChangeRows) /\ UNCHANGED <<commandVars, sweep>>)
           \/ UNCHANGED recordVars
  BY <1>1, <1>5 DEF PurgeEvents, ReconcileFiles, ProcessFiles, FindExpired, ProcessExpired, EndSweep,
                    StopSweep, commandVars, recordVars, fates
<1> QED
  BY <1>2, <1>3, <1>4, <1>5 DEF Next

\* ... and gives a command that ended no report, but one that was overtaken.
LEMMA NextEnded ==
  ASSUME CommandInv, AnswersInv, EventInv, [Next]_recordVars, NEW c \in ended
  PROVE  Len(results'[c]) <= Len(results[c]) \/ c \in raced'
<1>0. c \in CommandIds /\ Len(results[c]) \in Nat
  BY DEF CommandInv, EndedStays, AnswersInv, ResultTypes
<1>1. CASE UNCHANGED results
  BY <1>0, <1>1
<1>2. CASE \E h \in Handlers : StoreResult(h)
  <2>1. PICK h \in Handlers : StoreResult(h)
    BY <1>2
  <2>2. Posting(h) /\ Doing(h, "store")
    BY <2>1 DEF StoreResult, Posting, Doing
  <2>3. CASE \E o, body, row, place : Stores(h, o, body, row, place)
    <3>1. PICK o, body, row, place : Stores(h, o, body, row, place)
      BY <2>3
    <3>2. CASE body.command # c
      <4>1. results'[c] = results[c]
        BY <1>0, <3>1, <3>2, StoredRow
      <4> QED
        BY <1>0, <4>1
    <3>3. CASE body.command = c /\ handler[h].newer = 0
      <4>1. c \in raced /\ raced' = raced
        BY <2>2, <3>1, <3>3, EndedRefuses DEF Stores
      <4> QED
        BY <4>1
    <3>4. CASE body.command = c /\ handler[h].newer # 0
      <4>1. handler[h].newer \in Nat
        BY <2>2 DEF AnswersInv, ResultTypes
      <4> QED
        BY <3>1, <3>4, <4>1 DEF Stores
    <3> QED
      BY <3>2, <3>3, <3>4
  <2> QED
    BY <1>1, <2>1, <2>3, StoresOrNot
<1>3. CASE PurgeAudit
  <2> DEFINE rows == results[c]
             places == {i \in DOMAIN rows : rows[i].audit > clock}
  <2>1. rows \in Seq(ResultRow) /\ places \in SUBSET DOMAIN rows /\ results'[c] = Sublist(rows, places)
    BY <1>0, <1>3 DEF AnswersInv, ResultTypes, PurgeAudit, Kept
  <2>2. Len(Sublist(rows, places)) = Cardinality(places)
    <3> HIDE DEF rows, places
    <3> QED
      BY <2>1, SublistRange
  <2>3. Cardinality(places) <= Len(rows)
    <3>1. IsFiniteSet(1..Len(rows)) /\ Cardinality(1..Len(rows)) = Len(rows) /\ DOMAIN rows = 1..Len(rows)
      BY <2>1, FS_Interval
    <3> HIDE DEF rows, places
    <3> QED
      BY <2>1, <3>1, FS_Subset
  <2> QED
    BY <2>1, <2>2, <2>3
<1>4. CASE Requests /\ ~\E h \in Handlers : StoreResult(h)
  BY <1>1, <1>4 DEF Requests, Propose, ReceiveResult, ReceiveEvent, FindResult, CheckResult, ReplayResult,
                    FindEvent, StoreEvent, ReplayEvent, Abandon, Process
<1>5. CASE PurgeEvents \/ ReconcileFiles \/ ProcessFiles
           \/ FindExpired \/ ProcessExpired
           \/ EndSweep \/ StopSweep \/ ((ChangeFile \/ ChangeRows) /\ UNCHANGED <<commandVars, sweep>>)
           \/ Tick \/ UNCHANGED recordVars
  BY <1>1, <1>5 DEF PurgeEvents, ReconcileFiles, ProcessFiles, FindExpired, ProcessExpired, EndSweep,
                    StopSweep, Tick, commandVars, recordVars
<1> QED
  BY <1>2, <1>3, <1>4, <1>5 DEF Next

\* However many reports are served at once, repeated, abandoned and purged, the states
\* of a command follow each other, but for commands one of whose reports was overtaken
\* between its check and its transaction.
THEOREM ReportsFollowLifecycle == Spec => []ResultsFollowLifecycle
<1>1. Init => EventInv /\ AnswersInv /\ CommandInv
  BY InitEvents, InitAnswers, InitCommands
<1>2. EventInv /\ AnswersInv /\ CommandInv /\ [Next]_recordVars => (EventInv /\ AnswersInv /\ CommandInv)'
  BY NextEvents, NextAnswers, NextCommands
<1>3. CommandInv => ResultsFollowLifecycle
  BY DEF CommandInv
<1> QED
  BY <1>1, <1>2, <1>3, PTL DEF Spec

\* A command that ended takes no further report, not even when its reports are deleted
\* one by one, unless one of its reports was overtaken.
THEOREM EndsAreForGood == Spec => EndedForGood
<1>1. Init => EventInv /\ AnswersInv /\ CommandInv
  BY InitEvents, InitAnswers, InitCommands
<1>2. EventInv /\ AnswersInv /\ CommandInv /\ [Next]_recordVars => (EventInv /\ AnswersInv /\ CommandInv)'
  BY NextEvents, NextAnswers, NextCommands
<1>3. EventInv /\ AnswersInv /\ CommandInv /\ [Next]_recordVars
        => [\A c \in ended : Len(results'[c]) <= Len(results[c]) \/ c \in raced']_recordVars
  BY NextEnded
<1> QED
  BY <1>1, <1>2, <1>3, PTL DEF Spec, EndedForGood
================================================================================
