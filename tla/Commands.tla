-------------------------------- MODULE Commands --------------------------------
(***************************************************************************)
(* EventService: what the game reports.  POST /events stores a GameEvent,  *)
(* POST /command-results a state of a command that a chat reply proposed;  *)
(* both are accepted once per id, and a repetition gets the first answer.  *)
(*                                                                         *)
(* A handler reads, decides, and writes in one transaction; between the    *)
(* read and the write others may write.  Records has the rest of their     *)
(* life: the retention sweep.                                              *)
(***************************************************************************)
EXTENDS Integers, SequencesExt, FiniteSets

CONSTANTS
  CommandIds,    \* command candidates of chat replies
  Operations,    \* operation ids of the game's reports
  EventIds, EventBodies,
  Handlers,      \* concurrent requests
  AuditTime,     \* AUDIT_RETENTION_DAYS
  EventTime,     \* GAME_EVENT_RETENTION_DAYS
  MaxClock,      \* bound: time
  NoRow          \* absent rows

ASSUME CommandsAssumption ==
  /\ AuditTime \in Nat /\ EventTime \in Nat /\ MaxClock \in Nat
  /\ EventTime <= AuditTime
  /\ NoRow \notin [body : EventBodies, content : BOOLEAN, expires : Nat, audit : Nat]
  /\ NoRow \notin {"Pending", "Completed", "Tombstone"} /\ NoRow \notin Nat
  \* Their tables are two.
  /\ Operations \intersect EventIds = {}

VARIABLES
  clock,
  candidate,  \* candidate[c]: when its command_candidates row expires, or NoRow
  results,    \* results[c]: its command_results rows, by received_at
  event,      \* event[e]: the game_events row, or NoRow
  queued,     \* queued[e]: the state of the event's source_outbox row
  handler,    \* handler[h]: the request that h serves, and how far it is
  answers,    \* history, answers[i]: the bodies that the row of id i was answered for
  ended,      \* history: commands whose end is stored
  raced       \* history: commands one of whose results was overtaken

eventVars == <<event, queued>>
fates == <<ended, raced>>
commandVars == <<clock, candidate, results, event, queued, handler, answers, ended, raced>>

Statuses == {"Accepted", "Running", "Succeeded", "Rejected", "Expired"}
Initial == {"Accepted", "Rejected", "Expired"}
\* Succeeded stands for Failed and Cancelled as well.
Following == [s \in Statuses |->
                CASE s = "Accepted" -> {"Running"}
                  [] s = "Running" -> {"Succeeded", "Expired"}
                  [] OTHER -> {}]
Ends == {s \in Statuses : Following[s] = {}}

\* matches: the report names the candidate's request and type.
Reports == [command : CommandIds, status : Statuses, matches : BOOLEAN]
Ids == Operations \union EventIds

\* received: the time at which a result was checked; newer: how many others of its
\* command were stored since.
Waiting == [step |-> "idle"]
Service(step, kind, id, body, received, newer) ==
  [step |-> step, kind |-> kind, id |-> id, body |-> body, received |-> received, newer |-> newer]

CommandsInit ==
  /\ clock = 0
  /\ candidate = [c \in CommandIds |-> NoRow]
  /\ results = [c \in CommandIds |-> <<>>]
  /\ event = [e \in EventIds |-> NoRow]
  /\ queued = [e \in EventIds |-> NoRow]
  /\ handler = [h \in Handlers |-> Waiting]
  /\ answers = [i \in Ids |-> {}]
  /\ ended = {} /\ raced = {}

Doing(h, step) == handler[h].step = step
Stage(h, step) == handler' = [handler EXCEPT ![h].step = step]
Answered(h) == handler' = [handler EXCEPT ![h] = Waiting]
Answer(h) == answers' = [answers EXCEPT ![handler[h].id] = @ \union {handler[h].body}]

\* _replay_event, _replay_result: the first answer for the same body, else a
\* 409; an event whose content is gone cannot be answered any more.
Replayed(h, body, readable) ==
  /\ IF body = handler[h].body /\ readable THEN Answer(h) ELSE UNCHANGED answers
  /\ Answered(h)

-------------------------------------------------------------------------------
(* Command results *)

\* h serves a report on c.
Reporting(h, c) == ~Doing(h, "idle") /\ handler[h].kind = "result" /\ handler[h].body.command = c

\* A chat reply with a command is stored.  The command is new: an id is given
\* again only when nothing is left of the command that had it.
Propose(c) ==
  /\ candidate[c] = NoRow /\ c \notin ended /\ results[c] = <<>>
  /\ ~\E h \in Handlers : Reporting(h, c)
  /\ candidate' = [candidate EXCEPT ![c] = clock + AuditTime]
  /\ UNCHANGED <<clock, results, eventVars, handler, answers, fates>>

\* The game may send reports before earlier ones were answered.
ReceiveResult(h, o, report) ==
  /\ Doing(h, "idle")
  /\ handler' = [handler EXCEPT ![h] = Service("find", "result", o, report, 0, 0)]
  /\ UNCHANGED <<clock, candidate, results, eventVars, answers, fates>>

StoredResults == UNION {ToSet(results[c]) : c \in CommandIds}
HasResult(o) == \E row \in StoredResults : row.id = o
ResultOf(o) == CHOOSE row \in StoredResults : row.id = o

FindResult(h) ==
  LET o == handler[h].id IN
  /\ Doing(h, "find") /\ handler[h].kind = "result"
  /\ IF HasResult(o)
     THEN Replayed(h, ResultOf(o).body, TRUE)
     ELSE Stage(h, "check") /\ UNCHANGED answers
  /\ UNCHANGED <<clock, candidate, results, eventVars, fates>>

\* Mutant: the state before is not looked at.
AnyState(rows, status) == status \in Statuses
MayFollow(rows, status) ==
  IF rows = <<>> THEN status \in Initial ELSE status \in Following[Last(rows).body.status]

\* 404, or 409, or received_at is taken.
CheckResult(h) ==
  LET body == handler[h].body IN
  /\ Doing(h, "check") /\ handler[h].kind = "result"
  /\ IF /\ candidate[body.command] # NoRow /\ body.matches
        /\ MayFollow(results[body.command], body.status)
     THEN handler' = [handler EXCEPT ![h] = Service("store", "result", @.id, body, clock, 0)]
     ELSE Answered(h)
  /\ UNCHANGED <<clock, candidate, results, eventVars, answers, fates>>

\* The rows of a command are ordered by received_at, which the clock tells in
\* part; those that were there at the check come before.
Places(rows, row, newer) ==
  {place \in 0..Len(rows) :
     /\ Len(rows) - place <= newer
     /\ \A i \in DOMAIN rows :
          IF i <= place THEN rows[i].audit <= row.audit ELSE row.audit <= rows[i].audit}

\* What other handlers of a command have checked is out of date.
Overtaken(h, c) ==
  [g \in Handlers |->
     CASE g = h -> Waiting
       [] g # h /\ Doing(g, "store") /\ Reporting(g, c) -> [handler[g] EXCEPT !.newer = @ + 1]
       [] OTHER -> handler[g]]

\* The insert and the commit: a unique key, a foreign key, and no other look at
\* the results.
StoreResult(h) ==
  LET o == handler[h].id
      body == handler[h].body
      c == body.command
      row == [id |-> o, body |-> body, audit |-> handler[h].received + AuditTime]
  IN  /\ Doing(h, "store") /\ handler[h].kind = "result"
      /\ IF HasResult(o) \/ candidate[c] = NoRow
         THEN Stage(h, "again") /\ UNCHANGED <<results, answers, fates>>
         ELSE /\ \E place \in Places(results[c], row, handler[h].newer) :
                   results' = [results EXCEPT ![c] = InsertAt(@, place + 1, row)]
              /\ ended' = IF body.status \in Ends THEN ended \union {c} ELSE ended
              /\ raced' = IF handler[h].newer > 0 THEN raced \union {c} ELSE raced
              /\ handler' = Overtaken(h, c)
              /\ Answer(h)
      /\ UNCHANGED <<clock, candidate, eventVars>>

\* After the rollback.
ReplayResult(h) ==
  LET o == handler[h].id IN
  /\ Doing(h, "again") /\ handler[h].kind = "result"
  /\ IF HasResult(o) THEN Replayed(h, ResultOf(o).body, TRUE)
     ELSE Answered(h) /\ UNCHANGED answers
  /\ UNCHANGED <<clock, candidate, results, eventVars, fates>>

-------------------------------------------------------------------------------
(* Events *)

ReceiveEvent(h, e, body) ==
  /\ Doing(h, "idle")
  /\ handler' = [handler EXCEPT ![h] = Service("find", "event", e, body, 0, 0)]
  /\ UNCHANGED <<clock, candidate, results, eventVars, answers, fates>>

FindEvent(h) ==
  LET e == handler[h].id IN
  /\ Doing(h, "find") /\ handler[h].kind = "event"
  /\ IF event[e] # NoRow
     THEN Replayed(h, event[e].body, event[e].content)
     ELSE Stage(h, "store") /\ UNCHANGED answers
  /\ UNCHANGED <<clock, candidate, results, eventVars, fates>>

\* The event, its outbox row and the relationship, in one transaction.
StoreEvent(h) ==
  LET e == handler[h].id IN
  /\ Doing(h, "store") /\ handler[h].kind = "event"
  /\ IF event[e] # NoRow
     THEN Stage(h, "again") /\ UNCHANGED <<eventVars, answers>>
     ELSE /\ event' = [event EXCEPT ![e] =
               [body |-> handler[h].body, content |-> TRUE, expires |-> clock + EventTime,
                audit |-> clock + AuditTime]]
          /\ queued' = [queued EXCEPT ![e] = "Pending"]
          /\ Answer(h) /\ Answered(h)
  /\ UNCHANGED <<clock, candidate, results, fates>>

\* Mutant: the request that lost answers what it wanted to store.
AnswerAnyway(h) == Answer(h) /\ Answered(h)
AnswerStored(h) ==
  LET e == handler[h].id IN
  IF event[e] # NoRow THEN Replayed(h, event[e].body, event[e].content)
  ELSE Answered(h) /\ UNCHANGED answers

ReplayEvent(h) ==
  /\ Doing(h, "again") /\ handler[h].kind = "event"
  /\ AnswerStored(h)
  /\ UNCHANGED <<clock, candidate, results, eventVars, fates>>

\* The memory worker finishes with the event.
Process(e) ==
  /\ queued[e] = "Pending" /\ queued' = [queued EXCEPT ![e] = "Completed"]
  /\ UNCHANGED <<clock, candidate, results, event, handler, answers, fates>>

\* A timeout, a disconnect.
Abandon(h) ==
  /\ ~Doing(h, "idle") /\ Answered(h)
  /\ UNCHANGED <<clock, candidate, results, eventVars, answers, fates>>

Requests ==
  \/ \E c \in CommandIds : Propose(c)
  \/ \E h \in Handlers :
       \/ \E o \in Operations, report \in Reports : ReceiveResult(h, o, report)
       \/ \E e \in EventIds, body \in EventBodies : ReceiveEvent(h, e, body)
       \/ FindResult(h) \/ CheckResult(h) \/ StoreResult(h) \/ ReplayResult(h)
       \/ FindEvent(h) \/ StoreEvent(h) \/ ReplayEvent(h) \/ Abandon(h)
  \/ \E e \in EventIds : Process(e)
===============================================================================
