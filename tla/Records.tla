--------------------------------- MODULE Records ---------------------------------
(***************************************************************************)
(* RetentionService.sweep over what the game reported and over legacy      *)
(* memory files: contents of events that are due are erased, rows whose    *)
(* audit time is over are deleted, files are quarantined and deleted.      *)
(* Requests go on meanwhile, and the sweep may stop between two steps.     *)
(* (What it does to messages and memories is in MemoryPipeline.)           *)
(***************************************************************************)
EXTENDS Commands, Quarantine, Sublists

VARIABLE sweep    \* the step of the sweep

recordVars == <<commandVars, quarantineVars, sweep>>

Init == CommandsInit /\ QuarantineInit /\ sweep = "idle"

At(step) == sweep = step
Then(step) == sweep' = step

-------------------------------------------------------------------------------
(* The sweep *)

\* _purge_canonical, the events.
PurgeEvents ==
  LET due == {e \in EventIds : event[e] # NoRow /\ event[e].content /\ event[e].expires <= clock} IN
  /\ At("idle")
  /\ event' = [e \in EventIds |-> IF e \in due THEN [event[e] EXCEPT !.content = FALSE] ELSE event[e]]
  /\ queued' = [e \in EventIds |-> IF e \in due THEN "Tombstone" ELSE queued[e]]
  /\ Then("audit")
  /\ UNCHANGED <<clock, candidate, results, handler, answers, fates, quarantineVars>>

Kept(rows) == Sublist(rows, {i \in DOMAIN rows : rows[i].audit > clock})

\* Mutant: candidates are deleted before results, and so in a later sweep.
UnusedBefore(c) == results[c] = <<>>
Unused(c) == Kept(results[c]) = <<>>

\* Mutant: the outbox row stays.
OutboxStays(due) == queued
OutboxWithout(due) == [e \in EventIds |-> IF e \in due THEN NoRow ELSE queued[e]]

\* _purge_expired_audit: results, then candidates without any, events whose
\* content is gone, with their outbox rows.
PurgeAudit ==
  LET due == {e \in EventIds : event[e] # NoRow /\ ~event[e].content /\ event[e].audit <= clock}
      gone == {row.id : row \in {r \in StoredResults : r.audit <= clock}} IN
  /\ At("audit")
  /\ results' = [c \in CommandIds |-> Kept(results[c])]
  /\ candidate' = [c \in CommandIds |->
                     IF candidate[c] # NoRow /\ candidate[c] <= clock /\ Unused(c) THEN NoRow
                     ELSE candidate[c]]
  /\ event' = [e \in EventIds |-> IF e \in due THEN NoRow ELSE event[e]]
  /\ queued' = OutboxWithout(due)
  /\ answers' = [i \in Ids |-> IF i \in gone \union due THEN {} ELSE answers[i]]
  /\ Then("legacy")
  /\ UNCHANGED <<clock, handler, fates, quarantineVars>>

ReconcileFiles == At("legacy") /\ Reconcile(clock) /\ Then("files") /\ UNCHANGED commandVars

ProcessFiles ==
  /\ At("files") /\ UNCHANGED <<commandVars, sweep>>
  /\ (\E f \in Files : Hash(f)) \/ Compare \/ FindPlace \/ Replace \/ Unlink \/ Moved(clock)
FindExpired == At("files") /\ SelectExpired(clock) /\ Then("expired") /\ UNCHANGED commandVars
ProcessExpired ==
  /\ At("expired") /\ UNCHANGED <<commandVars, sweep>>
  /\ (\E k \in Keys : CheckExpired(k)) \/ DeleteExpired
EndSweep == At("expired") /\ CommitExpired /\ Then("idle") /\ UNCHANGED commandVars

\* A crash, a failed transaction, or the cancellation at shutdown.
StopSweep ==
  /\ ~At("idle") /\ Then("idle") /\ StopRun /\ UNCHANGED commandVars

-------------------------------------------------------------------------------

Tick ==
  /\ clock < MaxClock /\ clock' = clock + 1
  /\ UNCHANGED <<candidate, results, eventVars, handler, answers, fates, quarantineVars, sweep>>

Next ==
  \/ Requests /\ UNCHANGED <<quarantineVars, sweep>>
  \/ PurgeEvents \/ PurgeAudit \/ ReconcileFiles
  \/ ProcessFiles \/ FindExpired \/ ProcessExpired \/ EndSweep \/ StopSweep
  \/ (ChangeFile \/ ChangeRows) /\ UNCHANGED <<commandVars, sweep>>
  \/ Tick

Spec == Init /\ [][Next]_recordVars

-------------------------------------------------------------------------------
(* Properties *)

\* Whoever asks, however often and at whatever moment: as long as the server
\* remembers an id, it answers it for one body only.
SameAnswer == \A i \in Ids : Cardinality(answers[i]) <= 1

\* docs/api-endpoints.md: a command is first Accepted, Rejected or Expired; it
\* runs after it was accepted and ends after it ran.  Old reports are deleted
\* from the front.  The server checks a report before the transaction that stores
\* it: commands with a report that another one overtook in between are excluded,
\* and no other, however reports are repeated, abandoned and purged.
ResultsFollowLifecycle ==
  \A c \in CommandIds \ raced : \A i \in 2..Len(results[c]) :
    results[c][i].body.status \in Following[results[c][i - 1].body.status]

\* A command that ended stays so, but for a report that was overtaken: not even
\* when its reports are deleted one by one does it take another.
EndedForGood ==
  [][\A c \in ended : Len(results'[c]) <= Len(results[c]) \/ c \in raced']_recordVars

\* docs/api-endpoints.md:422-423: what is reported after a terminal state is
\* answered with 409, so that a command has one end.
OneEnd ==
  \A c \in CommandIds :
    Cardinality({i \in DOMAIN results[c] : results[c][i].body.status \in Ends}) <= 1

\* An event and its outbox row appear and disappear together, and the row of an
\* event whose content is gone is a tombstone: the worker is never sent to read it.
EventsAreQueued ==
  \A e \in EventIds :
    /\ event[e] = NoRow <=> queued[e] = NoRow
    /\ event[e] # NoRow => (event[e].content <=> queued[e] # "Tombstone")

\* The last copy of a legacy file is removed only when its memories were found in
\* the database, whatever was put in its place before and whenever a run stops; but
\* what is put there after the run has looked, and before it moves or deletes the
\* file, goes with it.
NothingUnverifiedIsLost == lost \subseteq slipped
===============================================================================
