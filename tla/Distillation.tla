------------------------------ MODULE Distillation ------------------------------
(***************************************************************************)
(* CompanionBrain's background distillation: conversations with new lines  *)
(* wait in a queue with a cursor into their transcript; a loop extracts    *)
(* memories from what lies behind the cursor, summarises a conversation    *)
(* that ended and takes it out of the queue.                               *)
(*                                                                         *)
(* Queue entries are mutable objects that the loop keeps across its        *)
(* awaits, so the model names them.  Between two turns of the loop a       *)
(* conversation may grow quiet and end.                                    *)
(***************************************************************************)
EXTENDS Transcript

CONSTANTS
  MaxPending,     \* MAX_PENDING_CONVERSATIONS
  ExtractEvery,   \* extract_every_n_turns
  MaxExtract,     \* MAX_EXTRACT_ENTRIES
  Objects         \* names for queue entries: enough for the queue and the loop

ASSUME DistillationAssumption ==
  /\ MaxPending \in Nat \ {0} /\ ExtractEvery \in Nat /\ MaxExtract \in Nat \ {0}
  /\ Objects \subseteq Nat /\ IsFiniteSet(Objects) /\ Cardinality(Objects) > 2 * MaxPending

VARIABLES
  process,   \* "running", "closing" (aclose) or "closed"
  pending,   \* _pending: the queue's objects, oldest first
  object,    \* object[o]: the fields of a _Pending
  drain,     \* _drain: its step, the objects it has yet to visit
  shown,     \* history, shown[c]: numbers handed to the extraction
  owed,      \* history: what waited when the visit began ends here, or, behind a
             \* full batch, what the visit was able to read of it
  missed     \* history: conversations that left the queue without some line up to
             \* there being shown

history == <<owed, missed>>
distillation == <<process, pending, object, drain, shown, owed, missed>>
vars == <<transcript, mishaps, distillation>>

NoDrain == [step |-> "idle", todo |-> <<>>, ended |-> FALSE, final |-> FALSE, batch |-> <<>>]
Unused == [key |-> "none"]

Init ==
  /\ TranscriptInit
  /\ process = "running" /\ pending = <<>>
  /\ object = [o \in Objects |-> Unused]
  /\ drain = NoDrain
  /\ shown = [c \in Conversations |-> {}]
  /\ owed = 0 /\ missed = {}

-------------------------------------------------------------------------------
(* _enqueue *)

\* An object the queue and the loop have both dropped can be named anew.
InUse(queue) == ToSet(queue) \union ToSet(drain.todo)
Keep(queue, objects) == [o \in Objects |-> IF o \in InUse(queue) THEN objects[o] ELSE Unused]
FreeObject == CHOOSE o \in Objects : o \notin InUse(pending)
                 /\ \A p \in Objects \ InUse(pending) : o <= p

Entry(c) == {o \in ToSet(pending) : object[o].key = c}

\* A known conversation moves to the end and is no longer finished; a new one
\* starts behind the lines that were there before this exchange.  The oldest
\* entry over the limit is dropped.
Enqueue(c, upto) ==
  LET known == Entry(c) # {}
      o == IF known THEN CHOOSE p \in Entry(c) : TRUE ELSE FreeObject
      entry == IF known
               THEN [object[o] EXCEPT !.appended = upto, !.age = "recent", !.summarized = FALSE]
               ELSE [key |-> c, base |-> upto - 2, upto |-> upto - 2,
                     appended |-> upto, age |-> "recent", summarized |-> FALSE]
      all == Append(Sublist(pending, {i \in DOMAIN pending : pending[i] # o}), o)
      queue == IF Len(all) > MaxPending THEN Tail(all) ELSE all
  IN  /\ pending' = queue
      /\ object' = Keep(queue, [object EXCEPT ![o] = entry])

Finish(w) ==
  /\ FinishAppend(w)
  /\ IF writer[w].distil
     THEN Enqueue(writer[w].key, writer[w].base + 2)
     ELSE UNCHANGED <<pending, object>>
  /\ UNCHANGED <<process, drain, shown, history>>

-------------------------------------------------------------------------------
(* _drain *)

\* Time passes; an idle time that a running _drain measures from its start is
\* not longer for it.
GrowOld(o) ==
  /\ drain.step = "idle" /\ o \in ToSet(pending) /\ object[o].age # "ended"
  /\ object' = [object EXCEPT ![o].age = IF @ = "recent" THEN "quiet" ELSE "ended"]
  /\ UNCHANGED <<transcript, mishaps, process, pending, drain, shown, history>>

StartDrain ==
  /\ process = "running" /\ drain.step = "idle" /\ pending # <<>>
  /\ drain' = [NoDrain EXCEPT !.step = "next", !.todo = pending]
  /\ UNCHANGED <<transcript, mishaps, process, pending, object, shown, history>>

Current == Head(drain.todo)
Skip == [drain EXCEPT !.step = "next", !.todo = Tail(@), !.ended = FALSE, !.batch = <<>>]

\* The conversation leaves the queue, whoever put it there since the visit began.
Dequeue(entry) ==
  LET queue == Sublist(pending, {i \in DOMAIN pending : object[pending[i]].key # entry.key})
      lines == file[entry.key] IN
  /\ drain' = Skip
  /\ pending' = queue
  /\ object' = [o \in Objects |-> IF o \in ToSet(queue) \union ToSet(Tail(drain.todo))
                                  THEN object[o] ELSE Unused]
  /\ missed' = IF \E i \in DOMAIN lines : lines[i] \in (entry.base + 1)..owed'
                                           /\ lines[i] \notin shown'[entry.key]
               THEN missed \union {entry.key} ELSE missed

\* _drain_one after the extraction: a conversation that had ended when the visit
\* began leaves the queue, after its summary if it has none yet.
AfterExtract(entry, ended) ==
  \/ /\ ~ended
     /\ drain' = Skip
     /\ object' = [object EXCEPT ![Current] = entry]
     /\ UNCHANGED <<pending, missed>>
  \/ /\ ended /\ ~entry.summarized
     /\ drain' = [drain EXCEPT !.step = "tail", !.ended = ended, !.batch = <<>>]
     /\ object' = [object EXCEPT ![Current] = [entry EXCEPT !.summarized = TRUE]]
     /\ UNCHANGED <<pending, missed>>
  \/ ended /\ entry.summarized /\ Dequeue(entry)

Unextracted(entry) == entry.appended - entry.upto

Visit ==
  LET entry == object[Current]
      ended == drain.final \/ entry.age = "ended"
      quiet == drain.final \/ entry.age # "recent" IN
  /\ drain.step = "next" /\ drain.todo # <<>>
  /\ owed' = entry.appended
  /\ UNCHANGED <<transcript, mishaps, process, shown>>
  /\ IF Unextracted(entry) > 0 /\ (quiet \/ Unextracted(entry) >= 2 * ExtractEvery)
     THEN /\ drain' = [drain EXCEPT !.step = "read", !.ended = ended]
          /\ UNCHANGED <<pending, object, missed>>
     ELSE AfterExtract(entry, ended)

\* FileTranscriptStore.read.
ReadSince(c, cursor) ==
  LET later == Sublist(file[c], {i \in DOMAIN file[c] : file[c][i] > cursor}) IN
  SubSeq(later, 1, IF Len(later) < MaxExtract THEN Len(later) ELSE MaxExtract)

ReadBatch ==
  LET entry == object[Current]
      batch == ReadSince(entry.key, entry.upto) IN
  /\ drain.step = "read"
  /\ owed' = IF Len(batch) = MaxExtract /\ Last(batch) < owed THEN Last(batch) ELSE owed
  /\ UNCHANGED <<transcript, mishaps, process, shown>>
  /\ IF batch = <<>>
     THEN AfterExtract(entry, drain.ended)
     ELSE /\ drain' = [drain EXCEPT !.step = "extract", !.batch = batch]
          /\ UNCHANGED <<pending, object, missed>>

\* Mutant: the cursor moves to the end of the transcript.
AllAppended(entry, batch) == entry.appended
\* _extract: the cursor moves to the last line that was read.
NewCursor(entry, batch) == Last(batch)

\* The model's facts, or none, are remembered and the memories consolidated.
Extract ==
  LET entry == object[Current] IN
  /\ drain.step = "extract"
  /\ shown' = [shown EXCEPT ![entry.key] = @ \union ToSet(drain.batch)]
  /\ UNCHANGED <<transcript, mishaps, process, owed>>
  /\ AfterExtract([entry EXCEPT !.upto = NewCursor(entry, drain.batch)], drain.ended)

Tailing ==
  /\ drain.step = "tail"
  /\ UNCHANGED <<transcript, mishaps, process, shown, owed>>
  /\ IF file[object[Current].key] = <<>>
     THEN Dequeue(object[Current])
     ELSE drain' = [drain EXCEPT !.step = "summarize"] /\ UNCHANGED <<pending, object, missed>>

\* The model's summary is remembered, or there is none.
Summarize ==
  /\ drain.step = "summarize"
  /\ UNCHANGED <<transcript, mishaps, process, shown, owed>>
  /\ Dequeue(object[Current])

\* The memory cannot be stored: the visit ends, the next one begins.
StoreFails ==
  /\ drain.step \in {"extract", "summarize"} /\ mishaps < MaxMishaps
  /\ mishaps' = mishaps + 1
  /\ shown' = IF drain.step = "extract"
              THEN [shown EXCEPT ![object[Current].key] = @ \union ToSet(drain.batch)] ELSE shown
  /\ drain' = Skip
  /\ UNCHANGED <<transcript, process, pending, object, history>>

EndDrain ==
  /\ drain.step = "next" /\ drain.todo = <<>>
  /\ drain' = NoDrain
  /\ object' = [o \in Objects |-> IF o \in ToSet(pending) THEN object[o] ELSE Unused]
  /\ process' = IF drain.final THEN "closed" ELSE process
  /\ UNCHANGED <<transcript, mishaps, pending, shown, history>>

-------------------------------------------------------------------------------
(* aclose, crash, and the transcript's steps *)

\* The loop is cancelled where it is, and everything in the queue is drained.
Close ==
  /\ process = "running" /\ \A w \in Writers : writer[w].step \in {"idle", "orphan"}
  /\ process' = "closing"
  /\ drain' = [NoDrain EXCEPT !.step = "next", !.todo = pending, !.final = TRUE]
  /\ UNCHANGED <<transcript, mishaps, pending, object, shown, history>>

Restart ==
  /\ mishaps < MaxMishaps /\ mishaps' = mishaps + 1
  /\ TranscriptCrash
  /\ process' = "running" /\ pending' = <<>> /\ drain' = NoDrain
  /\ object' = [o \in Objects |-> Unused]
  /\ UNCHANGED <<shown, history>>

Start(w) == \E c \in Conversations, distil \in BOOLEAN :
              process = "running" /\ StartAppend(w, c, distil)

\* A conversation that is recorded, in the queue or visited spoke a few minutes ago:
\* far less than the retention of its transcript.
AgeOld(c) == Age(c) /\ Recording(c) = {} /\ \A o \in InUse(pending) : object[o].key # c

Unlink(c) ==
  /\ SweepUnlink(c)
  /\ shown' = [shown EXCEPT ![c] = {}]
  /\ UNCHANGED <<process, pending, object, drain, history>>

Visiting == Visit \/ ReadBatch \/ Extract \/ Tailing \/ Summarize

Next ==
  \/ \E w \in Writers :
       \/ /\ Start(w) \/ AcquireLock(w) \/ ReadNumber(w) \/ Write(w) \/ OrphanWrite(w)
             \/ AppendFails(w) \/ CancelAppend(w)
          /\ UNCHANGED distillation
       \/ Finish(w)
  \/ \E c \in Conversations : (AgeOld(c) \/ SweepStat(c)) /\ UNCHANGED distillation
  \/ \E c \in Conversations : Unlink(c)
  \/ \E o \in Objects : GrowOld(o)
  \/ StartDrain \/ Visiting \/ StoreFails \/ EndDrain \/ Close \/ Restart

Spec == Init /\ [][Next]_vars

-------------------------------------------------------------------------------
(* Properties *)

\* companion.py: the cursor advances only as far as it read, so no section is
\* skipped.  Every line between where a queued entry began and its cursor was handed
\* to an extraction; and a conversation the loop takes out of the queue has nothing
\* unextracted but what arrived after the visit began that took it out (_drain_one
\* pops it whatever _enqueue did during the awaits), or what lies behind a full batch
\* of MAX_EXTRACT_ENTRIES.
NoGap ==
  /\ \A o \in ToSet(pending) :
       LET entry == object[o] IN
       entry.key \notin spoiled =>
         \A i \in DOMAIN file[entry.key] :
           file[entry.key][i] \in (entry.base + 1)..entry.upto
             => file[entry.key][i] \in shown[entry.key]
  /\ missed \subseteq spoiled
===============================================================================
