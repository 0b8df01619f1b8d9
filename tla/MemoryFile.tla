------------------------------- MODULE MemoryFile -------------------------------
(***************************************************************************)
(* FileLongTermStore for one player: a cache over a file that is replaced  *)
(* as a whole, and the brain that calls it.  Any number of requests recall *)
(* memories; one background task remembers and consolidates them           *)
(* (CompanionBrain._extract, _summarize and _consolidate).                 *)
(***************************************************************************)
EXTENDS LongTermMemory, FiniteSets

CONSTANTS
  Readers,          \* requests that recall
  Drain,            \* the background task
  Extractions,      \* answers of the model to an extraction,
  Summaries,        \* to a summary (the text),
  Results,          \* and to a consolidation
  Limit,            \* recall_limit
  MaxMishaps,       \* bound: failed writes and crashes
  NotCached, NoCaller

Callers == Readers \union {Drain}

VARIABLES
  file,     \* the memories in the file
  cache,    \* _cache[player_key], or NotCached
  lock,     \* the caller in _player_lock, or NoCaller
  job,      \* job[x]: what the caller does, and the memories it holds
  clock,
  mishaps

vars == <<file, cache, lock, job, clock, mishaps>>

Idle == [step |-> "idle", value |-> <<>>, more |-> FALSE]

Init ==
  /\ file = <<>> /\ cache = NotCached /\ lock = NoCaller
  /\ job = [x \in Callers |-> Idle]
  /\ clock = 0 /\ mishaps = 0

At(x, step) == job[x].step = step
Put(x, step, value) == [job EXCEPT ![x].step = step, ![x].value = value]
Free == lock = NoCaller

-------------------------------------------------------------------------------
(* recall *)

\* _record_recall: the picked memories' statistics, in the cache only.
Counted(memories, matching) ==
  LET picked == ToSet(Rank(memories, matching, Limit, clock)) IN
  [i \in DOMAIN memories |->
     IF memories[i] \in picked
     THEN [memories[i] EXCEPT !.recalled = clock, !.count = UpTo(@ + 1)]
     ELSE memories[i]]

\* The rest of recall after _memories, without an await: a request counts its
\* recall; the task, which asks for everything, consolidates at the cap.
Use(x, memories) ==
  IF x = Drain
  THEN /\ job' = IF Len(memories) < MaxMemories THEN Put(x, "idle", <<>>)
                 ELSE Put(x, "consolidate", Rank(memories, {}, MaxMemories, clock))
       /\ cache' = memories
  ELSE /\ job' = Put(x, "idle", <<>>)
       /\ \E matching \in SUBSET Texts : cache' = Counted(memories, matching)

\* A request recalls; the task does when it has remembered an extraction.
StartRecall(x) ==
  /\ x \in Readers /\ At(x, "idle")
  /\ IF cache # NotCached THEN Use(x, cache) ELSE job' = Put(x, "recall", <<>>) /\ UNCHANGED cache
  /\ UNCHANGED <<file, lock, clock, mishaps>>

StartKnown ==
  /\ At(Drain, "known")
  /\ IF cache # NotCached THEN Use(Drain, cache)
     ELSE job' = Put(Drain, "recall", <<>>) /\ UNCHANGED cache
  /\ UNCHANGED <<file, lock, clock, mishaps>>

\* The lock may have been waited for.
RecallLock(x) ==
  /\ At(x, "recall") /\ Free
  /\ IF cache # NotCached
     THEN Use(x, cache) /\ UNCHANGED lock
     ELSE job' = Put(x, "load", <<>>) /\ lock' = x /\ UNCHANGED cache
  /\ UNCHANGED <<file, clock, mishaps>>

RecallLoad(x) ==
  /\ At(x, "load")
  /\ Use(x, file) /\ lock' = NoCaller
  /\ UNCHANGED <<file, clock, mishaps>>

-------------------------------------------------------------------------------
(* remember and replace_all *)

\* What the model answers, or MockLLMProvider when it fails: nothing.
ExtractionAnswers ==
  Extractions \union {[profile |-> <<>>, episode |-> <<>>, importance |-> DefaultImportance["episode"]]}
SummaryAnswers == Summaries \union BadTexts
ConsolidationAnswers == Results \union {<<>>}

\* The memories of an extraction, or of a summary.
StartRemember(incoming, more) ==
  /\ At(Drain, "idle") /\ incoming # <<>>
  /\ job' = [job EXCEPT ![Drain] = [step |-> "remember", value |-> incoming, more |-> more]]
  /\ UNCHANGED <<file, cache, lock, clock, mishaps>>

AfterRemember == IF job[Drain].more THEN "known" ELSE "idle"

\* Mutant: the memories that are there are not read.
MergeAlone(current, incoming) == Merge(<<>>, incoming, clock)
MergeNow(current, incoming) == Merge(current, incoming, clock)

\* Nothing is written when nothing changes; otherwise the cache comes first.
Absorb(current) ==
  LET merged == MergeNow(current, job[Drain].value) IN
  IF merged = current
  THEN /\ job' = Put(Drain, AfterRemember, <<>>) /\ lock' = NoCaller
       /\ UNCHANGED cache
  ELSE /\ cache' = merged
       /\ job' = Put(Drain, "write", merged) /\ lock' = Drain

RememberLock ==
  /\ At(Drain, "remember") /\ Free
  /\ IF cache # NotCached
     THEN Absorb(cache)
     ELSE job' = [job EXCEPT ![Drain].step = "read"] /\ lock' = Drain /\ UNCHANGED cache
  /\ UNCHANGED <<file, clock, mishaps>>

RememberRead ==
  /\ At(Drain, "read")
  /\ Absorb(file)
  /\ UNCHANGED <<file, clock, mishaps>>

\* _consolidate: the model answers, and what it answers may be unusable.
AskConsolidation(result) ==
  LET merged == Consolidated(job[Drain].value, result) IN
  /\ At(Drain, "consolidate")
  /\ job' = IF merged = <<>> THEN Put(Drain, "idle", <<>>) ELSE Put(Drain, "replace", merged)
  /\ UNCHANGED <<file, cache, lock, clock, mishaps>>

ReplaceMemories ==
  LET value == job[Drain].value
      replacement == SubSeq(value, 1, IF Len(value) < MaxMemories THEN Len(value) ELSE MaxMemories)
  IN  /\ At(Drain, "replace") /\ Free
      /\ cache' = replacement
      /\ job' = [job EXCEPT ![Drain] = [step |-> "write", value |-> replacement, more |-> FALSE]]
      /\ lock' = Drain
      /\ UNCHANGED <<file, clock, mishaps>>

\* _write_file: a temporary file takes the file's place.
WriteFile ==
  /\ At(Drain, "write")
  /\ file' = job[Drain].value
  /\ job' = Put(Drain, AfterRemember, <<>>) /\ lock' = NoCaller
  /\ UNCHANGED <<cache, clock, mishaps>>

WriteFails ==
  /\ At(Drain, "write") /\ mishaps < MaxMishaps
  /\ mishaps' = mishaps + 1
  /\ job' = Put(Drain, "idle", <<>>) /\ lock' = NoCaller
  /\ UNCHANGED <<file, cache, clock>>

-------------------------------------------------------------------------------
(* The other players, time, a restart *)

\* _cache_put for other players may drop this one.
Evict ==
  /\ cache # NotCached /\ cache' = NotCached
  /\ UNCHANGED <<file, lock, job, clock, mishaps>>

Tick ==
  /\ clock < MaxClock /\ clock' = clock + 1
  /\ UNCHANGED <<file, cache, lock, job, mishaps>>

Restart ==
  /\ mishaps < MaxMishaps /\ mishaps' = mishaps + 1
  /\ cache' = NotCached /\ lock' = NoCaller /\ job' = [x \in Callers |-> Idle]
  /\ UNCHANGED <<file, clock>>

\* Nothing new to remember: the task goes on to consolidate.
StartNothing ==
  /\ At(Drain, "idle") /\ job' = Put(Drain, "known", <<>>)
  /\ UNCHANGED <<file, cache, lock, clock, mishaps>>

Extract(answer) ==
  LET extracted == MemoriesFrom(answer.profile, answer.episode, answer.importance, clock) IN
  StartRemember(extracted, TRUE) \/ (extracted = <<>> /\ StartNothing)
Summarize(text, source) == StartRemember(SummaryMemory(text, source, clock), FALSE)

Next ==
  \/ \E x \in Callers : StartRecall(x) \/ RecallLock(x) \/ RecallLoad(x)
  \/ \E answer \in ExtractionAnswers : Extract(answer)
  \/ \E text \in SummaryAnswers, source \in Sources : Summarize(text, source)
  \/ StartKnown \/ RememberLock \/ RememberRead
  \/ \E result \in ConsolidationAnswers : AskConsolidation(result)
  \/ ReplaceMemories \/ WriteFile \/ WriteFails \/ Evict \/ Tick \/ Restart

Spec == Init /\ [][Next]_vars

-------------------------------------------------------------------------------
(* Properties *)

Lines(memories) ==
  {[kind |-> memories[i].kind, text |-> memories[i].text, source |-> memories[i].source] :
     i \in DOMAIN memories}

\* What the process knows: what the task is about to store, for it wins over a
\* cache that is dropped meanwhile, or what requests are answered from.
Known == IF job[Drain].step \in {"consolidate", "replace", "write"} THEN job[Drain].value
         ELSE IF cache # NotCached THEN cache ELSE file

Abstract ==
  INSTANCE DistilledMemory
    WITH known <- Lines(Known), stored <- Lines(file),
         AllLines <- [kind : Kinds, text : Texts, source : Sources \union {NoSource}]

\* Recalls, evictions and failed writes between the steps of an update never
\* undo part of one: the store is the atomic one.
ImplementsDistilledMemory == Abstract!Spec

\* memory.py: a consolidation makes room, it does not delete.  Each memory it was
\* shown is still there, or a line that is there stands for it.
ConsolidationLosesNothing ==
  At(Drain, "consolidate") =>
    \A result \in ConsolidationAnswers :
      LET merged == Consolidated(job[Drain].value, result) IN
      merged # <<>> =>
        \A i \in DOMAIN job[Drain].value :
          \/ job[Drain].value[i].text \in Texting(merged)
          \/ \E k \in DOMAIN result : i \in ToSet(result[k].sources)
                                     /\ result[k].text \in Texting(merged)

\* When a known text is extracted again, its recalls are not forgotten, those counted
\* while the extraction waits for the lock or the file included: they decide what the
\* cap drops.  Of a consolidation this does not hold: replace_all writes the counts
\* that were read before the model was asked.
RecallsAreInherited ==
  [][cache # NotCached /\ cache' # NotCached /\ (At(Drain, "remember") \/ At(Drain, "read")) =>
         \A i \in DOMAIN cache, j \in DOMAIN cache' :
           cache[i].text = cache'[j].text => cache'[j].count >= cache[i].count]_vars
===============================================================================
