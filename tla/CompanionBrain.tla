---------------------------- MODULE CompanionBrain ----------------------------
(***************************************************************************)
(* CompanionBrain as a whole: it owns four parts that share no state, the  *)
(* queue of conversations to distil with their transcripts (Distillation), *)
(* the long-term memory of one player (MemoryFile), what its replies say   *)
(* (Reply) and what is logged of their origin (Provenance).  A step of the *)
(* brain is a step of one of them.                                         *)
(***************************************************************************)
EXTENDS Distillation

CONSTANTS
  Requests, Says, Telling, Near, Unfit, SceneSays, Providers, HistoryLimit, MaxSources,
  MaxFailures, Nobody,
  Texts, BadTexts, Sources, MaxMemories, MaxClock, MaxCount, NoSource, Never,
  Readers, Drain, Extractions, Summaries, Results, Limit, NotCached, NoCaller,
  Reasons, MaxCalls, NoReason

ASSUME BrainAssumption ==
  /\ Texts \subseteq Nat /\ BadTexts \subseteq Nat
  /\ MaxMemories \in Nat \ {0} /\ MaxClock \in Nat /\ MaxCount \in Nat
  /\ IsFiniteSet(Requests) /\ Nobody \notin Requests
  /\ DOMAIN Telling = Says
  /\ HistoryLimit \in Nat /\ MaxSources \in Nat \ {0} /\ MaxFailures \in Nat
  /\ Providers \subseteq {"openai", "local", "mock", "keyless"}
  /\ NoReason \notin Reasons \union {"provider_unavailable", "sanitizer_rejection"}
  /\ MaxCalls \in Nat /\ MaxCalls >= 5   \* a turn asks its provider five times at most

VARIABLES
  memories, known, holder, task, clock, faults,                             \* MemoryFile
  provider, order, turn, remembered, uses, past, erased, answers, failures, \* Reply
  deployed, graph, calls, verdict, made, log                                \* Provenance

longTerm == <<memories, known, holder, task, clock, faults>>
replies == <<provider, order, turn, remembered, uses, past, erased, answers, failures>>
origin == <<deployed, graph, calls, verdict, made, log>>

LongTerm == INSTANCE MemoryFile
  WITH file <- memories, cache <- known, lock <- holder, job <- task, mishaps <- faults

Replies == INSTANCE Reply
  WITH Texts <- Says, memory <- remembered, due <- past

Origin == INSTANCE Provenance

ASSUME LongTermAssumption ==
  /\ \A n \in 0..MaxMemories : NotCached \notin [1..n -> LongTerm!Memory]
  /\ Drain \notin Readers /\ NoCaller \notin Readers \union {Drain}
  /\ Extractions \subseteq [profile : Seq(Nat), episode : Seq(Nat), importance : Int]
  /\ Summaries \subseteq Nat
  /\ Results \subseteq Seq([text : Nat, sources : Seq(Nat)])
  /\ Limit \in Nat

BrainInit == Init /\ LongTerm!Init /\ Replies!Init /\ Origin!Init

BrainNext ==
  \/ Next /\ UNCHANGED <<longTerm, replies, origin>>
  \/ LongTerm!Next /\ UNCHANGED <<vars, replies, origin>>
  \/ Replies!Next /\ UNCHANGED <<vars, longTerm, origin>>
  \/ Origin!Next /\ UNCHANGED <<vars, longTerm, replies>>

BrainSpec == BrainInit /\ [][BrainNext]_<<vars, longTerm, replies, origin>>

-------------------------------------------------------------------------------
(* Properties of the parts *)

\* Updates of the long-term memory are atomic, however recalls, evictions and
\* failed writes of FileLongTermStore fall between their steps.
ImplementsDistilledMemory == LongTerm!ImplementsDistilledMemory

\* memory.py: a consolidation makes room, it does not delete.
ConsolidationLosesNothing == LongTerm!ConsolidationLosesNothing

\* A text that is extracted again keeps the recalls that decide what the cap drops;
\* a consolidation need not.
RecallsAreInherited == LongTerm!RecallsAreInherited

\* A recall that has to rest on evidence is not answered as if there were none,
\* whatever the provider does and however the sanitizer judges, unless the guard
\* drops the words in which the evidence is told: they repeat what the player said
\* then or now, in whole or in part, or are not fit to be displayed.
RecallIsNotDenied == Replies!RecallIsNotDenied

\* The log of a turn has each of its calls, once and in order, names who made the
\* words and the node they come from, and has a reason exactly when some step of
\* the turn was not the configured provider's.
LogIsTrue == Origin!LogIsTrue

\* However often a reply is attempted, resumed and replayed, it counts the memories
\* it used once at most, and only when it was given.
UsesAreOfReplies == Replies!UsesAreOfReplies
===============================================================================
