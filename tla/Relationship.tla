------------------------------ MODULE Relationship ------------------------------
(***************************************************************************)
(* The relationship of one player and companion: Low, Growing or High, as  *)
(* RelationshipService derives it from pairs of a remembered preference    *)
(* ("I am afraid at night") and an event that happened later at night.     *)
(*                                                                         *)
(* Evidence rows are never removed; the state counts those whose memory is *)
(* in use and whose message and event still have content.  So whatever     *)
(* accepts a memory, stores an event, deletes a memory or erases content   *)
(* evaluates the state again, in its own transaction.  As in the other     *)
(* modules a transaction is one step, but an acceptance still sees the     *)
(* memories that it loaded before its transaction as they were then.       *)
(***************************************************************************)
EXTENDS Integers, FiniteSets, Folds

CONSTANTS
  Memories,   \* night-fear preferences, by their normalized text
  Messages,   \* the player's messages with these texts
  TextOf,     \* TextOf[x]: the memory whose text message x has
  SaidOn,     \* SaidOn[x]: its created_at, in hours
  Events,     \* event ids, in the order of their row ids
  Hours,      \* bound: when events occurred, as the game reports it
  Cooldown,   \* _EVENT_COOLDOWN, in hours
  Window,     \* _HIGH_WINDOW, in hours
  Acceptors,  \* the memory worker and reviews: sessions that accept memories
  NoEvent, Idle   \* an absent row, a session without work

ASSUME ConstantsAssumption ==
  /\ TextOf \in [Messages -> Memories] /\ SaidOn \in [Messages -> Nat]
  /\ Events \subseteq Nat /\ Hours \subseteq Nat
  /\ Cooldown \in Nat /\ Window \in Nat /\ Cooldown <= Window
  /\ Idle \notin [message : Messages, loaded : SUBSET Memories]
  /\ NoEvent \notin [type : {"Danger", "Rescue", "Other"}, at : Hours, content : BOOLEAN]

VARIABLES
  memory,     \* memory[m]: the status of the memories row
  links,      \* memory_sources: <<memory, message>>
  content,    \* content[x]: whether the message has its text
  event,      \* event[e]: the game_events row, or NoEvent
  evidence,   \* relationship_state_evidence
  relation,   \* relationship_states.state; no row counts as Low
  job,        \* job[p]: the message that p accepts and the memories it loaded
  purging,    \* the first message the retention loop is about to erase, or Idle
  overlooked  \* history: the last evaluation took archived memories for active

relationshipVars ==
  <<memory, links, content, event, evidence, relation, job, purging, overlooked>>

-------------------------------------------------------------------------------
(* Rows *)

\* Other events do not qualify: other types, actors, targets or times of day.
Types == {"Danger", "Rescue", "Other"}
Event == [type : Types, at : Hours, content : BOOLEAN]
Evidence == [memory : Memories, message : Messages, event : Events,
             type : {"Danger", "Rescue"}, at : Hours]
Rank == [Low |-> 1, Growing |-> 2, High |-> 3]
Job == [message : Messages, loaded : SUBSET Memories]

Active == {m \in Memories : memory[m] = "Active"}
Stored(e) == event[e] # NoEvent
Readable(e) == Stored(e) /\ event[e].content
\* _is_qualifying_event.
Qualifies(r) == r.content /\ r.type # "Other"

RelationshipInit ==
  /\ memory = [m \in Memories |-> "None"]
  /\ links = {}
  /\ content = [x \in Messages |-> TRUE]
  /\ event = [e \in Events |-> NoEvent]
  /\ evidence = {}
  /\ relation = "Low"
  /\ job = [p \in Acceptors |-> Idle]
  /\ purging = Idle
  /\ overlooked = FALSE

-------------------------------------------------------------------------------
(* Evaluation *)

\* _is_valid_evidence, for a session that sees these memories, messages, links
\* and events.
Valid(v, active, texts, linked, box) ==
  /\ v.memory \in active
  /\ v.message \in texts
  /\ <<v.memory, v.message>> \in linked
  /\ v.event \in Events /\ box[v.event] # NoEvent /\ Qualifies(box[v.event])

\* Two kinds of events, a cooldown apart and within one window.
Confirms(v, w) == v.type # w.type /\ w.at - v.at \in Cooldown..Window

\* _derive_state.
Derive(valid) ==
  IF valid = {} THEN "Low"
  ELSE IF \E v, w \in valid : v.memory = w.memory /\ Confirms(v, w) THEN "High"
  ELSE "Growing"

Evaluate(rows, active, texts, linked, box) ==
  Derive({v \in rows : Valid(v, active, texts, linked, box)})

\* What the rows as they are amount to.
Texts(has) == {x \in Messages : has[x]}
Justified == Evaluate(evidence, Active, Texts(content), links, event)

\* Mutant: an event that is older than the evidence is not in its cooldown.
CoolsDownAfter(rows, m, r) ==
  \E v \in rows : v.memory = m /\ v.type = r.type /\ r.at - v.at \in 0..(Cooldown - 1)
\* _in_cooldown: an event older than an admitted one of its type is, too.
CoolsDown(rows, m, r) ==
  \E v \in rows : v.memory = m /\ v.type = r.type /\ r.at - v.at < Cooldown

\* _matching_preferences: the messages of m that came before the event.
Earlier(m, r, texts, linked) ==
  {x \in texts : <<m, x>> \in linked /\ SaidOn[x] < r.at}
First(X) == CHOOSE x \in X : \A y \in X : SaidOn[x] <= SaidOn[y]

\* observe_event, up to the evaluation: the evidence that the event adds.
Observe(rows, e, r, active, texts, linked) ==
  LET Admitted(m) == \E v \in rows : v.memory = m /\ v.event = e
      Matching == {m \in active : /\ Earlier(m, r, texts, linked) # {}
                                  /\ ~Admitted(m) /\ ~CoolsDown(rows, m, r)}
  IN  IF ~Qualifies(r) THEN rows
      ELSE rows \union {[memory |-> m, message |-> First(Earlier(m, r, texts, linked)),
                         event |-> e, type |-> r.type, at |-> r.at] : m \in Matching}

\* The stored events by occurred_at, then row id.
Sooner(e, f) == \/ event[e].at < event[f].at
                \/ event[e].at = event[f].at /\ e < f
ObserveAll(active, texts, linked) ==
  LET Add(e, rows) == Observe(rows, e, event[e], active, texts, linked)
      Latest(E) == CHOOSE e \in E : \A f \in E : f = e \/ Sooner(f, e)
  IN  MapThenFoldSet(Add, evidence, LAMBDA e : e, Latest, {e \in Events : Readable(e)})

-------------------------------------------------------------------------------
(* Events *)

\* Mutant: the state is evaluated before the event's evidence is added.
EvaluateThenAdd(e, type, at) ==
  LET r == [type |-> type, at |-> at, content |-> TRUE] IN
  /\ ~Stored(e)
  /\ event' = [event EXCEPT ![e] = r]
  /\ evidence' = Observe(evidence, e, r, Active, Texts(content), links)
  /\ relation' = Justified
  /\ overlooked' = FALSE
  /\ UNCHANGED <<memory, links, content, job, purging>>

\* EventService.create_event: the row is flushed, observed and committed with
\* its evidence.  A repeated event is answered from its row.
CreateEvent(e, type, at) ==
  LET r == [type |-> type, at |-> at, content |-> TRUE] IN
  /\ ~Stored(e)
  /\ event' = [event EXCEPT ![e] = r]
  /\ evidence' = Observe(evidence, e, r, Active, Texts(content), links)
  /\ relation' = Evaluate(evidence', Active, Texts(content), links, event')
  /\ overlooked' = FALSE
  /\ UNCHANGED <<memory, links, content, job, purging>>

-------------------------------------------------------------------------------
(* Memories *)

\* accept and accept_reviewed, up to the first write.
BeginAccept(p, x) ==
  /\ job[p] = Idle /\ content[x]
  /\ job' = [job EXCEPT ![p] = [message |-> x, loaded |-> Active]]
  /\ UNCHANGED <<memory, links, content, event, evidence, relation, purging, overlooked>>

\* _persist_memory and _refresh_relationship.  The unique text fails an
\* acceptance whose memory was archived, or inserted since the read.
Accept(p) ==
  LET x == job[p].message
      m == TextOf[x]
      exact == m \in job[p].loaded
      linked == links \union {<<m, x>>}
      \* As the session sees them in the evaluation:
      active == Active \union {m} \union job[p].loaded
      texts == Texts(content) \union {x}
      \* and as its queries find them:
      found == IF exact THEN Active ELSE Active \union {m}
      events == \E e \in Events : Readable(e)
  IN
  /\ job[p] # Idle
  /\ job' = [job EXCEPT ![p] = Idle]
  /\ UNCHANGED purging
  /\ IF exact \/ memory[m] = "None"
     THEN /\ memory' = IF exact THEN memory ELSE [memory EXCEPT ![m] = "Active"]
          /\ links' = linked
          /\ evidence' = IF events THEN ObserveAll(found, Texts(content), linked)
                                   ELSE evidence
          /\ relation' = IF events
                         THEN Evaluate(evidence', active, texts, linked, event)
                         ELSE relation
          /\ overlooked' = \/ overlooked /\ ~events
                           \/ events /\ job[p].loaded \ Active # {}
                           \/ events /\ ~content[x]
          /\ UNCHANGED <<content, event>>
     ELSE UNCHANGED <<memory, links, content, event, evidence, relation, overlooked>>

\* A crash, a timeout or a rejected candidate.
Reject(p) ==
  /\ job[p] # Idle
  /\ job' = [job EXCEPT ![p] = Idle]
  /\ UNCHANGED <<memory, links, content, event, evidence, relation, purging, overlooked>>

\* Mutant: a deletion leaves the state to the next event.
KeepRelation == UNCHANGED <<relation, overlooked>>
\* refresh, by a session that sees the rows as it leaves them.
Refresh ==
  /\ relation' = Evaluate(evidence', {m \in Memories : memory'[m] = "Active"},
                          Texts(content'), links', event')
  /\ overlooked' = FALSE

\* delete and reset: F are the memories that the request read as active.
Forget(F) ==
  /\ F # {} /\ \A m \in F : memory[m] # "None"
  /\ memory' = [m \in Memories |-> IF m \in F THEN "Archived" ELSE memory[m]]
  /\ UNCHANGED <<links, content, event, evidence, job, purging>>
  /\ Refresh

-------------------------------------------------------------------------------
(* Retention *)

\* _archive_memories_without_source.
Orphaned == {m \in Active : \E x \in Messages : <<m, x>> \in links /\ ~content[x]}
ArchiveWithoutSource ==
  /\ Orphaned # {} /\ purging = Idle
  /\ memory' = [m \in Memories |-> IF m \in Orphaned THEN "Archived" ELSE memory[m]]
  /\ UNCHANGED <<links, content, event, evidence, job, purging>>
  /\ Refresh

Referenced(x) == \E m \in Active : <<m, x>> \in links

\* _purge_canonical reads what is due, and whether the first message is referred
\* to, before its transaction: that message may serve a memory by the time the
\* transaction starts.
BeginPurge(x) ==
  /\ purging = Idle /\ content[x] /\ ~Referenced(x)
  /\ purging' = x
  /\ UNCHANGED <<memory, links, content, event, evidence, relation, job, overlooked>>

Purge(X, E) ==
  LET gone == X \union (IF purging = Idle THEN {} ELSE {purging}) IN
  /\ purging = Idle => X = {}
  /\ gone \union E # {}
  /\ \A x \in X : content[x] /\ ~Referenced(x)
  /\ \A e \in E : Readable(e)
  /\ content' = [x \in Messages |-> content[x] /\ x \notin gone]
  /\ event' = [e \in Events |-> IF e \in E THEN [event[e] EXCEPT !.content = FALSE]
                                           ELSE event[e]]
  /\ purging' = Idle
  /\ UNCHANGED <<memory, links, evidence, job>>
  /\ Refresh

-------------------------------------------------------------------------------
RelationshipNext ==
  \/ \E e \in Events, type \in Types, at \in Hours : CreateEvent(e, type, at)
  \/ \E p \in Acceptors : (\E x \in Messages : BeginAccept(p, x)) \/ Accept(p) \/ Reject(p)
  \/ \E F \in SUBSET Memories : Forget(F)
  \/ ArchiveWithoutSource
  \/ \E x \in Messages : BeginPurge(x)
  \/ \E X \in SUBSET Messages, E \in SUBSET Events : Purge(X, E)

RelationshipSpec == RelationshipInit /\ [][RelationshipNext]_relationshipVars

-------------------------------------------------------------------------------
(* Properties *)

RelationshipTypeOK ==
  /\ memory \in [Memories -> {"None", "Active", "Archived"}]
  /\ links \subseteq Memories \X Messages
  /\ content \in [Messages -> BOOLEAN]
  /\ event \in [Events -> Event \union {NoEvent}]
  /\ evidence \subseteq Evidence
  /\ relation \in DOMAIN Rank
  /\ job \in [Acceptors -> Job \union {Idle}]
  /\ purging \in Messages \union {Idle}
  /\ overlooked \in BOOLEAN

\* Events of one type count again for a memory only after a cooldown, in
\* whatever order they arrive, are repeated, or meet the memory: any two rows
\* of evidence for one memory and type are a cooldown apart.
EvidenceIsSpaced ==
  \A v, w \in evidence :
    v # w /\ v.memory = w.memory /\ v.type = w.type
      => v.at - w.at >= Cooldown \/ w.at - v.at >= Cooldown

\* The state that dialogues read is what the evidence amounts to whose memory
\* is in use and whose content exists: no deletion or erasure leaves a state it
\* has taken the ground from.  The exception is an acceptance that loaded a
\* memory which was archived, or a message that was erased, before it wrote.
StateIsJustified == overlooked \/ relation = Justified

\* The relationship grows only on new evidence: deletions, erasures and events
\* that do not qualify never raise it, not even when a state that was too high
\* is corrected.
GrowsOnEvidence ==
  [][Rank[relation'] > Rank[relation] => overlooked' \/ evidence' # evidence]_relationshipVars
===============================================================================
