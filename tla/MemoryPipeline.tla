----------------------------- MODULE MemoryPipeline -----------------------------
(***************************************************************************)
(* From a player's message to a long-term memory: the outbox that leases   *)
(* each source to the memory worker, the worker's classification, the      *)
(* acceptance or the review of what it found, the user's deletions, the    *)
(* retention sweep that erases expired sources, and the operator's script  *)
(* that queues dropped sources again.                                      *)
(*                                                                         *)
(* Every one of them first reads outside any transaction and then writes:  *)
(* from its first write to COMMIT it holds SQLite's write lock, so each is *)
(* a read step that records what it read and a write step.  The write step *)
(* sees the rows as they are, but a row object that was loaded by the read *)
(* step keeps its values, and an assignment that equals a loaded value     *)
(* writes nothing.                                                         *)
(***************************************************************************)
EXTENDS Integers, FiniteSets

CONSTANTS
  N,           \* bound: sources, by source_seq
  Texts,       \* normalized texts of sources
  Types,       \* memory types that a player's message may become
  Workers,     \* memory workers: the deployment has one
  Users,       \* sessions of concurrent HTTP handlers
  Sweeper,     \* the retention loop
  Operator,    \* scripts/recover_recent_memory_sources
  SlowModel,   \* whether a lease may run out under the worker that holds it
  MaxMishaps,  \* bound: crashes, failed calls and runs of the operator's script
  Candidate,   \* the reference of a source's review candidate
  NoText, NoWorker   \* NULLs

Sources == 1..N
Facts == Types \X Texts    \* uq_memories_scope_type_text: names a memory row
Processes == Workers \union Users \union {Sweeper, Operator}

ASSUME ConstantsAssumption ==
  /\ N \in Nat
  /\ NoText \notin Texts
  /\ NoWorker \notin Workers
  /\ Candidate \notin Facts
  /\ SlowModel \in BOOLEAN /\ MaxMishaps \in Nat

VARIABLES
  source,   \* source[s]: the message's content and retention columns
  outbox,   \* outbox[s]: its source_outbox row
  cursor,   \* source_cursors.last_completed_seq of the memory consumer
  memory,   \* memory[f]: the status of the memories row of f
  links,    \* memory_sources: <<source, fact>>
  refs,     \* refs[s]: source_retention_references of s, memories and Candidate
  review,   \* review[s]: the memory_candidates row of s
  job,      \* job[p]: the next step of process p and what it read
  wanted,   \* history, wanted[s]: the last verdict on s was to remember it
  mishaps

data == <<source, outbox, cursor, memory, links, refs, review>>
vars == <<source, outbox, cursor, memory, links, refs, review, job, wanted, mishaps>>

-------------------------------------------------------------------------------
(* Rows *)

\* kept: storage_class is MemorySource and expires_at is NULL, else Transient;
\* due: expires_at is not after now.
Source == [text : Texts \union {NoText}, kept : BOOLEAN, due : BOOLEAN]
\* A worker has one claim at a time, so its name stands for the lease token;
\* late: lease_expires_at is not after now.
Outbox == [state : {"Absent", "Pending", "Claimed", "Completed", "Tombstone"},
           holder : Workers \union {NoWorker}, late : BOOLEAN]
\* due: expires_at, 30 days after the creation, is not after now.
Review == [status : {"Absent", "PendingReview", "Approved", "Rejected", "Expired"},
           due : BOOLEAN]
Steps == {"idle", "classify", "accept", "persist", "hold", "suspend", "ack", "complete",
          "approve", "reject", "forget", "expire", "archive", "purge", "erase", "requeue"}
\* exact, kept: the read found the memory Active, the source a MemorySource;
\* facts, todo: the memories and sources that the read selected.
Job == [step : Steps, s : 0..N, facts : SUBSET Facts, first : Facts \union {Candidate},
        exact : BOOLEAN, kept : BOOLEAN, todo : SUBSET Sources]
OnFact(step, s, f, exact, kept) ==
  [step |-> step, s |-> s, facts |-> {}, first |-> f, exact |-> exact, kept |-> kept,
   todo |-> {}]
OnRows(step, s, F, f, S) ==
  [step |-> step, s |-> s, facts |-> F, first |-> f, exact |-> FALSE, kept |-> FALSE,
   todo |-> S]
OnSource(step, s) == OnRows(step, s, {}, Candidate, {})
Idle == OnSource("idle", 0)

Row(state) == [state |-> state, holder |-> NoWorker, late |-> FALSE]
Settled(row) == row.state \in {"Completed", "Tombstone"}
HasContent(s) == source[s].text # NoText
FactsOf(s) == {<<t, source[s].text>> : t \in Types}
LinksOf(f) == {s \in Sources : <<s, f>> \in links}
ActiveFacts == {f \in Facts : memory[f] = "Active"}
Smallest(S) == CHOOSE s \in S : \A t \in S : s <= t

\* _advance_cursor: to the last settled row before the first open one after c.
Advance(c, box) ==
  LET open == {s \in (c + 1)..N : ~Settled(box[s])} IN
  IF open = {} THEN N ELSE Smallest(open) - 1

Init ==
  /\ source = [s \in Sources |-> [text |-> NoText, kept |-> FALSE, due |-> FALSE]]
  /\ outbox = [s \in Sources |-> Row("Absent")]
  /\ cursor = 0
  /\ memory = [f \in Facts |-> "None"]
  /\ links = {}
  /\ refs = [s \in Sources |-> {}]
  /\ review = [s \in Sources |-> [status |-> "Absent", due |-> FALSE]]
  /\ job = [p \in Processes |-> Idle]
  /\ wanted = [s \in Sources |-> FALSE]
  /\ mishaps = 0

Become(p, j) == job' = [job EXCEPT ![p] = j]
At(p, step) == job[p].step = step
Read == UNCHANGED <<data, wanted, mishaps>>
Untouched == UNCHANGED <<wanted, mishaps>>

-------------------------------------------------------------------------------
(* What the writes have in common *)

SetState(S, state) ==
  outbox' = [s \in Sources |-> IF s \in S THEN Row(state) ELSE outbox[s]]

\* mark_tombstone of every source in S, each of which advances the cursor.
Tombstone(S) ==
  /\ SetState(S, "Tombstone")
  /\ cursor' = IF S = {} THEN cursor ELSE Advance(cursor, outbox')

\* promote sets the columns of an object that the read step loaded.
Kept(row, wasKept) ==
  IF wasKept THEN row ELSE [text |-> row.text, kept |-> TRUE, due |-> FALSE]
Transient(row) == [text |-> row.text, kept |-> FALSE, due |-> TRUE]
Erased(row) == [text |-> NoText, kept |-> row.kept, due |-> row.due]
Decided(row, status) == [status |-> status, due |-> row.due]

\* release of the references in R: a source that loses its last one is due.
Release(R) ==
  LET left(s) == {r \in refs[s] : <<s, r>> \notin R} IN
  /\ refs' = [s \in Sources |-> left(s)]
  /\ source' = [s \in Sources |->
       IF refs[s] # {} /\ left(s) = {} THEN Transient(source[s]) ELSE source[s]]

\* Mutant: the text is unique among active memories only.
CollidesActive(f, exact) == ~exact /\ memory[f] = "Active"

\* The new memory's row collides with the unique scope, type and text.
Collides(f, exact) == ~exact /\ memory[f] # "None"

\* _persist_memory, replacing the references in gone.
Persist(s, f, exact, kept, gone) ==
  /\ memory' = IF exact THEN memory ELSE [memory EXCEPT ![f] = "Active"]
  /\ links' = links \union {<<s, f>>}
  /\ refs' = [refs EXCEPT ![s] = (@ \union {f}) \ gone]
  /\ source' = [source EXCEPT ![s] = Kept(@, kept)]

\* Archiving the memories in F with the links L: release, then tombstone.
Archive(F, L) ==
  /\ memory' = [f \in Facts |-> IF f \in F THEN "Archived" ELSE memory[f]]
  /\ Release(L)
  /\ Tombstone({s \in Sources : \E f \in Facts : <<s, f>> \in L})

-------------------------------------------------------------------------------
(* Sources, time and failures *)

\* The transaction that stores the message also adds its outbox row.
Arrive(s, text) ==
  /\ outbox[s].state = "Absent"
  /\ \A t \in 1..(s - 1) : outbox[t].state # "Absent"
  /\ source' = [source EXCEPT ![s] = [text |-> text, kept |-> FALSE, due |-> FALSE]]
  /\ SetState({s}, "Pending")
  /\ UNCHANGED <<cursor, memory, links, refs, review, job>> /\ Untouched

TtlPasses(s) ==
  /\ HasContent(s) /\ ~source[s].kept /\ ~source[s].due
  /\ source' = [source EXCEPT ![s] = Transient(@)]
  /\ UNCHANGED <<outbox, cursor, memory, links, refs, review, job>> /\ Untouched

ReviewLapses(s) ==
  /\ review[s].status = "PendingReview" /\ ~review[s].due
  /\ review' = [review EXCEPT ![s] = [status |-> "PendingReview", due |-> TRUE]]
  /\ UNCHANGED <<source, outbox, cursor, memory, links, refs, job>> /\ Untouched

\* Unless the model is slow, a worker is done with its source by then.
LeaseExpires(s) ==
  /\ outbox[s].state = "Claimed" /\ ~outbox[s].late
  /\ SlowModel \/ \A w \in Workers : job[w].s # s
  /\ outbox' = [outbox EXCEPT ![s] = [state |-> "Claimed", holder |-> @.holder, late |-> TRUE]]
  /\ UNCHANGED <<source, cursor, memory, links, refs, review, job>> /\ Untouched

\* The classifier fails, a handler is cancelled, or the process crashes: the
\* open transaction rolls back and a claimed source stays Claimed.
Fail(p) ==
  /\ ~At(p, "idle") /\ mishaps < MaxMishaps
  /\ mishaps' = mishaps + 1
  /\ Become(p, Idle) /\ UNCHANGED <<data, wanted>>

-------------------------------------------------------------------------------
(* The memory worker *)

Owns(w, s) == outbox[s].state = "Claimed" /\ outbox[s].holder = w
ClaimValid(w, s) == Owns(w, s) /\ ~outbox[s].late

\* Mutant: expired leases are not repaired.
NotRepaired == outbox

Repaired == [s \in Sources |-> IF outbox[s].state = "Claimed" /\ outbox[s].late
                               THEN Row("Pending") ELSE outbox[s]]

\* claim_next, one transaction, with the content that drain_once reads next.
ClaimNext(w) ==
  LET c == Advance(cursor, Repaired)
      pending == {s \in Sources : s > c /\ Repaired[s].state = "Pending"}
      s == Smallest(pending) IN
  /\ At(w, "idle")
  /\ cursor' = c
  /\ IF pending = {}
     THEN outbox' = Repaired /\ UNCHANGED job
     ELSE /\ outbox' = [Repaired EXCEPT ![s] = [state |-> "Claimed", holder |-> w,
                                                late |-> FALSE]]
          /\ Become(w, IF HasContent(s)
                       THEN OnRows("classify", s, FactsOf(s), Candidate, {})
                       ELSE OnSource("ack", s))
  /\ UNCHANGED <<source, memory, links, refs, review>> /\ Untouched

\* _candidate: the model's verdict on the text that was read at the claim.
Drop(w) ==
  LET j == job[w] IN
  /\ At(w, "classify")
  /\ wanted' = [wanted EXCEPT ![j.s] = FALSE]
  /\ Become(w, OnSource("ack", j.s))
  /\ UNCHANGED <<data, mishaps>>

Remember(w, f) ==
  LET j == job[w] IN
  /\ At(w, "classify") /\ f \in j.facts
  /\ wanted' = [wanted EXCEPT ![j.s] = TRUE]
  /\ Become(w, OnFact("accept", j.s, f, FALSE, FALSE))
  /\ UNCHANGED <<data, mishaps>>

\* accept, up to its first write.  A candidate is rejected, and its source
\* acknowledged, when the claim or the content is gone; without an equal memory
\* it may have to be reviewed (confidence, similar memories).
Accept(w) ==
  LET j == job[w]
      exact == memory[j.first] = "Active" IN
  /\ At(w, "accept")
  /\ IF ~ClaimValid(w, j.s) \/ ~HasContent(j.s)
     THEN Become(w, OnSource("ack", j.s))
     ELSE \E step \in IF exact THEN {"persist"} ELSE {"persist", "hold"} :
            Become(w, OnFact(step, j.s, j.first, exact, source[j.s].kept))
  /\ Read

\* Mutant: a collision is taken for a rejected candidate.
PersistOrAcknowledge(w) ==
  LET j == job[w] IN
  /\ At(w, "persist")
  /\ Become(w, OnSource("ack", j.s))
  /\ IF Collides(j.first, j.exact)
     THEN UNCHANGED <<source, memory, links, refs>>
     ELSE Persist(j.s, j.first, j.exact, j.kept, {})
  /\ UNCHANGED <<outbox, cursor, review>> /\ Untouched

\* accept from its first write on; a collision fails the attempt.
PersistAccepted(w) ==
  LET j == job[w] IN
  /\ At(w, "persist")
  /\ IF Collides(j.first, j.exact)
     THEN Become(w, Idle) /\ UNCHANGED <<source, memory, links, refs>>
     ELSE /\ Become(w, OnSource("ack", j.s))
          /\ Persist(j.s, j.first, j.exact, j.kept, {})
  /\ UNCHANGED <<outbox, cursor, review>> /\ Untouched

\* _hold_for_review: the claim and the source are read again, with the clock
\* of accept, and an invalid one fails the attempt.
Hold(w) ==
  LET j == job[w] IN
  /\ At(w, "hold")
  /\ IF Owns(w, j.s) /\ HasContent(j.s)
     THEN Become(w, OnFact("suspend", j.s, Candidate, FALSE, source[j.s].kept))
     ELSE Become(w, Idle)
  /\ Read

\* One candidate per source; _acknowledge_in_session reads the claim again in
\* the transaction and leaves the cursor alone.
Suspend(w) ==
  LET j == job[w] IN
  /\ At(w, "suspend")
  /\ IF Owns(w, j.s)
     THEN /\ SetState({j.s}, "Completed")
          /\ IF review[j.s].status = "Absent"
             THEN /\ review' = [review EXCEPT ![j.s] = [status |-> "PendingReview", due |-> FALSE]]
                  /\ refs' = [refs EXCEPT ![j.s] = @ \union {Candidate}]
                  /\ source' = [source EXCEPT ![j.s] = Kept(@, j.kept)]
             ELSE UNCHANGED <<review, refs, source>>
     ELSE UNCHANGED <<outbox, review, refs, source>>
  /\ Become(w, Idle)
  /\ UNCHANGED <<cursor, memory, links>> /\ Untouched

\* acknowledge reads the row and writes it without looking again.
Acknowledge(w) ==
  LET j == job[w] IN
  /\ At(w, "ack")
  /\ Become(w, IF Owns(w, j.s) THEN OnSource("complete", j.s) ELSE Idle)
  /\ Read

Complete(w) ==
  /\ At(w, "complete")
  /\ SetState({job[w].s}, "Completed")
  /\ cursor' = Advance(cursor, outbox')
  /\ Become(w, Idle)
  /\ UNCHANGED <<source, memory, links, refs, review>> /\ Untouched

Work(w) == \/ ClaimNext(w) \/ Drop(w) \/ (\E f \in Facts : Remember(w, f))
           \/ Accept(w) \/ PersistAccepted(w) \/ Hold(w) \/ Suspend(w)
           \/ Acknowledge(w) \/ Complete(w)

-------------------------------------------------------------------------------
(* PATCH /memory-candidates/{id} *)

\* The row is pending, not expired; with_for_update locks nothing in SQLite.
Decidable(s) == review[s].status = "PendingReview" /\ ~review[s].due

\* The user may approve the text as another type.
BeginApprove(u, s, f) ==
  /\ At(u, "idle") /\ Decidable(s)
  /\ HasContent(s) /\ f \in FactsOf(s)
  /\ Become(u, OnFact("approve", s, f, memory[f] = "Active", source[s].kept))
  /\ Read

\* Mutant: the candidate's reference is not released.
ApproveKeepingReference(u) ==
  LET j == job[u] IN
  /\ At(u, "approve")
  /\ IF Collides(j.first, j.exact)
     THEN UNCHANGED <<source, memory, links, refs, review>>
     ELSE /\ Persist(j.s, j.first, j.exact, j.kept, {})
          /\ review' = [review EXCEPT ![j.s] = Decided(@, "Approved")]
  /\ Become(u, Idle)
  /\ UNCHANGED <<outbox, cursor>> /\ Untouched

Approve(u) ==
  LET j == job[u] IN
  /\ At(u, "approve")
  /\ IF Collides(j.first, j.exact)
     THEN UNCHANGED <<source, memory, links, refs, review>>
     ELSE /\ Persist(j.s, j.first, j.exact, j.kept, {Candidate})
          /\ review' = [review EXCEPT ![j.s] = Decided(@, "Approved")]
  /\ Become(u, Idle)
  /\ UNCHANGED <<outbox, cursor>> /\ Untouched

BeginReject(u, s) ==
  /\ At(u, "idle") /\ Decidable(s)
  /\ Become(u, OnSource("reject", s))
  /\ Read

Reject(u) ==
  LET s == job[u].s IN
  /\ At(u, "reject")
  /\ review' = [review EXCEPT ![s] = Decided(@, "Rejected")]
  /\ Release({<<s, Candidate>>})
  /\ Tombstone({s})
  /\ Become(u, Idle)
  /\ UNCHANGED <<memory, links>> /\ Untouched

-------------------------------------------------------------------------------
(* DELETE /memories/{id} and POST /memories/reset *)

\* _owned_active, or every active memory of the scope; _archive reads the links
\* of the first one before the first write.
BeginForget(u, f, F) ==
  /\ At(u, "idle") /\ f \in ActiveFacts /\ F \in {{f}, ActiveFacts}
  /\ Become(u, OnRows("forget", 0, F, f, LinksOf(f)))
  /\ Read

Forget(u) ==
  LET j == job[u] IN
  /\ At(u, "forget")
  /\ Archive(j.facts, (j.todo \X {j.first})
                        \union {l \in links : l[2] \in j.facts \ {j.first}})
  /\ Become(u, Idle)
  /\ UNCHANGED <<links, review>> /\ Untouched

-------------------------------------------------------------------------------
(* RetentionService.sweep: expired reviews, then memories whose source was    *)
(* erased, then sources that are due                                          *)

BeginSweep ==
  /\ At(Sweeper, "idle")
  /\ Become(Sweeper, OnRows("expire", 0, {}, Candidate,
       {s \in Sources : review[s].status = "PendingReview" /\ review[s].due}))
  /\ Read

ExpireReviews ==
  LET S == job[Sweeper].todo IN
  /\ At(Sweeper, "expire")
  /\ review' = [s \in Sources |-> IF s \in S THEN Decided(review[s], "Expired")
                                  ELSE review[s]]
  /\ Release(S \X {Candidate})
  /\ Tombstone(S)
  /\ Become(Sweeper, OnSource("archive", 0))
  /\ UNCHANGED <<memory, links>> /\ Untouched

\* Mutant: a memory with a source left is not archived.
OrphanedOfAll(f) == LinksOf(f) # {} /\ \A s \in LinksOf(f) : ~HasContent(s)

Orphaned(f) == \E s \in LinksOf(f) : ~HasContent(s)

\* One step: Archived is final, so what the reads selected stays selected.
ArchiveWithoutSource ==
  LET F == {f \in ActiveFacts : Orphaned(f)} IN
  /\ At(Sweeper, "archive")
  /\ Archive(F, {l \in links : l[2] \in F})
  /\ Become(Sweeper, OnSource("purge", 0))
  /\ UNCHANGED <<links, review>> /\ Untouched

\* Mutant: a referenced source ends the loop instead of being skipped.
FreeOfFirst(due) == IF \E s \in due : refs[s] # {} /\ s = Smallest(due) THEN {}
                    ELSE {s \in due : refs[s] = {}}

\* The due sources that nothing refers to.
Free(due) == {s \in due : refs[s] = {}}

\* _purge_canonical: the due sources, up to the first without a reference.
BeginPurge ==
  LET due == {s \in Sources : HasContent(s) /\ ~source[s].kept /\ source[s].due}
      free == Free(due) IN
  /\ At(Sweeper, "purge")
  /\ Become(Sweeper, IF free = {} THEN Idle
                     ELSE OnRows("erase", Smallest(free), {}, Candidate,
                            {s \in due : s > Smallest(free)}))
  /\ Read

\* The first write is the first source's, whatever refers to it by now; the
\* references of those after it are read in the transaction.
Purge ==
  LET j == job[Sweeper]
      S == {j.s} \union Free(j.todo) IN
  /\ At(Sweeper, "erase")
  /\ source' = [s \in Sources |-> IF s \in S THEN Erased(source[s]) ELSE source[s]]
  /\ Tombstone(S)
  /\ Become(Sweeper, Idle)
  /\ UNCHANGED <<memory, links, refs, review>> /\ Untouched

Sweep == BeginSweep \/ ExpireReviews \/ ArchiveWithoutSource \/ BeginPurge \/ Purge

-------------------------------------------------------------------------------
(* recover_unprocessed_messages, run by hand in a process of its own *)

Dropped(s) == /\ outbox[s].state = "Completed" /\ HasContent(s)
              /\ \A f \in Facts : s \notin LinksOf(f)
              /\ review[s].status = "Absent"

BeginRecover ==
  LET S == {s \in Sources : Dropped(s)} IN
  /\ At(Operator, "idle") /\ S # {} /\ mishaps < MaxMishaps
  /\ mishaps' = mishaps + 1
  /\ Become(Operator, OnRows("requeue", 0, {}, Candidate, S))
  /\ UNCHANGED <<data, wanted>>

\* Mutant: the cursor is not rewound.
RequeueBehindCursor ==
  /\ At(Operator, "requeue")
  /\ SetState(job[Operator].todo, "Pending")
  /\ Become(Operator, Idle)
  /\ UNCHANGED <<source, cursor, memory, links, refs, review>> /\ Untouched

Requeue ==
  LET S == job[Operator].todo IN
  /\ At(Operator, "requeue")
  /\ SetState(S, "Pending")
  /\ cursor' = IF cursor < Smallest(S) - 1 THEN cursor ELSE Smallest(S) - 1
  /\ Become(Operator, Idle)
  /\ UNCHANGED <<source, memory, links, refs, review>> /\ Untouched

-------------------------------------------------------------------------------

UserStep(u) ==
  \/ \E s \in Sources, f \in Facts : BeginApprove(u, s, f)
  \/ Approve(u)
  \/ \E s \in Sources : BeginReject(u, s)
  \/ Reject(u)
  \/ \E f \in Facts, F \in SUBSET Facts : BeginForget(u, f, F)
  \/ Forget(u)

Next ==
  \/ \E s \in Sources, text \in Texts : Arrive(s, text)
  \/ \E s \in Sources : TtlPasses(s) \/ ReviewLapses(s) \/ LeaseExpires(s)
  \/ \E p \in Processes : Fail(p)
  \/ \E w \in Workers : Work(w)
  \/ \E u \in Users : UserStep(u)
  \/ Sweep
  \/ BeginRecover \/ Requeue

Spec == Init /\ [][Next]_vars

\* The worker and the retention loop run for ever, and leases run out.
FairSpec ==
  /\ Spec
  /\ \A w \in Workers : WF_vars(Work(w))
  /\ \A s \in Sources : WF_vars(LeaseExpires(s))
  /\ WF_vars(Sweep)

-------------------------------------------------------------------------------
(* Properties *)

TypeOK ==
  /\ source \in [Sources -> Source] /\ outbox \in [Sources -> Outbox]
  /\ cursor \in 0..N
  /\ memory \in [Facts -> {"None", "Active", "Archived"}]
  /\ links \subseteq Sources \X Facts
  /\ refs \in [Sources -> SUBSET (Facts \union {Candidate})]
  /\ review \in [Sources -> Review]
  /\ job \in [Processes -> Job]
  /\ wanted \in [Sources -> BOOLEAN] /\ mishaps \in 0..MaxMishaps

\* What process p holds between its read and its write: a source and a fact where
\* it needs them, and a memory of that fact if the read found one.
JobRemembers(j, mem) ==
  /\ j.step \in {"classify", "accept", "persist", "hold", "suspend", "ack", "complete",
                 "approve", "reject", "erase"} => j.s \in Sources
  /\ j.step \in {"accept", "persist", "hold", "approve", "forget"} => j.first \in Facts
  /\ j.step \in {"persist", "approve"} /\ j.exact => mem[j.first] # "None"
  /\ j.step = "forget" => j.first \in j.facts
  /\ j.step = "requeue" => j.todo # {}
JobsRemember == \A p \in Processes : JobRemembers(job[p], memory)

\* The cursor never passes a source that still has to be processed, in spite of
\* claims out of order, repaired leases, blind completions and the recovery's
\* rewind: claim_next looks only beyond the cursor, so such a source would be
\* lost for ever.
CursorContiguous == \A s \in 1..cursor : Settled(outbox[s])

\* A memory that is used holds a reference on every source it is linked to, so
\* that retention does not erase the source under it.
ActiveIsReferenced ==
  \A l \in links : memory[l[2]] = "Active" => l[2] \in refs[l[1]]

\* The reference of a review candidate exists exactly while the review is open:
\* the source is neither erased before the decision nor preserved after it.
CandidateIsReferenced ==
  \A s \in Sources : review[s].status = "PendingReview" <=> Candidate \in refs[s]

\* What the worker's model wanted to remember is never completed unless a memory
\* or a review candidate came out of it.
WantedIsStored ==
  \A s \in Sources :
    wanted[s] /\ outbox[s].state = "Completed" /\ HasContent(s)
      => \/ \E f \in Facts : s \in LinksOf(f)
         \/ review[s].status # "Absent"

\* A memory the user deleted is not distilled again: no step of the worker, of
\* a review or of the recovery revives it.
ForgottenForGood ==
  [][\A f \in Facts : memory[f] = "Archived" => memory'[f] = "Archived"]_vars

\* Every stored source is processed in the end, through failures, repaired
\* leases and recoveries, unless a memory with its text, or with the text of an
\* earlier source, was archived: the unique text then fails every attempt.
EverySourceSettles ==
  \A s \in Sources :
    outbox[s].state \in {"Pending", "Claimed"}
      ~> \/ Settled(outbox[s])
         \/ \E t \in 1..s, type \in Types :
              HasContent(t) /\ memory[<<type, source[t].text>>] = "Archived"

\* A due source that nothing refers to is erased, unless it is referred to again.
DueIsErased ==
  \A s \in Sources :
    HasContent(s) /\ source[s].due /\ ~source[s].kept /\ refs[s] = {}
      ~> ~HasContent(s) \/ refs[s] # {}

\* A memory that is used although its source was erased is archived: the sweep
\* repairs what its own race with the worker or a review did.
MemoryWithoutSourceArchived ==
  \A l \in Sources \X Facts :
    l \in links /\ memory[l[2]] = "Active" /\ ~HasContent(l[1])
      ~> memory[l[2]] = "Archived"

\* README.md: a decision is not changed by a different one.  The code reads the
\* status before it takes the write lock.
DecisionIsFinal ==
  [][\A s \in Sources : review[s].status \in {"Approved", "Rejected", "Expired"}
       => review'[s].status = review[s].status]_vars
===============================================================================
