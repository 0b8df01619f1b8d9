------------------------- MODULE MemoryPipeline_proofs -------------------------
(***************************************************************************)
(* Proofs about MemoryPipeline, for any number of sources, texts, types,   *)
(* workers, users and mishaps: types, the contiguous cursor, the           *)
(* references of the memories in use and of the candidates under review,   *)
(* and, while leases outlast the model's answers, that what was worth      *)
(* remembering is stored before its source is done with.                   *)
(***************************************************************************)
EXTENDS MemoryPipeline, WellFoundedInduction, TLAPS

-------------------------------------------------------------------------------
(* The cursor's arithmetic *)

\* A set of naturals with an element has a smallest one.
LEMMA SmallestIsMinimal ==
  ASSUME NEW T \in SUBSET Nat, T # {}
  PROVE  Smallest(T) \in T /\ \A t \in T : Smallest(T) <= t
<1> DEFINE R == OpToRel(<, Nat)
<1>1. IsWellFoundedOn(R, Nat)
  BY NatLessThanWellFounded
<1>2. PICK x \in T : \A y \in T : <<y, x>> \notin R
  <2> HIDE DEF R
  <2> QED BY <1>1, WFMin
<1>3. \A y \in T : x <= y
  <2> TAKE y \in T
  <2>1. ~(y < x)
    BY <1>2 DEF OpToRel
  <2> QED BY <2>1
<1> QED
  BY <1>2, <1>3 DEF Smallest

\* Advance stays in bounds and passes settled rows only.
LEMMA AdvancePassesSettled ==
  ASSUME NEW c \in 0..N, NEW box
  PROVE  /\ Advance(c, box) \in c..N
         /\ \A s \in (c + 1)..Advance(c, box) : Settled(box[s])
<1> DEFINE open == {s \in (c + 1)..N : ~Settled(box[s])}
<1>1. CASE open = {}
  BY <1>1, ConstantsAssumption DEF Advance
<1>2. CASE open # {}
  <2>1. Smallest(open) \in open /\ \A t \in open : Smallest(open) <= t
    BY <1>2, SmallestIsMinimal, ConstantsAssumption
  <2>2. Advance(c, box) = Smallest(open) - 1
    BY <1>2 DEF Advance
  <2> HIDE DEF open
  <2>3. Smallest(open) \in (c + 1)..N
    BY <2>1 DEF open
  <2>4. Advance(c, box) \in c..N
    BY <2>2, <2>3, ConstantsAssumption
  <2>5. \A s \in (c + 1)..Advance(c, box) : s \in (c + 1)..N /\ s \notin open
    BY <2>1, <2>2, <2>3, ConstantsAssumption
  <2> QED
    BY <2>4, <2>5 DEF open
<1> QED
  BY <1>1, <1>2

-------------------------------------------------------------------------------
(* Types *)

Base == TypeOK /\ JobsRemember

\* No step removes a memories row.
MemoriesStay == \A f \in Facts : memory[f] # "None" => memory'[f] # "None"

\* The rows of the seven tables, as TypeOK has them.
RowsOK ==
  /\ source \in [Sources -> Source] /\ outbox \in [Sources -> Outbox]
  /\ cursor \in 0..N
  /\ memory \in [Facts -> {"None", "Active", "Archived"}]
  /\ links \subseteq Sources \X Facts
  /\ refs \in [Sources -> SUBSET (Facts \union {Candidate})]
  /\ review \in [Sources -> Review]

LEMMA RowsAreTyped == TypeOK => RowsOK
BY DEF TypeOK, RowsOK

LEMMA IdleType == Idle \in Job /\ \A mem : JobRemembers(Idle, mem)
BY ConstantsAssumption DEF Idle, OnSource, OnRows, Job, Steps, JobRemembers

\* A step that leaves well-typed rows and gives one process a proper job.
LEMMA BecomeBase ==
  ASSUME Base, RowsOK', MemoriesStay, wanted' \in [Sources -> BOOLEAN],
         mishaps' \in 0..MaxMishaps,
         NEW p \in Processes, NEW j \in Job, Become(p, j), JobRemembers(j, memory')
  PROVE  Base'
<1>1. job' \in [Processes -> Job]
  BY DEF Base, TypeOK, Become
<1>2. ASSUME NEW q \in Processes PROVE JobRemembers(job'[q], memory')
  <2>1. CASE q = p
    BY <2>1 DEF Become, Base, TypeOK
  <2>2. CASE q # p
    <3>1. job'[q] = job[q] /\ JobRemembers(job[q], memory)
      BY <2>2 DEF Become, Base, TypeOK, JobsRemember
    <3> QED
      BY <3>1 DEF JobRemembers, MemoriesStay
  <2> QED
    BY <2>1, <2>2
<1> QED
  BY <1>1, <1>2 DEF Base, TypeOK, RowsOK, JobsRemember

\* A step that leaves the processes alone.
LEMMA SameJobsBase ==
  ASSUME Base, RowsOK', MemoriesStay, UNCHANGED <<job, wanted, mishaps>>
  PROVE  Base'
BY DEF Base, TypeOK, RowsOK, JobsRemember, JobRemembers, MemoriesStay

\* A step that only reads.
LEMMA ReadBase ==
  ASSUME Base, UNCHANGED <<data, wanted>>, mishaps' \in 0..MaxMishaps,
         NEW p \in Processes, NEW j \in Job, Become(p, j), JobRemembers(j, memory)
  PROVE  Base'
<1>1. RowsOK' /\ MemoriesStay
  BY DEF Base, TypeOK, RowsOK, data, MemoriesStay
<1> QED
  BY <1>1, BecomeBase DEF data, Base, TypeOK

\* What the writes do to the rows.
LEMMA SetStateType ==
  ASSUME outbox \in [Sources -> Outbox], NEW S,
         NEW state \in {"Absent", "Pending", "Claimed", "Completed", "Tombstone"},
         SetState(S, state)
  PROVE  outbox' \in [Sources -> Outbox]
BY DEF SetState, Row, Outbox

LEMMA TombstoneType ==
  ASSUME RowsOK, NEW S, Tombstone(S)
  PROVE  outbox' \in [Sources -> Outbox] /\ cursor' \in 0..N
<1>1. outbox' \in [Sources -> Outbox]
  BY SetStateType DEF Tombstone, RowsOK
<1>2. Advance(cursor, outbox') \in cursor..N
  BY AdvancePassesSettled DEF RowsOK
<1> QED
  BY <1>1, <1>2, ConstantsAssumption DEF Tombstone, RowsOK

LEMMA SourceRowTypes ==
  ASSUME NEW row \in Source
  PROVE  /\ Transient(row) \in Source /\ Erased(row) \in Source
         /\ \A kept : Kept(row, kept) \in Source
BY DEF Source, Transient, Erased, Kept

LEMMA DecidedType ==
  ASSUME NEW row \in Review, NEW status \in {"Approved", "Rejected", "Expired"}
  PROVE  Decided(row, status) \in Review
BY DEF Decided, Review

LEMMA ReleaseType ==
  ASSUME RowsOK, NEW R, Release(R)
  PROVE  /\ source' \in [Sources -> Source]
         /\ refs' \in [Sources -> SUBSET (Facts \union {Candidate})]
<1>1. \A s \in Sources : Transient(source[s]) \in Source /\ source[s] \in Source
  BY SourceRowTypes DEF RowsOK
<1> QED
  BY <1>1 DEF Release, RowsOK

LEMMA PersistType ==
  ASSUME RowsOK, NEW s \in Sources, NEW f \in Facts, NEW exact, NEW kept, NEW gone,
         Persist(s, f, exact, kept, gone)
  PROVE  /\ source' \in [Sources -> Source]
         /\ refs' \in [Sources -> SUBSET (Facts \union {Candidate})]
         /\ links' \subseteq Sources \X Facts
         /\ memory' \in [Facts -> {"None", "Active", "Archived"}]
         /\ MemoriesStay
<1>1. Kept(source[s], kept) \in Source
  BY SourceRowTypes DEF RowsOK
<1> QED
  BY <1>1 DEF Persist, RowsOK, MemoriesStay

LEMMA ArchiveType ==
  ASSUME RowsOK, NEW F, NEW L, Archive(F, L)
  PROVE  /\ source' \in [Sources -> Source] /\ outbox' \in [Sources -> Outbox]
         /\ refs' \in [Sources -> SUBSET (Facts \union {Candidate})]
         /\ cursor' \in 0..N
         /\ memory' \in [Facts -> {"None", "Active", "Archived"}]
         /\ MemoriesStay
<1>1. memory' \in [Facts -> {"None", "Active", "Archived"}] /\ MemoriesStay
  BY DEF Archive, RowsOK, MemoriesStay
<1>2. Release(L) /\ \E S : Tombstone(S)
  BY DEF Archive
<1> QED
  BY <1>1, <1>2, ReleaseType, TombstoneType

\* The environment: arrivals, deadlines, failures.
LEMMA EnvironmentBase ==
  ASSUME Base, NEW s \in Sources,
         \/ \E text \in Texts : Arrive(s, text)
         \/ TtlPasses(s) \/ ReviewLapses(s) \/ LeaseExpires(s)
  PROVE  Base'
<1>1. RowsOK
  BY RowsAreTyped DEF Base
<1>2. ASSUME NEW text \in Texts, Arrive(s, text) PROVE RowsOK'
  <2>1. outbox' \in [Sources -> Outbox]
    BY <1>1, <1>2, SetStateType DEF Arrive, RowsOK
  <2>2. [text |-> text, kept |-> FALSE, due |-> FALSE] \in Source
    BY DEF Source
  <2> QED
    BY <1>1, <1>2, <2>1, <2>2 DEF Arrive, RowsOK
<1>3. CASE TtlPasses(s)
  <2>1. Transient(source[s]) \in Source
    BY <1>1, SourceRowTypes DEF RowsOK
  <2> QED
    BY <1>1, <1>3, <2>1, SameJobsBase DEF TtlPasses, RowsOK, MemoriesStay, Untouched
<1>4. CASE ReviewLapses(s)
  <2>1. [status |-> "PendingReview", due |-> TRUE] \in Review
    BY DEF Review
  <2> QED
    BY <1>1, <1>4, <2>1, SameJobsBase DEF ReviewLapses, RowsOK, MemoriesStay, Untouched
<1>5. CASE LeaseExpires(s)
  <2>1. [state |-> "Claimed", holder |-> outbox[s].holder, late |-> TRUE] \in Outbox
    BY <1>1 DEF Outbox, RowsOK
  <2> QED
    BY <1>1, <1>5, <2>1, SameJobsBase DEF LeaseExpires, RowsOK, MemoriesStay, Untouched
<1>6. ASSUME NEW text \in Texts, Arrive(s, text) PROVE Base'
  BY <1>2, <1>6, SameJobsBase DEF Arrive, MemoriesStay, Untouched
<1> QED
  BY <1>3, <1>4, <1>5, <1>6

LEMMA FailBase ==
  ASSUME Base, NEW p \in Processes, Fail(p) PROVE Base'
<1>1. mishaps' \in 0..MaxMishaps
  BY ConstantsAssumption DEF Base, TypeOK, Fail
<1> QED
  BY <1>1, IdleType, ReadBase DEF Fail

\* The worker.
LEMMA RepairedType == RowsOK => Repaired \in [Sources -> Outbox]
BY DEF RowsOK, Repaired, Row, Outbox

\* The earliest pending row beyond the cursor is a row.
LEMMA EarliestIsSource ==
  ASSUME NEW c, NEW S, S = {s \in Sources : s > c /\ Repaired[s].state = "Pending"}, S # {}
  PROVE  Smallest(S) \in S /\ Smallest(S) \in Sources
BY SmallestIsMinimal, ConstantsAssumption DEF Sources

\* What a process may hold is a job.
LEMMA FactType ==
  ASSUME NEW s \in Sources, NEW step \in Steps, NEW f \in Facts \union {Candidate},
         NEW exact \in BOOLEAN, NEW kept \in BOOLEAN
  PROVE  OnFact(step, s, f, exact, kept) \in Job
BY ConstantsAssumption DEF OnFact, Job, Sources

LEMMA RowsType ==
  ASSUME NEW s \in 0..N, NEW step \in Steps, NEW f \in Facts \union {Candidate},
         NEW F \in SUBSET Facts, NEW S \in SUBSET Sources
  PROVE  OnRows(step, s, F, f, S) \in Job
BY DEF OnRows, Job

LEMMA OnSourceType ==
  ASSUME NEW s \in Sources, NEW step \in {"ack", "complete", "reject"}
  PROVE  OnSource(step, s) \in Job /\ \A mem : JobRemembers(OnSource(step, s), mem)
<1>1. step \in Steps /\ s \in 0..N
  BY ConstantsAssumption DEF Steps, Sources
<1>2. OnSource(step, s) \in Job
  BY <1>1, RowsType DEF OnSource
<1> QED
  BY <1>2 DEF OnSource, OnRows, JobRemembers

LEMMA ClaimNextBase ==
  ASSUME Base, NEW w \in Workers, ClaimNext(w) PROVE Base'
<1> DEFINE c == Advance(cursor, Repaired)
           pending == {s \in Sources : s > c /\ Repaired[s].state = "Pending"}
           s == Smallest(pending)
           j == IF HasContent(s)
                THEN OnRows("classify", s, FactsOf(s), Candidate, {})
                ELSE OnSource("ack", s)
<1>1. RowsOK /\ Repaired \in [Sources -> Outbox]
  BY RowsAreTyped, RepairedType DEF Base
<1>2. c \in 0..N
  BY <1>1, AdvancePassesSettled, ConstantsAssumption DEF RowsOK
<1>3. cursor' = c /\ UNCHANGED <<source, memory, links, refs, review, wanted, mishaps>>
  BY DEF ClaimNext, Untouched
<1>4. MemoriesStay
  BY <1>3 DEF MemoriesStay
<1>5. CASE pending = {}
  <2>1. outbox' = Repaired /\ UNCHANGED job
    BY <1>5 DEF ClaimNext
  <2> QED
    BY <1>1, <1>2, <1>3, <1>4, <2>1, SameJobsBase DEF RowsOK
<1>6. CASE pending # {}
  <2>1. s \in Sources
    BY <1>6, EarliestIsSource
  <2>2. /\ outbox' = [Repaired EXCEPT ![s] = [state |-> "Claimed", holder |-> w,
                                              late |-> FALSE]]
        /\ Become(w, j)
    BY <1>6 DEF ClaimNext
  <2> HIDE DEF s, c
  <2>3. [state |-> "Claimed", holder |-> w, late |-> FALSE] \in Outbox
    BY DEF Outbox
  <2>4. RowsOK'
    BY <1>1, <1>2, <1>3, <2>2, <2>3 DEF RowsOK
  <2>5. j \in Job /\ \A mem : JobRemembers(j, mem)
    <3>1. CASE HasContent(s)
      <4>1. source[s].text \in Texts
        BY <1>1, <2>1, <3>1 DEF RowsOK, Source, HasContent
      <4>2. FactsOf(s) \in SUBSET Facts
        BY <4>1 DEF FactsOf, Facts
      <4>3. s \in 0..N /\ "classify" \in Steps
        BY <2>1, ConstantsAssumption DEF Sources, Steps
      <4>4. j = OnRows("classify", s, FactsOf(s), Candidate, {})
        BY <3>1
      <4>5. j \in Job
        BY <4>2, <4>3, <4>4, RowsType
      <4> QED
        BY <2>1, <4>4, <4>5 DEF OnRows, JobRemembers
    <3>2. CASE ~HasContent(s)
      BY <2>1, <3>2, OnSourceType
    <3> QED
      BY <3>1, <3>2
  <2>6. w \in Processes
    BY DEF Processes
  <2> HIDE DEF j
  <2> QED
    BY <1>3, <1>4, <2>2, <2>4, <2>5, <2>6, BecomeBase DEF Base, TypeOK
<1> QED
  BY <1>5, <1>6

LEMMA VerdictBase ==
  ASSUME Base, NEW w \in Workers, Drop(w) \/ \E f \in Facts : Remember(w, f)
  PROVE  Base'
<1>1. w \in Processes /\ RowsOK /\ job[w].s \in Sources
  BY RowsAreTyped DEF Base, Processes, JobsRemember, JobRemembers, Drop, Remember, At
<1>2. RowsOK' /\ MemoriesStay
  BY <1>1 DEF Drop, Remember, data, RowsOK, MemoriesStay
<1>3. CASE Drop(w)
  BY <1>1, <1>2, <1>3, OnSourceType, BecomeBase DEF Drop, Base, TypeOK
<1>4. ASSUME NEW f \in Facts, Remember(w, f) PROVE Base'
  <2> DEFINE j == OnFact("accept", job[w].s, f, FALSE, FALSE)
  <2>1. j \in Job
    BY <1>1, FactType DEF Steps
  <2>2. JobRemembers(j, memory')
    BY <1>1 DEF OnFact, JobRemembers
  <2>3. Become(w, j)
    BY <1>4 DEF Remember
  <2> HIDE DEF j
  <2> QED
    BY <1>1, <1>2, <1>4, <2>1, <2>2, <2>3, BecomeBase DEF Remember, Base, TypeOK
<1> QED
  BY <1>3, <1>4

LEMMA AcceptBase ==
  ASSUME Base, NEW w \in Workers, Accept(w) PROVE Base'
<1>1. /\ w \in Processes /\ job[w].s \in Sources /\ job[w].first \in Facts
      /\ source[job[w].s].kept \in BOOLEAN
  BY DEF Base, TypeOK, Source, Processes, JobsRemember, JobRemembers, Accept, At
<1> DEFINE exact == memory[job[w].first] = "Active"
           made(step) == OnFact(step, job[w].s, job[w].first, exact, source[job[w].s].kept)
<1>2. CASE Become(w, OnSource("ack", job[w].s))
  BY <1>1, <1>2, OnSourceType, ReadBase DEF Accept, Read, Base, TypeOK
<1>3. ASSUME NEW step \in {"persist", "hold"}, Become(w, made(step)) PROVE Base'
  <2>1. step \in Steps /\ exact \in BOOLEAN
    BY DEF Steps
  <2>2. made(step) \in Job
    BY <1>1, <2>1, FactType
  <2>3. JobRemembers(made(step), memory)
    BY <1>1 DEF OnFact, JobRemembers
  <2> HIDE DEF made
  <2> QED
    BY <1>1, <1>3, <2>2, <2>3, ReadBase DEF Accept, Read, Base, TypeOK
<1> QED
  BY <1>2, <1>3 DEF Accept

LEMMA PersistAcceptedBase ==
  ASSUME Base, NEW w \in Workers, PersistAccepted(w) PROVE Base'
<1>1. /\ w \in Processes /\ RowsOK /\ job[w].s \in Sources /\ job[w].first \in Facts
  BY RowsAreTyped DEF Base, Processes, JobsRemember, JobRemembers, PersistAccepted, At
<1>2. UNCHANGED <<outbox, cursor, review, wanted, mishaps>>
  BY DEF PersistAccepted, Untouched
<1>3. CASE Collides(job[w].first, job[w].exact)
  <2>1. Become(w, Idle) /\ UNCHANGED data
    BY <1>2, <1>3 DEF PersistAccepted, data
  <2> QED
    BY <1>1, <1>2, <2>1, IdleType, ReadBase DEF Base, TypeOK
<1>4. CASE ~Collides(job[w].first, job[w].exact)
  <2>1. /\ Become(w, OnSource("ack", job[w].s))
        /\ Persist(job[w].s, job[w].first, job[w].exact, job[w].kept, {})
    BY <1>4 DEF PersistAccepted
  <2>2. RowsOK' /\ MemoriesStay
    BY <1>1, <1>2, <2>1, PersistType DEF RowsOK
  <2> QED
    BY <1>1, <1>2, <2>1, <2>2, OnSourceType, BecomeBase DEF Base, TypeOK
<1> QED
  BY <1>3, <1>4

LEMMA HoldBase ==
  ASSUME Base, NEW w \in Workers, Hold(w) PROVE Base'
<1>1. w \in Processes /\ job[w].s \in Sources /\ source[job[w].s].kept \in BOOLEAN
  BY DEF Base, TypeOK, Source, Processes, JobsRemember, JobRemembers, Hold, At
<1> DEFINE j == OnFact("suspend", job[w].s, Candidate, FALSE, source[job[w].s].kept)
<1>2. CASE Become(w, Idle)
  BY <1>1, <1>2, IdleType, ReadBase DEF Hold, Read, Base, TypeOK
<1>3. CASE Become(w, j)
  <2>1. j \in Job
    BY <1>1, FactType DEF Steps
  <2>2. JobRemembers(j, memory)
    BY <1>1 DEF OnFact, JobRemembers
  <2> HIDE DEF j
  <2> QED
    BY <1>1, <1>3, <2>1, <2>2, ReadBase DEF Hold, Read, Base, TypeOK
<1> QED
  BY <1>2, <1>3 DEF Hold

LEMMA SuspendBase ==
  ASSUME Base, NEW w \in Workers, Suspend(w) PROVE Base'
<1>1. w \in Processes /\ RowsOK /\ job[w].s \in Sources
  BY RowsAreTyped DEF Base, Processes, JobsRemember, JobRemembers, Suspend, At
<1>2. [status |-> "PendingReview", due |-> FALSE] \in Review
  BY DEF Review
<1>3. Kept(source[job[w].s], job[w].kept) \in Source
  BY <1>1, SourceRowTypes DEF RowsOK
<1>4. outbox' \in [Sources -> Outbox]
  BY <1>1, SetStateType DEF Suspend, RowsOK
<1>5. RowsOK' /\ MemoriesStay
  BY <1>1, <1>2, <1>3, <1>4 DEF Suspend, RowsOK, MemoriesStay
<1> QED
  BY <1>1, <1>5, IdleType, BecomeBase DEF Suspend, Untouched, Base, TypeOK

LEMMA AcknowledgeBase ==
  ASSUME Base, NEW w \in Workers, Acknowledge(w) PROVE Base'
<1>1. w \in Processes /\ job[w].s \in Sources
  BY DEF Base, Processes, JobsRemember, JobRemembers, Acknowledge, At
<1> QED
  BY <1>1, OnSourceType, IdleType, ReadBase DEF Acknowledge, Read, Base, TypeOK

LEMMA CompleteBase ==
  ASSUME Base, NEW w \in Workers, Complete(w) PROVE Base'
<1>1. w \in Processes /\ RowsOK
  BY RowsAreTyped DEF Base, Processes
<1>2. outbox' \in [Sources -> Outbox]
  BY <1>1, SetStateType DEF Complete, RowsOK
<1>3. cursor' \in 0..N
  BY <1>1, AdvancePassesSettled, ConstantsAssumption DEF Complete, RowsOK
<1>4. RowsOK' /\ MemoriesStay
  BY <1>1, <1>2, <1>3 DEF Complete, RowsOK, MemoriesStay
<1> QED
  BY <1>1, <1>4, IdleType, BecomeBase DEF Complete, Untouched, Base, TypeOK

\* Reviews.
LEMMA BeginApproveBase ==
  ASSUME Base, NEW u \in Users, NEW s \in Sources, NEW f \in Facts, BeginApprove(u, s, f)
  PROVE  Base'
<1>1. u \in Processes /\ source[s].kept \in BOOLEAN
  BY DEF Base, TypeOK, Source, Processes
<1> DEFINE j == OnFact("approve", s, f, memory[f] = "Active", source[s].kept)
<1>2. j \in Job
  BY <1>1, FactType DEF Steps
<1>3. JobRemembers(j, memory)
  BY DEF OnFact, JobRemembers
<1>4. Become(u, j)
  BY DEF BeginApprove
<1> HIDE DEF j
<1> QED
  BY <1>1, <1>2, <1>3, <1>4, ReadBase DEF BeginApprove, Read, Base, TypeOK

LEMMA ApproveBase ==
  ASSUME Base, NEW u \in Users, Approve(u) PROVE Base'
<1>1. /\ u \in Processes /\ RowsOK /\ job[u].s \in Sources /\ job[u].first \in Facts
  BY RowsAreTyped DEF Base, Processes, JobsRemember, JobRemembers, Approve, At
<1>2. UNCHANGED <<outbox, cursor, wanted, mishaps>> /\ Become(u, Idle)
  BY DEF Approve, Untouched
<1>3. CASE Collides(job[u].first, job[u].exact)
  <2>1. UNCHANGED data
    BY <1>2, <1>3 DEF Approve, data
  <2> QED
    BY <1>1, <1>2, <2>1, IdleType, ReadBase DEF Base, TypeOK
<1>4. CASE ~Collides(job[u].first, job[u].exact)
  <2>1. /\ Persist(job[u].s, job[u].first, job[u].exact, job[u].kept, {Candidate})
        /\ review' = [review EXCEPT ![job[u].s] = Decided(@, "Approved")]
    BY <1>4 DEF Approve
  <2>2. review' \in [Sources -> Review]
    BY <1>1, <2>1, DecidedType DEF RowsOK
  <2>3. RowsOK' /\ MemoriesStay
    BY <1>1, <1>2, <2>1, <2>2, PersistType DEF RowsOK
  <2> QED
    BY <1>1, <1>2, <2>3, IdleType, BecomeBase DEF Base, TypeOK
<1> QED
  BY <1>3, <1>4

LEMMA RejectBase ==
  ASSUME Base, NEW u \in Users, Reject(u) PROVE Base'
<1>1. u \in Processes /\ RowsOK /\ job[u].s \in Sources
  BY RowsAreTyped DEF Base, Processes, JobsRemember, JobRemembers, Reject, At
<1>2. review' \in [Sources -> Review]
  BY <1>1, DecidedType DEF Reject, RowsOK
<1>3. RowsOK' /\ MemoriesStay
  BY <1>1, <1>2, ReleaseType, TombstoneType DEF Reject, RowsOK, MemoriesStay
<1> QED
  BY <1>1, <1>3, IdleType, BecomeBase DEF Reject, Untouched, Base, TypeOK

\* Deletion and reset.
LEMMA BeginForgetBase ==
  ASSUME Base, NEW u \in Users, NEW f \in Facts, NEW F \in SUBSET Facts,
         BeginForget(u, f, F)
  PROVE  Base'
<1> DEFINE j == OnRows("forget", 0, F, f, LinksOf(f))
<1>1. u \in Processes /\ LinksOf(f) \in SUBSET Sources /\ f \in F
  BY DEF Processes, LinksOf, BeginForget
<1>2. j \in Job
  BY <1>1, RowsType, ConstantsAssumption DEF Steps
<1>3. JobRemembers(j, memory)
  BY <1>1 DEF OnRows, JobRemembers
<1>4. Become(u, j)
  BY DEF BeginForget
<1> HIDE DEF j
<1> QED
  BY <1>1, <1>2, <1>3, <1>4, ReadBase DEF BeginForget, Read, Base, TypeOK

LEMMA ForgetBase ==
  ASSUME Base, NEW u \in Users, Forget(u) PROVE Base'
<1>1. u \in Processes /\ RowsOK
  BY RowsAreTyped DEF Base, Processes
<1>2. (\E F, L : Archive(F, L)) /\ UNCHANGED <<links, review>>
  BY DEF Forget
<1>3. RowsOK' /\ MemoriesStay
  BY <1>1, <1>2, ArchiveType DEF RowsOK
<1> QED
  BY <1>1, <1>3, IdleType, BecomeBase DEF Forget, Untouched, Base, TypeOK

\* The sweep.
LEMMA BeginSweepBase == ASSUME Base, BeginSweep PROVE Base'
<1> DEFINE S == {s \in Sources : review[s].status = "PendingReview" /\ review[s].due}
           j == OnRows("expire", 0, {}, Candidate, S)
<1>1. Sweeper \in Processes /\ j \in Job
  BY RowsType, ConstantsAssumption DEF Processes, Steps
<1>2. JobRemembers(j, memory)
  BY DEF OnRows, JobRemembers
<1>3. Become(Sweeper, j)
  BY DEF BeginSweep
<1> HIDE DEF j
<1> QED
  BY <1>1, <1>2, <1>3, ReadBase DEF BeginSweep, Read, Base, TypeOK

LEMMA PhaseType ==
  ASSUME NEW step \in {"archive", "purge"}
  PROVE  OnSource(step, 0) \in Job /\ \A mem : JobRemembers(OnSource(step, 0), mem)
<1>1. OnSource(step, 0) \in Job
  BY RowsType, ConstantsAssumption DEF OnSource, Steps
<1> QED
  BY <1>1 DEF OnSource, OnRows, JobRemembers

LEMMA ExpireReviewsBase == ASSUME Base, ExpireReviews PROVE Base'
<1>1. Sweeper \in Processes /\ RowsOK
  BY RowsAreTyped DEF Base, Processes
<1>2. review' \in [Sources -> Review]
  BY <1>1, DecidedType DEF ExpireReviews, RowsOK
<1>3. RowsOK' /\ MemoriesStay
  BY <1>1, <1>2, ReleaseType, TombstoneType DEF ExpireReviews, RowsOK, MemoriesStay
<1> QED
  BY <1>1, <1>3, PhaseType, BecomeBase DEF ExpireReviews, Untouched, Base, TypeOK

LEMMA ArchiveWithoutSourceBase == ASSUME Base, ArchiveWithoutSource PROVE Base'
<1>1. Sweeper \in Processes /\ RowsOK
  BY RowsAreTyped DEF Base, Processes
<1>2. (\E F, L : Archive(F, L)) /\ UNCHANGED <<links, review>>
  BY DEF ArchiveWithoutSource
<1>3. RowsOK' /\ MemoriesStay
  BY <1>1, <1>2, ArchiveType DEF RowsOK
<1> QED
  BY <1>1, <1>3, PhaseType, BecomeBase DEF ArchiveWithoutSource, Untouched, Base, TypeOK

LEMMA BeginPurgeBase == ASSUME Base, BeginPurge PROVE Base'
<1> DEFINE due == {s \in Sources : HasContent(s) /\ ~source[s].kept /\ source[s].due}
           free == Free(due)
           j == OnRows("erase", Smallest(free), {}, Candidate,
                       {s \in due : s > Smallest(free)})
<1>1. Sweeper \in Processes /\ Read
  BY DEF Processes, BeginPurge
<1>2. CASE free = {}
  <2>1. Become(Sweeper, Idle)
    BY <1>2 DEF BeginPurge
  <2> QED
    BY <1>1, <2>1, IdleType, ReadBase DEF Read, Base, TypeOK
<1>3. CASE free # {}
  <2>1. Become(Sweeper, j)
    BY <1>3 DEF BeginPurge
  <2>2. free \in SUBSET Sources /\ free \in SUBSET Nat
    BY ConstantsAssumption DEF Free, Sources
  <2>3. Smallest(free) \in Sources
    BY <1>3, <2>2, SmallestIsMinimal
  <2>4. {s \in due : s > Smallest(free)} \in SUBSET Sources
    OBVIOUS
  <2>5. Smallest(free) \in 0..N /\ "erase" \in Steps
    BY <2>3, ConstantsAssumption DEF Sources, Steps
  <2>6. j \in Job
    BY <2>4, <2>5, RowsType
  <2>7. JobRemembers(j, memory)
    BY <2>3 DEF OnRows, JobRemembers
  <2> HIDE DEF j
  <2> QED
    BY <1>1, <2>1, <2>6, <2>7, ReadBase DEF Read, Base, TypeOK
<1> QED
  BY <1>2, <1>3

LEMMA PurgeBase == ASSUME Base, Purge PROVE Base'
<1>1. Sweeper \in Processes /\ RowsOK
  BY RowsAreTyped DEF Base, Processes
<1>2. source' \in [Sources -> Source]
  BY <1>1, SourceRowTypes DEF Purge, RowsOK
<1>3. RowsOK' /\ MemoriesStay
  BY <1>1, <1>2, TombstoneType DEF Purge, RowsOK, MemoriesStay
<1> QED
  BY <1>1, <1>3, IdleType, BecomeBase DEF Purge, Untouched, Base, TypeOK

\* The operator's script.
LEMMA BeginRecoverBase == ASSUME Base, BeginRecover PROVE Base'
<1> DEFINE S == {s \in Sources : Dropped(s)}
           j == OnRows("requeue", 0, {}, Candidate, S)
<1>1. Operator \in Processes /\ j \in Job
  BY RowsType, ConstantsAssumption DEF Processes, Steps
<1>2. JobRemembers(j, memory)
  BY DEF OnRows, JobRemembers, BeginRecover
<1>3. Become(Operator, j) /\ mishaps' \in 0..MaxMishaps
  BY ConstantsAssumption DEF BeginRecover, Base, TypeOK
<1> HIDE DEF j
<1> QED
  BY <1>1, <1>2, <1>3, ReadBase DEF BeginRecover

LEMMA RequeueBase == ASSUME Base, Requeue PROVE Base'
<1>1. /\ Operator \in Processes /\ RowsOK
      /\ job[Operator].todo \in SUBSET Sources /\ job[Operator].todo # {}
  BY RowsAreTyped
     DEF Base, TypeOK, Job, Processes, JobsRemember, JobRemembers, Requeue, At
<1>2. Smallest(job[Operator].todo) \in Sources
  BY <1>1, SmallestIsMinimal, ConstantsAssumption DEF Sources
<1>3. cursor' \in 0..N
  BY <1>1, <1>2, ConstantsAssumption DEF Requeue, Sources, RowsOK
<1>4. RowsOK' /\ MemoriesStay
  BY <1>1, <1>3, SetStateType DEF Requeue, RowsOK, MemoriesStay
<1> QED
  BY <1>1, <1>4, IdleType, BecomeBase DEF Requeue, Untouched, Base, TypeOK

LEMMA InitBase == Init => Base
<1> SUFFICES ASSUME Init PROVE Base
  OBVIOUS
<1>1. \A s \in Sources : /\ source[s] \in Source /\ outbox[s] \in Outbox
                         /\ review[s] \in Review
  BY DEF Init, Source, Outbox, Review, Row
<1>2. /\ source \in [Sources -> Source] /\ outbox \in [Sources -> Outbox]
      /\ review \in [Sources -> Review]
  <2>1. /\ source = [s \in Sources |-> source[s]] /\ outbox = [s \in Sources |-> outbox[s]]
        /\ review = [s \in Sources |-> review[s]]
    BY DEF Init
  <2> QED
    BY <1>1, <2>1
<1>3. /\ cursor \in 0..N /\ mishaps \in 0..MaxMishaps
  BY ConstantsAssumption DEF Init
<1>4. /\ memory \in [Facts -> {"None", "Active", "Archived"}]
      /\ links \subseteq Sources \X Facts
      /\ refs \in [Sources -> SUBSET (Facts \union {Candidate})]
      /\ wanted \in [Sources -> BOOLEAN]
  BY DEF Init
<1>5. job \in [Processes -> Job] /\ JobsRemember
  BY IdleType DEF Init, JobsRemember
<1> QED
  BY <1>2, <1>3, <1>4, <1>5 DEF Base, TypeOK

\* Every step keeps the types and what the processes hold.
LEMMA NextBase == Base /\ [Next]_vars => Base'
<1> SUFFICES ASSUME Base, [Next]_vars PROVE Base'
  OBVIOUS
<1>1. ASSUME NEW w \in Workers, Work(w) PROVE Base'
  BY <1>1, ClaimNextBase, VerdictBase, AcceptBase, PersistAcceptedBase, HoldBase,
     SuspendBase, AcknowledgeBase, CompleteBase DEF Work
<1>2. ASSUME NEW u \in Users, UserStep(u) PROVE Base'
  <2>1. ASSUME NEW s \in Sources, BeginReject(u, s) PROVE Base'
    <3>1. u \in Processes
      BY DEF Processes
    <3> QED
      BY <2>1, <3>1, OnSourceType, ReadBase DEF BeginReject, Read, Base, TypeOK
  <2> QED
    BY <1>2, <2>1, BeginApproveBase, ApproveBase, RejectBase, BeginForgetBase, ForgetBase
       DEF UserStep
<1>3. ASSUME Sweep PROVE Base'
  BY <1>3, BeginSweepBase, ExpireReviewsBase, ArchiveWithoutSourceBase, BeginPurgeBase,
     PurgeBase DEF Sweep
<1>4. CASE UNCHANGED vars
  BY <1>4 DEF vars, data, Base, TypeOK, JobsRemember, JobRemembers
<1> QED
  BY <1>1, <1>2, <1>3, <1>4, EnvironmentBase, FailBase, BeginRecoverBase, RequeueBase
     DEF Next

LEMMA AlwaysBase == Spec => []Base
BY InitBase, NextBase, PTL DEF Spec

\* In every reachable state every row and every job is well-formed.
THEOREM TypeCorrect == Spec => []TypeOK
<1>1. Spec => []Base
  BY AlwaysBase
<1>2. Base => TypeOK
  BY DEF Base
<1> QED
  BY <1>1, <1>2, PTL

-------------------------------------------------------------------------------
(* The contiguous cursor *)

SettledStay == \A s \in Sources : Settled(outbox[s]) => Settled(outbox'[s])

\* A cursor that stays, or advances over the rows as the step leaves them.
LEMMA AdvanceKeepsContiguous ==
  ASSUME Base, CursorContiguous, SettledStay,
         cursor' = cursor \/ cursor' = Advance(cursor, outbox')
  PROVE  CursorContiguous'
<1>1. cursor \in 0..N
  BY DEF Base, TypeOK
<1>2. \A s \in 1..cursor : Settled(outbox'[s])
  BY <1>1, ConstantsAssumption DEF CursorContiguous, SettledStay, Sources
<1>3. CASE cursor' = cursor
  BY <1>2, <1>3 DEF CursorContiguous
<1>4. CASE cursor' = Advance(cursor, outbox')
  <2>1. /\ cursor' \in cursor..N
        /\ \A s \in (cursor + 1)..cursor' : Settled(outbox'[s])
    BY <1>1, <1>4, AdvancePassesSettled
  <2>2. \A s \in 1..cursor' : s \in 1..cursor \/ s \in (cursor + 1)..cursor'
    BY <1>1, <2>1, ConstantsAssumption
  <2> QED
    BY <1>2, <2>1, <2>2 DEF CursorContiguous
<1> QED
  BY <1>3, <1>4

\* Completing and tombstoning settle a row.
LEMMA SettlingKeepsContiguous ==
  ASSUME Base, CursorContiguous, NEW S, NEW state \in {"Completed", "Tombstone"},
         SetState(S, state), cursor' = cursor \/ cursor' = Advance(cursor, outbox')
  PROVE  CursorContiguous'
<1>1. SettledStay
  BY DEF SetState, Row, Settled, SettledStay
<1> QED
  BY <1>1, AdvanceKeepsContiguous

LEMMA TombstoneKeepsContiguous ==
  ASSUME Base, CursorContiguous, NEW S, Tombstone(S) PROVE CursorContiguous'
BY SettlingKeepsContiguous DEF Tombstone

LEMMA ArchiveKeepsContiguous ==
  ASSUME Base, CursorContiguous, NEW F, NEW L, Archive(F, L) PROVE CursorContiguous'
BY TombstoneKeepsContiguous DEF Archive

\* The claim takes the first row beyond the cursor, and repairs only leases.
LEMMA ClaimKeepsContiguous ==
  ASSUME Base, CursorContiguous, NEW w \in Workers, ClaimNext(w) PROVE CursorContiguous'
<1> DEFINE c == Advance(cursor, Repaired)
           pending == {s \in Sources : s > c /\ Repaired[s].state = "Pending"}
<1>1. cursor \in 0..N /\ cursor' = c
  BY DEF Base, TypeOK, ClaimNext
<1>2. c \in cursor..N /\ \A s \in (cursor + 1)..c : Settled(Repaired[s])
  BY <1>1, AdvancePassesSettled
<1>3. \A s \in Sources : Settled(outbox[s]) => Settled(Repaired[s])
  BY DEF Repaired, Settled
<1>4. \A s \in Sources : s <= c => Settled(Repaired[s])
  <2> HIDE DEF c
  <2> TAKE s \in Sources
  <2>1. s <= c => s \in 1..cursor \/ s \in (cursor + 1)..c
    BY <1>1, <1>2, ConstantsAssumption DEF Sources
  <2> QED
    BY <1>2, <1>3, <2>1 DEF CursorContiguous
<1>5. \A s \in Sources : s <= c => outbox'[s] = Repaired[s]
  <2>1. CASE pending = {}
    BY <2>1 DEF ClaimNext
  <2>2. CASE pending # {}
    <3>1. Smallest(pending) \in pending
      BY <2>2, EarliestIsSource
    <3>2. Smallest(pending) > c
      BY <3>1
    <3>3. outbox' = [Repaired EXCEPT ![Smallest(pending)] =
                       [state |-> "Claimed", holder |-> w, late |-> FALSE]]
      BY <2>2 DEF ClaimNext
    <3>4. Repaired \in [Sources -> Outbox]
      BY RowsAreTyped, RepairedType DEF Base
    <3> HIDE DEF c, pending
    <3>5. \A s \in Sources : s <= c => s # Smallest(pending)
      BY <1>1, <1>2, <3>2, ConstantsAssumption DEF Sources
    <3> QED
      BY <3>3, <3>4, <3>5
  <2> QED
    BY <2>1, <2>2
<1> HIDE DEF c
<1>6. \A s \in 1..c : s \in Sources /\ s <= c
  BY <1>1, <1>2, ConstantsAssumption DEF Sources
<1> QED
  BY <1>1, <1>4, <1>5, <1>6 DEF CursorContiguous

\* The recovery rewinds the cursor below every row that it opens again.
LEMMA RequeueKeepsContiguous ==
  ASSUME Base, CursorContiguous, Requeue PROVE CursorContiguous'
<1> DEFINE S == job[Operator].todo
<1>1. S \in SUBSET Sources /\ S # {} /\ cursor \in 0..N
  BY DEF Base, TypeOK, Job, Processes, JobsRemember, JobRemembers, Requeue, At
<1>2. Smallest(S) \in Sources /\ \A s \in S : Smallest(S) <= s
  BY <1>1, SmallestIsMinimal, ConstantsAssumption DEF Sources
<1>3. /\ cursor' = IF cursor < Smallest(S) - 1 THEN cursor ELSE Smallest(S) - 1
      /\ outbox' = [s \in Sources |-> IF s \in S THEN Row("Pending") ELSE outbox[s]]
  BY DEF Requeue, SetState
<1> HIDE DEF S
<1>4. cursor' < Smallest(S) /\ cursor' <= cursor /\ cursor' \in 0..N
  BY <1>1, <1>2, <1>3, ConstantsAssumption DEF Sources
<1>5. \A s \in 1..cursor' : s \in 1..cursor /\ s \in Sources /\ s \notin S
  BY <1>1, <1>2, <1>4, ConstantsAssumption DEF Sources
<1> QED
  BY <1>3, <1>5 DEF CursorContiguous

LEMMA NextKeepsContiguous ==
  Base /\ CursorContiguous /\ [Next]_vars => CursorContiguous'
<1> SUFFICES ASSUME Base, CursorContiguous, [Next]_vars PROVE CursorContiguous'
  OBVIOUS
<1>1. ASSUME UNCHANGED <<outbox, cursor>> PROVE CursorContiguous'
  BY <1>1 DEF CursorContiguous
<1>2. ASSUME NEW s \in Sources, NEW text \in Texts, Arrive(s, text)
      PROVE  CursorContiguous'
  <2>1. SettledStay
    BY <1>2 DEF Arrive, SetState, Settled, SettledStay
  <2> QED
    BY <1>2, <2>1, AdvanceKeepsContiguous DEF Arrive
<1>3. ASSUME NEW s \in Sources, LeaseExpires(s) PROVE CursorContiguous'
  <2>1. SettledStay
    BY <1>3 DEF LeaseExpires, Settled, SettledStay, Base, TypeOK
  <2> QED
    BY <1>3, <2>1, AdvanceKeepsContiguous DEF LeaseExpires
<1>4. ASSUME NEW s \in Sources, TtlPasses(s) \/ ReviewLapses(s) PROVE CursorContiguous'
  BY <1>1, <1>4 DEF TtlPasses, ReviewLapses
<1>5. ASSUME NEW p \in Processes, Fail(p) PROVE CursorContiguous'
  BY <1>1, <1>5 DEF Fail, data
<1>6. ASSUME NEW w \in Workers, Work(w) PROVE CursorContiguous'
  <2>1. CASE Drop(w) \/ (\E f \in Facts : Remember(w, f)) \/ Accept(w) \/ Hold(w)
             \/ Acknowledge(w) \/ PersistAccepted(w)
    BY <1>1, <2>1 DEF Drop, Remember, Accept, Hold, Acknowledge, PersistAccepted, Read, data
  <2>2. CASE Suspend(w)
    <3>1. CASE UNCHANGED outbox
      BY <1>1, <2>2, <3>1 DEF Suspend
    <3>2. CASE SetState({job[w].s}, "Completed")
      BY <2>2, <3>2, SettlingKeepsContiguous DEF Suspend
    <3> QED
      BY <2>2, <3>1, <3>2 DEF Suspend
  <2>3. CASE Complete(w)
    BY <2>3, SettlingKeepsContiguous DEF Complete
  <2> QED
    BY <1>6, <2>1, <2>2, <2>3, ClaimKeepsContiguous DEF Work
<1>7. ASSUME NEW u \in Users, UserStep(u) PROVE CursorContiguous'
  <2>1. CASE \/ \E s \in Sources, f \in Facts : BeginApprove(u, s, f)
             \/ Approve(u)
             \/ \E s \in Sources : BeginReject(u, s)
             \/ \E f \in Facts, F \in SUBSET Facts : BeginForget(u, f, F)
    BY <1>1, <2>1 DEF BeginApprove, Approve, BeginReject, BeginForget, Read, data
  <2>2. CASE Reject(u)
    BY <2>2, TombstoneKeepsContiguous DEF Reject
  <2>3. CASE Forget(u)
    BY <2>3, ArchiveKeepsContiguous DEF Forget
  <2> QED
    BY <1>7, <2>1, <2>2, <2>3 DEF UserStep
<1>8. ASSUME Sweep PROVE CursorContiguous'
  <2>1. CASE BeginSweep \/ BeginPurge
    BY <1>1, <2>1 DEF BeginSweep, BeginPurge, Read, data
  <2>2. CASE ExpireReviews
    BY <2>2, TombstoneKeepsContiguous DEF ExpireReviews
  <2>3. CASE ArchiveWithoutSource
    BY <2>3, ArchiveKeepsContiguous DEF ArchiveWithoutSource
  <2>4. CASE Purge
    BY <2>4, TombstoneKeepsContiguous DEF Purge
  <2> QED
    BY <1>8, <2>1, <2>2, <2>3, <2>4 DEF Sweep
<1>9. CASE BeginRecover \/ UNCHANGED vars
  BY <1>1, <1>9 DEF BeginRecover, vars, data
<1> QED
  BY <1>2, <1>3, <1>4, <1>5, <1>6, <1>7, <1>8, <1>9, RequeueKeepsContiguous DEF Next

\* No source that still has to be processed is ever behind the cursor, where no
\* claim looks: not after repaired leases, completions and tombstones out of
\* order, held candidates, or a recovery.
THEOREM CursorNeverPasses == Spec => []CursorContiguous
<1>1. Init => CursorContiguous
  BY DEF Init, CursorContiguous
<1> QED
  BY <1>1, AlwaysBase, NextKeepsContiguous, PTL DEF Spec

-------------------------------------------------------------------------------
(* References of memories in use *)

\* A link is to a memory that exists: a new memory has no old links that its
\* sources' references would have to match.
LinkedExist == \A l \in links : memory[l[2]] # "None"

Referenced == ActiveIsReferenced /\ LinkedExist

LEMMA ReleaseKeepsReferenced ==
  ASSUME Base, Referenced, NEW S, Release(S \X {Candidate}), UNCHANGED <<memory, links>>
  PROVE  Referenced'
<1>1. \A s \in Sources, f \in Facts : f \in refs[s] => f \in refs'[s]
  BY ConstantsAssumption DEF Release
<1>2. \A l \in links : l[1] \in Sources /\ l[2] \in Facts
  BY DEF Base, TypeOK
<1> QED
  BY <1>1, <1>2 DEF Referenced, ActiveIsReferenced, LinkedExist

\* Archiving releases only references of the memories it archives.
LEMMA ArchiveKeepsReferenced ==
  ASSUME Base, Referenced, NEW F, NEW L, Archive(F, L), \A l \in L : l[2] \in F,
         UNCHANGED links
  PROVE  Referenced'
<1>1. \A l \in links : l[1] \in Sources /\ l[2] \in Facts
  BY DEF Base, TypeOK
<1>2. \A f \in Facts : memory'[f] = IF f \in F THEN "Archived" ELSE memory[f]
  BY DEF Archive
<1>3. \A s \in Sources, r \in Facts : r \in refs[s] /\ r \notin F => r \in refs'[s]
  BY DEF Archive, Release
<1> QED
  BY <1>1, <1>2, <1>3 DEF Referenced, ActiveIsReferenced, LinkedExist

\* A memory is stored with its link and its reference; the links of a memory
\* that was found are referenced already, and a new one has none.
LEMMA PersistKeepsReferenced ==
  ASSUME Base, Referenced, NEW s \in Sources, NEW f \in Facts, NEW exact, NEW kept,
         NEW gone \in SUBSET {Candidate}, Persist(s, f, exact, kept, gone),
         ~Collides(f, exact), exact => memory[f] # "None"
  PROVE  Referenced'
<1>1. \A l \in links : l[1] \in Sources /\ l[2] \in Facts
  BY DEF Base, TypeOK
<1>2. /\ links' = links \union {<<s, f>>}
      /\ memory' = IF exact THEN memory ELSE [memory EXCEPT ![f] = "Active"]
      /\ refs' = [refs EXCEPT ![s] = (@ \union {f}) \ gone]
  BY DEF Persist
<1>3. \A t \in Sources, r \in Facts : r \in refs[t] => r \in refs'[t]
  BY <1>2, ConstantsAssumption DEF Base, TypeOK
<1>4. f \in refs'[s] /\ memory'[f] # "None"
  BY <1>2, ConstantsAssumption DEF Base, TypeOK
<1>5. \A l \in links : memory'[l[2]] = memory[l[2]]
  <2> TAKE l \in links
  <2>1. CASE exact
    BY <1>2, <2>1
  <2>2. CASE ~exact
    <3>1. memory[f] = "None"
      BY <2>2 DEF Collides
    <3>2. l[2] # f
      BY <3>1 DEF Referenced, LinkedExist
    <3> QED
      BY <1>1, <1>2, <2>2, <3>2 DEF Base, TypeOK
  <2> QED
    BY <2>1, <2>2
<1>6. ASSUME NEW l \in links'
      PROVE  memory'[l[2]] # "None" /\ (memory'[l[2]] = "Active" => l[2] \in refs'[l[1]])
  <2>1. CASE l \in links
    BY <1>1, <1>3, <1>5, <2>1 DEF Referenced, ActiveIsReferenced, LinkedExist
  <2>2. CASE l = <<s, f>>
    BY <1>4, <2>2
  <2> QED
    BY <1>2, <2>1, <2>2
<1> QED
  BY <1>6 DEF Referenced, ActiveIsReferenced, LinkedExist

LEMMA NextKeepsReferenced == Base /\ Referenced /\ [Next]_vars => Referenced'
<1> SUFFICES ASSUME Base, Referenced, [Next]_vars PROVE Referenced'
  OBVIOUS
<1>1. ASSUME UNCHANGED <<memory, links, refs>> PROVE Referenced'
  BY <1>1 DEF Referenced, ActiveIsReferenced, LinkedExist
<1>2. ASSUME NEW s \in Sources,
             \/ \E text \in Texts : Arrive(s, text)
             \/ TtlPasses(s) \/ ReviewLapses(s) \/ LeaseExpires(s)
      PROVE  Referenced'
  BY <1>1, <1>2 DEF Arrive, TtlPasses, ReviewLapses, LeaseExpires
<1>3. ASSUME NEW p \in Processes, Fail(p) PROVE Referenced'
  BY <1>1, <1>3 DEF Fail, data
<1>4. ASSUME NEW w \in Workers, Work(w) PROVE Referenced'
  <2>1. CASE \/ ClaimNext(w) \/ Drop(w) \/ (\E f \in Facts : Remember(w, f))
             \/ Accept(w) \/ Hold(w) \/ Acknowledge(w) \/ Complete(w)
    BY <1>1, <2>1
       DEF ClaimNext, Drop, Remember, Accept, Hold, Acknowledge, Complete, Read, data
  <2>2. CASE PersistAccepted(w)
    <3>1. CASE UNCHANGED <<memory, links, refs>>
      BY <1>1, <3>1
    <3>2. CASE ~Collides(job[w].first, job[w].exact)
      <4>1. /\ job[w].s \in Sources /\ job[w].first \in Facts
            /\ job[w].exact => memory[job[w].first] # "None"
        BY <2>2 DEF Base, Processes, JobsRemember, JobRemembers, PersistAccepted, At
      <4> QED
        BY <2>2, <3>2, <4>1, PersistKeepsReferenced DEF PersistAccepted
    <3> QED
      BY <2>2, <3>1, <3>2 DEF PersistAccepted
  <2>3. CASE Suspend(w)
    <3>1. UNCHANGED <<memory, links>>
      BY <2>3 DEF Suspend
    <3>2. \A s \in Sources, f \in Facts : f \in refs[s] => f \in refs'[s]
      BY <2>3 DEF Suspend, Base, TypeOK
    <3>3. \A l \in links : l[1] \in Sources /\ l[2] \in Facts
      BY DEF Base, TypeOK
    <3> QED
      BY <3>1, <3>2, <3>3 DEF Referenced, ActiveIsReferenced, LinkedExist
  <2> QED
    BY <1>4, <2>1, <2>2, <2>3 DEF Work
<1>5. ASSUME NEW u \in Users, UserStep(u) PROVE Referenced'
  <2>1. CASE \/ \E s \in Sources, f \in Facts : BeginApprove(u, s, f)
             \/ \E s \in Sources : BeginReject(u, s)
             \/ \E f \in Facts, F \in SUBSET Facts : BeginForget(u, f, F)
    BY <1>1, <2>1 DEF BeginApprove, BeginReject, BeginForget, Read, data
  <2>2. CASE Approve(u)
    <3>1. CASE UNCHANGED <<memory, links, refs>>
      BY <1>1, <3>1
    <3>2. CASE ~Collides(job[u].first, job[u].exact)
      <4>1. /\ job[u].s \in Sources /\ job[u].first \in Facts
            /\ job[u].exact => memory[job[u].first] # "None"
        BY <2>2 DEF Base, Processes, JobsRemember, JobRemembers, Approve, At
      <4> QED
        BY <2>2, <3>2, <4>1, PersistKeepsReferenced DEF Approve
    <3> QED
      BY <2>2, <3>1, <3>2 DEF Approve
  <2>3. CASE Reject(u)
    <3>1. {<<job[u].s, Candidate>>} = {job[u].s} \X {Candidate}
      OBVIOUS
    <3> QED
      BY <2>3, <3>1, ReleaseKeepsReferenced DEF Reject
  <2>4. CASE Forget(u)
    <3> DEFINE j == job[u]
               L == (j.todo \X {j.first}) \union {l \in links : l[2] \in j.facts \ {j.first}}
    <3>1. j.first \in j.facts
      BY <2>4 DEF Base, Processes, JobsRemember, JobRemembers, Forget, At
    <3>2. \A l \in L : l[2] \in j.facts
      BY <3>1
    <3>3. Archive(j.facts, L) /\ UNCHANGED links
      BY <2>4 DEF Forget
    <3> HIDE DEF L
    <3> QED
      BY <3>2, <3>3, ArchiveKeepsReferenced
  <2> QED
    BY <1>5, <2>1, <2>2, <2>3, <2>4 DEF UserStep
<1>6. ASSUME Sweep PROVE Referenced'
  <2>1. CASE BeginSweep \/ BeginPurge \/ Purge
    BY <1>1, <2>1 DEF BeginSweep, BeginPurge, Purge, Read, data
  <2>2. CASE ExpireReviews
    BY <2>2, ReleaseKeepsReferenced DEF ExpireReviews
  <2>3. CASE ArchiveWithoutSource
    <3> DEFINE F == {f \in ActiveFacts : Orphaned(f)}
               L == {l \in links : l[2] \in F}
    <3>1. Archive(F, L) /\ UNCHANGED links
      BY <2>3 DEF ArchiveWithoutSource
    <3>2. \A l \in L : l[2] \in F
      OBVIOUS
    <3> HIDE DEF F, L
    <3> QED
      BY <3>1, <3>2, ArchiveKeepsReferenced
  <2> QED
    BY <1>6, <2>1, <2>2, <2>3 DEF Sweep
<1>7. CASE BeginRecover \/ Requeue \/ UNCHANGED vars
  BY <1>1, <1>7 DEF BeginRecover, Requeue, vars, data
<1> QED
  BY <1>2, <1>3, <1>4, <1>5, <1>6, <1>7 DEF Next

\* An active memory holds a reference on each of its sources, whatever the
\* worker, the users' decisions and deletions, and retention do in between.
THEOREM ActiveMemoriesAreReferenced == Spec => []ActiveIsReferenced
<1>1. Init => Referenced
  BY DEF Init, Referenced, ActiveIsReferenced, LinkedExist
<1>2. Referenced => ActiveIsReferenced
  BY DEF Referenced
<1> QED
  BY <1>1, <1>2, AlwaysBase, NextKeepsReferenced, PTL DEF Spec

-------------------------------------------------------------------------------
(* Deletions stay *)

\* A deleted memory's text stays taken, so nothing distils it again.
THEOREM DeletedMemoriesStayDeleted == Spec => ForgottenForGood
<1>1. ASSUME Base, [Next]_vars, NEW f \in Facts, memory[f] = "Archived"
      PROVE  memory'[f] = "Archived"
  <2>1. CASE UNCHANGED memory
    BY <1>1, <2>1
  <2>2. ASSUME NEW F, NEW L, Archive(F, L) PROVE memory'[f] = "Archived"
    BY <1>1, <2>2 DEF Archive
  <2>3. ASSUME NEW s, NEW g \in Facts, NEW exact, NEW kept, NEW gone,
               Persist(s, g, exact, kept, gone), ~Collides(g, exact)
        PROVE  memory'[f] = "Archived"
    BY <1>1, <2>3 DEF Persist, Collides, Base, TypeOK
  <2>4. ASSUME NEW w \in Workers, Work(w) PROVE memory'[f] = "Archived"
    <3>1. CASE PersistAccepted(w)
      <4>1. job[w].first \in Facts
        BY <1>1, <3>1 DEF Base, Processes, JobsRemember, JobRemembers, PersistAccepted, At
      <4> QED
        BY <2>1, <2>3, <3>1, <4>1 DEF PersistAccepted
    <3>2. CASE ~PersistAccepted(w)
      BY <2>1, <2>4, <3>2
         DEF Work, ClaimNext, Drop, Remember, Accept, Hold, Suspend, Acknowledge, Complete,
             Read, data
    <3> QED
      BY <3>1, <3>2
  <2>5. ASSUME NEW u \in Users, UserStep(u) PROVE memory'[f] = "Archived"
    <3>1. CASE Approve(u)
      <4>1. job[u].first \in Facts
        BY <1>1, <3>1 DEF Base, Processes, JobsRemember, JobRemembers, Approve, At
      <4> QED
        BY <2>1, <2>3, <3>1, <4>1 DEF Approve
    <3>2. CASE ~Approve(u)
      BY <2>1, <2>2, <2>5, <3>2
         DEF UserStep, BeginApprove, BeginReject, Reject, BeginForget, Forget, Read, data
    <3> QED
      BY <3>1, <3>2
  <2>6. ASSUME Sweep PROVE memory'[f] = "Archived"
    BY <2>1, <2>2, <2>6
       DEF Sweep, BeginSweep, ExpireReviews, ArchiveWithoutSource, BeginPurge, Purge, Read,
           data
  <2>7. CASE \/ \E s \in Sources, text \in Texts : Arrive(s, text)
             \/ \E s \in Sources : TtlPasses(s) \/ ReviewLapses(s) \/ LeaseExpires(s)
             \/ \E p \in Processes : Fail(p)
             \/ BeginRecover \/ Requeue \/ UNCHANGED vars
    BY <2>1, <2>7
       DEF Arrive, TtlPasses, ReviewLapses, LeaseExpires, Fail, BeginRecover, Requeue, vars,
           data
  <2> QED
    BY <1>1, <2>4, <2>5, <2>6, <2>7 DEF Next
<1>2. Base /\ [Next]_vars
        => [\A f \in Facts : memory[f] = "Archived" => memory'[f] = "Archived"]_vars
  BY <1>1
<1> QED
  BY <1>2, AlwaysBase, PTL DEF Spec, ForgottenForGood

-------------------------------------------------------------------------------
(* References of review candidates *)

\* The reference and the review of s change together, or not at all.
InStep(s) ==
  \/ /\ review'[s].status = review[s].status
     /\ Candidate \in refs'[s] <=> Candidate \in refs[s]
  \/ review'[s].status = "PendingReview" <=> Candidate \in refs'[s]

LEMMA ReviewKeepsCandidates ==
  ASSUME CandidateIsReferenced, \A s \in Sources : InStep(s)
  PROVE  CandidateIsReferenced'
BY DEF CandidateIsReferenced, InStep

\* Memories' references come and go without a candidate's.
LEMMA PersistKeepsCandidates ==
  ASSUME Base, NEW s \in Sources, NEW f \in Facts, NEW exact, NEW kept, NEW gone,
         Persist(s, f, exact, kept, gone)
  PROVE  /\ \A t \in Sources \ {s} : refs'[t] = refs[t]
         /\ Candidate \in refs'[s] <=> Candidate \in refs[s] \ gone
BY ConstantsAssumption DEF Persist, Base, TypeOK

LEMMA ReleaseKeepsCandidates ==
  ASSUME CandidateIsReferenced, NEW R, Release(R), UNCHANGED review,
         \A s \in Sources : <<s, Candidate>> \notin R
  PROVE  CandidateIsReferenced'
<1>1. \A s \in Sources : Candidate \in refs'[s] <=> Candidate \in refs[s]
  BY DEF Release
<1> QED
  BY <1>1 DEF CandidateIsReferenced

LEMMA DecisionsRelease ==
  ASSUME CandidateIsReferenced, NEW S, Release(S \X {Candidate}),
         \A s \in Sources \ S : review'[s] = review[s],
         \A s \in Sources \intersect S : review'[s].status # "PendingReview"
  PROVE  CandidateIsReferenced'
<1>1. \A s \in Sources \ S : Candidate \in refs'[s] <=> Candidate \in refs[s]
  BY DEF Release
<1>2. \A s \in Sources \intersect S : Candidate \notin refs'[s]
  BY DEF Release
<1> QED
  BY <1>1, <1>2, ReviewKeepsCandidates DEF InStep

LEMMA NextKeepsCandidates ==
  Base /\ CandidateIsReferenced /\ [Next]_vars => CandidateIsReferenced'
<1> SUFFICES ASSUME Base, CandidateIsReferenced, [Next]_vars PROVE CandidateIsReferenced'
  OBVIOUS
<1>1. ASSUME UNCHANGED <<refs, review>> PROVE CandidateIsReferenced'
  BY <1>1 DEF CandidateIsReferenced
<1>2. ASSUME NEW s \in Sources,
             \/ \E text \in Texts : Arrive(s, text)
             \/ TtlPasses(s) \/ LeaseExpires(s)
      PROVE  CandidateIsReferenced'
  BY <1>1, <1>2 DEF Arrive, TtlPasses, LeaseExpires
<1>3. ASSUME NEW s \in Sources, ReviewLapses(s) PROVE CandidateIsReferenced'
  <2>1. \A t \in Sources : review'[t].status = review[t].status /\ refs'[t] = refs[t]
    BY <1>3 DEF ReviewLapses, Base, TypeOK
  <2> QED
    BY <2>1, ReviewKeepsCandidates DEF InStep
<1>4. ASSUME NEW p \in Processes, Fail(p) PROVE CandidateIsReferenced'
  BY <1>1, <1>4 DEF Fail, data
<1>5. ASSUME NEW w \in Workers, Work(w) PROVE CandidateIsReferenced'
  <2>1. CASE \/ ClaimNext(w) \/ Drop(w) \/ (\E f \in Facts : Remember(w, f))
             \/ Accept(w) \/ Hold(w) \/ Acknowledge(w) \/ Complete(w)
    BY <1>1, <2>1
       DEF ClaimNext, Drop, Remember, Accept, Hold, Acknowledge, Complete, Read, data
  <2>2. CASE PersistAccepted(w)
    <3>1. CASE UNCHANGED refs
      BY <1>1, <2>2, <3>1 DEF PersistAccepted
    <3>2. CASE Persist(job[w].s, job[w].first, job[w].exact, job[w].kept, {})
      <4>1. job[w].s \in Sources /\ job[w].first \in Facts
        BY <2>2 DEF Base, Processes, JobsRemember, JobRemembers, PersistAccepted, At
      <4>2. \A t \in Sources : Candidate \in refs'[t] <=> Candidate \in refs[t]
        BY <3>2, <4>1, PersistKeepsCandidates
      <4> QED
        BY <2>2, <4>2 DEF PersistAccepted, CandidateIsReferenced
    <3> QED
      BY <2>2, <3>1, <3>2 DEF PersistAccepted
  <2>3. CASE Suspend(w)
    <3>1. job[w].s \in Sources
      BY <2>3 DEF Base, Processes, JobsRemember, JobRemembers, Suspend, At
    <3>2. CASE UNCHANGED <<refs, review>>
      BY <1>1, <3>2
    <3>3. CASE /\ review' = [review EXCEPT ![job[w].s] =
                               [status |-> "PendingReview", due |-> FALSE]]
               /\ refs' = [refs EXCEPT ![job[w].s] = @ \union {Candidate}]
      <4>1. /\ review'[job[w].s].status = "PendingReview" /\ Candidate \in refs'[job[w].s]
            /\ \A s \in Sources \ {job[w].s} : review'[s] = review[s] /\ refs'[s] = refs[s]
        BY <3>1, <3>3 DEF Base, TypeOK
      <4> QED
        BY <4>1, ReviewKeepsCandidates DEF InStep
    <3> QED
      BY <2>3, <3>2, <3>3 DEF Suspend
  <2> QED
    BY <1>5, <2>1, <2>2, <2>3 DEF Work
<1>6. ASSUME NEW u \in Users, UserStep(u) PROVE CandidateIsReferenced'
  <2>1. CASE \/ \E s \in Sources, f \in Facts : BeginApprove(u, s, f)
             \/ \E s \in Sources : BeginReject(u, s)
             \/ \E f \in Facts, F \in SUBSET Facts : BeginForget(u, f, F)
    BY <1>1, <2>1 DEF BeginApprove, BeginReject, BeginForget, Read, data
  <2>2. CASE Approve(u)
    <3>1. job[u].s \in Sources /\ job[u].first \in Facts
      BY <2>2 DEF Base, Processes, JobsRemember, JobRemembers, Approve, At
    <3>2. CASE UNCHANGED <<refs, review>>
      BY <1>1, <3>2
    <3>3. CASE /\ Persist(job[u].s, job[u].first, job[u].exact, job[u].kept, {Candidate})
               /\ review' = [review EXCEPT ![job[u].s] = Decided(@, "Approved")]
      <4>1. /\ \A t \in Sources \ {job[u].s} : refs'[t] = refs[t]
            /\ Candidate \notin refs'[job[u].s]
        BY <3>1, <3>3, PersistKeepsCandidates
      <4>2. /\ review'[job[u].s].status = "Approved"
            /\ \A s \in Sources \ {job[u].s} : review'[s] = review[s]
        BY <3>1, <3>3 DEF Decided, Base, TypeOK
      <4> QED
        BY <4>1, <4>2, ReviewKeepsCandidates DEF InStep
    <3> QED
      BY <2>2, <3>2, <3>3 DEF Approve
  <2>3. CASE Reject(u)
    <3>1. job[u].s \in Sources
      BY <2>3 DEF Base, Processes, JobsRemember, JobRemembers, Reject, At
    <3>2. {<<job[u].s, Candidate>>} = {job[u].s} \X {Candidate}
      OBVIOUS
    <3>3. /\ review'[job[u].s].status = "Rejected"
          /\ \A s \in Sources \ {job[u].s} : review'[s] = review[s]
      BY <2>3, <3>1 DEF Reject, Decided, Base, TypeOK
    <3> QED
      BY <2>3, <3>2, <3>3, DecisionsRelease DEF Reject
  <2>4. CASE Forget(u)
    <3> DEFINE j == job[u]
               L == (j.todo \X {j.first}) \union {l \in links : l[2] \in j.facts \ {j.first}}
    <3>1. j.first \in Facts
      BY <2>4 DEF Base, Processes, JobsRemember, JobRemembers, Forget, At
    <3>2. \A l \in L : l[2] \in Facts
      BY <3>1 DEF Base, TypeOK
    <3>3. Release(L) /\ UNCHANGED review
      BY <2>4 DEF Forget, Archive
    <3> HIDE DEF L
    <3> QED
      BY <3>2, <3>3, ReleaseKeepsCandidates, ConstantsAssumption
  <2> QED
    BY <1>6, <2>1, <2>2, <2>3, <2>4 DEF UserStep
<1>7. ASSUME Sweep PROVE CandidateIsReferenced'
  <2>1. CASE BeginSweep \/ BeginPurge \/ Purge
    BY <1>1, <2>1 DEF BeginSweep, BeginPurge, Purge, Read, data
  <2>2. CASE ExpireReviews
    <3>1. /\ \A s \in Sources \ job[Sweeper].todo : review'[s] = review[s]
          /\ \A s \in Sources \intersect job[Sweeper].todo : review'[s].status = "Expired"
      BY <2>2 DEF ExpireReviews, Decided
    <3> QED
      BY <2>2, <3>1, DecisionsRelease DEF ExpireReviews
  <2>3. CASE ArchiveWithoutSource
    <3> DEFINE L == {l \in links : l[2] \in {f \in ActiveFacts : Orphaned(f)}}
    <3>1. Release(L) /\ UNCHANGED review
      BY <2>3 DEF ArchiveWithoutSource, Archive
    <3>2. \A l \in L : l[2] \in Facts
      BY DEF Base, TypeOK
    <3> HIDE DEF L
    <3> QED
      BY <3>1, <3>2, ReleaseKeepsCandidates, ConstantsAssumption
  <2> QED
    BY <1>7, <2>1, <2>2, <2>3 DEF Sweep
<1>8. CASE BeginRecover \/ Requeue \/ UNCHANGED vars
  BY <1>1, <1>8 DEF BeginRecover, Requeue, vars, data
<1> QED
  BY <1>2, <1>3, <1>4, <1>5, <1>6, <1>7, <1>8 DEF Next

\* A source is kept for its review as long as the review is open, and no longer,
\* whoever decides it, whatever expires, and although decisions are not serial.
THEOREM CandidatesAreReferenced == Spec => []CandidateIsReferenced
<1>1. Init => CandidateIsReferenced
  BY DEF Init, CandidateIsReferenced
<1> QED
  BY <1>1, AlwaysBase, NextKeepsCandidates, PTL DEF Spec

-------------------------------------------------------------------------------
(* Leases, when the model answers in time *)

\* A worker works on a source that it claimed.
WorkSteps == {"classify", "accept", "persist", "hold", "suspend", "ack", "complete"}
Holds(w, s) == job[w].step \in WorkSteps /\ job[w].s = s
IsTombstone(s) == outbox[s].state = "Tombstone"

\* It still has the claim, unless the source was disposed of meanwhile.
ClaimsLast ==
  \A w \in Workers, s \in Sources : Holds(w, s) => ClaimValid(w, s) \/ IsTombstone(s)
OneHolder ==
  \A v, w \in Workers : \A s \in Sources : Holds(v, s) /\ Holds(w, s) => v = w

\* What the operator's script selected is settled, and nobody works on it.
RequeuedAreFree ==
  At(Operator, "requeue") =>
    \A s \in job[Operator].todo : Settled(outbox[s]) /\ \A w \in Workers : ~Holds(w, s)

Leases == ClaimsLast /\ OneHolder /\ RequeuedAreFree

LEMMA HeldIsSource ==
  ASSUME Base, NEW p \in Processes, job[p].step \in WorkSteps
  PROVE  job[p].s \in Sources
BY DEF Base, JobsRemember, JobRemembers, WorkSteps

\* A step by which no worker comes to hold a source, and which only disposes of
\* sources that are held.
LEMMA LeasesStay ==
  ASSUME Base, Leases,
         \A w \in Workers, s \in Sources : Holds(w, s)' =>
           Holds(w, s) /\ (outbox'[s] = outbox[s] \/ IsTombstone(s)'),
         At(Operator, "requeue")' =>
           /\ job'[Operator] = job[Operator]
           /\ \A s \in job[Operator].todo : Settled(outbox'[s])
  PROVE  Leases'
<1>1. ClaimsLast'
  BY DEF Leases, ClaimsLast, ClaimValid, Owns, IsTombstone
<1>2. OneHolder'
  BY DEF Leases, OneHolder
<1>3. RequeuedAreFree'
  <2> SUFFICES ASSUME At(Operator, "requeue")', NEW s \in job'[Operator].todo
               PROVE  Settled(outbox'[s]) /\ \A w \in Workers : ~Holds(w, s)'
    BY DEF RequeuedAreFree
  <2>1. job'[Operator] = job[Operator] /\ At(Operator, "requeue") /\ s \in job[Operator].todo
    BY DEF At
  <2>2. s \in Sources
    BY <2>1 DEF Base, TypeOK, Processes, Job
  <2> QED
    BY <2>1, <2>2 DEF Leases, RequeuedAreFree
<1> QED
  BY <1>1, <1>2, <1>3 DEF Leases

\* A process goes on with what it holds, or with no source of the outbox.
LEMMA MovesOn ==
  ASSUME Base, Leases, NEW p \in Processes, NEW j, Become(p, j), j.step # "requeue",
         j.step \in WorkSteps => Holds(p, j.s),
         \A s \in Sources : outbox'[s] = outbox[s] \/ IsTombstone(s)'
  PROVE  Leases'
<1>1. job'[p] = j /\ \A q \in Processes \ {p} : job'[q] = job[q]
  BY DEF Base, TypeOK, Become
<1>2. \A q \in Processes, s \in Sources : Holds(q, s)' => Holds(q, s)
  BY <1>1 DEF Holds
<1>3. At(Operator, "requeue")' => job'[Operator] = job[Operator] /\ At(Operator, "requeue")
  BY <1>1 DEF At, Processes
<1>4. At(Operator, "requeue") => \A s \in job[Operator].todo : s \in Sources /\ Settled(outbox'[s])
  <2>1. job[Operator].todo \subseteq Sources
    BY DEF Base, TypeOK, Processes, Job
  <2> QED
    BY <2>1 DEF Leases, RequeuedAreFree, Settled, IsTombstone
<1> QED
  BY <1>2, <1>3, <1>4, LeasesStay DEF Processes

\* It is done with what it holds.
LEMMA CompletesHeld ==
  ASSUME Base, Leases, NEW w \in Workers, NEW s \in Sources, Holds(w, s), Become(w, Idle),
         SetState({s}, "Completed")
  PROVE  Leases'
<1>1. job'[w] = Idle /\ \A q \in Processes \ {w} : job'[q] = job[q]
  BY DEF Base, TypeOK, Become, Processes
<1>2. Idle.step = "idle"
  BY DEF Idle, OnSource, OnRows
<1>3. \A v \in Workers : Holds(v, s)' => FALSE
  BY <1>1, <1>2 DEF Holds, Leases, OneHolder, Processes, WorkSteps
<1>4. \A v \in Workers, t \in Sources : Holds(v, t)' => Holds(v, t) /\ outbox'[t] = outbox[t]
  BY <1>1, <1>2, <1>3 DEF Holds, Processes, WorkSteps, SetState
<1>5. At(Operator, "requeue")' => job'[Operator] = job[Operator] /\ At(Operator, "requeue")
  BY <1>1, <1>2 DEF At, Processes
<1>6. \A t \in Sources : Settled(outbox[t]) => Settled(outbox'[t])
  BY DEF SetState, Settled, Row
<1>7. At(Operator, "requeue") => \A t \in job[Operator].todo : t \in Sources /\ Settled(outbox[t])
  BY DEF Base, TypeOK, Processes, Job, Leases, RequeuedAreFree
<1> QED
  BY <1>4, <1>5, <1>6, <1>7, LeasesStay

\* A claim is for a row that is pending, which nobody holds.
LEMMA ClaimNextLeases ==
  ASSUME Base, Leases, NEW w \in Workers, ClaimNext(w)
  PROVE  Leases'
<1> DEFINE c == Advance(cursor, Repaired)
           pending == {s \in Sources : s > c /\ Repaired[s].state = "Pending"}
           j(s) == IF HasContent(s)
                   THEN OnRows("classify", s, FactsOf(s), Candidate, {})
                   ELSE OnSource("ack", s)
<1>1. Repaired \in [Sources -> Outbox] /\ w \in Processes
  BY RowsAreTyped, RepairedType DEF Base, Processes
<1>2. \A t \in Sources : \A v \in Workers : Holds(v, t) => Repaired[t] = outbox[t]
  BY DEF Repaired, Leases, ClaimsLast, ClaimValid, IsTombstone
<1>3. At(Operator, "requeue") =>
        \A t \in job[Operator].todo : t \in Sources /\ Settled(outbox[t]) /\ Repaired[t] = outbox[t]
  BY DEF Repaired, Base, TypeOK, Processes, Job, Leases, RequeuedAreFree, Settled
<1>4. CASE pending = {}
  <2>1. outbox' = Repaired /\ UNCHANGED job
    BY <1>4 DEF ClaimNext
  <2> QED
    BY <1>2, <1>3, <2>1, LeasesStay DEF Holds, At
<1>5. CASE pending # {}
  <2>1. PICK s \in Sources : s = Smallest(pending) /\ s \in pending
    BY <1>5, EarliestIsSource
  <2>2. Repaired[s].state = "Pending"
    BY <2>1
  <2>3. /\ outbox' = [Repaired EXCEPT ![s] = [state |-> "Claimed", holder |-> w,
                                              late |-> FALSE]]
        /\ Become(w, j(s)) /\ At(w, "idle")
    BY <1>5, <2>1 DEF ClaimNext
  <2>4. j(s).step \in {"classify", "ack"} /\ j(s).s = s
    BY DEF OnRows, OnSource
  <2> HIDE DEF j, pending, c
  <2>5. \A v \in Workers : ~Holds(v, s)
    BY <1>2, <2>1, <2>2 DEF Leases, ClaimsLast, ClaimValid, Owns, IsTombstone
  <2>6. job'[w] = j(s) /\ \A q \in Processes \ {w} : job'[q] = job[q]
    BY <1>1, <2>3 DEF Base, TypeOK, Become
  <2>7. \A v \in Workers, t \in Sources :
          Holds(v, t)' => (v = w /\ t = s) \/ (v # w /\ t # s /\ Holds(v, t))
    BY <2>4, <2>5, <2>6 DEF Holds, Processes
  <2>8. ClaimValid(w, s)' /\ \A t \in Sources \ {s} : outbox'[t] = Repaired[t]
    BY <1>1, <2>1, <2>3 DEF ClaimValid, Owns
  <2>9. ClaimsLast'
    <3> SUFFICES ASSUME NEW v \in Workers, NEW t \in Sources, Holds(v, t)'
                 PROVE  ClaimValid(v, t)' \/ IsTombstone(t)'
      BY DEF ClaimsLast
    <3>1. CASE v = w /\ t = s
      BY <2>8, <3>1
    <3>2. CASE v # w /\ t # s /\ Holds(v, t)
      <4>1. outbox'[t] = outbox[t]
        BY <1>2, <2>8, <3>2
      <4> QED
        BY <3>2, <4>1 DEF Leases, ClaimsLast, ClaimValid, Owns, IsTombstone
    <3> QED
      BY <2>7, <3>1, <3>2
  <2>10. OneHolder'
    BY <2>7 DEF Leases, OneHolder
  <2>11. RequeuedAreFree'
    <3> SUFFICES ASSUME At(Operator, "requeue")', NEW t \in job'[Operator].todo
                 PROVE  Settled(outbox'[t]) /\ \A v \in Workers : ~Holds(v, t)'
      BY DEF RequeuedAreFree
    <3>1. At(Operator, "requeue") /\ t \in job[Operator].todo
      BY <2>4, <2>6 DEF At, Processes
    <3>2. t \in Sources /\ Settled(Repaired[t]) /\ \A v \in Workers : ~Holds(v, t)
      BY <1>3, <3>1 DEF Leases, RequeuedAreFree
    <3>3. t # s
      BY <2>2, <3>2 DEF Settled
    <3> QED
      BY <2>7, <2>8, <3>2, <3>3
  <2> QED
    BY <2>9, <2>10, <2>11 DEF Leases
<1> QED
  BY <1>4, <1>5

\* The steps of a worker between its claim and its last write.
LEMMA WorkLeases ==
  ASSUME Base, Leases, NEW w \in Workers, Work(w), ~ClaimNext(w)
  PROVE  Leases'
<1>1. w \in Processes /\ Idle.step = "idle" /\ \A s : OnSource("ack", s).step = "ack"
  BY DEF Processes, Idle, OnSource, OnRows
<1> DEFINE s == job[w].s
           Goes(j) == Become(w, j) /\ j.step # "requeue" /\ (j.step \in WorkSteps => j.s = s)
<1>2. \A step \in WorkSteps : At(w, step) => Holds(w, s) /\ s \in Sources
  BY <1>1, HeldIsSource DEF Holds, At
<1>3. ASSUME NEW j, Goes(j), UNCHANGED outbox, job[w].step \in WorkSteps PROVE Leases'
  BY <1>1, <1>3, MovesOn DEF Holds
<1>4. \A step, f, exact, kept :
        /\ OnFact(step, s, f, exact, kept).step = step
        /\ OnFact(step, s, f, exact, kept).s = s
  BY DEF OnFact
<1>5. \A step \in WorkSteps : OnSource(step, s).step = step /\ OnSource(step, s).s = s
  BY DEF OnSource, OnRows
<1>6. "requeue" \notin WorkSteps /\ "idle" \notin WorkSteps
      /\ {"ack", "complete", "accept", "persist", "hold", "suspend", "classify"} \subseteq WorkSteps
  BY DEF WorkSteps
<1>7. Become(w, Idle) => Goes(Idle)
  BY <1>1, <1>6
<1>8. \A step \in WorkSteps : Become(w, OnSource(step, s)) => Goes(OnSource(step, s))
  BY <1>5, <1>6
<1>9. \A step \in WorkSteps : \A f, exact, kept :
        Become(w, OnFact(step, s, f, exact, kept)) => Goes(OnFact(step, s, f, exact, kept))
  BY <1>4, <1>6
<1> HIDE DEF Goes
<1>10. CASE Drop(w)
  BY <1>3, <1>6, <1>8, <1>10 DEF Drop, data, At
<1>11. CASE \E f \in Facts : Remember(w, f)
  BY <1>3, <1>6, <1>9, <1>11 DEF Remember, data, At
<1>12. CASE Accept(w)
  BY <1>3, <1>6, <1>8, <1>9, <1>12 DEF Accept, Read, data, At
<1>13. CASE PersistAccepted(w)
  BY <1>3, <1>6, <1>7, <1>8, <1>13 DEF PersistAccepted, At
<1>14. CASE Hold(w)
  BY <1>3, <1>6, <1>7, <1>9, <1>14 DEF Hold, Read, data, At
<1>15. CASE Acknowledge(w)
  BY <1>3, <1>6, <1>7, <1>8, <1>15 DEF Acknowledge, Read, data, At
<1>16. CASE Suspend(w)
  <2>1. Holds(w, s) /\ s \in Sources /\ Become(w, Idle)
    BY <1>2, <1>6, <1>16 DEF Suspend
  <2>2. CASE UNCHANGED outbox
    BY <1>3, <1>7, <2>1, <2>2 DEF Holds
  <2>3. CASE SetState({s}, "Completed")
    BY <2>1, <2>3, CompletesHeld
  <2> QED
    BY <1>16, <2>2, <2>3 DEF Suspend
<1>17. CASE Complete(w)
  BY <1>2, <1>6, <1>17, CompletesHeld DEF Complete
<1> QED
  BY <1>10, <1>11, <1>12, <1>13, <1>14, <1>15, <1>16, <1>17 DEF Work

LEMMA NextKeepsLeases ==
  ASSUME ~SlowModel
  PROVE  Base /\ Leases /\ [Next]_vars => Leases'
<1> SUFFICES ASSUME Base, Leases, [Next]_vars PROVE Leases'
  OBVIOUS
<1>1. \A S : Tombstone(S) => \A s \in Sources : outbox'[s] = outbox[s] \/ IsTombstone(s)'
  BY DEF Tombstone, SetState, Row, IsTombstone
<1>2. ASSUME NEW p \in Processes, NEW j, Become(p, j), j.step \notin WorkSteps \union {"requeue"},
             UNCHANGED outbox \/ \E S : Tombstone(S)
      PROVE  Leases'
  BY <1>1, <1>2, MovesOn
<1>3. \A step, s, f, exact, kept : OnFact(step, s, f, exact, kept).step = step
  BY DEF OnFact
<1>4. \A step, s, F, f, S : OnRows(step, s, F, f, S).step = step
  BY DEF OnRows
<1>5. Idle.step = "idle" /\ \A step, s : OnSource(step, s).step = step
  BY <1>4 DEF Idle, OnSource
<1>6. ASSUME NEW s \in Sources, NEW text \in Texts, Arrive(s, text) PROVE Leases'
  <2>1. outbox[s].state = "Absent" /\ UNCHANGED job
        /\ \A t \in Sources \ {s} : outbox'[t] = outbox[t]
    BY <1>6 DEF Arrive, SetState
  <2>2. \A w \in Workers : ~Holds(w, s)
    BY <2>1 DEF Leases, ClaimsLast, ClaimValid, Owns, IsTombstone
  <2>3. At(Operator, "requeue") => \A t \in job[Operator].todo : Settled(outbox'[t])
    BY <2>1 DEF Leases, RequeuedAreFree, Settled, Base, TypeOK, Processes, Job
  <2> QED
    BY <2>1, <2>2, <2>3, LeasesStay DEF Holds, At
<1>7. ASSUME NEW s \in Sources, TtlPasses(s) \/ ReviewLapses(s) PROVE Leases'
  BY <1>7, LeasesStay DEF TtlPasses, ReviewLapses, Holds, At, Leases, RequeuedAreFree
<1>8. ASSUME NEW s \in Sources, LeaseExpires(s) PROVE Leases'
  <2>1. /\ outbox[s].state = "Claimed" /\ UNCHANGED job /\ \A w \in Workers : ~Holds(w, s)
        /\ \A t \in Sources \ {s} : outbox'[t] = outbox[t]
    BY <1>8 DEF LeaseExpires, Holds, Base, TypeOK
  <2>2. At(Operator, "requeue") => \A t \in job[Operator].todo : Settled(outbox'[t])
    BY <2>1 DEF Leases, RequeuedAreFree, Settled, Base, TypeOK, Processes, Job
  <2> QED
    BY <2>1, <2>2, LeasesStay DEF Holds, At
<1>9. ASSUME NEW p \in Processes, Fail(p) PROVE Leases'
  BY <1>2, <1>5, <1>9 DEF Fail, data, WorkSteps
<1>10. ASSUME NEW w \in Workers, Work(w) PROVE Leases'
  BY <1>10, ClaimNextLeases, WorkLeases
<1>11. ASSUME NEW u \in Users, UserStep(u) PROVE Leases'
  <2>1. u \in Processes
    BY DEF Processes
  <2>2. ASSUME NEW j, Become(u, j), j.step \in {"idle", "approve", "reject", "forget"},
               UNCHANGED outbox \/ \E S : Tombstone(S)
        PROVE  Leases'
    BY <1>2, <2>1, <2>2 DEF WorkSteps
  <2>3. CASE \E s \in Sources, f \in Facts : BeginApprove(u, s, f)
    BY <1>3, <2>2, <2>3 DEF BeginApprove, Read, data
  <2>4. CASE Approve(u)
    BY <1>5, <2>2, <2>4 DEF Approve
  <2>5. CASE \E s \in Sources : BeginReject(u, s)
    BY <1>5, <2>2, <2>5 DEF BeginReject, Read, data
  <2>6. CASE Reject(u)
    BY <1>5, <2>2, <2>6 DEF Reject
  <2>7. CASE \E f \in Facts, F \in SUBSET Facts : BeginForget(u, f, F)
    BY <1>4, <2>2, <2>7 DEF BeginForget, Read, data
  <2>8. CASE Forget(u)
    BY <1>5, <2>2, <2>8 DEF Forget, Archive
  <2> QED
    BY <1>11, <2>3, <2>4, <2>5, <2>6, <2>7, <2>8 DEF UserStep
<1>12. ASSUME Sweep PROVE Leases'
  <2>1. Sweeper \in Processes
    BY DEF Processes
  <2>2. ASSUME NEW j, Become(Sweeper, j), j.step \in {"idle", "expire", "archive", "purge", "erase"},
               UNCHANGED outbox \/ \E S : Tombstone(S)
        PROVE  Leases'
    BY <1>2, <2>1, <2>2 DEF WorkSteps
  <2>3. CASE BeginSweep
    BY <1>4, <2>2, <2>3 DEF BeginSweep, Read, data
  <2>4. CASE ExpireReviews
    BY <1>5, <2>2, <2>4 DEF ExpireReviews
  <2>5. CASE ArchiveWithoutSource
    BY <1>5, <2>2, <2>5 DEF ArchiveWithoutSource, Archive
  <2>6. CASE BeginPurge
    BY <1>4, <1>5, <2>2, <2>6 DEF BeginPurge, Read, data
  <2>7. CASE Purge
    BY <1>5, <2>2, <2>7 DEF Purge
  <2> QED
    BY <1>12, <2>3, <2>4, <2>5, <2>6, <2>7 DEF Sweep
\* What the script selects is completed, so nobody holds it.
<1>13. CASE BeginRecover
  <2> DEFINE S == {s \in Sources : Dropped(s)}
             j == OnRows("requeue", 0, {}, Candidate, S)
  <2>1. Become(Operator, j) /\ UNCHANGED outbox
    BY <1>13 DEF BeginRecover, data
  <2>2. j.step = "requeue" /\ j.todo = S
    BY DEF OnRows
  <2>3. \A s \in S : s \in Sources /\ outbox[s].state = "Completed"
    BY DEF Dropped
  <2> HIDE DEF j, S
  <2>4. /\ job'[Operator] = j
        /\ \A q \in Processes \ {Operator} : job'[q] = job[q]
    BY <2>1 DEF Base, TypeOK, Become, Processes
  <2>5. \A w \in Workers, s \in Sources : Holds(w, s)' => Holds(w, s)
    BY <2>2, <2>4 DEF Holds, WorkSteps, Processes
  <2>6. \A w \in Workers : \A s \in S : ~Holds(w, s)
    BY <2>3 DEF Leases, ClaimsLast, ClaimValid, Owns, IsTombstone
  <2>7. ClaimsLast'
    BY <2>1, <2>5 DEF Leases, ClaimsLast, ClaimValid, Owns, IsTombstone
  <2>8. OneHolder'
    BY <2>5 DEF Leases, OneHolder
  <2>9. RequeuedAreFree'
    BY <2>1, <2>2, <2>3, <2>4, <2>5, <2>6 DEF RequeuedAreFree, Settled
  <2> QED
    BY <2>7, <2>8, <2>9 DEF Leases
<1>14. CASE Requeue
  <2>1. /\ job'[Operator] = Idle
        /\ \A q \in Processes \ {Operator} : job'[q] = job[q]
    BY <1>14 DEF Requeue, Become, Base, TypeOK, Processes
  <2>2. \A w \in Workers, s \in Sources : Holds(w, s)' => Holds(w, s)
    BY <1>5, <2>1 DEF Holds, WorkSteps, Processes
  <2>3. \A w \in Workers, s \in Sources : Holds(w, s) => outbox'[s] = outbox[s]
    BY <1>14 DEF Requeue, SetState, Leases, RequeuedAreFree
  <2>4. ~At(Operator, "requeue")'
    BY <1>5, <2>1 DEF At
  <2> QED
    BY <2>2, <2>3, <2>4, LeasesStay
<1>15. CASE UNCHANGED vars
  BY <1>15, LeasesStay DEF vars, Holds, At, Leases, RequeuedAreFree
<1> QED
  BY <1>6, <1>7, <1>8, <1>9, <1>10, <1>11, <1>12, <1>13, <1>14, <1>15 DEF Next

-------------------------------------------------------------------------------
(* What the model wanted to remember *)

\* A memory or a review came out of s; or the verdict on it asks for none, or
\* its content is gone.
Stored(s) == (\E f \in Facts : s \in LinksOf(f)) \/ review[s].status # "Absent"
Answered(s) == wanted[s] /\ HasContent(s) => Stored(s)

\* A worker acknowledges what is answered, and what was disposed of.
Verdicts ==
  \A w \in Workers, s \in Sources : Holds(w, s) =>
    /\ At(w, "ack") => Answered(s) \/ IsTombstone(s)
    /\ At(w, "complete") => Answered(s)

\* What a step does to the evidence: links and reviews stay, lost content stays
\* lost, and a source that was disposed of is not claimed.
EvidenceStays(s) ==
  /\ Stored(s) => Stored(s)'
  /\ outbox[s].state # "Absent" /\ ~HasContent(s) => ~HasContent(s)'
  /\ IsTombstone(s) => outbox'[s].state # "Claimed"

LEMMA StoredStays ==
  ASSUME NEW s \in Sources, links \subseteq links',
         review[s].status # "Absent" => review'[s].status # "Absent"
  PROVE  Stored(s) => Stored(s)'
BY DEF Stored, LinksOf

LEMMA PersistEvidence ==
  ASSUME Base, NEW s \in Sources, NEW t \in Sources, NEW f \in Facts, NEW exact, NEW kept,
         NEW gone, Persist(t, f, exact, kept, gone)
  PROVE  /\ links \subseteq links' /\ <<t, f>> \in links'
         /\ source'[s].text = source[s].text
BY DEF Persist, Kept, Base, TypeOK, Source

LEMMA ReleaseEvidence ==
  ASSUME NEW s \in Sources, NEW R, Release(R)
  PROVE  source'[s].text = source[s].text
BY DEF Release, Transient

LEMMA TombstoneEvidence ==
  ASSUME NEW s \in Sources, NEW S, Tombstone(S)
  PROVE  outbox'[s] = outbox[s] \/ IsTombstone(s)'
BY DEF Tombstone, SetState, Row, IsTombstone

LEMMA WorkEvidence ==
  ASSUME Base, NEW w \in Workers, Work(w), NEW s \in Sources
  PROVE  EvidenceStays(s)
<1>1. ASSUME UNCHANGED <<source, links, review>>, IsTombstone(s) => outbox'[s].state # "Claimed"
      PROVE  EvidenceStays(s)
  BY <1>1, StoredStays DEF EvidenceStays, HasContent
<1>2. CASE ClaimNext(w)
  <2> DEFINE pending == {t \in Sources : t > Advance(cursor, Repaired)
                                         /\ Repaired[t].state = "Pending"}
  <2>1. Repaired \in [Sources -> Outbox]
    BY RowsAreTyped, RepairedType DEF Base
  <2>2. IsTombstone(s) => Repaired[s].state = "Tombstone"
    BY DEF IsTombstone, Repaired
  <2>3. CASE pending = {}
    BY <1>1, <1>2, <2>2, <2>3 DEF ClaimNext
  <2>4. CASE pending # {}
    <3>1. PICK t \in Sources : t = Smallest(pending) /\ t \in pending
      BY <2>4, EarliestIsSource
    <3>2. outbox' = [Repaired EXCEPT ![t] = [state |-> "Claimed", holder |-> w, late |-> FALSE]]
      BY <1>2, <2>4, <3>1 DEF ClaimNext
    <3>3. IsTombstone(s) => s # t
      BY <2>2, <3>1
    <3>4. IsTombstone(s) => outbox'[s].state # "Claimed"
      BY <2>1, <2>2, <3>2, <3>3
    <3> QED
      BY <1>1, <1>2, <3>4 DEF ClaimNext
  <2> QED
    BY <2>3, <2>4
<1>3. CASE PersistAccepted(w)
  <2>1. CASE UNCHANGED <<source, links>>
    BY <1>1, <1>3, <2>1 DEF PersistAccepted, IsTombstone
  <2>2. CASE Persist(job[w].s, job[w].first, job[w].exact, job[w].kept, {})
    <3>1. job[w].s \in Sources /\ job[w].first \in Facts
      BY <1>3 DEF Base, Processes, JobsRemember, JobRemembers, PersistAccepted, At
    <3>2. links \subseteq links' /\ source'[s].text = source[s].text
      BY <2>2, <3>1, PersistEvidence
    <3> QED
      BY <1>3, <3>2, StoredStays DEF PersistAccepted, EvidenceStays, HasContent, IsTombstone
  <2> QED
    BY <1>3, <2>1, <2>2 DEF PersistAccepted
<1>4. CASE Suspend(w)
  <2>1. links' = links /\ (review[s].status # "Absent" => review'[s].status # "Absent")
    BY <1>4 DEF Suspend, Base, TypeOK
  <2>2. source'[s].text = source[s].text
    BY <1>4 DEF Suspend, Kept, Base, TypeOK, Source
  <2>3. outbox'[s] = outbox[s] \/ outbox'[s].state = "Completed"
    BY <1>4 DEF Suspend, SetState, Row
  <2> QED
    BY <2>1, <2>2, <2>3, StoredStays DEF EvidenceStays, HasContent, IsTombstone
<1>5. CASE Complete(w)
  <2>1. outbox'[s] = outbox[s] \/ outbox'[s].state = "Completed"
    BY <1>5 DEF Complete, SetState, Row
  <2> QED
    BY <1>1, <1>5, <2>1 DEF Complete, IsTombstone
<1>6. CASE UNCHANGED data
  BY <1>1, <1>6 DEF data, IsTombstone
<1> QED
  BY <1>2, <1>3, <1>4, <1>5, <1>6, Work(w) DEF Work, Drop, Remember, Accept, Hold, Acknowledge, Read

LEMMA UserEvidence ==
  ASSUME Base, NEW u \in Users, UserStep(u), NEW s \in Sources
  PROVE  EvidenceStays(s)
<1>1. CASE UNCHANGED data
  BY <1>1, StoredStays DEF data, EvidenceStays, HasContent, IsTombstone
<1>2. CASE Approve(u)
  <2>1. job[u].s \in Sources /\ job[u].first \in Facts
    BY <1>2 DEF Base, Processes, JobsRemember, JobRemembers, Approve, At
  <2>2. links \subseteq links' /\ source'[s].text = source[s].text
    BY <1>2, <2>1, PersistEvidence DEF Approve
  <2>3. review[s].status # "Absent" => review'[s].status # "Absent"
    BY <1>2 DEF Approve, Decided, Base, TypeOK
  <2> QED
    BY <1>2, <2>2, <2>3, StoredStays DEF Approve, EvidenceStays, HasContent, IsTombstone
<1>3. CASE Reject(u)
  <2>1. source'[s].text = source[s].text
    BY <1>3, ReleaseEvidence DEF Reject
  <2>2. outbox'[s] = outbox[s] \/ IsTombstone(s)'
    BY <1>3, TombstoneEvidence DEF Reject
  <2>3. links' = links /\ (review[s].status # "Absent" => review'[s].status # "Absent")
    BY <1>3 DEF Reject, Decided, Base, TypeOK
  <2> QED
    BY <2>1, <2>2, <2>3, StoredStays DEF EvidenceStays, HasContent, IsTombstone
<1>4. CASE Forget(u)
  <2>1. source'[s].text = source[s].text
    BY <1>4, ReleaseEvidence DEF Forget, Archive
  <2>2. outbox'[s] = outbox[s] \/ IsTombstone(s)'
    BY <1>4, TombstoneEvidence DEF Forget, Archive
  <2> QED
    BY <1>4, <2>1, <2>2, StoredStays DEF Forget, EvidenceStays, HasContent, IsTombstone
<1> QED
  BY <1>1, <1>2, <1>3, <1>4, UserStep(u) DEF UserStep, BeginApprove, BeginReject, BeginForget, Read

LEMMA SweepEvidence ==
  ASSUME Base, Sweep, NEW s \in Sources
  PROVE  EvidenceStays(s)
<1>1. CASE UNCHANGED data
  BY <1>1, StoredStays DEF data, EvidenceStays, HasContent, IsTombstone
<1>2. CASE ExpireReviews
  <2>1. source'[s].text = source[s].text
    BY <1>2, ReleaseEvidence DEF ExpireReviews
  <2>2. outbox'[s] = outbox[s] \/ IsTombstone(s)'
    BY <1>2, TombstoneEvidence DEF ExpireReviews
  <2>3. links' = links /\ (review[s].status # "Absent" => review'[s].status # "Absent")
    BY <1>2 DEF ExpireReviews, Decided, Base, TypeOK
  <2> QED
    BY <2>1, <2>2, <2>3, StoredStays DEF EvidenceStays, HasContent, IsTombstone
<1>3. CASE ArchiveWithoutSource
  <2>1. source'[s].text = source[s].text
    BY <1>3, ReleaseEvidence DEF ArchiveWithoutSource, Archive
  <2>2. outbox'[s] = outbox[s] \/ IsTombstone(s)'
    BY <1>3, TombstoneEvidence DEF ArchiveWithoutSource, Archive
  <2> QED
    BY <1>3, <2>1, <2>2, StoredStays
       DEF ArchiveWithoutSource, EvidenceStays, HasContent, IsTombstone
<1>4. CASE Purge
  <2>1. source'[s].text \in {source[s].text, NoText}
    BY <1>4 DEF Purge, Erased
  <2>2. outbox'[s] = outbox[s] \/ IsTombstone(s)'
    BY <1>4, TombstoneEvidence DEF Purge
  <2> QED
    BY <1>4, <2>1, <2>2, StoredStays DEF Purge, EvidenceStays, HasContent, IsTombstone
<1> QED
  BY <1>1, <1>2, <1>3, <1>4, Sweep DEF Sweep, BeginSweep, BeginPurge, Read

LEMMA NextEvidence ==
  ASSUME Base, [Next]_vars, NEW s \in Sources
  PROVE  EvidenceStays(s)
<1>1. CASE UNCHANGED data
  BY <1>1, StoredStays DEF data, EvidenceStays, HasContent, IsTombstone
<1>2. ASSUME NEW t \in Sources, NEW text \in Texts, Arrive(t, text) PROVE EvidenceStays(s)
  <2>1. s # t => source'[s] = source[s] /\ outbox'[s] = outbox[s]
    BY <1>2 DEF Arrive, SetState, Base, TypeOK
  <2>2. outbox[t].state = "Absent"
    BY <1>2 DEF Arrive
  <2> QED
    BY <1>2, <2>1, <2>2, StoredStays DEF Arrive, EvidenceStays, HasContent, IsTombstone
<1>3. ASSUME NEW t \in Sources, TtlPasses(t) \/ ReviewLapses(t) \/ LeaseExpires(t)
      PROVE  EvidenceStays(s)
  <2>1. source'[s].text = source[s].text
    BY <1>3 DEF TtlPasses, ReviewLapses, LeaseExpires, Transient, Base, TypeOK
  <2>2. links' = links /\ (review[s].status # "Absent" => review'[s].status # "Absent")
    BY <1>3 DEF TtlPasses, ReviewLapses, LeaseExpires, Base, TypeOK
  <2>3. IsTombstone(s) => outbox'[s] = outbox[s]
    BY <1>3 DEF TtlPasses, ReviewLapses, LeaseExpires, IsTombstone, Base, TypeOK
  <2> QED
    BY <2>1, <2>2, <2>3, StoredStays DEF EvidenceStays, HasContent, IsTombstone
<1>4. CASE Requeue
  <2>1. outbox'[s] = outbox[s] \/ outbox'[s].state = "Pending"
    BY <1>4, SMTT(30) DEF Requeue, SetState, Row
  <2> QED
    BY <1>4, <2>1, StoredStays DEF Requeue, EvidenceStays, HasContent, IsTombstone
<1> QED
  BY <1>1, <1>2, <1>3, <1>4, WorkEvidence, UserEvidence, SweepEvidence
     DEF Next, Fail, BeginRecover, vars, data

\* Verdicts are the workers' only: everyone else leaves what is wanted.
LEMMA WantedStays ==
  ASSUME [Next]_vars, \A w \in Workers : ~Drop(w) /\ \A f \in Facts : ~Remember(w, f)
  PROVE  wanted' = wanted
BY DEF Next, Work, UserStep, Sweep, Arrive, TtlPasses, ReviewLapses, LeaseExpires, Fail,
       ClaimNext, Accept, PersistAccepted, Hold, Suspend, Acknowledge, Complete, BeginApprove,
       Approve, BeginReject, Reject, BeginForget, Forget, BeginSweep, ExpireReviews,
       ArchiveWithoutSource, BeginPurge, Purge, BeginRecover, Requeue, Read, Untouched, vars

\* Who ends in front of an acknowledgement, or of its write.
LEMMA NextVerdicts ==
  ASSUME Base, Leases, Leases', Verdicts, [Next]_vars
  PROVE  Verdicts'
<1> SUFFICES ASSUME NEW w \in Workers, NEW s \in Sources, Holds(w, s)'
             PROVE  /\ At(w, "ack")' => Answered(s)' \/ IsTombstone(s)'
                    /\ At(w, "complete")' => Answered(s)'
  BY DEF Verdicts
<1>1. EvidenceStays(s) /\ w \in Processes
  BY NextEvidence DEF Processes
\* A job that stays as it is.
<1>2. CASE job'[w] = job[w]
  <2>1. Holds(w, s) /\ (ClaimValid(w, s) \/ IsTombstone(s)) /\ (ClaimValid(w, s)' \/ IsTombstone(s)')
    BY <1>2 DEF Holds, Leases, ClaimsLast
  <2>2. IsTombstone(s) => IsTombstone(s)'
    BY <1>1, <2>1 DEF EvidenceStays, ClaimValid, Owns
  <2>3. outbox[s].state # "Absent"
    BY <2>1 DEF ClaimValid, Owns, IsTombstone
  <2>4. At(w, "ack")' \/ At(w, "complete")' => wanted'[s] = wanted[s]
    <3> SUFFICES ASSUME job[w].step \in {"ack", "complete"} PROVE wanted'[s] = wanted[s]
      BY <1>2 DEF At
    <3>1. CASE \A v \in Workers : ~Drop(v) /\ \A f \in Facts : ~Remember(v, f)
      BY <3>1, WantedStays
    <3>2. ASSUME NEW v \in Workers, Drop(v) \/ \E f \in Facts : Remember(v, f)
          PROVE  wanted'[s] = wanted[s]
      <4>1. job[v].step = "classify"
        BY <3>2 DEF Drop, Remember, At
      <4>2. job[v].s # s
        BY <2>1, <4>1 DEF Holds, WorkSteps, Leases, OneHolder
      <4>3. wanted' = [wanted EXCEPT ![job[v].s] = TRUE] \/ wanted' = [wanted EXCEPT ![job[v].s] = FALSE]
        BY <3>2 DEF Drop, Remember
      <4> QED
        BY <4>2, <4>3 DEF Base, TypeOK
    <3> QED
      BY <3>1, <3>2
  <2>5. At(w, "ack") => Answered(s) \/ IsTombstone(s)
    BY <2>1 DEF Verdicts
  <2>6. At(w, "complete") => Answered(s)
    BY <2>1 DEF Verdicts
  <2>7. (At(w, "ack")' => At(w, "ack")) /\ (At(w, "complete")' => At(w, "complete"))
    BY <1>2 DEF At
  <2> QED
    BY <1>1, <2>2, <2>3, <2>4, <2>5, <2>6, <2>7 DEF EvidenceStays, Answered
\* A job that this step gives, by the worker itself.
<1>3. CASE job'[w] # job[w] /\ Work(w)
  <2>1. \A step, t : /\ OnSource(step, t).step = step /\ OnSource(step, t).s = t
                     /\ Idle.step = "idle"
    BY DEF OnSource, OnRows, Idle
  <2>2. \A step, t, f, exact, kept : /\ OnFact(step, t, f, exact, kept).step = step
                                     /\ OnFact(step, t, f, exact, kept).s = t
    BY DEF OnFact
  <2>3. \A j : Become(w, j) => job'[w] = j
    BY <1>1 DEF Become, Base, TypeOK
  <2>4. CASE ~At(w, "ack")' /\ ~At(w, "complete")'
    BY <2>4
  <2>5. CASE ClaimNext(w) /\ At(w, "ack")'
    <3> DEFINE pending == {t \in Sources : t > Advance(cursor, Repaired)
                                           /\ Repaired[t].state = "Pending"}
    <3>1. pending # {}
      BY <1>3, <2>5 DEF ClaimNext
    <3>2. PICK t \in Sources : t = Smallest(pending)
      BY <3>1, EarliestIsSource
    <3>3. /\ job'[w] = IF HasContent(t)
                       THEN OnRows("classify", t, FactsOf(t), Candidate, {})
                       ELSE OnSource("ack", t)
          /\ source' = source
      BY <2>3, <2>5, <3>1, <3>2 DEF ClaimNext
    <3>4. ~HasContent(t) /\ s = t
      BY <2>1, <2>5, <3>3 DEF At, OnRows, Holds
    <3>5. Answered(s)'
      BY <3>3, <3>4 DEF Answered, HasContent
    <3>6. ~At(w, "complete")'
      BY <2>5 DEF At
    <3> QED
      BY <3>5, <3>6
  <2>6. CASE Drop(w)
    <3>1. job'[w] = OnSource("ack", job[w].s) /\ wanted' = [wanted EXCEPT ![job[w].s] = FALSE]
      BY <2>3, <2>6 DEF Drop
    <3>2. s = job[w].s /\ ~wanted'[s] /\ ~At(w, "complete")'
      BY <2>1, <3>1 DEF Holds, At, Base, TypeOK
    <3> QED
      BY <3>2 DEF Answered
  <2>7. CASE Accept(w) /\ At(w, "ack")'
    <3>1. \/ job'[w] = OnSource("ack", job[w].s) /\ (~ClaimValid(w, job[w].s) \/ ~HasContent(job[w].s))
          \/ \E step \in {"persist", "hold"} : \E exact, kept :
               job'[w] = OnFact(step, job[w].s, job[w].first, exact, kept)
      BY <2>3, <2>7 DEF Accept
    <3>2. s = job[w].s /\ (~ClaimValid(w, s) \/ ~HasContent(s)) /\ ~At(w, "complete")'
      BY <2>1, <2>2, <2>7, <3>1 DEF At, Holds
    <3>3. UNCHANGED <<source, outbox>>
      BY <2>7 DEF Accept, Read, data
    <3>4. Holds(w, s)
      BY <2>7, <3>2 DEF Accept, At, Holds, WorkSteps
    <3> QED
      BY <3>2, <3>3, <3>4 DEF Leases, ClaimsLast, IsTombstone, Answered, HasContent
  <2>8. CASE PersistAccepted(w) /\ At(w, "ack")'
    <3>1. job[w].s \in Sources /\ job[w].first \in Facts
      BY <2>8 DEF Base, JobsRemember, JobRemembers, PersistAccepted, At, Processes
    <3>2. ~Collides(job[w].first, job[w].exact)
      BY <2>1, <2>3, <2>8 DEF PersistAccepted, At
    <3>3. /\ job'[w] = OnSource("ack", job[w].s)
          /\ Persist(job[w].s, job[w].first, job[w].exact, job[w].kept, {})
      BY <2>3, <2>8, <3>2 DEF PersistAccepted
    <3>4. s = job[w].s /\ <<s, job[w].first>> \in links' /\ ~At(w, "complete")'
      BY <2>1, <3>1, <3>3, PersistEvidence DEF Holds, At
    <3>5. Stored(s)'
      BY <3>1, <3>4 DEF Stored, LinksOf
    <3> QED
      BY <3>4, <3>5 DEF Answered
  <2>9. CASE Acknowledge(w) /\ (At(w, "complete")' \/ At(w, "ack")')
    <3>1. job'[w] = OnSource("complete", job[w].s) /\ Owns(w, job[w].s) /\ At(w, "ack")
      BY <2>1, <2>3, <2>9 DEF Acknowledge, At
    <3>2. s = job[w].s /\ ~At(w, "ack")'
      BY <2>1, <3>1 DEF Holds, At
    <3>3. Holds(w, s)
      BY <3>1, <3>2 DEF Holds, At, WorkSteps
    <3>4. Answered(s)
      BY <3>1, <3>2, <3>3 DEF Verdicts, Owns, IsTombstone
    <3>5. Answered(s)'
      BY <2>9, <3>4 DEF Acknowledge, Read, data, Answered, HasContent, Stored, LinksOf
    <3> QED
      BY <3>2, <3>5
  <2>10. (\E f \in Facts : Remember(w, f)) \/ Hold(w) \/ Suspend(w) \/ Complete(w)
           => ~At(w, "ack")' /\ ~At(w, "complete")'
    <3>1. (\E f \in Facts : Remember(w, f))
            => \E t, f, exact, kept : job'[w] = OnFact("accept", t, f, exact, kept)
      BY <2>3 DEF Remember
    <3>2. Hold(w) => \/ job'[w] = Idle
                     \/ \E t, f, exact, kept : job'[w] = OnFact("suspend", t, f, exact, kept)
      BY <2>3 DEF Hold
    <3>3. Suspend(w) \/ Complete(w) => job'[w] = Idle
      BY <2>3 DEF Suspend, Complete
    <3> QED
      BY <2>1, <2>2, <3>1, <3>2, <3>3 DEF At
  <2>11. ClaimNext(w) \/ Accept(w) \/ PersistAccepted(w) => ~At(w, "complete")'
    <3>1. ClaimNext(w) => \/ job'[w] = job[w]
                          \/ \E t, F : job'[w] = OnRows("classify", t, F, Candidate, {})
                          \/ \E t : job'[w] = OnSource("ack", t)
      BY <2>3 DEF ClaimNext
    <3>2. \A t, F : OnRows("classify", t, F, Candidate, {}).step = "classify"
      BY DEF OnRows
    <3>3. ClaimNext(w) => ~At(w, "complete")'
      BY <1>3, <2>1, <3>1, <3>2 DEF At
    <3> QED
      BY <2>1, <2>2, <2>3, <3>3 DEF Accept, PersistAccepted, At
  <2> QED
    BY <1>3, <2>4, <2>5, <2>6, <2>7, <2>8, <2>9, <2>10, <2>11 DEF Work
\* Nobody else gives it one that acknowledges.
<1>4. CASE job'[w] # job[w] /\ ~Work(w)
  <2>1. Idle.step = "idle" /\ \A step, t : OnSource(step, t).step = step
    BY DEF OnSource, OnRows, Idle
  <2>2. /\ \A step, t, f, exact, kept : OnFact(step, t, f, exact, kept).step = step
        /\ \A step, t, F, f, S : OnRows(step, t, F, f, S).step = step
    BY DEF OnFact, OnRows
  <2>3. ASSUME NEW p \in Processes, NEW j, Become(p, j), j.step \notin {"ack", "complete"}
        PROVE  p = w => ~At(w, "ack")' /\ ~At(w, "complete")'
    BY <2>3 DEF Become, Base, TypeOK, At
  <2>4. ASSUME NEW p \in Processes \ {w}, NEW j, Become(p, j) PROVE job'[w] = job[w]
    BY <1>1, <2>4 DEF Become, Base, TypeOK
  <2>5. ASSUME NEW p \in Processes, NEW j, Become(p, j), j.step \notin {"ack", "complete"}
        PROVE  ~At(w, "ack")' /\ ~At(w, "complete")'
    BY <1>4, <2>3, <2>4, <2>5
  <2>6. ASSUME NEW p \in Processes, Fail(p) PROVE ~At(w, "ack")' /\ ~At(w, "complete")'
    BY <2>1, <2>5, <2>6 DEF Fail
  <2>7. ASSUME NEW v \in Workers, Work(v) PROVE FALSE
    <3>1. v \in Processes \ {w}
      BY <1>4, <2>7 DEF Processes
    <3>2. job' = job \/ \E j : Become(v, j)
      BY <2>7 DEF Work, ClaimNext, Drop, Remember, Accept, PersistAccepted, Hold, Suspend,
                  Acknowledge, Complete
    <3> QED
      BY <1>4, <2>4, <3>1, <3>2
  <2>8. ASSUME NEW u \in Users, UserStep(u) PROVE ~At(w, "ack")' /\ ~At(w, "complete")'
    <3>1. u \in Processes
      BY DEF Processes
    <3>2. \E j : Become(u, j) /\ j.step \in {"idle", "approve", "reject", "forget"}
      BY <2>1, <2>2, <2>8
         DEF UserStep, BeginApprove, Approve, BeginReject, Reject, BeginForget, Forget
    <3> QED
      BY <2>5, <3>1, <3>2
  <2>9. ASSUME Sweep PROVE ~At(w, "ack")' /\ ~At(w, "complete")'
    <3>1. Sweeper \in Processes
      BY DEF Processes
    <3>2. \E j : Become(Sweeper, j) /\ j.step \in {"idle", "expire", "archive", "purge", "erase"}
      BY <2>1, <2>2, <2>9
         DEF Sweep, BeginSweep, ExpireReviews, ArchiveWithoutSource, BeginPurge, Purge
    <3> QED
      BY <2>5, <3>1, <3>2
  <2>10. ASSUME BeginRecover \/ Requeue PROVE ~At(w, "ack")' /\ ~At(w, "complete")'
    <3>1. Operator \in Processes
      BY DEF Processes
    <3>2. \E j : Become(Operator, j) /\ j.step \in {"idle", "requeue"}
      BY <2>1, <2>2, <2>10 DEF BeginRecover, Requeue
    <3> QED
      BY <2>5, <3>1, <3>2
  <2>11. ASSUME \/ \E t \in Sources, text \in Texts : Arrive(t, text)
                \/ \E t \in Sources : TtlPasses(t) \/ ReviewLapses(t) \/ LeaseExpires(t)
                \/ UNCHANGED vars
         PROVE  job' = job
    BY <2>11 DEF Arrive, TtlPasses, ReviewLapses, LeaseExpires, vars
  <2> QED
    BY <1>4, <2>6, <2>7, <2>8, <2>9, <2>10, <2>11 DEF Next
<1> QED
  BY <1>2, <1>3, <1>4

\* A row is completed by the worker that holds it, and by nobody else.
LEMMA CompletedByHolder ==
  ASSUME Base, [Next]_vars, NEW s \in Sources, outbox'[s].state = "Completed",
         outbox[s].state # "Completed"
  PROVE  \E w \in Workers : job[w].s = s /\ ((Suspend(w) /\ Owns(w, s)) \/ Complete(w))
<1>1. CASE outbox' = outbox
  BY <1>1
<1>2. ASSUME NEW S, NEW state, SetState(S, state), state # "Completed" PROVE FALSE
  BY <1>2 DEF SetState, Row
<1>3. ASSUME NEW w \in Workers, ClaimNext(w) PROVE FALSE
  <2> DEFINE pending == {t \in Sources : t > Advance(cursor, Repaired)
                                         /\ Repaired[t].state = "Pending"}
  <2>1. Repaired \in [Sources -> Outbox] /\ Repaired[s].state # "Completed"
    BY RowsAreTyped, RepairedType DEF Base, Repaired, Row
  <2>2. \/ outbox' = Repaired
        \/ \E t : outbox' = [Repaired EXCEPT ![t] = [state |-> "Claimed", holder |-> w,
                                                     late |-> FALSE]]
    BY <1>3 DEF ClaimNext
  <2> QED
    BY <2>1, <2>2
<1>4. ASSUME NEW t \in Sources, LeaseExpires(t) PROVE FALSE
  BY <1>4 DEF LeaseExpires, Base, TypeOK
<1>5. ASSUME NEW w \in Workers, Suspend(w) \/ Complete(w) PROVE job[w].s = s /\ (Suspend(w) => Owns(w, s))
  BY <1>5 DEF Suspend, Complete, SetState
<1> QED
  BY <1>1, <1>2, <1>3, <1>4, <1>5
     DEF Next, Work, UserStep, Sweep, Arrive, TtlPasses, ReviewLapses, Fail, Drop, Remember,
         Accept, PersistAccepted, Hold, Acknowledge, BeginApprove, Approve, BeginReject, Reject,
         BeginForget, Forget, Archive, Tombstone, BeginSweep, ExpireReviews,
         ArchiveWithoutSource, BeginPurge, Purge, BeginRecover, Requeue, Read, vars, data

LEMMA NextWanted ==
  ASSUME Base, Leases, Verdicts, WantedIsStored, [Next]_vars
  PROVE  WantedIsStored'
<1> SUFFICES ASSUME NEW s \in Sources, wanted'[s], outbox'[s].state = "Completed", HasContent(s)'
             PROVE  Stored(s)'
  BY DEF WantedIsStored, Stored
<1>1. EvidenceStays(s)
  BY NextEvidence
<1>2. CASE outbox[s].state = "Completed"
  <2>1. HasContent(s)
    BY <1>1, <1>2 DEF EvidenceStays
  <2>2. wanted[s]
    <3>1. CASE \A v \in Workers : ~Drop(v) /\ \A f \in Facts : ~Remember(v, f)
      BY <3>1, WantedStays
    <3>2. ASSUME NEW v \in Workers, Drop(v) \/ \E f \in Facts : Remember(v, f)
          PROVE  wanted[s]
      <4>1. job[v].step = "classify"
        BY <3>2 DEF Drop, Remember, At
      <4>2. job[v].s # s
        BY <1>2, <4>1 DEF Holds, WorkSteps, Leases, ClaimsLast, ClaimValid, Owns, IsTombstone
      <4>3. wanted' = [wanted EXCEPT ![job[v].s] = TRUE] \/ wanted' = [wanted EXCEPT ![job[v].s] = FALSE]
        BY <3>2 DEF Drop, Remember
      <4> QED
        BY <4>2, <4>3 DEF Base, TypeOK
    <3> QED
      BY <3>1, <3>2
  <2> QED
    BY <1>1, <1>2, <2>1, <2>2 DEF EvidenceStays, WantedIsStored, Stored
<1>3. CASE outbox[s].state # "Completed"
  <2>1. PICK w \in Workers : job[w].s = s /\ ((Suspend(w) /\ Owns(w, s)) \/ Complete(w))
    BY <1>3, CompletedByHolder
  <2>2. CASE Suspend(w) /\ Owns(w, s)
    <3>1. review'[s].status # "Absent"
      BY <2>1, <2>2 DEF Suspend, Base, TypeOK
    <3> QED
      BY <3>1 DEF Stored
  <2>3. CASE Complete(w)
    <3>1. Holds(w, s) /\ At(w, "complete")
      BY <2>1, <2>3 DEF Complete, At, Holds, WorkSteps
    <3>2. Answered(s)
      BY <3>1 DEF Verdicts
    <3>3. UNCHANGED <<source, wanted>>
      BY <2>3 DEF Complete, Untouched
    <3> QED
      BY <1>1, <3>2, <3>3 DEF Answered, EvidenceStays, HasContent
  <2> QED
    BY <2>1, <2>2, <2>3
<1> QED
  BY <1>2, <1>3

LEMMA InitAnswers == Init => Leases /\ Verdicts /\ WantedIsStored
<1> SUFFICES ASSUME Init PROVE Leases /\ Verdicts /\ WantedIsStored
  OBVIOUS
<1>1. \A p \in Processes : job[p].step = "idle"
  BY DEF Init, Idle, OnSource, OnRows
<1>2. Operator \in Processes /\ Workers \subseteq Processes
  BY DEF Processes
<1>3. \A w \in Workers, s \in Sources : ~Holds(w, s)
  BY <1>1, <1>2 DEF Holds, WorkSteps
<1>4. ~At(Operator, "requeue") /\ \A s \in Sources : ~wanted[s]
  BY <1>1, <1>2 DEF At, Init
<1> QED
  BY <1>3, <1>4
     DEF Leases, ClaimsLast, OneHolder, RequeuedAreFree, Verdicts, WantedIsStored

\* While leases outlast the calls of the model, what it wanted to remember is
\* never completed without a memory or a review: whatever fails, is deleted, is
\* swept or is queued again, the claim is the worker's until it acknowledges.
THEOREM WantedMemoriesAreStored ==
  ASSUME ~SlowModel PROVE Spec => []WantedIsStored
<1>1. Base /\ Leases /\ Verdicts /\ WantedIsStored /\ [Next]_vars
        => (Base /\ Leases /\ Verdicts /\ WantedIsStored)'
  BY NextBase, NextKeepsLeases, NextVerdicts, NextWanted
<1> QED
  BY <1>1, InitBase, InitAnswers, PTL DEF Spec
===============================================================================
