-------------------------- MODULE Relationship_proofs --------------------------
(***************************************************************************)
(* Proofs that the relationship is always what its evidence amounts to,    *)
(* that evidence of one kind is a cooldown apart, and that the state rises *)
(* only with new evidence, for any memories, messages, events, acceptors,  *)
(* cooldown and window.  The first assumes nothing of what the observation *)
(* of events adds; the others unfold it, event by event.                   *)
(***************************************************************************)
EXTENDS Relationship, FiniteSetTheorems, WellFoundedInduction, TLAPS

\* What the argument needs to know of the rows: which rows there are.
Shape ==
  /\ memory \in [Memories -> {"None", "Active", "Archived"}]
  /\ content \in [Messages -> BOOLEAN]
  /\ job \in [Acceptors -> Job \union {Idle}]

LEMMA JobOfBusy ==
  ASSUME Shape, NEW p \in Acceptors, job[p] # Idle
  PROVE  /\ job[p].message \in Messages /\ job[p].loaded \subseteq Memories
         /\ TextOf[job[p].message] \in Memories
BY ConstantsAssumption DEF Shape, Job

LEMMA InitShape == RelationshipInit => Shape
BY DEF RelationshipInit, Shape

LEMMA NextShape == Shape /\ [RelationshipNext]_relationshipVars => Shape'
<1> SUFFICES ASSUME Shape, [RelationshipNext]_relationshipVars PROVE Shape'
  OBVIOUS
<1>1. ASSUME NEW e \in Events, NEW type \in Types, NEW at \in Hours,
             CreateEvent(e, type, at)
      PROVE  Shape'
  BY <1>1 DEF CreateEvent, Shape
<1>2. ASSUME NEW p \in Acceptors, NEW x \in Messages, BeginAccept(p, x) PROVE Shape'
  <2>1. [message |-> x, loaded |-> Active] \in Job
    BY DEF Job, Active
  <2> QED
    BY <1>2, <2>1 DEF BeginAccept, Shape
<1>3. ASSUME NEW p \in Acceptors, Accept(p) PROVE Shape'
  <2>1. job' \in [Acceptors -> Job \union {Idle}]
    BY <1>3 DEF Accept, Shape
  <2>2. \/ UNCHANGED memory
        \/ memory' = [memory EXCEPT ![TextOf[job[p].message]] = "Active"]
    BY <1>3 DEF Accept
  <2>3. UNCHANGED content
    BY <1>3 DEF Accept
  <2> QED
    BY <2>1, <2>2, <2>3 DEF Shape
<1>4. ASSUME NEW p \in Acceptors, Reject(p) PROVE Shape'
  BY <1>4 DEF Reject, Shape
<1>5. ASSUME NEW F \in SUBSET Memories, Forget(F) PROVE Shape'
  BY <1>5 DEF Forget, Shape
<1>6. ASSUME ArchiveWithoutSource PROVE Shape'
  BY <1>6 DEF ArchiveWithoutSource, Shape
<1>7. ASSUME NEW x \in Messages, BeginPurge(x) PROVE Shape'
  BY <1>7 DEF BeginPurge, Shape
<1>8. ASSUME NEW X \in SUBSET Messages, NEW E \in SUBSET Events, Purge(X, E) PROVE Shape'
  BY <1>8 DEF Purge, Shape
<1>9. ASSUME UNCHANGED relationshipVars PROVE Shape'
  BY <1>9 DEF relationshipVars, Shape
<1> QED
  BY <1>1, <1>2, <1>3, <1>4, <1>5, <1>6, <1>7, <1>8, <1>9 DEF RelationshipNext

-------------------------------------------------------------------------------
\* refresh, in a session that sees the rows as it leaves them, makes the state
\* what the evidence amounts to.
LEMMA RefreshJustifies == Refresh => StateIsJustified'
BY DEF Refresh, StateIsJustified, Justified, Active

\* Without an event that can be read no evidence is valid.
LEMMA NoEventNoEvidence ==
  ASSUME \A e \in Events : ~Readable(e), NEW rows, NEW active, NEW texts, NEW linked
  PROVE  Evaluate(rows, active, texts, linked, event) = "Low"
<1>1. {v \in rows : Valid(v, active, texts, linked, event)} = {}
  BY DEF Valid, Qualifies, Readable, Stored
<1> QED
  BY <1>1 DEF Evaluate, Derive

LEMMA AcceptJustifies ==
  ASSUME Shape, StateIsJustified, NEW p \in Acceptors, Accept(p)
  PROVE  StateIsJustified'
<1> DEFINE x == job[p].message
           m == TextOf[x]
           exact == m \in job[p].loaded
           linked == links \union {<<m, x>>}
           active == Active \union {m} \union job[p].loaded
           texts == Texts(content) \union {x}
           events == \E e \in Events : Readable(e)
<1>0. x \in Messages /\ m \in Memories /\ UNCHANGED <<content, event>>
  BY JobOfBusy DEF Accept
<1>1. CASE ~(exact \/ memory[m] = "None")
  <2>1. UNCHANGED <<memory, links, content, event, evidence, relation, overlooked>>
    BY <1>1 DEF Accept
  <2> QED
    BY <2>1 DEF StateIsJustified, Justified, Active
<1>2. CASE exact \/ memory[m] = "None"
  <2>1. /\ links' = linked
        /\ relation' = IF events THEN Evaluate(evidence', active, texts, linked, event)
                                 ELSE relation
        /\ overlooked' = \/ overlooked /\ ~events
                         \/ events /\ job[p].loaded \ Active # {}
                         \/ events /\ ~content[x]
    BY <1>2 DEF Accept
  <2>2. CASE events
    <3>1. CASE job[p].loaded \ Active # {} \/ ~content[x]
      BY <2>1, <2>2, <3>1 DEF StateIsJustified
    <3>2. CASE job[p].loaded \subseteq Active /\ content[x]
      <4>1. Active' = active
        <5>1. CASE exact
          <6>1. UNCHANGED memory
            BY <1>2, <5>1 DEF Accept
          <6> QED
            BY <3>2, <5>1, <6>1 DEF Active
        <5>2. CASE ~exact
          <6>1. memory' = [memory EXCEPT ![m] = "Active"]
            BY <1>2, <5>2 DEF Accept
          <6> QED
            BY <1>0, <3>2, <6>1 DEF Active, Shape
        <5> QED
          BY <5>1, <5>2
      <4>2. Texts(content) = texts
        BY <1>0, <3>2 DEF Texts
      <4> QED
        BY <1>0, <2>1, <2>2, <4>1, <4>2 DEF StateIsJustified, Justified
    <3> QED
      BY <3>1, <3>2
  <2>3. CASE ~events
    <3>1. Justified = "Low" /\ Justified' = "Low"
      <4>1. \A e \in Events : ~Readable(e)
        BY <2>3
      <4>2. Justified = "Low"
        BY <4>1, NoEventNoEvidence DEF Justified
      <4>3. Evaluate(evidence', Active', Texts(content'), links', event) = "Low"
        BY <4>1, NoEventNoEvidence
      <4> QED
        BY <1>0, <4>2, <4>3 DEF Justified
    <3>2. relation' = relation /\ (overlooked' = (overlooked \/ FALSE))
      BY <2>1, <2>3
    <3> QED
      BY <3>1, <3>2 DEF StateIsJustified
  <2> QED
    BY <2>2, <2>3
<1> QED
  BY <1>1, <1>2

LEMMA NextJustified ==
  Shape /\ StateIsJustified /\ [RelationshipNext]_relationshipVars => StateIsJustified'
<1> SUFFICES ASSUME Shape, StateIsJustified, [RelationshipNext]_relationshipVars
             PROVE  StateIsJustified'
  OBVIOUS
<1>1. ASSUME NEW e \in Events, NEW type \in Types, NEW at \in Hours,
             CreateEvent(e, type, at)
      PROVE  StateIsJustified'
  BY <1>1 DEF CreateEvent, StateIsJustified, Justified, Active
<1>2. ASSUME NEW p \in Acceptors, NEW x \in Messages, BeginAccept(p, x)
      PROVE  StateIsJustified'
  BY <1>2 DEF BeginAccept, StateIsJustified, Justified, Active
<1>3. ASSUME NEW p \in Acceptors, Accept(p) PROVE StateIsJustified'
  BY <1>3, AcceptJustifies
<1>4. ASSUME NEW p \in Acceptors, Reject(p) PROVE StateIsJustified'
  BY <1>4 DEF Reject, StateIsJustified, Justified, Active
<1>5. ASSUME NEW F \in SUBSET Memories, Forget(F) PROVE StateIsJustified'
  BY <1>5, RefreshJustifies DEF Forget
<1>6. ASSUME ArchiveWithoutSource PROVE StateIsJustified'
  BY <1>6, RefreshJustifies DEF ArchiveWithoutSource
<1>7. ASSUME NEW x \in Messages, BeginPurge(x) PROVE StateIsJustified'
  BY <1>7 DEF BeginPurge, StateIsJustified, Justified, Active
<1>8. ASSUME NEW X \in SUBSET Messages, NEW E \in SUBSET Events, Purge(X, E)
      PROVE  StateIsJustified'
  BY <1>8, RefreshJustifies DEF Purge
<1>9. ASSUME UNCHANGED relationshipVars PROVE StateIsJustified'
  BY <1>9 DEF relationshipVars, StateIsJustified, Justified, Active
<1> QED
  BY <1>1, <1>2, <1>3, <1>4, <1>5, <1>6, <1>7, <1>8, <1>9 DEF RelationshipNext

\* In every reachable state the relationship is what its valid evidence amounts
\* to, unless the last acceptance overlooked a deletion or an erasure that was
\* committed between its read and its write (refresh in relationship_service.py).
THEOREM RelationshipIsJustified == RelationshipSpec => []StateIsJustified
<1>1. RelationshipInit => StateIsJustified
  BY DEF RelationshipInit, StateIsJustified, Justified, Evaluate, Derive
<1> QED
  BY <1>1, InitShape, NextShape, NextJustified, PTL DEF RelationshipSpec
-------------------------------------------------------------------------------
(* Lemmas: numbers and finite sets, one step at a time *)

\* A set of naturals with an element has a smallest one.
LEMMA SmallestNumber ==
  ASSUME NEW T \in SUBSET Nat, T # {}
  PROVE  \E x \in T : \A y \in T : x <= y
<1>1. PICK x \in T : \A y \in T : <<y, x>> \notin OpToRel(<, Nat)
  BY NatLessThanWellFounded, WFMin
<1>2. \A y \in T : ~(y < x)
  BY <1>1 DEF OpToRel
<1> QED
  BY <1>2

\* A set that has 0, and with a number the next, has all of them.
LEMMA Numbers ==
  ASSUME NEW T, 0 \in T, \A n \in Nat : n \in T => n + 1 \in T
  PROVE  \A n \in Nat : n \in T
<1> DEFINE Out == {n \in Nat : n \notin T}
<1> SUFFICES ASSUME Out # {} PROVE FALSE
  OBVIOUS
<1>1. PICK n \in Out : \A m \in Out : n <= m
  <2>1. Out \subseteq Nat
    OBVIOUS
  <2> HIDE DEF Out
  <2> QED BY <2>1, SmallestNumber
<1>2. n \in Nat /\ n # 0
  OBVIOUS
<1>3. n - 1 \in Nat /\ n - 1 \notin Out
  BY <1>1, <1>2
<1> QED
  BY <1>2, <1>3

\* A fold takes a last element off a finite set until none is left.
Foldable(S, D, base, last, step) ==
  /\ IsFiniteSet(S) /\ base \in D
  /\ \A E \in SUBSET S : E # {} => last[E] \in E
  /\ \A x \in S, d \in D : step[x][d] \in D

Unfolds(f, S, base, last, step) ==
  \A E \in SUBSET S : f[E] = IF E = {} THEN base ELSE step[last[E]][f[E \ {last[E]}]]

\* What is defined so exists.
LEMMA FoldExists ==
  ASSUME NEW S, NEW D, NEW base, NEW last, NEW step, Foldable(S, D, base, last, step)
  PROVE  \E f \in [SUBSET S -> D] : Unfolds(f, S, base, last, step)
<1> USE DEF Foldable
<1> DEFINE Rest(E) == E \ {last[E]}
           Value(f, E) == IF E = {} THEN base ELSE step[last[E]][f[Rest(E)]]
           Upto(f, n) == \A E \in SUBSET S : Cardinality(E) <= n => f[E] = Value(f, E)
           Solved(n) == \E f \in [SUBSET S -> D] : Upto(f, n)
<1>1. ASSUME NEW E \in SUBSET S
      PROVE  /\ IsFiniteSet(E) /\ Cardinality(E) \in Nat
             /\ Cardinality(E) = 0 <=> E = {}
  BY FS_Subset, FS_CardinalityType, FS_EmptySet
<1>2. ASSUME NEW E \in SUBSET S, E # {}
      PROVE  Rest(E) \in SUBSET S /\ Cardinality(Rest(E)) = Cardinality(E) - 1
  <2>1. last[E] \in E
    BY <1>2
  <2> QED
    BY <1>1, <2>1, FS_RemoveElement
<1>3. ASSUME NEW f \in [SUBSET S -> D], NEW E \in SUBSET S PROVE Value(f, E) \in D
  <2>1. CASE E = {}
    BY <2>1
  <2>2. CASE E # {}
    BY <2>2, <1>2, SMTT(30)
  <2> QED
    BY <2>1, <2>2
<1>4. ASSUME NEW n \in Nat, Solved(n) PROVE Solved(n + 1)
  <2> PICK f \in [SUBSET S -> D] : Upto(f, n)
    BY <1>4
  <2> DEFINE g == [E \in SUBSET S |-> IF Cardinality(E) <= n THEN f[E] ELSE Value(f, E)]
  <2>1. g \in [SUBSET S -> D]
    BY <1>3
  <2>2. ASSUME NEW E \in SUBSET S, E # {}, Cardinality(E) <= n + 1
        PROVE  g[Rest(E)] = f[Rest(E)]
    <3> HIDE DEF Rest
    <3>1. /\ Cardinality(E) \in Nat
          /\ Rest(E) \in SUBSET S /\ Cardinality(Rest(E)) = Cardinality(E) - 1
      BY <1>1, <1>2, <2>2
    <3>2. Cardinality(Rest(E)) <= n
      BY <2>2, <3>1, SMTT(30)
    <3> QED
      BY <3>1, <3>2
  <2>3. ASSUME NEW E \in SUBSET S, Cardinality(E) <= n + 1 PROVE g[E] = Value(g, E)
    <3>1. Value(g, E) = Value(f, E)
      BY <2>2, <2>3, ZenonT(60)
    <3>2. CASE Cardinality(E) <= n
      BY <3>1, <3>2, ZenonT(60)
    <3>3. CASE ~(Cardinality(E) <= n)
      BY <3>1, <3>3
    <3> QED
      BY <3>2, <3>3, ZenonT(60)
  <2> QED
    BY <2>1, <2>3
<1>5. Solved(0)
  <2> DEFINE g == [E \in SUBSET S |-> base]
  <2>1. ASSUME NEW E \in SUBSET S, Cardinality(E) <= 0 PROVE E = {}
    BY <1>1, <2>1
  <2>2. g \in [SUBSET S -> D] /\ Upto(g, 0)
    BY <2>1
  <2> QED
    BY <2>2
<1>6. ASSUME NEW n \in Nat PROVE Solved(n)
  <2> DEFINE T == {m \in Nat : Solved(m)}
  <2> HIDE DEF Solved
  <2>1. 0 \in T /\ \A m \in Nat : m \in T => m + 1 \in T
    BY <1>4, <1>5
  <2>2. \A m \in Nat : m \in T
    <3> HIDE DEF T
    <3> QED BY <2>1, Numbers
  <2> QED
    BY <2>2
<1>7. PICK f \in [SUBSET S -> D] : Upto(f, Cardinality(S))
  BY <1>1, <1>6
<1>8. ASSUME NEW E \in SUBSET S PROVE Cardinality(E) <= Cardinality(S)
  BY FS_Subset
<1> QED
  BY <1>7, <1>8 DEF Unfolds

\* A property that a set has if it has it without any of its elements is one of
\* all finite sets.
LEMMA FiniteSetsAll ==
  ASSUME NEW S, IsFiniteSet(S), NEW T,
         \A E \in SUBSET S : (\A x \in E : E \ {x} \in T) => E \in T
  PROVE  S \in T
<1> DEFINE N == {n \in Nat : \A E \in SUBSET S : Cardinality(E) = n => E \in T}
<1>1. ASSUME NEW E \in SUBSET S
      PROVE  /\ IsFiniteSet(E) /\ Cardinality(E) \in Nat
             /\ Cardinality(E) = 0 <=> E = {}
             /\ \A x \in E : Cardinality(E \ {x}) = Cardinality(E) - 1
  BY FS_Subset, FS_CardinalityType, FS_EmptySet, FS_RemoveElement
<1>2. 0 \in N
  BY <1>1
<1>3. ASSUME NEW n \in Nat, n \in N PROVE n + 1 \in N
  <2> SUFFICES ASSUME NEW E \in SUBSET S, Cardinality(E) = n + 1, NEW x \in E
               PROVE  E \ {x} \in T
    OBVIOUS
  <2>1. E \ {x} \in SUBSET S /\ Cardinality(E \ {x}) = n
    BY <1>1
  <2> QED
    BY <1>3, <2>1
<1>4. \A n \in Nat : n \in N
  <2> HIDE DEF N
  <2> QED BY <1>2, <1>3, Numbers
<1> QED
  BY <1>1, <1>4

-------------------------------------------------------------------------------
(* What observing events adds *)

Stands(v, active, linked, box) ==
  v.memory \in active /\ <<v.memory, v.message>> \in linked /\ box[v.event] # NoEvent

\* Any two rows for one memory and type are a cooldown apart.
Spaced(rows) ==
  \A v, w \in rows :
    v # w /\ v.memory = w.memory /\ v.type = w.type
      => v.at - w.at >= Cooldown \/ w.at - v.at >= Cooldown

\* Rows that an observation may leave: those there were, and others that stand on
\* what the session sees.
Admitted(rows, old, active, linked, box) ==
  /\ rows \subseteq Evidence /\ old \subseteq rows /\ Spaced(rows)
  /\ \A v \in rows \ old : Stands(v, active, linked, box)

\* Of a memory's messages before an event one was the first.
LEMMA FirstIsOne ==
  ASSUME NEW X \in SUBSET Messages, X # {}
  PROVE  First(X) \in X
<1> DEFINE T == {SaidOn[x] : x \in X}
<1>1. T \in SUBSET Nat /\ T # {}
  BY ConstantsAssumption
<1>2. PICK t \in T : \A u \in T : t <= u
  <2> HIDE DEF T
  <2> QED BY <1>1, SmallestNumber
<1>3. PICK x \in X : SaidOn[x] = t
  OBVIOUS
<1>4. \A y \in X : SaidOn[x] <= SaidOn[y]
  BY <1>2, <1>3
<1> QED
  BY <1>4 DEF First

\* One event adds rows that stand, apart from those there are.
LEMMA ObserveAdmits ==
  ASSUME NEW rows, NEW old, NEW active \in SUBSET Memories, NEW texts \in SUBSET Messages,
         NEW linked, NEW box, NEW e \in Events, NEW r \in Event, box[e] # NoEvent,
         Admitted(rows, old, active, linked, box)
  PROVE  Admitted(Observe(rows, e, r, active, texts, linked), old, active, linked, box)
<1> DEFINE Seen(m) == \E v \in rows : v.memory = m /\ v.event = e
           Matching == {m \in active : /\ Earlier(m, r, texts, linked) # {}
                                       /\ ~Seen(m) /\ ~CoolsDown(rows, m, r)}
           Row(m) == [memory |-> m, message |-> First(Earlier(m, r, texts, linked)),
                      event |-> e, type |-> r.type, at |-> r.at]
           added == {Row(m) : m \in Matching}
<1>1. CASE ~Qualifies(r)
  BY <1>1 DEF Observe
<1>2. CASE Qualifies(r)
  <2>1. Observe(rows, e, r, active, texts, linked) = rows \union added
    BY <1>2 DEF Observe
  <2>2. r.type \in {"Danger", "Rescue"} /\ r.at \in Hours /\ r.at \in Nat
    BY <1>2, ConstantsAssumption DEF Qualifies, Event, Types
  <2>3. ASSUME NEW m \in Matching
        PROVE  /\ Row(m) \in Evidence /\ Stands(Row(m), active, linked, box)
               /\ \A v \in rows : v.memory = m /\ v.type = r.type => r.at - v.at >= Cooldown
    <3> DEFINE X == Earlier(m, r, texts, linked)
    <3>1. X \in SUBSET Messages /\ X # {} /\ \A x \in X : <<m, x>> \in linked
      BY DEF Earlier
    <3>2. First(X) \in X
      <4> HIDE DEF X
      <4> QED BY <3>1, FirstIsOne
    <3>3. First(X) \in Messages /\ <<m, First(X)>> \in linked
      <4> HIDE DEF X
      <4> QED BY <3>1, <3>2
    <3> HIDE DEF X
    <3>4. Row(m) \in Evidence /\ Stands(Row(m), active, linked, box)
      BY <2>2, <3>3 DEF Evidence, Stands, X
    <3>5. \A v \in rows : v.at \in Nat
      BY ConstantsAssumption DEF Admitted, Evidence
    <3>6. \A v \in rows : v.memory = m /\ v.type = r.type => r.at - v.at >= Cooldown
      BY <2>2, <3>5, ConstantsAssumption DEF CoolsDown
    <3> QED
      BY <3>4, <3>6
  <2>4. \A m \in Matching : Row(m).memory = m /\ Row(m).type = r.type /\ Row(m).at = r.at
    OBVIOUS
  <2> HIDE DEF Row, Matching
  <2>5. Spaced(rows \union added)
    <3> SUFFICES ASSUME NEW v \in rows \union added, NEW w \in rows \union added,
                        v # w, v.memory = w.memory, v.type = w.type
                 PROVE  v.at - w.at >= Cooldown \/ w.at - v.at >= Cooldown
      BY DEF Spaced
    <3>1. CASE v \in rows /\ w \in rows
      BY <3>1 DEF Admitted, Spaced
    <3>2. CASE v \in rows /\ w \in added
      BY <2>3, <2>4, <3>2
    <3>3. CASE v \in added /\ w \in rows
      BY <2>3, <2>4, <3>3
    <3>4. CASE v \in added /\ w \in added
      BY <2>4, <3>4
    <3> QED
      BY <3>1, <3>2, <3>3, <3>4
  <2>6. /\ rows \union added \subseteq Evidence /\ old \subseteq rows \union added
        /\ \A v \in (rows \union added) \ old : Stands(v, active, linked, box)
    BY <2>3 DEF Admitted
  <2> QED
    BY <2>1, <2>5, <2>6 DEF Admitted
<1> QED
  BY <1>1, <1>2

\* Of finitely many events one is the latest.
LEMMA LatestIsOne ==
  ASSUME NEW box, event = box, NEW S \in SUBSET Events, IsFiniteSet(S), S # {},
         \A e \in S : event[e] \in Event
  PROVE  \E e \in S : \A f \in S : f = e \/ Sooner(f, e)
<1> DEFINE Has(E) == \E e \in E : \A f \in E : f = e \/ Sooner(f, e)
           T == {E \in SUBSET S : E = {} \/ Has(E)}
<1>1. \A e \in S : e \in Nat /\ event[e].at \in Nat
  BY ConstantsAssumption DEF Event
<1>2. ASSUME NEW e \in S, NEW f \in S PROVE e = f \/ Sooner(e, f) \/ Sooner(f, e)
  BY <1>1 DEF Sooner
<1>3. ASSUME NEW e \in S, NEW f \in S, NEW g \in S, Sooner(e, f), Sooner(f, g)
      PROVE  Sooner(e, g)
  BY <1>1, <1>3 DEF Sooner
<1>4. ASSUME NEW E \in SUBSET S, \A x \in E : E \ {x} \in T PROVE E \in T
  <2> SUFFICES ASSUME NEW x \in E PROVE E \in T
    OBVIOUS
  <2>1. CASE E \ {x} = {}
    BY <2>1
  <2>2. CASE Has(E \ {x})
    <3>1. PICK e \in E \ {x} : \A f \in E \ {x} : f = e \/ Sooner(f, e)
      BY <2>2
    <3>2. CASE Sooner(x, e)
      BY <3>1, <3>2
    <3>3. CASE Sooner(e, x)
      BY <1>3, <3>1, <3>3
    <3> QED
      BY <1>2, <3>1, <3>2, <3>3
  <2> QED
    BY <1>4, <2>1, <2>2
<1>5. S \in T
  <2> HIDE DEF T
  <2> QED BY <1>4, FiniteSetsAll
<1> QED
  BY <1>5

\* All stored events together do, too.
LEMMA ObserveAllAdmits ==
  ASSUME NEW active \in SUBSET Memories, NEW texts \in SUBSET Messages, NEW linked,
         event \in [Events -> Event \union {NoEvent}], IsFiniteSet({e \in Events : Stored(e)}),
         evidence \subseteq Evidence, EvidenceIsSpaced
  PROVE  Admitted(ObserveAll(active, texts, linked), evidence, active, linked, event)
<1> DEFINE S == {e \in Events : Readable(e)}
           D == {rows \in SUBSET Evidence : Admitted(rows, evidence, active, linked, event)}
           Latest(E) == CHOOSE e \in E : \A f \in E : f = e \/ Sooner(f, e)
           last == [E \in SUBSET S |-> Latest(E)]
           Add(e, rows) == Observe(rows, e, event[e], active, texts, linked)
           step == [e \in S |-> [rows \in D |-> Add(e, rows)]]
           Body(t) == [E \in SUBSET S |-> IF E = {} THEN evidence
                                          ELSE LET x == Latest(E) IN Add(x, t[E \ {x}])]
           t == CHOOSE u : u = Body(u)
<1>1. IsFiniteSet(S) /\ \A e \in S : e \in Events /\ event[e] \in Event /\ event[e] # NoEvent
  <2>1. S \subseteq {e \in Events : Stored(e)}
    BY DEF Readable
  <2> QED
    BY <2>1, FS_Subset DEF Stored
<1>2. ASSUME NEW E \in SUBSET S, E # {} PROVE Latest(E) \in E
  <2>1. IsFiniteSet(E) /\ E \in SUBSET Events /\ \A e \in E : event[e] \in Event
    BY <1>1, FS_Subset
  <2> HIDE DEF S
  <2>2. \E e \in E : \A f \in E : f = e \/ Sooner(f, e)
    BY <1>2, <2>1, LatestIsOne
  <2> QED
    BY <2>2
<1>3. ASSUME NEW e \in S, NEW rows \in D PROVE Add(e, rows) \in D
  <2>1. Admitted(Add(e, rows), evidence, active, linked, event)
    BY <1>1, ObserveAdmits
  <2> QED
    BY <2>1 DEF Admitted
<1>4. evidence \in D
  BY DEF Admitted, EvidenceIsSpaced, Spaced
<1>5. Foldable(S, D, evidence, last, step)
  <2>1. \A E \in SUBSET S : E # {} => last[E] \in E
    <3> HIDE DEF Latest, S
    <3> QED BY <1>2
  <2>2. \A e \in S, rows \in D : step[e][rows] \in D
    <3> HIDE DEF Add, S, D
    <3> QED BY <1>3
  <2> HIDE DEF S, D, last, step
  <2> QED
    BY <1>1, <1>4, <2>1, <2>2 DEF Foldable
<1>6. PICK u \in [SUBSET S -> D] : Unfolds(u, S, evidence, last, step)
  <2> HIDE DEF S, D, last, step
  <2> QED BY <1>5, FoldExists
<1>7. u = Body(u)
  <2>1. ASSUME NEW E \in SUBSET S PROVE u[E] = Body(u)[E]
    <3>1. CASE E = {}
      <4> HIDE DEF S, D, last, step, Add, Latest
      <4> QED BY <1>6, <3>1 DEF Unfolds
    <3>2. CASE E # {}
      <4>1. Latest(E) \in S /\ E \ {Latest(E)} \in SUBSET S /\ last[E] = Latest(E)
        <5> HIDE DEF Latest, S
        <5> QED BY <1>2, <3>2
      <4>2. u[E] = step[last[E]][u[E \ {last[E]}]]
        <5> HIDE DEF S, D, last, step
        <5> QED BY <1>6, <3>2 DEF Unfolds
      <4>3. u[E \ {Latest(E)}] \in D
        <5> HIDE DEF S, D, Latest, last, step
        <5> QED BY <4>1
      <4>4. u[E] = Add(Latest(E), u[E \ {Latest(E)}])
        <5> HIDE DEF S, D, Latest, last, Add
        <5> QED BY <4>1, <4>2, <4>3
      <4> HIDE DEF S, D, Latest, last, Add, step
      <4> QED BY <3>2, <4>4
    <3> QED BY <3>1, <3>2
  <2> HIDE DEF S, D, Latest, last, Add, step
  <2> QED BY <2>1
<1>8. t = Body(t)
  <2> HIDE DEF Body
  <2> QED BY <1>7
<1>9. ObserveAll(active, texts, linked) = t[S]
  BY DEF ObserveAll, MapThenFoldSet
<1>10. t[S] \in D
  <2> DEFINE T == {E \in SUBSET S : t[E] \in D}
  <2>1. ASSUME NEW E \in SUBSET S, \A x \in E : E \ {x} \in T PROVE E \in T
    <3>1. CASE E = {}
      <4>1. t[E] = evidence
        <5> HIDE DEF S, D, Latest, Add, t
        <5> QED BY <1>8, <3>1
      <4> QED
        BY <1>4, <4>1
    <3>2. CASE E # {}
      <4>1. Latest(E) \in E /\ Latest(E) \in S
        <5> HIDE DEF Latest, S
        <5> QED BY <1>2, <3>2
      <4>2. t[E \ {Latest(E)}] \in D
        <5> HIDE DEF S, D, Latest, t
        <5> QED BY <2>1, <4>1
      <4>3. t[E] = Add(Latest(E), t[E \ {Latest(E)}])
        <5> HIDE DEF S, D, Latest, Add, t
        <5> QED BY <1>8, <3>2
      <4> HIDE DEF S, D, Latest, Add, t
      <4> QED BY <1>3, <4>1, <4>2, <4>3
    <3> QED
      BY <3>1, <3>2
  <2>2. S \in T
    <3> HIDE DEF S, T
    <3> QED BY <1>1, <2>1, FiniteSetsAll
  <2> QED
    BY <2>2
<1> QED
  BY <1>9, <1>10

-------------------------------------------------------------------------------
(* Evidence: what it rests on, and its distances *)

EventTypes ==
  /\ links \subseteq Memories \X Messages
  /\ event \in [Events -> Event \union {NoEvent}]
  /\ IsFiniteSet({e \in Events : Stored(e)})
  /\ evidence \subseteq Evidence

\* Evidence is of memories and events that were stored, and of links.
Grounded ==
  \A v \in evidence :
    memory[v.memory] # "None" /\ <<v.memory, v.message>> \in links /\ Stored(v.event)

EvidenceInv == Shape /\ EventTypes /\ Grounded /\ EvidenceIsSpaced

\* What evidence rests on is never taken back.
GroundStays ==
  /\ links \subseteq links'
  /\ \A m \in Memories : memory[m] # "None" => memory'[m] # "None"
  /\ \A e \in Events : Stored(e) => Stored(e)'

LEMMA KeptEvidence ==
  ASSUME EvidenceInv, GroundStays, UNCHANGED evidence
  PROVE  Grounded' /\ EvidenceIsSpaced'
<1>1. \A v \in evidence : v.memory \in Memories /\ v.event \in Events
  BY DEF EvidenceInv, EventTypes, Evidence
<1> QED
  BY <1>1 DEF EvidenceInv, Grounded, GroundStays, EvidenceIsSpaced

LEMMA AdmittedEvidence ==
  ASSUME EvidenceInv, GroundStays, NEW active \in SUBSET Memories, NEW linked \in SUBSET links',
         \A m \in active : memory'[m] # "None",
         Admitted(evidence', evidence, active, linked, event')
  PROVE  Grounded' /\ EvidenceIsSpaced'
<1>1. \A v \in evidence' : v.memory \in Memories /\ v.event \in Events
  BY DEF Admitted, Evidence
<1>2. ASSUME NEW v \in evidence'
      PROVE  /\ memory'[v.memory] # "None" /\ <<v.memory, v.message>> \in links'
             /\ event'[v.event] # NoEvent
  <2>1. CASE v \in evidence
    BY <1>1, <2>1 DEF EvidenceInv, Grounded, GroundStays, Stored
  <2>2. CASE v \notin evidence
    BY <2>2 DEF Admitted, Stands
  <2> QED
    BY <2>1, <2>2
<1>3. EvidenceIsSpaced'
  BY DEF Admitted, Spaced, EvidenceIsSpaced
<1> QED
  BY <1>2, <1>3 DEF Grounded, Stored

\* The row of an event is one, and not an absent one.
LEMMA EventRow ==
  ASSUME NEW type \in Types, NEW at \in Hours, NEW has \in BOOLEAN
  PROVE  /\ [type |-> type, at |-> at, content |-> has] \in Event
         /\ [type |-> type, at |-> at, content |-> has] # NoEvent
<1>1. [type |-> type, at |-> at, content |-> has] \in Event
  BY DEF Event
<1> QED
  BY <1>1, ConstantsAssumption DEF Event, Types

LEMMA CreateEvidence ==
  ASSUME EvidenceInv, NEW e \in Events, NEW type \in Types, NEW at \in Hours,
         CreateEvent(e, type, at)
  PROVE  EventTypes' /\ Grounded' /\ EvidenceIsSpaced'
<1> DEFINE r == [type |-> type, at |-> at, content |-> TRUE]
<1>1. /\ ~Stored(e) /\ event' = [event EXCEPT ![e] = r]
      /\ evidence' = Observe(evidence, e, r, Active, Texts(content), links)
      /\ UNCHANGED <<memory, links, content>>
  BY DEF CreateEvent
<1>2. r \in Event /\ r # NoEvent
  BY EventRow
<1> HIDE DEF r
<1>3. event' \in [Events -> Event \union {NoEvent}] /\ event'[e] # NoEvent
  BY <1>1, <1>2 DEF EvidenceInv, EventTypes
<1>4. IsFiniteSet({f \in Events : Stored(f)'})
  <2>1. {f \in Events : Stored(f)'} = {f \in Events : Stored(f)} \union {e}
    BY <1>1, <1>3 DEF Stored, EvidenceInv, EventTypes
  <2>2. IsFiniteSet({f \in Events : Stored(f)} \union {e})
    BY FS_AddElement DEF EvidenceInv, EventTypes
  <2> QED
    BY <2>1, <2>2
<1>5. GroundStays
  BY <1>1, <1>3 DEF GroundStays, Stored, EvidenceInv, EventTypes
<1>6. Admitted(evidence, evidence, Active, links, event')
  BY DEF Admitted, Spaced, EvidenceInv, EventTypes, EvidenceIsSpaced
<1>7. Active \in SUBSET Memories /\ Texts(content) \in SUBSET Messages
  BY DEF Active, Texts
<1>8. Admitted(evidence', evidence, Active, links, event')
  BY <1>1, <1>2, <1>3, <1>6, <1>7, ObserveAdmits
<1>9. \A m \in Active : memory'[m] # "None"
  BY <1>1 DEF Active
<1>10. Grounded' /\ EvidenceIsSpaced'
  BY <1>1, <1>5, <1>7, <1>8, <1>9, AdmittedEvidence
<1>11. EventTypes'
  BY <1>1, <1>3, <1>4, <1>8 DEF EventTypes, EvidenceInv, Admitted
<1> QED
  BY <1>10, <1>11

LEMMA AcceptEvidence ==
  ASSUME EvidenceInv, NEW p \in Acceptors, Accept(p)
  PROVE  EventTypes' /\ Grounded' /\ EvidenceIsSpaced'
<1> DEFINE x == job[p].message
           m == TextOf[x]
           exact == m \in job[p].loaded
           linked == links \union {<<m, x>>}
           found == IF exact THEN Active ELSE Active \union {m}
           events == \E e \in Events : Readable(e)
<1>0. x \in Messages /\ m \in Memories /\ UNCHANGED event
  BY JobOfBusy DEF Accept, EvidenceInv
<1>1. UNCHANGED {e \in Events : Stored(e)}
  BY <1>0 DEF Stored
<1>2. CASE ~(exact \/ memory[m] = "None")
  <2>1. UNCHANGED <<memory, links, evidence>>
    BY <1>2 DEF Accept
  <2>2. GroundStays
    BY <1>0, <2>1 DEF GroundStays, Stored
  <2> QED
    BY <1>0, <1>1, <2>1, <2>2, KeptEvidence DEF EventTypes, EvidenceInv
<1>3. CASE exact \/ memory[m] = "None"
  <2>1. /\ memory' = IF exact THEN memory ELSE [memory EXCEPT ![m] = "Active"]
        /\ links' = linked
        /\ evidence' = IF events THEN ObserveAll(found, Texts(content), linked) ELSE evidence
    BY <1>3 DEF Accept
  <2>2. found \in SUBSET Memories /\ Texts(content) \in SUBSET Messages
    BY <1>0 DEF Active, Texts
  <2>3. \A n \in found : memory'[n] # "None"
    BY <1>0, <2>1 DEF Active, EvidenceInv, Shape
  <2>4. links' \subseteq Memories \X Messages
    BY <1>0, <2>1 DEF EvidenceInv, EventTypes
  <2>5. GroundStays
    BY <1>0, <2>1 DEF GroundStays, Stored, EvidenceInv, Shape
  <2> HIDE DEF linked, found, events
  <2>6. CASE events
    <3>1. Admitted(ObserveAll(found, Texts(content), linked), evidence, found, linked, event)
      BY <2>2, ObserveAllAdmits DEF EvidenceInv, EventTypes
    <3>2. Admitted(evidence', evidence, found, linked, event')
      BY <1>0, <2>1, <2>6, <3>1
    <3>3. Grounded' /\ EvidenceIsSpaced'
      BY <2>1, <2>2, <2>3, <2>5, <3>2, AdmittedEvidence
    <3> QED
      BY <1>0, <1>1, <2>4, <3>2, <3>3 DEF EventTypes, EvidenceInv, Admitted
  <2>7. CASE ~events
    <3>1. UNCHANGED evidence
      BY <2>1, <2>7
    <3> QED
      BY <1>0, <1>1, <2>4, <2>5, <3>1, KeptEvidence DEF EventTypes, EvidenceInv
  <2> QED
    BY <2>6, <2>7
<1> QED
  BY <1>2, <1>3

\* Other steps leave evidence, links and events, but for the content of events.
LEMMA OtherEvidence ==
  ASSUME EvidenceInv, UNCHANGED <<evidence, links>>,
         \A m \in Memories : memory[m] # "None" => memory'[m] # "None",
         event' \in [Events -> Event \union {NoEvent}],
         \A e \in Events : Stored(e)' <=> Stored(e)
  PROVE  EventTypes' /\ Grounded' /\ EvidenceIsSpaced'
<1>1. UNCHANGED {e \in Events : Stored(e)}
  OBVIOUS
<1>2. GroundStays
  BY DEF GroundStays
<1>3. Grounded' /\ EvidenceIsSpaced'
  BY <1>2, KeptEvidence
<1>4. EventTypes'
  BY <1>1 DEF EventTypes, EvidenceInv
<1> QED
  BY <1>3, <1>4

LEMMA PurgeEvidence ==
  ASSUME EvidenceInv, NEW X \in SUBSET Messages, NEW E \in SUBSET Events, Purge(X, E)
  PROVE  EventTypes' /\ Grounded' /\ EvidenceIsSpaced'
<1>1. /\ UNCHANGED <<memory, links, evidence>>
      /\ event' = [e \in Events |-> IF e \in E THEN [event[e] EXCEPT !.content = FALSE]
                                               ELSE event[e]]
      /\ \A e \in E : Readable(e)
  BY DEF Purge
<1>2. ASSUME NEW e \in Events
      PROVE  event'[e] \in Event \union {NoEvent} /\ (Stored(e)' <=> Stored(e))
  <2>1. CASE e \in E
    <3>1. event[e] \in Event /\ Stored(e)
      BY <1>1, <2>1 DEF Readable, Stored, EvidenceInv, EventTypes
    <3>2. event'[e] \in Event
      BY <1>1, <2>1, <3>1 DEF Event
    <3>3. event'[e] # NoEvent
      BY <3>2, ConstantsAssumption DEF Event, Types
    <3> QED
      BY <3>1, <3>2, <3>3 DEF Stored
  <2>2. CASE e \notin E
    BY <1>1, <2>2 DEF Stored, EvidenceInv, EventTypes
  <2> QED
    BY <2>1, <2>2
<1>3. event' \in [Events -> Event \union {NoEvent}]
  BY <1>1, <1>2
<1> QED
  BY <1>1, <1>2, <1>3, OtherEvidence

LEMMA NextEvidence == EvidenceInv /\ [RelationshipNext]_relationshipVars => EvidenceInv'
<1> SUFFICES ASSUME EvidenceInv, [RelationshipNext]_relationshipVars
             PROVE  EventTypes' /\ Grounded' /\ EvidenceIsSpaced'
  BY NextShape DEF EvidenceInv
<1>1. ASSUME NEW e \in Events, NEW type \in Types, NEW at \in Hours,
             CreateEvent(e, type, at)
      PROVE  EventTypes' /\ Grounded' /\ EvidenceIsSpaced'
  BY <1>1, CreateEvidence
<1>2. ASSUME NEW p \in Acceptors, Accept(p)
      PROVE  EventTypes' /\ Grounded' /\ EvidenceIsSpaced'
  BY <1>2, AcceptEvidence
<1>3. ASSUME NEW X \in SUBSET Messages, NEW E \in SUBSET Events, Purge(X, E)
      PROVE  EventTypes' /\ Grounded' /\ EvidenceIsSpaced'
  BY <1>3, PurgeEvidence
<1>4. ASSUME UNCHANGED <<evidence, links, event>>,
             \A m \in Memories : memory[m] # "None" => memory'[m] # "None"
      PROVE  EventTypes' /\ Grounded' /\ EvidenceIsSpaced'
  BY <1>4, OtherEvidence DEF EvidenceInv, EventTypes, Stored
<1>5. ASSUME NEW F \in SUBSET Memories, Forget(F)
      PROVE  EventTypes' /\ Grounded' /\ EvidenceIsSpaced'
  BY <1>4, <1>5 DEF Forget
<1>6. ASSUME ArchiveWithoutSource PROVE EventTypes' /\ Grounded' /\ EvidenceIsSpaced'
  BY <1>4, <1>6 DEF ArchiveWithoutSource
<1>7. ASSUME UNCHANGED <<evidence, links, event, memory>>
      PROVE  EventTypes' /\ Grounded' /\ EvidenceIsSpaced'
  BY <1>4, <1>7
<1>8. ASSUME NEW p \in Acceptors, NEW x \in Messages, BeginAccept(p, x)
      PROVE  EventTypes' /\ Grounded' /\ EvidenceIsSpaced'
  BY <1>7, <1>8 DEF BeginAccept
<1>9. ASSUME NEW p \in Acceptors, Reject(p)
      PROVE  EventTypes' /\ Grounded' /\ EvidenceIsSpaced'
  BY <1>7, <1>9 DEF Reject
<1>10. ASSUME NEW x \in Messages, BeginPurge(x)
       PROVE  EventTypes' /\ Grounded' /\ EvidenceIsSpaced'
  BY <1>7, <1>10 DEF BeginPurge
<1>11. CASE UNCHANGED relationshipVars
  BY <1>7, <1>11 DEF relationshipVars
<1> QED
  BY <1>1, <1>2, <1>3, <1>5, <1>6, <1>8, <1>9, <1>10, <1>11 DEF RelationshipNext

LEMMA InitEvidence == RelationshipInit => EvidenceInv
<1> SUFFICES ASSUME RelationshipInit PROVE EvidenceInv
  OBVIOUS
<1>1. {e \in Events : Stored(e)} = {}
  BY DEF RelationshipInit, Stored
<1> QED
  BY <1>1, InitShape, FS_EmptySet
     DEF RelationshipInit, EvidenceInv, EventTypes, Grounded, EvidenceIsSpaced

\* In whatever order events arrive, are repeated or meet a memory, two events of
\* one type count for a memory only when they are a cooldown apart.
THEOREM EvidenceStaysSpaced == RelationshipSpec => []EvidenceIsSpaced
<1>1. EvidenceInv => EvidenceIsSpaced
  BY DEF EvidenceInv
<1> QED
  BY <1>1, InitEvidence, NextEvidence, PTL DEF RelationshipSpec

-------------------------------------------------------------------------------
(* Growth *)

States == {"Low", "Growing", "High"}

\* The state is what its evidence amounts to, or higher.
Covers == relation \in States /\ Rank[Justified] <= Rank[relation]

LEMMA RankIs == DOMAIN Rank = States /\ Rank["Low"] = 1 /\ Rank["Growing"] = 2 /\ Rank["High"] = 3
BY DEF Rank, States

LEMMA DeriveIs == \A valid : Derive(valid) \in States
BY DEF Derive, States

\* Whatever is valid for one session and not for another, more valid evidence
\* never means a lower state.
LEMMA EvaluateClimbs ==
  ASSUME NEW rows, NEW a, NEW b, NEW c, NEW d, NEW e, NEW f, NEW g, NEW h,
         \A v \in rows : Valid(v, a, b, c, d) => Valid(v, e, f, g, h)
  PROVE  /\ Evaluate(rows, a, b, c, d) \in States /\ Evaluate(rows, e, f, g, h) \in States
         /\ Rank[Evaluate(rows, a, b, c, d)] <= Rank[Evaluate(rows, e, f, g, h)]
<1> DEFINE V == {v \in rows : Valid(v, a, b, c, d)}
           W == {v \in rows : Valid(v, e, f, g, h)}
<1>1. V \subseteq W
  OBVIOUS
<1> HIDE DEF V, W
<1>2. Derive(V) = "High" => Derive(W) = "High"
  BY <1>1 DEF Derive
<1>3. Derive(V) # "Low" => Derive(W) # "Low"
  BY <1>1 DEF Derive
<1>4. Rank[Derive(V)] <= Rank[Derive(W)]
  BY <1>2, <1>3, DeriveIs, RankIs DEF States
<1> QED
  BY <1>4, DeriveIs DEF Evaluate, V, W

\* An evaluation of no more than is valid, by a session that sees the rows as it
\* leaves them, covers what they amount to, and does not rise over it.
LEMMA Evaluated ==
  ASSUME Covers, relation' = Justified',
         evidence' = evidence =>
           \A v \in evidence : Valid(v, Active, Texts(content), links, event)'
                                => Valid(v, Active, Texts(content), links, event)
  PROVE  /\ Covers'
         /\ evidence' = evidence => Rank[relation'] <= Rank[relation]
<1>1. relation' \in States /\ Rank[Justified'] \in Nat
  <2>1. Justified' \in States
    BY DeriveIs DEF Justified, Evaluate
  <2> QED
    BY <2>1, RankIs DEF States
<1>2. Covers'
  BY <1>1 DEF Covers
<1>3. ASSUME evidence' = evidence PROVE Rank[relation'] <= Rank[relation]
  <2>1. Rank[Evaluate(evidence, Active', Texts(content'), links', event')] <= Rank[Justified]
    BY <1>3, EvaluateClimbs DEF Justified
  <2>2. Rank[relation'] <= Rank[Justified]
    BY <1>3, <2>1 DEF Justified
  <2>3. /\ Rank[relation'] \in Nat /\ Rank[relation] \in Nat /\ Rank[Justified] \in Nat
    BY <1>1, RankIs, DeriveIs DEF Covers, States, Justified, Evaluate
  <2> QED
    BY <2>2, <2>3 DEF Covers
<1> QED
  BY <1>2, <1>3

Grows == Rank[relation'] > Rank[relation] => overlooked' \/ evidence' # evidence

LEMMA RefreshGrows ==
  ASSUME EvidenceInv, Covers, Refresh, UNCHANGED <<links, evidence>>,
         \A m \in Memories : memory'[m] = "Active" => memory[m] = "Active",
         \A x \in Messages : content'[x] => content[x],
         \A e \in Events : Stored(e)' /\ Qualifies(event'[e]) => Stored(e) /\ Qualifies(event[e])
  PROVE  Covers' /\ Grows
<1>1. relation' = Justified'
  BY DEF Refresh, Justified, Active
<1>2. ASSUME NEW v \in evidence, Valid(v, Active, Texts(content), links, event)'
      PROVE  Valid(v, Active, Texts(content), links, event)
  BY <1>2 DEF Valid, Active, Texts, Stored
<1>3. Covers' /\ Rank[relation'] <= Rank[relation]
  BY <1>1, <1>2, Evaluated
<1>4. Rank[relation'] \in Nat /\ Rank[relation] \in Nat
  BY <1>3, RankIs DEF Covers, States
<1> QED
  BY <1>3, <1>4 DEF Grows

LEMMA CreateGrows ==
  ASSUME EvidenceInv, Covers, NEW e \in Events, NEW type \in Types, NEW at \in Hours,
         CreateEvent(e, type, at)
  PROVE  Covers' /\ Grows
<1>1. /\ ~Stored(e) /\ UNCHANGED <<memory, links, content>>
      /\ relation' = Evaluate(evidence', Active, Texts(content), links, event')
      /\ \A f \in Events \ {e} : event'[f] = event[f]
  BY DEF CreateEvent, EvidenceInv, EventTypes
<1>2. relation' = Justified'
  BY <1>1 DEF Justified, Active
<1>3. ASSUME NEW v \in evidence, Valid(v, Active, Texts(content), links, event)'
      PROVE  Valid(v, Active, Texts(content), links, event)
  <2>1. v.event \in Events \ {e}
    BY <1>1 DEF EvidenceInv, Grounded, EventTypes, Evidence
  <2> QED
    BY <1>1, <1>3, <2>1 DEF Valid, Active
<1>4. Covers' /\ (evidence' = evidence => Rank[relation'] <= Rank[relation])
  BY <1>2, <1>3, Evaluated
<1>5. Rank[relation'] \in Nat /\ Rank[relation] \in Nat
  BY <1>4, RankIs DEF Covers, States
<1> QED
  BY <1>4, <1>5 DEF Grows

\* Rows that the evaluation reads, and the state, are left alone.
LEMMA KeptGrows ==
  ASSUME Covers, UNCHANGED <<memory, links, content, event, evidence, relation>>
  PROVE  Covers' /\ Grows
<1>1. Justified' = Justified
  BY DEF Justified, Active
<1>2. Rank[relation'] \in Nat /\ Rank[relation'] = Rank[relation]
  BY RankIs DEF Covers, States
<1> QED
  BY <1>1, <1>2 DEF Covers, Grows

LEMMA AcceptGrows ==
  ASSUME EvidenceInv, Covers, NEW p \in Acceptors, Accept(p)
  PROVE  Covers' /\ Grows
<1> DEFINE x == job[p].message
           m == TextOf[x]
           exact == m \in job[p].loaded
           linked == links \union {<<m, x>>}
           active == Active \union {m} \union job[p].loaded
           texts == Texts(content) \union {x}
           events == \E e \in Events : Readable(e)
<1>0. x \in Messages /\ m \in Memories /\ job[p].loaded \subseteq Memories
      /\ UNCHANGED <<content, event>>
  BY JobOfBusy DEF Accept, EvidenceInv
<1>1. CASE ~(exact \/ memory[m] = "None")
  BY <1>0, <1>1, KeptGrows DEF Accept
<1>2. CASE exact \/ memory[m] = "None"
  <2>1. /\ memory' = IF exact THEN memory ELSE [memory EXCEPT ![m] = "Active"]
        /\ links' = linked
        /\ evidence' = IF events THEN evidence' ELSE evidence
        /\ relation' = IF events THEN Evaluate(evidence', active, texts, linked, event)
                                 ELSE relation
        /\ overlooked' = \/ overlooked /\ ~events
                         \/ events /\ job[p].loaded \ Active # {}
                         \/ events /\ ~content[x]
    BY <1>2 DEF Accept
  <2>2. CASE ~events
    <3>1. \A e \in Events : ~Readable(e)
      BY <2>2
    <3>2. Evaluate(evidence', Active', Texts(content'), links', event) = "Low"
      BY <3>1, NoEventNoEvidence
    <3>3. Justified' = "Low" /\ relation' = relation
      BY <1>0, <2>1, <2>2, <3>2 DEF Justified
    <3>4. Rank[relation] \in Nat /\ Rank[relation] >= 1
      BY RankIs DEF Covers, States
    <3> QED
      BY <3>3, <3>4, RankIs DEF Covers, Grows
  <2>3. CASE events
    <3>1. relation' = Evaluate(evidence', active, texts, linked, event)
      BY <2>1, <2>3
    <3>2. \A v \in evidence' : Valid(v, Active', Texts(content'), links', event')
                                => Valid(v, active, texts, linked, event)
      <4>1. Active' \subseteq active
        BY <1>0, <2>1 DEF Active, EvidenceInv, Shape
      <4>2. Texts(content') \subseteq texts
        BY <1>0 DEF Texts
      <4> HIDE DEF active, texts, linked
      <4> QED
        BY <1>0, <2>1, <4>1, <4>2 DEF Valid
    <3>3. Covers'
      <4> HIDE DEF active, texts, linked
      <4> QED
        BY <3>1, <3>2, EvaluateClimbs DEF Covers, Justified
    <3>4. ASSUME ~overlooked', evidence' = evidence PROVE Rank[relation'] <= Rank[relation]
      <4>1. job[p].loaded \subseteq Active /\ content[x]
        BY <2>1, <2>3, <3>4
      <4>2. ASSUME NEW v \in evidence, Valid(v, active, texts, linked, event)
            PROVE  Valid(v, Active, Texts(content), links, event)
        <5>1. memory[v.memory] # "None" /\ <<v.memory, v.message>> \in links
          BY DEF EvidenceInv, Grounded
        <5>2. v.memory \in Active
          BY <1>2, <4>1, <4>2, <5>1 DEF Valid
        <5>3. v.message \in Texts(content)
          BY <1>0, <4>1, <4>2 DEF Valid, Texts
        <5> QED
          BY <4>2, <5>1, <5>2, <5>3 DEF Valid
      <4>3. /\ Rank[relation'] <= Rank[Justified]
            /\ relation' \in States /\ Justified \in States
        <5> HIDE DEF active, texts, linked
        <5> QED
          BY <3>1, <3>4, <4>2, EvaluateClimbs DEF Justified
      <4> QED
        BY <4>3, RankIs DEF Covers, States
    <3>5. Rank[relation'] \in Nat /\ Rank[relation] \in Nat
      BY <3>3, RankIs DEF Covers, States
    <3> QED
      BY <3>3, <3>4, <3>5 DEF Grows
  <2> QED
    BY <2>2, <2>3
<1> QED
  BY <1>1, <1>2

LEMMA NextGrows ==
  EvidenceInv /\ Covers /\ [RelationshipNext]_relationshipVars => Covers' /\ Grows
<1> SUFFICES ASSUME EvidenceInv, Covers, [RelationshipNext]_relationshipVars
             PROVE  Covers' /\ Grows
  OBVIOUS
<1>1. ASSUME NEW e \in Events, NEW type \in Types, NEW at \in Hours,
             CreateEvent(e, type, at)
      PROVE  Covers' /\ Grows
  BY <1>1, CreateGrows
<1>2. ASSUME NEW p \in Acceptors, NEW x \in Messages, BeginAccept(p, x) PROVE Covers' /\ Grows
  BY <1>2, KeptGrows DEF BeginAccept
<1>3. ASSUME NEW p \in Acceptors, Accept(p) PROVE Covers' /\ Grows
  BY <1>3, AcceptGrows
<1>4. ASSUME NEW p \in Acceptors, Reject(p) PROVE Covers' /\ Grows
  BY <1>4, KeptGrows DEF Reject
<1>5. ASSUME NEW F \in SUBSET Memories, Forget(F) PROVE Covers' /\ Grows
  BY <1>5, RefreshGrows DEF Forget, Stored
<1>6. ASSUME ArchiveWithoutSource PROVE Covers' /\ Grows
  BY <1>6, RefreshGrows DEF ArchiveWithoutSource, Stored
<1>7. ASSUME NEW x \in Messages, BeginPurge(x) PROVE Covers' /\ Grows
  BY <1>7, KeptGrows DEF BeginPurge
<1>8. ASSUME NEW X \in SUBSET Messages, NEW E \in SUBSET Events, Purge(X, E)
      PROVE  Covers' /\ Grows
  <2>1. /\ Refresh /\ UNCHANGED <<memory, links, evidence>>
        /\ \A x \in Messages : content'[x] => content[x]
        /\ event' = [e \in Events |-> IF e \in E THEN [event[e] EXCEPT !.content = FALSE]
                                                 ELSE event[e]]
        /\ \A e \in E : Readable(e)
    BY <1>8 DEF Purge
  <2>2. ASSUME NEW e \in Events, Stored(e)', Qualifies(event'[e])
        PROVE  Stored(e) /\ Qualifies(event[e])
    <3>1. CASE e \in E
      <4>1. event[e] \in Event
        BY <2>1, <3>1 DEF Readable, Stored, EvidenceInv, EventTypes
      <4>2. event'[e].content = FALSE
        BY <2>1, <3>1, <4>1 DEF Event
      <4> QED
        BY <2>2, <4>2 DEF Qualifies
    <3>2. CASE e \notin E
      BY <2>1, <2>2, <3>2 DEF Stored
    <3> QED
      BY <3>1, <3>2
  <2> QED
    BY <2>1, <2>2, RefreshGrows
<1>9. CASE UNCHANGED relationshipVars
  BY <1>9, KeptGrows DEF relationshipVars
<1> QED
  BY <1>1, <1>2, <1>3, <1>4, <1>5, <1>6, <1>7, <1>8, <1>9 DEF RelationshipNext

LEMMA InitCovers == RelationshipInit => Covers
<1> SUFFICES ASSUME RelationshipInit PROVE Covers
  OBVIOUS
<1>1. Justified = "Low"
  BY DEF RelationshipInit, Justified, Evaluate, Derive
<1> QED
  BY <1>1, RankIs DEF RelationshipInit, Covers, States

\* The state rises only with new evidence, or when an acceptance overlooked what
\* was deleted or erased before it wrote: no deletion, erasure or event that does
\* not qualify raises it, not even when it corrects a state that was too high.
THEOREM RelationshipGrowsOnEvidence == RelationshipSpec => GrowsOnEvidence
<1>1. EvidenceInv /\ Covers /\ [RelationshipNext]_relationshipVars
        => [Rank[relation'] > Rank[relation] => overlooked' \/ evidence' # evidence]_relationshipVars
  BY NextGrows DEF Grows
<1> QED
  BY <1>1, InitEvidence, NextEvidence, InitCovers, NextGrows, PTL DEF RelationshipSpec, GrowsOnEvidence
===============================================================================
