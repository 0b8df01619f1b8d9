----------------------------- MODULE DistilledMemory -----------------------------
(***************************************************************************)
(* What a long-term store promises of one player's memories: they change   *)
(* one whole update at a time, however callers overlap, and a restart      *)
(* finds all of the last update that was stored.  Recall statistics are    *)
(* not part of the promise.                                                *)
(***************************************************************************)
EXTENDS Naturals, FiniteSets

CONSTANTS AllLines, MaxMemories

VARIABLES known,   \* the lines the process answers from
          stored   \* the lines a restart finds

Init == known = {} /\ stored = {}

Replaces(new, old) == \/ new.text = old.text
                      \/ /\ new.kind = "session_summary" /\ old.kind = "session_summary"
                         /\ new.source = old.source

\* A text is remembered once, and the cap holds.
WellFormed(lines) == /\ lines \subseteq AllLines /\ Cardinality(lines) <= MaxMemories
                     /\ \A a, b \in lines : a.text = b.text => a = b

\* Whatever the new lines do not replace stays, unless the cap drops it.
Remember ==
  /\ WellFormed(known')
  /\ \A old \in known \ known' :
       \/ Cardinality(known') = MaxMemories
       \/ \E new \in known' : Replaces(new, old)
  /\ UNCHANGED stored

\* At the cap, fewer lines take the place of all.
Consolidate ==
  /\ Cardinality(known) = MaxMemories
  /\ WellFormed(known') /\ known' # {} /\ Cardinality(known') < MaxMemories
  /\ UNCHANGED stored

Save == stored' = known /\ UNCHANGED known

\* A crash, or a failed write that the cache forgets.
Revert == known' = stored /\ UNCHANGED stored

Next == Remember \/ Consolidate \/ Save \/ Revert
Spec == Init /\ [][Next]_<<known, stored>>
===============================================================================
