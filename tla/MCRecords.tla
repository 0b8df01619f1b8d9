------------------------------- MODULE MCRecords -------------------------------
(* Instances of Records for TLC. *)
EXTENDS Records, TLC
MCSymmetry == Permutations(Handlers) \union Permutations(Operations)
              \union Permutations(EventBodies)

\* Commands, events and files share the sweep and the clock, and nothing else: a
\* behaviour that uses one of them shows as much as one that uses two.
Serving(kind) == \E h \in Handlers : ~Doing(h, "idle") /\ handler[h].kind = kind
MCParts == <<ended # {} \/ (\E c \in CommandIds : candidate[c] # NoRow) \/ Serving("result"),
             (\E e \in EventIds : event[e] # NoRow) \/ Serving("event"),
             changes > 0>>
MCOnePart == \A i, j \in 1..3 : i # j => ~(MCParts[i] /\ MCParts[j])

\* A report that does not match is refused whatever it says; Expired may come first
\* as Rejected may, and last as Succeeded may.
MCFewReports ==
  \A h \in Handlers : ~Doing(h, "idle") /\ handler[h].kind = "result" =>
    LET body == handler[h].body IN
    body.status \notin {"Rejected", "Succeeded"} /\ (body.matches \/ body.status = "Accepted")

\* At first nothing is due, and without files a sweep may as well stop before them.
MCFewSweeps ==
  /\ clock = 0 => At("idle")
  /\ changes = 0 => ~At("files")
===============================================================================
