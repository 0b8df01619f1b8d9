---------------------------- MODULE MCOfflineTasks ----------------------------
(* Instances of OfflineTasks for TLC: which requests there are and what they ask. *)
EXTENDS OfflineTasks, TLC

CONSTANTS c1, c2, g1, o1

\* c1 and c2 craft one item (two materials), g1 gathers two, o1 has no quantity.
MCKind == [r \in Requests |-> CASE r \in {c1, c2} -> "craft"
                                [] r = g1 -> "gather"
                                [] OTHER -> "open"]
MCQuantity == [r \in Requests |-> IF r = g1 THEN 2 ELSE 1]

\* Two sessions differ in nothing but their name.
MCSymmetry == Permutations(Sessions)
\* The player may spend one material; or does nothing.
MCPlayRange == (FirstMako + FirstStorage - 1)..(FirstMako + FirstStorage)
MCNoPlay == {}

\* Bounds: with locks two crafting requests, three versions and a player who
\* spends; on SQLite a crafting request and an open one, each created twice.
MCUsed == IF ForUpdateLocks THEN {c1, c2} ELSE {c1, o1}
MCBounds ==
  /\ \A s \in Sessions : job[s].kind = "task" => job[s].req \in MCUsed
  /\ ForUpdateLocks =>
       \A s \in Sessions : job[s].kind = "task" => job[s].id <= 1
  /\ ~ForUpdateLocks =>
       /\ client.sent # NoPut => client.sent.ver <= 2
       /\ client.gains = FirstMako + FirstStorage
===============================================================================
