------------------------------ MODULE TaskLedger ------------------------------
(***************************************************************************)
(* What crafting tasks and uploads promise each other about the inventory: *)
(* each of their steps takes effect at once.  A task takes its materials   *)
(* out of the stored inventory as it is created, and either gives back     *)
(* exactly these or uses them up, never both.  What the game uploads has   *)
(* counted in all that tasks have taken, and replaces no change by a task  *)
(* that the game does not know of.                                         *)
(***************************************************************************)
EXTENDS Integers

CONSTANTS Tasks, Material,  \* Material[t]: what task t needs
          Nothing           \* no inventory is stored

VARIABLES stored,  \* the stored inventory, or Nothing
          known,   \* the version of it that the game knows
          taken,   \* tasks whose materials are taken
          spent,   \* tasks that have used them up
          out      \* what they have taken

\* op: who stored it; gains: what the player has contributed to it.
Inventory == [ver : Nat, op : {"put", "craft"}, amount : Int, gains : Int]

Init == stored = Nothing /\ known = 0 /\ taken = {} /\ spent = {} /\ out = 0

Move(amount) ==
  /\ stored # Nothing
  /\ stored' = [ver |-> stored.ver + 1, op |-> "craft", amount |-> stored.amount + amount,
                gains |-> stored.gains]
  /\ out' = out - amount /\ UNCHANGED known

Take(t) ==
  /\ t \notin taken /\ stored # Nothing /\ Material[t] <= stored.amount
  /\ Move(-Material[t])
  /\ taken' = taken \union {t} /\ UNCHANGED spent

GiveBack(t) ==
  /\ t \in taken \ spent
  /\ Move(Material[t])
  /\ taken' = taken \ {t} /\ UNCHANGED spent

UseUp(t) ==
  /\ t \in taken \ spent
  /\ spent' = spent \union {t} /\ UNCHANGED <<stored, known, taken, out>>

Upload ==
  /\ stored' \in Inventory /\ stored'.op = "put"
  /\ stored # Nothing =>
       stored'.ver > stored.ver /\ (stored.op = "craft" => known = stored.ver)
  /\ stored'.amount + out = stored'.gains
  /\ known' \in {known, stored'.ver} /\ UNCHANGED <<taken, spent, out>>

Fetch ==
  /\ stored # Nothing /\ known' = stored.ver
  /\ UNCHANGED <<stored, taken, spent, out>>

Next == Upload \/ Fetch \/ \E t \in Tasks : Take(t) \/ GiveBack(t) \/ UseUp(t)

Spec == Init /\ [][Next]_<<stored, known, taken, spent, out>>
===============================================================================
