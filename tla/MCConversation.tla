------------------------------ MODULE MCConversation ------------------------------
(* Instances of Conversation and of Relationship for TLC. *)
EXTENDS Conversation, Relationship, TLC

CONSTANTS wood, stone, phone, game, m1, m2, x1, x2

Plain == [said |-> {}, quantity |-> NoQuantity, amount |-> FALSE, question |-> FALSE,
          craft |-> "No"]
\* "Dig 2", "wood", "make me a bandage of wood or stone".
DigSome == [Plain EXCEPT !.quantity = 2, !.amount = TRUE]
Wood == [Plain EXCEPT !.said = {wood}]
Either == [Plain EXCEPT !.said = {wood, stone}, !.craft = "Named"]
MCTextsOf == [k \in Chats |-> IF k = phone THEN {DigSome, Wood, Either} ELSE {DigSome, Wood}]
MCSurfaceOf == [k \in Chats |-> IF k = phone THEN "Mobile" ELSE "Game"]
MCAllowedOf == [k \in Chats |-> {"Gather", "Craft"}]
RequestSymmetry == Permutations(Requests)

\* A message for each memory, said an hour apart.
MCTextOf == [x \in Messages |-> IF x = x1 THEN m1 ELSE m2]
MCSaidOn == [x \in Messages |-> IF x = x1 THEN 0 ELSE 1]

\* The two share no state: a behaviour runs one of them.
MCInit == Init /\ RelationshipInit
MCNext ==
  \/ RelationshipInit /\ Next /\ UNCHANGED relationshipVars
  \/ Init /\ RelationshipNext /\ UNCHANGED vars
MCSpec == MCInit /\ [][MCNext]_<<vars, relationshipVars>>
===============================================================================
