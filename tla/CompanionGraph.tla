----------------------------- MODULE CompanionGraph -----------------------------
(***************************************************************************)
(* One turn of the companion: the routing graph of app/brain/graph.py, as  *)
(* the set of results it can have.  The language model may classify a text *)
(* as it likes; what it proposes is checked against facts about the text,  *)
(* which regular expressions establish.  A result is a reply and the slot  *)
(* that a question leaves open: "dig 20" - "dig what?" - "wood".           *)
(***************************************************************************)
EXTENDS Integers, FiniteSets

CONSTANTS
  Resources,    \* ResourceId
  MaxQuantity,  \* MAX_GATHER_QUANTITY
  MaxAsk,       \* MAX_ASK_COUNT
  NoQuantity, NoSlot   \* None

ASSUME GraphAssumption ==
  /\ MaxQuantity \in Nat /\ MaxAsk \in Nat \ {0}
  /\ NoQuantity \notin Nat /\ {"Other", "Unspecified"} \cap Resources = {}

\* CommandType, by the nodes that emit it; Move stands for the table _COMMANDS.
Commands == {"Gather", "Craft", "Attack", "Move"}

\* What the patterns find in a text: the resources it names, its one whole
\* quantity, any expression of amount, whether it asks about gathering, and
\* whether it orders an item that can be made.  An "Open" order leaves the item
\* to the provider, which may not supply its quantity.
Text == [said : SUBSET Resources, quantity : Nat \union {NoQuantity}, amount : BOOLEAN,
         question : BOOLEAN, craft : {"Named", "Open", "No"}]

\* A turn: the request, its text, surface and allowed_commands, and the time.
\* A slot's request and by are history: the request it is about, and whose reply
\* asked.  A result with a command is an order, one with a slot a question, any
\* other an answer or a refusal; answered: the text answered the pending slot.
Result(command, resource, quantity, answered, slot) ==
  [command |-> command, resource |-> resource, quantity |-> quantity,
   answered |-> answered, slot |-> slot]

Order(command) == Result(command, "None", NoQuantity, FALSE, NoSlot)
\* decline, and what is said without an order.
Words == Result("None", "None", NoQuantity, FALSE, NoSlot)

\* resolve_pending_node: the resources by which a turn can answer a question.
\* The provider's proposal counts if the text says the same.
Resolutions(t, slot) ==
  {"None"} \union
    IF t.surface = "Game" /\ t.text.question THEN {}
    ELSE IF Cardinality(t.text.said) > 1 THEN {"Unspecified"}
    ELSE t.text.said

\* PendingSlot.may_ask_again
MayAskAgain(slot) == slot.asks < MaxAsk

\* Mutant: the quantity is the one said with the answer.
AskAnew(t, quantity, asked) ==
  [quantity |-> t.text.quantity, asks |-> IF asked = NoSlot THEN 1 ELSE asked.asks + 1,
   at |-> t.now, request |-> IF asked = NoSlot THEN t.request ELSE asked.request,
   by |-> {t.request} \union IF asked = NoSlot THEN {} ELSE asked.by]
\* The slot of a question: it repeats the one that the text answered, if any.
Ask(t, quantity, asked) ==
  IF asked = NoSlot
  THEN [quantity |-> quantity, asks |-> 1, at |-> t.now, request |-> t.request,
        by |-> {t.request}]
  ELSE [quantity |-> asked.quantity, asks |-> asked.asks + 1, at |-> t.now,
        request |-> asked.request, by |-> asked.by \union {t.request}]

AllowsQuantity(quantity) == quantity = NoQuantity \/ quantity \in 1..MaxQuantity

\* gather_node, after resolve_pending_node (asked is the slot that was answered)
\* or command_classify_node (asked is NoSlot).
Gather(t, resource, quantity, asked) ==
  LET answered == asked # NoSlot
      Reply(slot) == Result("None", "None", NoQuantity, answered, slot)
      refused == \/ "Gather" \notin t.allowed
                 \/ t.text.question
                 \/ t.surface = "Mobile" /\ t.text.amount /\ quantity = NoQuantity
      strict == t.surface = "Game" /\ (quantity # NoQuantity \/ t.text.amount)
  IN  IF refused THEN Reply(NoSlot)
      ELSE IF resource = "Unspecified"
      THEN IF answered /\ ~MayAskAgain(asked) THEN Reply(NoSlot)
           ELSE Reply(Ask(t, quantity, asked))
      ELSE IF resource \notin Resources \/ strict \/ ~AllowsQuantity(quantity)
      THEN Reply(NoSlot)
      ELSE Result("Gather", resource, quantity, answered, NoSlot)

\* craft_node.
Craft(t, named) ==
  IF named /\ "Craft" \in t.allowed THEN Order("Craft") ELSE Words

\* Whether the text, with the provider's selection on a phone, names an item.
Named(t) ==
  IF t.text.craft = "Open" /\ t.surface = "Mobile" THEN BOOLEAN
  ELSE {t.text.craft = "Named"}

\* movement_command_node, attack_node
Command(t, command) == IF command \in t.allowed THEN Order(command) ELSE Words

\* CommandIntentParser.corroborate: a resource that the text does not name may
\* come from the provider, a quantity may not.
GatherResources(t) ==
  IF Cardinality(t.text.said) = 1 THEN t.text.said
  ELSE IF t.text.said # {} THEN {"Unspecified"}
  ELSE Resources \union {"Other", "Unspecified"}

\* command_classify_node and its terminal nodes, for any classification.
Ordered(t) ==
  {Command(t, c) : c \in {"Move", "Attack"}}
    \union {Craft(t, named) : named \in Named(t)}
    \union IF t.text.question THEN {}
           ELSE {Gather(t, resource, t.text.quantity, NoSlot) :
                   resource \in GatherResources(t)}

\* classify_top_node, for any intent: recipes, enemies, lore, conversation and
\* what is unsupported are answered; a question about gathering is no order.
Classified(t) ==
  {Words} \union
    IF t.surface = "Game" /\ t.text.question THEN {} ELSE Ordered(t)

\* route_by_entry, route_after_pending
Turn(t, slot) ==
  IF slot = NoSlot THEN Classified(t)
  ELSE UNION {IF resource = "None" THEN Classified(t)
              ELSE {Gather(t, resource, slot.quantity, slot)} :
                resource \in Resolutions(t, slot)}
===============================================================================
