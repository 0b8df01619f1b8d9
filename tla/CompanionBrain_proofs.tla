------------------------- MODULE CompanionBrain_proofs -------------------------
(***************************************************************************)
(* Proofs about CompanionBrain: whom the log of a turn names is who made   *)
(* its words; a recall that rests on evidence is not answered as if there  *)
(* were none, and memories are counted for replies; the numbers of a       *)
(* transcript climb, and distillation skips none of its lines; the long-   *)
(* term memory of a player changes one whole update at a time, and loses   *)
(* neither memories nor recalls -- for any number of conversations,        *)
(* requests and texts, any bounds of the queue, the caches and the         *)
(* batches, and any crashes, failures and sweeps.                          *)
(***************************************************************************)
EXTENDS CompanionBrain, TLAPS, FiniteSetTheorems, WellFoundedInduction

-------------------------------------------------------------------------------
(* Lemmas: the entries that are left of a sequence *)

\* How many numbers of a finite set are not above one of them.
Rank(places, i) == Cardinality({k \in places : k <= i})

\* A larger number of the set has a higher rank.
LEMMA RanksClimb ==
  ASSUME NEW places \in SUBSET Nat, IsFiniteSet(places), NEW i \in places, NEW j \in places, i < j
  PROVE  Rank(places, i) < Rank(places, j)
<1> DEFINE low == {k \in places : k <= i}
           high == {k \in places : k <= j}
<1>1. low \subseteq high /\ j \in high /\ j \notin low
  <2>1. i \in Nat /\ j \in Nat /\ \A k \in places : k \in Nat
    OBVIOUS
  <2>2. \A k \in low : k \in high
    BY <2>1
  <2>3. j \in high /\ ~(j <= i)
    BY <2>1
  <2> QED
    BY <2>2, <2>3
<1>2. IsFiniteSet(high)
  BY FS_Subset
<1>3. IsFiniteSet(low) /\ Cardinality(low) <= Cardinality(high)
      /\ Cardinality(low) # Cardinality(high)
  <2> HIDE DEF low, high
  <2> QED
    BY <1>1, <1>2, FS_Subset, Zenon
<1>4. Cardinality(low) \in Nat /\ Cardinality(high) \in Nat
  BY <1>2, <1>3, FS_CardinalityType
<1> QED
  BY <1>3, <1>4 DEF Rank

\* Ranks are the numbers from one to the size of the set.
LEMMA EveryRank ==
  ASSUME NEW places \in SUBSET Nat, IsFiniteSet(places)
  PROVE  /\ Cardinality(places) \in Nat
         /\ \A i \in places : Rank(places, i) \in 1..Cardinality(places)
         /\ \A n \in 1..Cardinality(places) : \E i \in places : Rank(places, i) = n
<1> DEFINE size == Cardinality(places)
           f == [i \in places |-> Rank(places, i)]
<1>1. size \in Nat
  BY FS_CardinalityType
<1>2. \A i \in places : Rank(places, i) \in 1..size
  <2> TAKE i \in places
  <2> DEFINE below == {k \in places : k <= i}
  <2>1. IsFiniteSet(below) /\ Cardinality(below) <= size /\ Cardinality(below) \in Nat
    BY FS_Subset, FS_CardinalityType
  <2>2. Cardinality(below) # 0
    <3>1. i \in below
      OBVIOUS
    <3> HIDE DEF below
    <3> QED
      BY <2>1, <3>1, FS_EmptySet
  <2> QED
    BY <1>1, <2>1, <2>2 DEF Rank
<1>3. f \in Injection(places, 1..size)
  <2>1. \A i, j \in places : f[i] = f[j] => i = j
    <3> SUFFICES ASSUME NEW i \in places, NEW j \in places, i # j PROVE f[i] # f[j]
      OBVIOUS
    <3>1. i < j \/ j < i
      OBVIOUS
    <3>2. f[i] < f[j] \/ f[j] < f[i]
      BY <3>1, RanksClimb
    <3> QED
      BY <1>1, <1>2, <3>2
  <2> QED
    BY <1>2, <2>1 DEF Injection, IsInjective
<1>4. IsFiniteSet(1..size) /\ Cardinality(1..size) = size
  BY <1>1, FS_Interval
<1>5. f \in Surjection(places, 1..size)
  <2> HIDE DEF f
  <2> QED
    BY <1>3, <1>4, FS_Injection
<1>6. \A n \in 1..size : \E i \in places : f[i] = n
  <2> HIDE DEF f
  <2> QED
    BY <1>5 DEF Surjection
<1> QED
  BY <1>1, <1>2, <1>6

\* Nth lists the numbers of a finite set in their order.
LEMMA NthLists ==
  ASSUME NEW places \in SUBSET Nat, IsFiniteSet(places)
  PROVE  /\ \A n \in 1..Cardinality(places) : Nth(places, n) \in places
         /\ \A i \in places : \E n \in 1..Cardinality(places) : Nth(places, n) = i
         /\ \A m, n \in 1..Cardinality(places) : m < n => Nth(places, m) < Nth(places, n)
<1> DEFINE size == Cardinality(places)
<1>1. \A n \in 1..size : Nth(places, n) \in places /\ Rank(places, Nth(places, n)) = n
  BY EveryRank DEF Nth, Rank
<1>2. \A i \in places : Nth(places, Rank(places, i)) = i
  <2> TAKE i \in places
  <2> DEFINE j == Nth(places, Rank(places, i))
  <2>1. j \in places /\ Rank(places, j) = Rank(places, i)
    BY <1>1, EveryRank
  <2>2. Rank(places, i) \in Nat
    BY EveryRank
  <2>3. i \in Nat /\ j \in Nat
    BY <2>1
  <2> HIDE DEF j
  <2>4. ~(j < i) /\ ~(i < j)
    BY <2>1, <2>2, RanksClimb
  <2>5. i = j
    BY <2>3, <2>4
  <2> QED
    BY <2>5 DEF j
<1>3. \A m, n \in 1..size : m < n => Nth(places, m) < Nth(places, n)
  <2> SUFFICES ASSUME NEW m \in 1..size, NEW n \in 1..size, m < n, ~(Nth(places, m) < Nth(places, n))
               PROVE  FALSE
    OBVIOUS
  <2> DEFINE i == Nth(places, m)
             j == Nth(places, n)
  <2>1. i \in places /\ j \in places /\ Rank(places, i) = m /\ Rank(places, j) = n
    BY <1>1
  <2>2. i = j \/ j < i
    <3>1. i \in Nat /\ j \in Nat /\ ~(i < j)
      BY <2>1
    <3> HIDE DEF i, j
    <3> QED
      BY <3>1
  <2>3. CASE i = j
    BY <2>1, <2>3
  <2>4. CASE j < i
    <3>1. n < m
      <4> HIDE DEF i, j
      <4> QED
        BY <2>1, <2>4, RanksClimb
    <3> QED
      BY <3>1, EveryRank
  <2> QED
    BY <2>2, <2>3, <2>4
<1> QED
  BY <1>1, <1>2, <1>3, EveryRank

\* What a sublist consists of.
LEMMA SublistRange ==
  ASSUME NEW S, NEW s \in Seq(S), NEW places \in SUBSET DOMAIN s
  PROVE  /\ Sublist(s, places) \in Seq(S)
         /\ Len(Sublist(s, places)) = Cardinality(places)
         /\ ToSet(Sublist(s, places)) = {s[i] : i \in places}
<1>1. places \in SUBSET Nat /\ IsFiniteSet(places) /\ Cardinality(places) \in Nat
  <2>1. IsFiniteSet(1..Len(s))
    BY FS_Interval
  <2> QED
    BY <2>1, FS_Subset, FS_CardinalityType
<1> DEFINE t == Sublist(s, places)
<1>2. t = [n \in 1..Cardinality(places) |-> s[Nth(places, n)]]
  BY DEF Sublist
<1>3. t \in Seq(S) /\ Len(t) = Cardinality(places) /\ DOMAIN t = 1..Cardinality(places)
  <2>1. \A n \in 1..Cardinality(places) : s[Nth(places, n)] \in S
    BY <1>1, NthLists
  <2> QED
    BY <1>1, <1>2, <2>1
<1>4. ToSet(t) = {s[i] : i \in places}
  <2>1. ToSet(t) = {t[n] : n \in 1..Cardinality(places)}
    <3> HIDE DEF t
    <3> QED
      BY <1>3 DEF ToSet
  <2>2. \A n \in 1..Cardinality(places) : t[n] = s[Nth(places, n)] /\ Nth(places, n) \in places
    BY <1>1, <1>2, NthLists
  <2>3. \A i \in places : \E n \in 1..Cardinality(places) : t[n] = s[i]
    BY <1>1, <1>2, NthLists
  <2> HIDE DEF t
  <2>4. \A x \in ToSet(t) : \E i \in places : x = s[i]
    BY <2>1, <2>2
  <2>5. \A i \in places : s[i] \in ToSet(t)
    BY <2>1, <2>3
  <2> QED
    BY <2>4, <2>5
<1> QED
  BY <1>3, <1>4

-------------------------------------------------------------------------------
(* Part 1: the log of a turn (Provenance) *)

Turning == {"answer", "top", "command", "item", "target", "craft", "say"}

\* How many calls a turn has made at most when it is where it is.
MostCalls(at) ==
  CASE at = "answer" -> 0 [] at = "top" -> 1 [] at \in {"command", "item"} -> 2
    [] at \in {"target", "craft"} -> 3 [] at = "say" -> 4 [] OTHER -> 5

\* Whom a call names tells whether it fell back.
Honest(call) ==
  /\ call.effective \in {deployed, "mock"}
  /\ call.reason = NoReason <=> call.effective = deployed
Saying(call) == call.step = "generate_dialogue"

Talks == {"enemy", "lore", "conversation", "unknown"}
Labels == {"movement_command", "attack", "gather", "unsupported", "craft"}
Nodes == {"none", "situation", "enemy", "lore", "conversation", "recipe"} \union Labels
Turn == [at : Turning \union {"done"}, answered : BOOLEAN,
         intent : Talks \union {"none", "command", "recipe"}, label : Labels \union {"none"},
         node : Nodes, match : BOOLEAN,
         by : Providers \union {"nobody", "mock", "guard", "repository", "fixed"}]

\* What the log will compute as the node, of a turn on its way to the words.
Routed ==
  /\ graph.at \notin {"say", "done"} => ~graph.answered /\ ~graph.match /\ graph.node # "situation"
  /\ graph.at \in {"command", "craft"} => graph.intent = "command"
  /\ graph.at = "craft" => graph.label = "craft"
  /\ graph.at = "target" => graph.intent = "recipe"
  /\ graph.at \in {"say", "done"} => graph.node = Origin!SelectedRoute

\* A turn that no model has given its words.
Unvoiced ==
  /\ graph \in Turn /\ Routed
  /\ graph.at = "done" =>
       \/ graph.by = "repository" /\ graph.match
       \/ graph.by = "fixed" /\ ~graph.match

\* Who made the words, and what is known of the calls until they are logged.
Voiced ==
  /\ graph.at # "done" => verdict = "none" /\ \A i \in DOMAIN calls : ~Saying(calls[i])
  /\ graph.at = "done" =>
       /\ graph.by \in {deployed, "mock", "guard", "repository", "fixed"}
       /\ graph.by = "guard" <=> verdict = "rejected"
       /\ graph.by = "repository" => graph.match
       /\ graph.by = "fixed" => ~graph.match
       /\ graph.by \in {"repository", "fixed"} => \A i \in DOMAIN calls : ~Saying(calls[i])
       /\ graph.by \notin {"repository", "fixed"} =>
            /\ calls # <<>>
            /\ \A i \in DOMAIN calls : Saying(calls[i]) <=> i = Len(calls)
            /\ graph.by # "guard" => calls[Len(calls)].effective = graph.by

CallType == [step : {"resolve_pending", "classify_top", "resolve_recipe", "classify_command",
                     "generate_dialogue"},
             effective : Providers \union {"mock"},
             reason : Reasons \union {NoReason, "provider_unavailable"}]
Traced ==
  /\ calls = made /\ calls \in Seq(CallType)
  /\ Len(calls) <= MostCalls(graph.at)
  /\ \A i \in DOMAIN calls : Honest(calls[i])

OriginInv ==
  /\ deployed \in Providers
  /\ graph \in Turn
  /\ graph = Origin!NoTurn => log = Origin!NoLog
  /\ graph = Origin!NoTurn => calls = <<>> /\ verdict = "none"
  /\ log # Origin!NoLog => graph.at = "done"
  /\ graph # Origin!NoTurn => Routed
  /\ log = Origin!NoLog /\ graph # Origin!NoTurn => Voiced /\ Traced
  /\ LogIsTrue

\* The intents of a talk have a node of their own.
LEMMA TalkingIs ==
  /\ DOMAIN Origin!Talking = Talks
  /\ \A intent \in Talks :
       /\ Origin!Talking[intent] \in Nodes \ {"none", "situation", "recipe"}
       /\ intent \notin {"command", "recipe"}
<1>1. DOMAIN Origin!Talking = Talks
  BY Zenon DEF Origin!Talking, Talks
<1>2. /\ Origin!Talking["enemy"] = "enemy" /\ Origin!Talking["lore"] = "lore"
      /\ Origin!Talking["conversation"] = "conversation"
      /\ Origin!Talking["unknown"] = "unsupported"
  BY DEF Origin!Talking
<1>3. ASSUME NEW intent \in Talks PROVE Origin!Talking[intent] \in {"enemy", "lore", "conversation", "unsupported"}
  BY <1>2 DEF Talks
<1> QED
  BY <1>1, <1>3 DEF Talks, Nodes, Labels

\* A turn that goes on to talk.
LEMMA TalkIs ==
  ASSUME NEW intent \in Talks, NEW g \in Turn, ~g.answered, graph' \in Origin!Talk(g, intent)
  PROVE  Unvoiced' /\ graph'.at = "say"
<1> DEFINE said == Origin!Say([g EXCEPT !.intent = intent], Origin!Talking[intent])
<1>1. graph' \in {said, [said EXCEPT !.match = TRUE]}
  BY DEF Origin!Talk
<1>2. graph' \in Turn /\ graph'.at = "say" /\ ~graph'.answered /\ graph'.intent = intent
      /\ graph'.node = Origin!Talking[intent]
  <2>1. Origin!Talking[intent] \in Nodes
    BY TalkingIs
  <2> QED
    BY <1>1, <2>1 DEF Turn, Turning, Origin!Say
<1>3. graph'.node = Origin!SelectedRoute'
  BY <1>2, TalkingIs DEF Origin!SelectedRoute
<1> QED
  BY <1>2, <1>3 DEF Unvoiced, Routed

\* The turn moves on, and there is room for a call more.
Onward == Unvoiced' /\ graph'.at # graph.at /\ MostCalls(graph.at) < MostCalls(graph'.at)

\* Turns that end with a recipe, or with a question which one is meant.
LEMMA RecipeIs ==
  ASSUME NEW g \in Turn, ~g.answered, ~g.match, g.intent = "recipe", graph' \in Origin!Recipe(g)
  PROVE  Unvoiced' /\ graph'.at = "done"
<1>1. /\ graph' \in Turn /\ graph'.at = "done" /\ ~graph'.answered /\ graph'.intent = "recipe"
      /\ graph'.node = "recipe"
      /\ \/ graph'.by = "repository" /\ graph'.match
         \/ graph'.by = "fixed" /\ ~graph'.match
  BY DEF Origin!Recipe, Origin!FromRepository, Origin!Fixed, Turn, Turning, Nodes
<1> QED
  BY <1>1 DEF Unvoiced, Routed, Origin!SelectedRoute

\* The answer to the question that is open.
LEMMA AfterAnswerIs ==
  ASSUME graph \in Turn, Routed, graph.at = "answer", graph' \in Origin!AfterAnswer(graph)
  PROVE  Onward
<1>1. ~graph.answered /\ ~graph.match /\ graph.node # "situation"
  BY DEF Routed
<1>2. CASE graph' = [graph EXCEPT !.at = "top"]
  BY <1>1, <1>2 DEF Onward, Unvoiced, Routed, MostCalls, Turn, Turning
<1>3. CASE graph' = Origin!Say([graph EXCEPT !.answered = TRUE], "gather")
  <2>1. graph' \in Turn /\ graph'.at = "say" /\ graph'.answered /\ graph'.node = "gather"
    BY <1>3 DEF Origin!Say, Turn, Turning, Nodes, Labels
  <2> QED
    BY <2>1 DEF Onward, Unvoiced, Routed, MostCalls, Origin!SelectedRoute
<1> QED
  BY <1>2, <1>3 DEF Origin!AfterAnswer

\* The intent of what the player said.
LEMMA AfterTopIs ==
  ASSUME graph \in Turn, Routed, graph.at = "top", graph' \in Origin!AfterTop(graph)
  PROVE  Onward
<1>1. ~graph.answered /\ ~graph.match /\ graph.node # "situation"
  BY DEF Routed
<1> DEFINE asRecipe == [graph EXCEPT !.intent = "recipe"]
<1>2. asRecipe \in Turn /\ ~asRecipe.answered /\ ~asRecipe.match /\ asRecipe.intent = "recipe"
      /\ asRecipe.node # "situation"
  BY <1>1 DEF Turn
<1>3. ASSUME NEW intent \in Talks, graph' \in Origin!Talk(graph, intent) PROVE Onward
  <2>1. Unvoiced' /\ graph'.at = "say"
    BY <1>1, <1>3, TalkIs
  <2> QED
    BY <2>1 DEF Onward, MostCalls
<1>4. CASE graph' \in Origin!Recipe(asRecipe)
  <2> HIDE DEF asRecipe
  <2>1. Unvoiced' /\ graph'.at = "done"
    BY <1>2, <1>4, RecipeIs
  <2> QED
    BY <2>1 DEF Onward, MostCalls
<1>5. CASE \/ graph' = [asRecipe EXCEPT !.at = "target"]
           \/ graph' \in {[graph EXCEPT !.at = "command", !.intent = "command"],
                          [graph EXCEPT !.at = "item", !.intent = "conversation"]}
  <2>1. /\ graph' \in Turn /\ ~graph'.answered /\ ~graph'.match /\ graph'.node # "situation"
        /\ graph'.at \in {"target", "command", "item"}
        /\ graph'.at = "target" => graph'.intent = "recipe"
        /\ graph'.at = "command" => graph'.intent = "command"
    BY <1>1, <1>5 DEF Turn, Turning, Talks
  <2> QED
    BY <2>1 DEF Onward, Unvoiced, Routed, MostCalls
<1>6. CASE graph' \in UNION {Origin!Talk(graph, intent) : intent \in DOMAIN Origin!Talking}
  <2>1. PICK talk \in {Origin!Talk(graph, intent) : intent \in DOMAIN Origin!Talking} : graph' \in talk
    BY <1>6
  <2>2. PICK intent \in DOMAIN Origin!Talking : talk = Origin!Talk(graph, intent)
    BY <2>1
  <2> QED
    BY <1>3, <2>1, <2>2, TalkingIs, Zenon
<1> DEFINE target == [asRecipe EXCEPT !.at = "target"]
           others == {[graph EXCEPT !.at = "command", !.intent = "command"],
                      [graph EXCEPT !.at = "item", !.intent = "conversation"]}
           talks == (UNION {Origin!Talk(graph, intent) : intent \in DOMAIN Origin!Talking})
           recipes == Origin!Recipe(asRecipe)
<1>7. graph' \in talks \union recipes \union {target} \union others
  BY DEF Origin!AfterTop
<1>8. graph' \in recipes => Onward
  BY <1>4
<1>9. graph' = target \/ graph' \in others => Onward
  BY <1>5
<1> HIDE DEF asRecipe, target, others, talks, recipes
<1>10. graph' \in talks => Onward
  BY <1>6 DEF talks
<1> QED
  BY <1>7, <1>8, <1>9, <1>10

\* Whether an item that was named is what the player asks about.
LEMMA AfterItemIs ==
  ASSUME graph \in Turn, Routed, graph.at = "item", NEW by, graph' \in Origin!AfterItem(graph, by)
  PROVE  Onward
<1>1. ~graph.answered /\ ~graph.match /\ graph.node # "situation"
  BY DEF Routed
<1> DEFINE asRecipe == [graph EXCEPT !.intent = "recipe"]
<1>2. ASSUME NEW intent \in Talks, graph' \in Origin!Talk(graph, intent) PROVE Onward
  <2>1. Unvoiced' /\ graph'.at = "say"
    BY <1>1, <1>2, TalkIs
  <2> QED
    BY <2>1 DEF Onward, MostCalls
<1>3. CASE graph' = Origin!FromRepository(asRecipe)
  <2>1. asRecipe \in Turn /\ ~asRecipe.answered /\ ~asRecipe.match /\ asRecipe.intent = "recipe"
    BY <1>1 DEF Turn
  <2>2. graph' \in Origin!Recipe(asRecipe)
    BY <1>3 DEF Origin!Recipe
  <2> HIDE DEF asRecipe
  <2>3. Unvoiced' /\ graph'.at = "done"
    BY <2>1, <2>2, RecipeIs
  <2> QED
    BY <2>3 DEF Onward, MostCalls
<1>4. CASE graph' = [graph EXCEPT !.intent = "recipe", !.at = "target"]
  <2>1. /\ graph' \in Turn /\ ~graph'.answered /\ ~graph'.match /\ graph'.node # "situation"
        /\ graph'.at = "target" /\ graph'.intent = "recipe"
    BY <1>1, <1>4 DEF Turn, Turning
  <2> QED
    BY <2>1 DEF Onward, Unvoiced, Routed, MostCalls
<1>5. \/ graph' \in Origin!Talk(graph, "conversation") \/ graph' \in Origin!Talk(graph, "unknown")
      \/ graph' = Origin!FromRepository(asRecipe)
      \/ graph' = [graph EXCEPT !.intent = "recipe", !.at = "target"]
  BY Zenon DEF Origin!AfterItem
<1>6. "conversation" \in Talks /\ "unknown" \in Talks
  BY DEF Talks
<1> QED
  BY <1>2, <1>3, <1>4, <1>5, <1>6

\* The kind of a command, and whether a craft order names its item.
LEMMA AfterCommandIs ==
  ASSUME graph \in Turn, Routed, graph.at = "command", graph' \in Origin!AfterCommand(graph)
  PROVE  Onward
<1>1. ~graph.answered /\ ~graph.match /\ graph.node # "situation" /\ graph.intent = "command"
  BY DEF Routed
<1>2. ASSUME NEW label \in Labels, graph' = Origin!Say([graph EXCEPT !.label = label], label)
      PROVE  Onward
  <2>1. /\ graph' \in Turn /\ graph'.at = "say" /\ ~graph'.answered /\ graph'.intent = "command"
        /\ graph'.label = label /\ graph'.node = label
    BY <1>1, <1>2 DEF Origin!Say, Turn, Turning, Nodes
  <2>2. label # "situation"
    BY DEF Labels
  <2> QED
    BY <1>1, <2>1, <2>2 DEF Onward, Unvoiced, Routed, MostCalls, Origin!SelectedRoute
<1>3. CASE graph' = Origin!Fixed([graph EXCEPT !.label = "craft"], "craft")
  <2>1. /\ graph' \in Turn /\ graph'.at = "done" /\ ~graph'.answered /\ graph'.intent = "command"
        /\ graph'.label = "craft" /\ graph'.node = "craft" /\ graph'.by = "fixed" /\ ~graph'.match
    BY <1>1, <1>3 DEF Origin!Fixed, Turn, Turning, Nodes, Labels
  <2> QED
    BY <1>1, <2>1 DEF Onward, Unvoiced, Routed, MostCalls, Origin!SelectedRoute
<1>4. CASE graph' = [graph EXCEPT !.label = "craft", !.at = "craft"]
  <2>1. /\ graph' \in Turn /\ ~graph'.answered /\ ~graph'.match /\ graph'.node # "situation"
        /\ graph'.at = "craft" /\ graph'.label = "craft" /\ graph'.intent = "command"
    BY <1>1, <1>4 DEF Turn, Turning, Labels
  <2> QED
    BY <2>1 DEF Onward, Unvoiced, Routed, MostCalls
<1>5. \/ \E label \in Labels : graph' = Origin!Say([graph EXCEPT !.label = label], label)
      \/ graph' = Origin!Fixed([graph EXCEPT !.label = "craft"], "craft")
      \/ graph' = [graph EXCEPT !.label = "craft", !.at = "craft"]
  BY Zenon DEF Origin!AfterCommand, Labels
<1> QED
  BY <1>2, <1>3, <1>4, <1>5

\* The item of a craft order.
LEMMA AfterCraftIs ==
  ASSUME graph \in Turn, Routed, graph.at = "craft", NEW by, graph' \in Origin!AfterCraft(graph, by)
  PROVE  Onward
<1>1. ~graph.answered /\ ~graph.match /\ graph.intent = "command" /\ graph.label = "craft"
  BY DEF Routed
<1>2. graph' \in {Origin!Say(graph, "craft"), Origin!Fixed(graph, "craft")}
  BY Zenon DEF Origin!AfterCraft
<1>3. /\ graph' \in Turn /\ graph'.at \in {"say", "done"} /\ ~graph'.answered /\ ~graph'.match
      /\ graph'.intent = "command" /\ graph'.label = "craft" /\ graph'.node = "craft"
      /\ graph'.at = "done" => graph'.by = "fixed"
  BY <1>1, <1>2 DEF Origin!Say, Origin!Fixed, Turn, Turning, Nodes, Labels
<1> QED
  BY <1>3 DEF Onward, Unvoiced, Routed, MostCalls, Origin!SelectedRoute

\* A turn that no model has answered, so far.
TurnOn ==
  /\ deployed \in Providers /\ graph \in Turn /\ graph # Origin!NoTurn /\ graph.at # "done"
  /\ log = Origin!NoLog /\ Routed /\ Voiced /\ Traced

\* A call of the provider is traced once, and honestly.
LEMMA Called ==
  ASSUME TurnOn, NEW step \in {"resolve_pending", "classify_top", "resolve_recipe", "classify_command",
                               "generate_dialogue"},
         NEW by, NEW reason, Origin!Asked(step, by, reason), UNCHANGED deployed
  PROVE  /\ calls' = made' /\ calls' \in Seq(CallType) /\ Len(calls') = Len(calls) + 1
         /\ (\A i \in DOMAIN calls : Honest(calls[i]))'
         /\ \A i \in 1..Len(calls) : calls'[i] = calls[i]
         /\ calls'[Len(calls')].step = step /\ calls'[Len(calls')].effective = by
         /\ by \in {deployed, "mock"}
<1> DEFINE call == Origin!Call(step, by, reason)
<1>1. /\ by \in {deployed, "mock"} /\ reason \in Reasons \union {NoReason, "provider_unavailable"}
      /\ reason = NoReason <=> by = deployed
      /\ calls' \in {Origin!Record(calls, FALSE, call),
                   Origin!Record(Origin!Record(calls, TRUE, Origin!Call(step, "mock", NoReason)), FALSE, call)}
  BY BrainAssumption DEF TurnOn, Origin!Asked, Origin!MockReason, Origin!MockAnswers,
     Origin!ModelAnswers, Origin!FallBack
<1>2. Len(calls) < MaxCalls
  BY BrainAssumption DEF TurnOn, Traced, MostCalls, Turn, Turning
<1>3. calls' = Append(calls, call)
  <2>1. ~(Len(calls) >= MaxCalls)
    BY <1>2, BrainAssumption DEF TurnOn, Traced
  <2>2. \A other : Origin!Record(calls, TRUE, other) = calls
    BY DEF Origin!Record
  <2>3. \A other : Origin!Record(calls, FALSE, other) = Append(calls, other)
    BY <2>1 DEF Origin!Record
  <2> HIDE DEF call
  <2> QED
    BY <1>1, <2>2, <2>3
<1>4. calls \in Seq(CallType) /\ calls = made /\ \A i \in DOMAIN calls : Honest(calls[i])
  BY DEF TurnOn, Traced
<1>5. call \in CallType /\ call.step = step /\ call.effective = by /\ call.reason = reason
  BY <1>1 DEF Origin!Call, CallType, TurnOn
<1>6. made' = Append(made, call)
  BY DEF Origin!Asked
<1> HIDE DEF call
<1>7. /\ calls' = made' /\ calls' \in Seq(CallType) /\ Len(calls') = Len(calls) + 1
      /\ DOMAIN calls' = 1..(Len(calls) + 1)
      /\ \A i \in 1..Len(calls) : calls'[i] = calls[i]
      /\ calls'[Len(calls')] = call
  BY <1>3, <1>4, <1>5, <1>6
<1>8. (\A i \in DOMAIN calls : Honest(calls[i]))'
  <2> SUFFICES ASSUME NEW i \in DOMAIN calls'
               PROVE  /\ calls'[i].effective \in {deployed', "mock"}
                      /\ calls'[i].reason = NoReason <=> calls'[i].effective = deployed'
    BY DEF Honest
  <2>1. CASE i \in 1..Len(calls)
    BY <1>4, <1>7, <2>1 DEF Honest
  <2>2. CASE i \notin 1..Len(calls)
    <3>1. Len(calls) \in Nat /\ i = Len(calls')
      BY <1>4, <1>7, <2>2
    <3> QED
      BY <1>1, <1>5, <1>7, <3>1 DEF Honest
  <2> QED
    BY <2>1, <2>2
<1> QED
  BY <1>1, <1>5, <1>7, <1>8

\* A call on the way to the words.
LEMMA RoutingKeeps ==
  ASSUME OriginInv, NEW at \in Turning \ {"say"}, NEW by, NEW reason, NEW next,
         Origin!Routing(at, by, reason, next), Onward
  PROVE  OriginInv'
<1>1. /\ graph.at = at /\ Origin!Asked(Origin!StepOf[at], by, reason)
      /\ UNCHANGED <<deployed, verdict, log>>
  BY DEF Origin!Routing
<1>2. at # "done" /\ graph # Origin!NoTurn /\ log = Origin!NoLog
  BY <1>1 DEF OriginInv, Turning, Origin!NoTurn, Origin!Start
<1>3. TurnOn
  BY <1>1, <1>2 DEF TurnOn, OriginInv
<1>4. Origin!StepOf[at] \in {"resolve_pending", "classify_top", "resolve_recipe", "classify_command"}
  BY DEF Turning, Origin!StepOf
<1>5. /\ calls' = made' /\ calls' \in Seq(CallType) /\ Len(calls') = Len(calls) + 1
      /\ (\A i \in DOMAIN calls : Honest(calls[i]))'
      /\ \A i \in 1..Len(calls) : calls'[i] = calls[i]
      /\ calls'[Len(calls')].step = Origin!StepOf[at]
  <2> HIDE DEF Turning
  <2> QED
    BY <1>1, <1>3, <1>4, Called
<1>6. \A i \in DOMAIN calls' : ~Saying(calls'[i])
  <2>1. calls \in Seq(CallType) /\ \A i \in DOMAIN calls : ~Saying(calls[i])
    BY <1>3 DEF TurnOn, Voiced, Traced
  <2>2. calls'[Len(calls')].step # "generate_dialogue"
    BY <1>4, <1>5
  <2>3. DOMAIN calls' = 1..(Len(calls) + 1) /\ DOMAIN calls = 1..Len(calls) /\ Len(calls) \in Nat
    BY <1>5, <2>1
  <2> SUFFICES ASSUME NEW i \in 1..(Len(calls) + 1) PROVE ~Saying(calls'[i])
    BY <2>3
  <2>4. i \in 1..Len(calls) \/ i = Len(calls')
    BY <1>5, <2>3
  <2> QED
    BY <1>5, <2>1, <2>2, <2>3, <2>4 DEF Saying
<1>7. verdict' = "none" /\ ~(verdict' = "rejected")
  BY <1>1, <1>3 DEF TurnOn, Voiced
<1>8. Voiced'
  BY <1>6, <1>7 DEF Voiced, Onward, Unvoiced
<1>9. Len(calls') <= MostCalls(graph'.at)
  <2>1. Len(calls) \in Nat /\ Len(calls) <= MostCalls(graph.at)
    BY <1>3 DEF TurnOn, Traced
  <2>2. MostCalls(graph.at) \in 0..5 /\ MostCalls(graph'.at) \in 0..5
        /\ MostCalls(graph.at) < MostCalls(graph'.at)
    BY DEF MostCalls, Onward
  <2> QED
    BY <1>5, <2>1, <2>2
<1>10. Traced'
  BY <1>5, <1>9 DEF Traced
<1>11. graph' # Origin!NoTurn
  BY DEF Onward, Unvoiced, Origin!NoTurn, Origin!Start
<1>12. log' = Origin!NoLog /\ deployed' \in Providers
  BY <1>1, <1>2 DEF OriginInv
<1>13. LogIsTrue'
  BY <1>12 DEF LogIsTrue, Origin!LogIsTrue, Origin!NoLog
<1> QED
  BY <1>8, <1>10, <1>11, <1>12, <1>13 DEF OriginInv, Onward, Unvoiced, Origin!NoLog, Origin!NoTurn

\* The words: the provider's, or those that replace them.
LEMMA RenderKeeps ==
  ASSUME OriginInv, NEW by, NEW reason, NEW accepted \in BOOLEAN, Origin!Render(by, reason, accepted)
  PROVE  OriginInv'
<1>1. /\ graph.at = "say" /\ Origin!Asked("generate_dialogue", by, reason)
      /\ verdict' = IF accepted THEN "accepted" ELSE "rejected"
      /\ graph' = [graph EXCEPT !.at = "done", !.by = IF accepted THEN by ELSE "guard"]
      /\ UNCHANGED <<deployed, log>>
  BY DEF Origin!Render, Origin!StepOf
<1>2. graph # Origin!NoTurn /\ log = Origin!NoLog
  BY <1>1 DEF OriginInv, Origin!NoTurn, Origin!Start
<1>3. TurnOn
  BY <1>1, <1>2 DEF TurnOn, OriginInv
<1>4. /\ calls' = made' /\ calls' \in Seq(CallType) /\ Len(calls') = Len(calls) + 1
      /\ (\A i \in DOMAIN calls : Honest(calls[i]))'
      /\ \A i \in 1..Len(calls) : calls'[i] = calls[i]
      /\ calls'[Len(calls')].step = "generate_dialogue" /\ calls'[Len(calls')].effective = by
      /\ by \in {deployed, "mock"}
  BY <1>1, <1>3, Called
<1>5. /\ Len(calls) \in Nat /\ DOMAIN calls' = 1..(Len(calls) + 1)
      /\ \A i \in 1..Len(calls) : ~Saying(calls[i])
      /\ Len(calls) <= 4
  BY <1>1, <1>3, <1>4 DEF TurnOn, Voiced, Traced, MostCalls
<1>6. \A i \in DOMAIN calls' : Saying(calls'[i]) <=> i = Len(calls')
  BY <1>4, <1>5 DEF Saying
<1>7. /\ graph' \in Turn /\ graph'.at = "done" /\ graph'.by = (IF accepted THEN by ELSE "guard")
      /\ graph'.node = graph.node /\ graph'.answered = graph.answered
      /\ graph'.intent = graph.intent /\ graph'.label = graph.label
  BY <1>1, <1>3, <1>4 DEF TurnOn, Turn
<1>8. deployed \in {"openai", "local", "mock", "keyless"}
  BY BrainAssumption DEF OriginInv
<1>9. /\ graph'.by \in {deployed', "mock", "guard"}
      /\ graph'.by = "guard" <=> verdict' = "rejected"
      /\ graph'.by # "guard" => calls'[Len(calls')].effective = graph'.by
      /\ graph'.by \notin {"repository", "fixed"}
  BY <1>1, <1>4, <1>7, <1>8
<1>10. Voiced'
  <2>1. calls' # <<>>
    BY <1>4, <1>5
  <2> QED
    BY <1>6, <1>7, <1>9, <2>1 DEF Voiced
<1>11. Traced'
  BY <1>4, <1>5, <1>7 DEF Traced, MostCalls
<1>12. Routed'
  BY <1>1, <1>3, <1>7 DEF TurnOn, Routed, Origin!SelectedRoute
<1>13. graph' # Origin!NoTurn
  BY <1>8, <1>9, <1>1 DEF Origin!NoTurn, Origin!Start
<1>14. log' = Origin!NoLog /\ deployed' \in Providers
  BY <1>1, <1>2 DEF OriginInv
<1>15. LogIsTrue'
  BY <1>14 DEF LogIsTrue, Origin!LogIsTrue, Origin!NoLog
<1> QED
  BY <1>7, <1>10, <1>11, <1>12, <1>13, <1>14, <1>15 DEF OriginInv, Origin!NoLog, Origin!NoTurn

\* A turn begins, or is cancelled.
LEMMA BeginKeeps ==
  ASSUME OriginInv, Origin!BeginTurn \/ Origin!BeginSituation \/ Origin!Cancel
  PROVE  OriginInv'
<1>1. CASE Origin!BeginTurn \/ Origin!BeginSituation
  <2>1. /\ graph = Origin!NoTurn /\ log = Origin!NoLog /\ made = <<>> /\ calls = <<>> /\ verdict = "none"
        /\ UNCHANGED <<deployed, calls, verdict, made, log>>
        /\ graph' \in {Origin!Start("top", "none"), Origin!Start("answer", "none"),
                      Origin!Start("say", "situation")}
    BY <1>1 DEF Origin!BeginTurn, Origin!BeginSituation, OriginInv
  <2>2. /\ graph' \in Turn /\ graph'.at \in {"top", "answer", "say"} /\ ~graph'.answered /\ ~graph'.match
        /\ graph'.at = "say" => graph'.node = "situation"
        /\ graph'.at # "say" => graph'.node = "none"
    <3>1. \A at \in Turning, node \in Nodes : Origin!Start(at, node) \in Turn
      BY DEF Origin!Start, Turn
    <3>2. {"top", "answer", "say"} \subseteq Turning /\ {"none", "situation"} \subseteq Nodes
      BY DEF Turning, Nodes
    <3>3. graph' \in Turn
      BY <2>1, <3>1, <3>2
    <3> QED
      BY <2>1, <3>3 DEF Origin!Start
  <2>3. Routed'
    BY <2>2 DEF Routed, Origin!SelectedRoute
  <2>4. Voiced'
    BY <2>1, <2>2 DEF Voiced
  <2>5. Traced'
    <3>1. calls' = <<>> /\ made' = <<>> /\ Len(calls') = 0 /\ DOMAIN calls' = {} /\ calls' \in Seq(CallType)
      BY <2>1
    <3>2. MostCalls(graph'.at) \in 0..5
      BY DEF MostCalls
    <3> QED
      BY <3>1, <3>2 DEF Traced
  <2>6. log' = Origin!NoLog /\ deployed' \in Providers /\ graph' # Origin!NoTurn
    BY <2>1, <2>2 DEF OriginInv, Origin!NoTurn, Origin!Start
  <2>7. LogIsTrue'
    BY <2>6 DEF LogIsTrue, Origin!LogIsTrue, Origin!NoLog
  <2> QED
    BY <2>2, <2>3, <2>4, <2>5, <2>6, <2>7 DEF OriginInv, Origin!NoLog, Origin!NoTurn
<1>2. CASE Origin!Cancel
  <2>1. /\ graph' = Origin!NoTurn /\ calls' = <<>> /\ verdict' = "none" /\ log' = Origin!NoLog
        /\ deployed' \in Providers
    BY <1>2 DEF Origin!Cancel, OriginInv
  <2>2. graph' \in Turn
    BY <2>1 DEF Origin!NoTurn, Origin!Start, Turn, Nodes
  <2>3. LogIsTrue'
    BY <2>1 DEF LogIsTrue, Origin!LogIsTrue, Origin!NoLog
  <2> QED
    BY <2>1, <2>2, <2>3 DEF OriginInv, Origin!NoLog, Origin!NoTurn
<1> QED
  BY <1>1, <1>2

\* The operators on sequences of Provenance are those of this module.
LEMMA OriginSequences ==
  ASSUME NEW s, NEW places
  PROVE  Origin!Sublist(s, places) = Sublist(s, places) /\ Origin!Last(s) = Last(s)
<1>1. \A S : Origin!Cardinality(S) = Cardinality(S)
  BY DEF Origin!Cardinality, Cardinality
<1>2. \A n : Origin!Nth(places, n) = Nth(places, n)
  BY <1>1 DEF Origin!Nth, Nth
<1> QED
  BY <1>1, <1>2 DEF Origin!Sublist, Sublist, Origin!Last, Last

\* What the log tells of the calls.
LEMMA LogKeeps ==
  ASSUME OriginInv, Origin!Log
  PROVE  OriginInv'
<1> DEFINE saying == {i \in DOMAIN calls : calls[i].step = Origin!StepOf.say}
           said == Sublist(calls, saying)
           fallen == {i \in DOMAIN calls : calls[i].reason # NoReason}
           reasons == Sublist(calls, fallen)
           succeeded == \A i \in DOMAIN calls : calls[i].reason = NoReason
<1>1. /\ graph.at = "done" /\ graph # Origin!NoTurn /\ log = Origin!NoLog
      /\ log' = [source |-> Origin!SourceOf(said), reason |-> Origin!ReasonOf(said),
                route |-> Origin!SelectedRoute, succeeded |-> succeeded, calls |-> calls]
      /\ calls' = <<>> /\ UNCHANGED <<deployed, graph, verdict, made>>
  BY OriginSequences DEF Origin!Log
<1>2. /\ deployed \in {"openai", "local", "mock", "keyless"} /\ Routed /\ Voiced /\ Traced
      /\ calls \in Seq(CallType)
  BY <1>1, BrainAssumption DEF OriginInv, Traced
<1>3. saying = {i \in DOMAIN calls : Saying(calls[i])}
  BY DEF Saying, Origin!StepOf
<1>4. /\ said \in Seq(CallType) /\ Len(said) = Cardinality(saying) /\ ToSet(said) = {calls[i] : i \in saying}
      /\ reasons \in Seq(CallType) /\ Len(reasons) = Cardinality(fallen)
      /\ ToSet(reasons) = {calls[i] : i \in fallen}
  <2>1. saying \in SUBSET DOMAIN calls /\ fallen \in SUBSET DOMAIN calls
    OBVIOUS
  <2> HIDE DEF saying, fallen
  <2> QED
    BY <1>2, <2>1, SublistRange
<1>5. IF graph.by \in {"repository", "fixed"} THEN said = <<>>
      ELSE /\ said # <<>> /\ calls # <<>> /\ Last(said) = calls[Len(calls)]
           /\ graph.by # "guard" => Last(said).effective = graph.by
  <2>1. CASE graph.by \in {"repository", "fixed"}
    <3>1. saying = {}
      BY <1>1, <1>2, <1>3, <2>1 DEF Voiced
    <3>2. Len(said) = 0
      BY <1>4, <3>1, FS_EmptySet
    <3> HIDE DEF said
    <3> QED
      BY <1>4, <2>1, <3>2
  <2>2. CASE graph.by \notin {"repository", "fixed"}
    <3>1. /\ calls # <<>> /\ \A i \in DOMAIN calls : Saying(calls[i]) <=> i = Len(calls)
          /\ graph.by # "guard" => calls[Len(calls)].effective = graph.by
      BY <1>1, <1>2, <2>2 DEF Voiced
    <3>2. saying = {Len(calls)}
      BY <1>2, <1>3, <3>1
    <3>3. Len(said) = 1
      <4>1. Cardinality({Len(calls)}) = 1
        BY FS_Singleton
      <4> HIDE DEF saying, said
      <4> QED
        BY <1>4, <3>2, <4>1
    <3>4. Last(said) \in ToSet(said) /\ said # <<>>
      <4>1. said \in Seq(CallType)
        BY <1>4
      <4> HIDE DEF said
      <4> QED
        BY <3>3, <4>1 DEF Last, ToSet
    <3>5. Last(said) = calls[Len(calls)]
      <4> HIDE DEF said, saying
      <4> QED
        BY <1>4, <3>2, <3>4
    <3> HIDE DEF said
    <3> QED
      BY <2>2, <3>1, <3>4, <3>5
  <2> QED
    BY <2>1, <2>2
<1>6. /\ reasons # <<>> <=> ~succeeded
      /\ reasons # <<>> => Head(reasons).reason # NoReason
  <2>1. fallen = {} <=> succeeded
    OBVIOUS
  <2>2. IsFiniteSet(fallen)
    <3>1. IsFiniteSet(1..Len(calls))
      BY <1>2, FS_Interval
    <3> QED
      BY <1>2, <3>1, FS_Subset
  <2>3. reasons = <<>> <=> fallen = {}
    <3> HIDE DEF reasons, fallen
    <3> QED
      BY <1>4, <2>2, FS_EmptySet
  <2>4. ASSUME reasons # <<>> PROVE Head(reasons).reason # NoReason
    <3>1. Head(reasons) \in ToSet(reasons)
      <4>1. reasons \in Seq(CallType)
        BY <1>4
      <4> HIDE DEF reasons
      <4> QED
        BY <2>4, <4>1 DEF ToSet
    <3>2. \A call \in {calls[i] : i \in fallen} : call.reason # NoReason
      OBVIOUS
    <3> HIDE DEF reasons, fallen
    <3> QED
      BY <1>4, <3>1, <3>2
  <2> QED
    BY <2>1, <2>3, <2>4
<1>7. /\ log'.source = Origin!SourceOf(said) /\ log'.reason = Origin!ReasonOf(said)
      /\ log'.route = Origin!SelectedRoute /\ log'.succeeded = succeeded /\ log'.calls = calls
  BY <1>1
<1>8. Origin!SourceOf(said) = Origin!Credit(graph.by)
  <2> HIDE DEF said
  <2> QED
    BY <1>1, <1>2, <1>5, OriginSequences DEF Voiced, Origin!SourceOf, Origin!Credit
<1>9. Origin!ReasonOf(said) # NoReason <=> ~succeeded \/ graph.by = "guard"
  <2>1. Origin!ReasonOf(said) =
          IF verdict = "rejected" THEN "sanitizer_rejection"
          ELSE IF said # <<>> /\ Last(said).reason # NoReason THEN Last(said).reason
          ELSE IF reasons # <<>> THEN Head(reasons).reason
          ELSE NoReason
    BY OriginSequences DEF Origin!ReasonOf
  <2>2. graph.by = "guard" <=> verdict = "rejected"
    BY <1>1, <1>2 DEF Voiced
  <2>3. said # <<>> /\ Last(said).reason # NoReason => ~succeeded
    <3>1. said # <<>> => calls # <<>> /\ Last(said) = calls[Len(calls)]
      BY <1>5
    <3>2. calls # <<>> => Len(calls) \in DOMAIN calls
      BY <1>2
    <3> HIDE DEF said
    <3> QED
      BY <3>1, <3>2
  <2>4. NoReason # "sanitizer_rejection"
    BY BrainAssumption
  <2> HIDE DEF said, reasons, succeeded
  <2> QED
    BY <1>6, <2>1, <2>2, <2>3, <2>4
<1>10. succeeded <=> \A i \in DOMAIN made : made[i].effective = deployed
  BY <1>2 DEF Traced, Honest
<1>11. calls = made /\ Origin!SelectedRoute = graph.node
  BY <1>1, <1>2 DEF Traced, Routed
<1>12. LogIsTrue'
  <2> HIDE DEF said, succeeded
  <2>1. /\ log'.calls = made' /\ log'.source = Origin!Credit(graph'.by) /\ log'.route = graph'.node
        /\ log'.reason # NoReason <=> ~log'.succeeded \/ graph'.by = "guard"
        /\ log'.succeeded <=> \A i \in DOMAIN made' : made'[i].effective = deployed'
    BY <1>1, <1>7, <1>8, <1>9, <1>10, <1>11
  <2> QED
    BY <2>1 DEF LogIsTrue, Origin!LogIsTrue
<1>13. log' # Origin!NoLog
  <2>1. DOMAIN log' # DOMAIN Origin!NoLog
    BY <1>1 DEF Origin!NoLog
  <2> QED
    BY <2>1
<1>14. Routed'
  BY <1>1, <1>2 DEF Routed, Origin!SelectedRoute
<1> QED
  BY <1>1, <1>12, <1>13, <1>14 DEF OriginInv, Origin!NoTurn, Origin!NoLog

\* The invariant of the log holds initially and is kept.
LEMMA InitOrigin == BrainInit => OriginInv
<1> SUFFICES ASSUME BrainInit PROVE OriginInv
  OBVIOUS
<1>1. /\ deployed \in Providers /\ graph = Origin!NoTurn /\ calls = <<>> /\ verdict = "none"
      /\ log = Origin!NoLog
  BY DEF BrainInit, Origin!Init
<1>2. graph \in Turn
  BY <1>1 DEF Origin!NoTurn, Origin!Start, Turn, Nodes
<1>3. LogIsTrue
  BY <1>1 DEF LogIsTrue, Origin!LogIsTrue
<1> QED
  BY <1>1, <1>2, <1>3 DEF OriginInv

LEMMA NextOrigin == OriginInv /\ [BrainNext]_<<vars, longTerm, replies, origin>> => OriginInv'
<1> SUFFICES ASSUME OriginInv, [BrainNext]_<<vars, longTerm, replies, origin>> PROVE OriginInv'
  OBVIOUS
<1>1. CASE Origin!Next
  <2>1. CASE Origin!BeginTurn \/ Origin!BeginSituation \/ Origin!Cancel
    BY <2>1, BeginKeeps
  <2>2. CASE Origin!Log
    BY <2>2, LogKeeps
  <2>3. ASSUME NEW by, NEW reason,
               \/ Origin!ResolvePending(by, reason) \/ Origin!ClassifyTop(by, reason)
               \/ Origin!ClassifyCommand(by, reason) \/ Origin!ResolveRecipe(by, reason)
        PROVE  OriginInv'
    <3>1. PICK at, next :
            /\ at \in Turning \ {"say"} /\ Origin!Routing(at, by, reason, next)
            /\ \/ at = "answer" /\ next = Origin!AfterAnswer(graph)
               \/ at = "top" /\ next = Origin!AfterTop(graph)
               \/ at = "command" /\ next = Origin!AfterCommand(graph)
               \/ at = "item" /\ next = Origin!AfterItem(graph, by)
               \/ at = "target" /\ next = Origin!Recipe(graph)
               \/ at = "craft" /\ next = Origin!AfterCraft(graph, by)
      BY <2>3 DEF Origin!ResolvePending, Origin!ClassifyTop, Origin!ClassifyCommand,
         Origin!ResolveRecipe, Turning
    <3>2. graph.at = at /\ graph' \in next
      BY <3>1 DEF Origin!Routing
    <3>3. graph \in Turn /\ Routed
      <4>1. at # "done"
        BY <3>1 DEF Turning
      <4> QED
        BY <3>2, <4>1 DEF OriginInv, Origin!NoTurn, Origin!Start
    <3>4. CASE at = "target"
      <4>1. ~graph.answered /\ ~graph.match /\ graph.intent = "recipe" /\ graph' \in Origin!Recipe(graph)
        BY <3>1, <3>2, <3>3, <3>4 DEF Routed
      <4>2. Unvoiced' /\ graph'.at = "done"
        BY <3>3, <4>1, RecipeIs
      <4> QED
        BY <3>1, <3>2, <3>4, <4>2, RoutingKeeps DEF Onward, MostCalls
    <3>5. CASE at # "target"
      <4>1. Onward
        BY <3>1, <3>2, <3>3, <3>5, AfterAnswerIs, AfterTopIs, AfterCommandIs, AfterItemIs, AfterCraftIs
      <4> QED
        BY <3>1, <4>1, RoutingKeeps
    <3> QED
      BY <3>4, <3>5
  <2>4. ASSUME NEW by, NEW reason, NEW accepted \in BOOLEAN, Origin!Render(by, reason, accepted)
        PROVE  OriginInv'
    BY <2>4, RenderKeeps
  <2> QED
    BY <1>1, <2>1, <2>2, <2>3, <2>4 DEF Origin!Next
<1>2. CASE UNCHANGED origin
  BY <1>2 DEF origin, OriginInv, Routed, Voiced, Traced, Honest, Saying, Origin!SelectedRoute,
     LogIsTrue, Origin!LogIsTrue
<1> QED
  BY <1>1, <1>2 DEF BrainNext

\* Whatever fails on its way, the log of a turn has each of its calls, names who
\* made the words and the node they come from, and has a reason exactly when some
\* step of the turn was not the configured provider's.
THEOREM LogsAreTrue == BrainSpec => []LogIsTrue
<1>1. OriginInv => LogIsTrue
  BY DEF OriginInv
<1> QED
  BY <1>1, InitOrigin, NextOrigin, PTL DEF BrainSpec

-------------------------------------------------------------------------------
(* Part 2: what a reply says, and the memories it counts (Reply) *)

Sayings == Says \union {Nobody}
Memories == [claim : Sayings, of : Requests \union {Nobody}, required : BOOLEAN]
Steps == {"new", "begun", "recalled", "rendered", "drafted", "completed", "done", "received", "draft"}

\* The handler of a request, and what it has in its hands.
Handling(t) ==
  /\ t = Replies!Turn(t.step, t.said, t.earlier, t.scene, t.reply, t.used)
  /\ t.step \in Steps /\ t.said \in Sayings /\ t.earlier \in Seq(Sayings)
  /\ t.scene.memories \in Seq(Memories)

\* RecallIsNotDenied, of one turn.
RestsOnEvidence(t) ==
  /\ t.step = "rendered" /\ t.scene.policy = "Required" /\ t.scene.memories # <<>>
  /\ ~t.scene.derived
  /\ Replies!Tellable(t.scene, Replies!ToSet(t.earlier) \union {t.said})
  => t.reply.line.by \in {"model", "memory"}

Turns == DOMAIN turn = Requests /\ \A r \in Requests : Handling(turn[r]) /\ RestsOnEvidence(turn[r])

\* A request that has begun is in the order of the messages.
Ordered ==
  /\ order \in Seq(Requests)
  /\ \A r \in Requests : turn[r].step # "new" => \E i \in DOMAIN order : order[i] = r

Answered ==
  /\ DOMAIN answers = Requests
  /\ \A r \in Requests : turn[r].step \in {"completed", "done"} => answers[r] # {}

\* Memories were counted for requests whose handler went on from there.
Done == {r \in Requests : turn[r].step = "done"}
Counting ==
  /\ DOMAIN uses = Requests
  /\ \A m \in Requests : uses[m] \in Nat /\ uses[m] <= Cardinality(Done)

RepliesInv == Turns /\ Ordered /\ Answered /\ Counting

\* The operators on sequences of Reply are those of this module.
LEMMA RepliesSequences ==
  ASSUME NEW s, NEW places
  PROVE  Replies!Sublist(s, places) = Sublist(s, places)
<1>1. \A S : Replies!Cardinality(S) = Cardinality(S)
  BY DEF Replies!Cardinality, Cardinality
<1>2. \A n : Replies!Nth(places, n) = Nth(places, n)
  BY <1>1 DEF Replies!Nth, Nth
<1> QED
  BY <1>1, <1>2 DEF Replies!Sublist, Sublist

\* The first entries of a list.
LEMMA FirstOfIs ==
  ASSUME NEW S, NEW items \in Seq(S), NEW n \in Nat
  PROVE  Replies!FirstOf(items, n) \in Seq(S)
BY DEF Replies!FirstOf

\* What the player said in some requests.
LEMMA StatementsAre ==
  ASSUME Turns, NEW requests \in Seq(Requests)
  PROVE  Replies!Statements(requests) \in Seq(Sayings)
<1> DEFINE Message == Requests \X {"player", "companion"}
           all == [n \in 1..2 * Len(requests) |->
                     <<requests[(n + 1) \div 2], IF n % 2 = 1 THEN "companion" ELSE "player">>]
           places == {n \in DOMAIN all : /\ Replies!Delivered(all[n][1], all[n][2])
                                        /\ all[n] \notin erased}
           newest == Replies!FirstOf(Replies!Messages(requests), HistoryLimit)
           plays == {i \in DOMAIN newest : newest[i][2] = "player"}
           words == Sublist(newest, plays)
<1>1. all \in Seq(Message)
  <2>1. \A n \in 1..2 * Len(requests) : requests[(n + 1) \div 2] \in Requests
    <3> SUFFICES ASSUME NEW n \in 1..2 * Len(requests) PROVE (n + 1) \div 2 \in 1..Len(requests)
      OBVIOUS
    <3>1. Len(requests) \in Nat
      OBVIOUS
    <3> HIDE DEF all
    <3> QED
      BY <3>1
  <2>2. 2 * Len(requests) \in Nat
    OBVIOUS
  <2> QED
    BY <2>1, <2>2
<1>2. Replies!Messages(requests) \in Seq(Message)
  <2>1. Replies!Messages(requests) = Sublist(all, places)
    BY RepliesSequences DEF Replies!Messages
  <2>2. places \in SUBSET DOMAIN all
    OBVIOUS
  <2> HIDE DEF all, places, Message
  <2> QED
    BY <1>1, <2>1, <2>2, SublistRange
<1>3. newest \in Seq(Message)
  BY <1>2, FirstOfIs, BrainAssumption
<1>4. words \in Seq(Message)
  <2>1. plays \in SUBSET DOMAIN newest
    OBVIOUS
  <2> HIDE DEF newest, plays, Message
  <2> QED
    BY <1>3, <2>1, SublistRange
<1>5. Replies!Statements(requests) = [i \in DOMAIN words |-> turn[words[i][1]].said]
  BY RepliesSequences DEF Replies!Statements
<1>6. \A i \in DOMAIN words : turn[words[i][1]].said \in Sayings
  <2> HIDE DEF words
  <2>1. \A i \in DOMAIN words : words[i][1] \in Requests
    BY <1>4
  <2> QED
    BY <2>1 DEF Turns, Handling
<1>7. Len(words) \in Nat /\ DOMAIN words = 1..Len(words)
  <2> HIDE DEF words
  <2> QED
    BY <1>4
<1> HIDE DEF words
<1> QED
  BY <1>5, <1>6, <1>7

\* The memories a turn is given.
LEMMA SourcesAre ==
  ASSUME Turns, NEW r \in Requests, NEW direct \in BOOLEAN, NEW share \in BOOLEAN,
         NEW required \in BOOLEAN, NEW ranked \in Replies!Rankings, NEW related,
         NEW recalled, recalled = IF share THEN <<>> ELSE Replies!Recalled(ranked, required)
  PROVE  Replies!Merged((IF direct THEN Replies!Recent(r, related) ELSE <<>>) \o recalled) \in Seq(Memories)
<1>1. recalled \in Seq(Memories)
  <2>1. ranked \in Replies!SeqOf({q \in Requests : remembered[q] = "Active"}, MaxSources)
    BY DEF Replies!Rankings
  <2>2. PICK n \in 0..MaxSources : ranked \in [1..n -> {q \in Requests : remembered[q] = "Active"}]
    BY <2>1 DEF Replies!SeqOf
  <2>3. \A i \in 1..n : Replies!Evidence(turn[ranked[i]].said, ranked[i], required /\ i = 1) \in Memories
    <3> SUFFICES ASSUME NEW i \in 1..n
                 PROVE  /\ turn[ranked[i]].said \in Sayings /\ ranked[i] \in Requests \union {Nobody}
                        /\ (required /\ i = 1) \in BOOLEAN
      BY DEF Replies!Evidence, Memories
    <3>1. ranked[i] \in Requests
      BY <2>2
    <3> QED
      BY <3>1 DEF Turns, Handling
  <2>4. DOMAIN ranked = 1..n /\ n \in Nat
    BY <2>2, BrainAssumption
  <2>5. Replies!Recalled(ranked, required)
          = [i \in 1..n |-> Replies!Evidence(turn[ranked[i]].said, ranked[i], required /\ i = 1)]
    BY <2>4 DEF Replies!Recalled
  <2>6. Replies!Recalled(ranked, required) \in Seq(Memories)
    BY <2>3, <2>4, <2>5
  <2> QED
    BY <2>6
<1>2. Replies!Recent(r, related) \in Seq(Memories)
  <2> DEFINE earlier == turn[r].earlier
             places == {i \in DOMAIN earlier : earlier[i] \in related}
             said == Replies!FirstOf(Sublist(earlier, places), MaxSources)
  <2>1. earlier \in Seq(Sayings)
    BY DEF Turns, Handling
  <2>2. Sublist(earlier, places) \in Seq(Sayings)
    <3>1. places \in SUBSET DOMAIN earlier
      OBVIOUS
    <3> HIDE DEF earlier, places
    <3> QED
      BY <2>1, <3>1, SublistRange
  <2>3. said \in Seq(Sayings)
    <3> HIDE DEF earlier, places
    <3> QED
      BY <2>2, FirstOfIs, BrainAssumption
  <2>4. Replies!Recent(r, related) = [i \in DOMAIN said |-> Replies!Evidence(said[i], Nobody, TRUE)]
    BY RepliesSequences DEF Replies!Recent
  <2> HIDE DEF said
  <2>5. \A i \in DOMAIN said : Replies!Evidence(said[i], Nobody, TRUE) \in Memories
    <3>1. \A i \in DOMAIN said : said[i] \in Sayings
      BY <2>3
    <3>2. \A text \in Sayings : Replies!Evidence(text, Nobody, TRUE) \in Memories
      BY DEF Replies!Evidence, Memories
    <3> QED
      BY <3>1, <3>2
  <2>6. DOMAIN said = 1..Len(said) /\ Len(said) \in Nat
    BY <2>3
  <2> DEFINE evidence(i) == Replies!Evidence(said[i], Nobody, TRUE)
  <2>7. \A i \in 1..Len(said) : evidence(i) \in Memories
    BY <2>5, <2>6
  <2>8. Replies!Recent(r, related) = [i \in 1..Len(said) |-> evidence(i)]
    BY <2>4, <2>6
  <2> HIDE DEF evidence
  <2> QED
    BY <2>6, <2>7, <2>8
<1> DEFINE items == (IF direct THEN Replies!Recent(r, related) ELSE <<>>) \o recalled
           places == {i \in DOMAIN items : \A j \in 1..i - 1 : items[j].claim # items[i].claim}
<1>3. items \in Seq(Memories)
  BY <1>1, <1>2
<1>4. Sublist(items, places) \in Seq(Memories)
  <2>1. places \in SUBSET DOMAIN items
    OBVIOUS
  <2> HIDE DEF items, places
  <2> QED
    BY <1>3, <2>1, SublistRange
<1>5. Replies!Merged(items) = Replies!FirstOf(Sublist(items, places), MaxSources)
  BY RepliesSequences DEF Replies!Merged
<1> HIDE DEF items, places
<1>6. Replies!Merged(items) \in Seq(Memories)
  BY <1>4, <1>5, FirstOfIs, BrainAssumption
<1> QED
  BY <1>6 DEF items

\* What a scene that rests on evidence can be told with, whatever the provider does.
LEMMA RenderingRests ==
  ASSUME NEW scene, scene.memories \in Seq(Memories), scene.memories # <<>>,
         scene.policy = "Required", ~scene.derived,
         NEW heard, Replies!Tellable(scene, heard),
         NEW reply \in Replies!Renderings(scene, heard)
  PROVE  reply.line.by \in {"model", "memory"}
<1>1. 1 \in Replies!Indexes(scene)
  BY DEF Replies!Indexes
<1>2. ASSUME NEW refs \in SUBSET Replies!Indexes(scene)
      PROVE  /\ Replies!FallbackRefs(scene, refs) # {}
             /\ Replies!FallbackRefs(scene, refs) \subseteq Replies!Indexes(scene)
  BY <1>1 DEF Replies!FallbackRefs
<1>3. ASSUME NEW refs \in SUBSET Replies!Indexes(scene)
      PROVE  /\ Replies!Grounded(scene, refs).by = "memory"
             /\ Replies!Displayed(Replies!Grounded(scene, refs), heard)
  <2> DEFINE selected == Replies!FallbackRefs(scene, refs)
             claims == Replies!Claims(scene, selected)
  <2>1. Replies!Grounded(scene, refs) = Replies!Told(claims)
    BY <1>2 DEF Replies!Grounded
  <2>2. Replies!Displayed(Replies!Told(claims), heard)
    <3>1. selected \in SUBSET Replies!Indexes(scene) /\ selected # {}
      BY <1>2
    <3> HIDE DEF selected
    <3> QED
      BY <3>1 DEF Replies!Tellable
  <2> HIDE DEF claims
  <2>3. Replies!Told(claims).by = "memory"
    BY DEF Replies!Told, Replies!Line
  <2> QED
    BY <2>1, <2>2, <2>3
<1>4. PICK output \in Replies!Outputs(scene) :
        \E refs \in Replies!References(scene, output) : reply = Replies!Rendering(scene, output, refs, heard)
  BY DEF Replies!Renderings
<1>5. PICK refs \in Replies!References(scene, output) : reply = Replies!Rendering(scene, output, refs, heard)
  BY <1>4
<1>6. output.line.by \in {"model", "memory"} /\ output.refs \in SUBSET Replies!Indexes(scene)
  <2>1. ASSUME NEW fits \in BOOLEAN, NEW fallback, output = Replies!Mock(scene, fallback, fits)
        PROVE  output.line.by = "memory" /\ output.refs = {1}
    BY <2>1 DEF Replies!Mock, Replies!Output, Replies!Line
  <2>2. CASE output \in Replies!ModelOutputs(scene)
    BY <2>2 DEF Replies!ModelOutputs, Replies!Output, Replies!Line
  <2>3. ASSUME NEW fits \in BOOLEAN, output = Replies!Output(Replies!Grounded(scene, {}), {}, fits)
        PROVE  output.line.by = "memory" /\ output.refs = {}
    BY <1>3, <2>3 DEF Replies!Output
  <2>4. \/ output \in Replies!ModelOutputs(scene)
        \/ \E fallback : \E fits \in BOOLEAN : output = Replies!Mock(scene, fallback, fits)
        \/ \E fits \in BOOLEAN : output = Replies!Output(Replies!Grounded(scene, {}), {}, fits)
    <3>1. CASE provider = "mock"
      <4>1. output \in {Replies!Mock(scene, Replies!FixedLine(scene), fits) : fits \in BOOLEAN}
        BY <1>4, <3>1 DEF Replies!Outputs
      <4> QED
        BY <4>1
    <3>2. CASE provider = "keyless"
      <4>1. output \in {Replies!Output(Replies!Grounded(scene, {}), {}, fits) : fits \in BOOLEAN}
        BY <1>4, <3>2 DEF Replies!Outputs
      <4> QED
        BY <4>1
    <3>3. CASE provider \notin {"mock", "keyless"}
      <4>1. \/ output \in Replies!ModelOutputs(scene)
            \/ output \in {Replies!Mock(scene, Replies!Grounded(scene, {}), fits) : fits \in BOOLEAN}
        BY <1>4, <3>3 DEF Replies!Outputs, Replies!InItsPlace
      <4> QED
        BY <4>1
    <3> QED
      BY <3>1, <3>2, <3>3
  <2> QED
    BY <1>1, <2>1, <2>2, <2>3, <2>4
<1>7. CASE Replies!Accepts(scene, output, refs, heard)
  <2>1. Replies!Displayed(output.line, heard)
    BY <1>7 DEF Replies!Accepts
  <2> QED
    BY <1>5, <1>6, <1>7, <2>1 DEF Replies!Rendering, Replies!Rendered, Replies!Finalize
<1>8. CASE ~Replies!Accepts(scene, output, refs, heard)
  <2>1. reply.line = Replies!Finalize(Replies!Grounded(scene, output.refs), Replies!FixedLine(scene), heard)
    BY <1>5, <1>8 DEF Replies!Rendering, Replies!Rendered
  <2> QED
    BY <1>3, <1>6, <2>1 DEF Replies!Finalize
<1> QED
  BY <1>7, <1>8

\* What a handler is made of.
LEMMA HandlingIs ==
  ASSUME NEW step \in Steps, NEW said \in Sayings, NEW earlier \in Seq(Sayings), NEW scene,
         scene.memories \in Seq(Memories), NEW reply, NEW used
  PROVE  LET t == Replies!Turn(step, said, earlier, scene, reply, used) IN
         /\ Handling(t) /\ t.step = step /\ t.said = said /\ t.earlier = earlier
         /\ t.scene = scene /\ t.reply = reply
BY DEF Handling, Replies!Turn

\* There are no memories in no scene.
LEMMA NoSceneIs == Replies!NoScene.memories \in Seq(Memories) /\ <<>> \in Seq(Sayings)
BY DEF Replies!NoScene, Replies!Scene

\* A handler with nothing in its hands but a reply.
LEMMA AnewIs ==
  ASSUME NEW step \in Steps, NEW said \in Sayings, NEW reply, NEW used
  PROVE  LET t == Replies!Turn(step, said, <<>>, Replies!NoScene, reply, used) IN
         Handling(t) /\ t.step = step
<1> DEFINE nothing == <<>>
<1>1. nothing \in Seq(Sayings)
  OBVIOUS
<1> HIDE DEF nothing
<1>2. Handling(Replies!Turn(step, said, nothing, Replies!NoScene, reply, used))
      /\ Replies!Turn(step, said, nothing, Replies!NoScene, reply, used).step = step
  BY <1>1, HandlingIs, NoSceneIs
<1> QED
  BY <1>2 DEF nothing

\* A handler that is changed in part.
LEMMA StepChanged ==
  ASSUME NEW t, Handling(t), NEW step \in Steps
  PROVE  Handling([t EXCEPT !.step = step]) /\ [t EXCEPT !.step = step].step = step
<1>1. [t EXCEPT !.step = step] = Replies!Turn(step, t.said, t.earlier, t.scene, t.reply, t.used)
  BY DEF Handling, Replies!Turn
<1>2. t.said \in Sayings /\ t.earlier \in Seq(Sayings) /\ t.scene.memories \in Seq(Memories)
  BY DEF Handling
<1> QED
  BY <1>1, <1>2, HandlingIs

LEMMA ReplyChanged ==
  ASSUME NEW t, Handling(t), NEW reply
  PROVE  Handling([t EXCEPT !.reply = reply]) /\ [t EXCEPT !.reply = reply].step = t.step
<1>1. [t EXCEPT !.reply = reply] = Replies!Turn(t.step, t.said, t.earlier, t.scene, reply, t.used)
  BY DEF Handling, Replies!Turn
<1>2. t.step \in Steps /\ t.said \in Sayings /\ t.earlier \in Seq(Sayings) /\ t.scene.memories \in Seq(Memories)
  BY DEF Handling
<1> QED
  BY <1>1, <1>2, HandlingIs

LEMMA HeardMore ==
  ASSUME NEW t, Handling(t), NEW x
  PROVE  [t EXCEPT !.earlier = x] = Replies!Turn(t.step, t.said, x, t.scene, t.reply, t.used)
BY DEF Handling, Replies!Turn

LEMMA EarlierChanged ==
  ASSUME NEW t, Handling(t), NEW step \in Steps, NEW earlier \in Seq(Sayings)
  PROVE  /\ Handling([t EXCEPT !.step = step, !.earlier = earlier])
         /\ [t EXCEPT !.step = step, !.earlier = earlier].step = step
<1> DEFINE u == [t EXCEPT !.step = step]
<1>1. u.step = step /\ Handling(u)
  BY StepChanged
<1>2. [t EXCEPT !.step = step, !.earlier = earlier] = [u EXCEPT !.earlier = earlier]
  OBVIOUS
<1> HIDE DEF u
<1>3. [u EXCEPT !.earlier = earlier] = Replies!Turn(u.step, u.said, earlier, u.scene, u.reply, u.used)
  BY <1>1, HeardMore
<1>4. u.step \in Steps /\ u.said \in Sayings /\ u.scene.memories \in Seq(Memories)
  BY <1>1 DEF Handling
<1> QED
  BY <1>1, <1>2, <1>3, <1>4, HandlingIs

LEMMA UsedChanged ==
  ASSUME NEW t, Handling(t), NEW used
  PROVE  Handling([t EXCEPT !.used = used]) /\ [t EXCEPT !.used = used].step = t.step
<1>1. [t EXCEPT !.used = used] = Replies!Turn(t.step, t.said, t.earlier, t.scene, t.reply, used)
  BY DEF Handling, Replies!Turn
<1>2. t.step \in Steps /\ t.said \in Sayings /\ t.earlier \in Seq(Sayings) /\ t.scene.memories \in Seq(Memories)
  BY DEF Handling
<1> QED
  BY <1>1, <1>2, HandlingIs

\* A handler moves on.
LEMMA HandlerMoves ==
  ASSUME RepliesInv, NEW r \in Requests, NEW t, Handling(t), RestsOnEvidence(t), t.step # "new",
         turn' = [turn EXCEPT ![r] = t],
         \/ order' = order /\ turn[r].step # "new"
         \/ order' = Append(order, r),
         DOMAIN answers' = Requests, \A q \in Requests : answers[q] \subseteq answers'[q],
         t.step \in {"completed", "done"} /\ turn[r].step \notin {"completed", "done"} => answers'[r] # {}
  PROVE  Turns' /\ Ordered' /\ Answered'
<1>1. DOMAIN turn = Requests /\ \A q \in Requests : Handling(turn[q]) /\ RestsOnEvidence(turn[q])
  BY DEF RepliesInv, Turns
<1>2. DOMAIN turn' = Requests /\ turn'[r] = t /\ \A q \in Requests \ {r} : turn'[q] = turn[q]
  BY <1>1
<1>3. Turns'
  <2>1. \A q \in Requests : Handling(turn'[q]) /\ RestsOnEvidence(turn'[q])
    BY <1>1, <1>2
  <2> QED
    BY <1>2, <2>1 DEF Turns, Handling, RestsOnEvidence
<1>4. Ordered'
  <2>1. order \in Seq(Requests) /\ \A q \in Requests : turn[q].step # "new" => \E i \in DOMAIN order : order[i] = q
    BY DEF RepliesInv, Ordered
  <2>2. order' \in Seq(Requests) /\ \A i \in DOMAIN order : i \in DOMAIN order' /\ order'[i] = order[i]
    BY <2>1
  <2>3. \E i \in DOMAIN order' : order'[i] = r
    <3>1. CASE order' = order /\ turn[r].step # "new"
      BY <2>1, <3>1
    <3>2. CASE order' = Append(order, r)
      <4>1. Len(order) + 1 \in DOMAIN order' /\ order'[Len(order) + 1] = r
        BY <2>1, <3>2
      <4> QED
        BY <4>1
    <3> QED
      BY <3>1, <3>2
  <2>4. \A q \in Requests : turn'[q].step # "new" => \E i \in DOMAIN order' : order'[i] = q
    BY <1>2, <2>1, <2>2, <2>3
  <2> QED
    BY <2>2, <2>4 DEF Ordered
<1>5. Answered'
  <2>1. \A q \in Requests : turn[q].step \in {"completed", "done"} => answers[q] # {}
    BY DEF RepliesInv, Answered
  <2>2. \A q \in Requests : turn'[q].step \in {"completed", "done"} => answers'[q] # {}
    <3> SUFFICES ASSUME NEW q \in Requests, turn'[q].step \in {"completed", "done"}
                 PROVE  answers'[q] # {}
      OBVIOUS
    <3>1. CASE turn[q].step \in {"completed", "done"}
      BY <2>1, <3>1
    <3>2. CASE turn[q].step \notin {"completed", "done"}
      BY <1>2, <3>2
    <3> QED
      BY <3>1, <3>2
  <2> QED
    BY <2>2 DEF Answered
<1> QED
  BY <1>3, <1>4, <1>5

\* Nothing is counted, and who is done stays done.
LEMMA CountingKept ==
  ASSUME RepliesInv, NEW r \in Requests, NEW t, turn' = [turn EXCEPT ![r] = t],
         turn[r].step = "done" => t.step = "done", UNCHANGED uses
  PROVE  Counting'
<1>1. Done \subseteq Done' /\ IsFiniteSet(Done')
  <2>1. \A q \in Requests : turn[q].step = "done" => turn'[q].step = "done"
    BY DEF RepliesInv, Turns
  <2>2. Done \subseteq Done' /\ Done' \subseteq Requests
    BY <2>1 DEF Done
  <2> QED
    BY <2>2, FS_Subset, BrainAssumption
<1>2. Cardinality(Done) <= Cardinality(Done') /\ Cardinality(Done) \in Nat /\ Cardinality(Done') \in Nat
  BY <1>1, FS_Subset, FS_CardinalityType
<1>3. \A m \in Requests : uses'[m] \in Nat /\ uses'[m] <= Cardinality(Done')
  BY <1>2 DEF RepliesInv, Counting
<1> QED
  BY <1>3 DEF RepliesInv, Counting

\* A step that leaves the turns alone.
LEMMA RepliesLeftAlone ==
  ASSUME RepliesInv, UNCHANGED <<order, turn, uses, answers>>
  PROVE  RepliesInv'
BY DEF RepliesInv, Turns, Handling, RestsOnEvidence, Ordered, Answered, Counting, Done

\* A message arrives, or is attempted again.
LEMMA BeginsKeep ==
  ASSUME RepliesInv, NEW r \in Requests,
         (\E said \in Says : Replies!Begin(r, said)) \/ Replies!Retry(r)
  PROVE  RepliesInv'
<1>1. Turns /\ order \in Seq(Requests) /\ Handling(turn[r]) /\ DOMAIN answers = Requests
  BY DEF RepliesInv, Turns, Ordered, Answered
<1>2. CASE \E said \in Says : Replies!Begin(r, said)
  <2>1. PICK said \in Says : Replies!Begin(r, said)
    BY <1>2
  <2> DEFINE earlier == Replies!Statements(Replies!Reverse(order))
             t == Replies!Turn("begun", said, earlier, Replies!NoScene, Replies!NoReply, {})
  <2>2. /\ turn[r].step = "new" /\ order' = Append(order, r) /\ turn' = [turn EXCEPT ![r] = t]
        /\ UNCHANGED <<uses, answers>>
    BY <2>1 DEF Replies!Begin, Replies!At
  <2>3. earlier \in Seq(Sayings)
    <3>1. Replies!Reverse(order) \in Seq(Requests)
      BY <1>1 DEF Replies!Reverse
    <3> QED
      BY <1>1, <3>1, StatementsAre
  <2> HIDE DEF earlier
  <2>4. Handling(t) /\ t.step = "begun"
    <3>1. "begun" \in Steps /\ said \in Sayings
      BY DEF Steps, Sayings
    <3> QED
      BY <2>3, <3>1, HandlingIs, NoSceneIs
  <2>5. RestsOnEvidence(t)
    BY <2>4 DEF RestsOnEvidence
  <2> HIDE DEF t
  <2>6. Turns' /\ Ordered' /\ Answered'
    BY <1>1, <2>2, <2>4, <2>5, HandlerMoves
  <2>7. Counting'
    BY <2>2, CountingKept
  <2> QED
    BY <2>6, <2>7 DEF RepliesInv
<1>3. CASE Replies!Retry(r)
  <2> DEFINE t == [turn[r] EXCEPT !.step = "begun", !.earlier = Replies!History(r)]
  <2>1. /\ turn[r].step = "received" /\ turn' = [turn EXCEPT ![r] = t] /\ UNCHANGED <<order, uses, answers>>
    BY <1>3 DEF Replies!Retry, Replies!At
  <2>2. Replies!History(r) \in Seq(Sayings)
    <3>1. \E i \in DOMAIN order : order[i] = r
      BY <2>1 DEF RepliesInv, Ordered
    <3>2. Replies!Place(r) \in DOMAIN order
      BY <3>1 DEF Replies!Place
    <3>3. SubSeq(order, 1, Replies!Place(r) - 1) \in Seq(Requests)
      BY <1>1, <3>2
    <3>4. \A some \in Seq(Requests) : Replies!Reverse(some) \in Seq(Requests)
      BY DEF Replies!Reverse
    <3> QED
      BY <1>1, <3>3, <3>4, StatementsAre DEF Replies!History
  <2>3. Handling(t) /\ t.step = "begun"
    <3> DEFINE now == turn[r]
               words == Replies!History(r)
               begun == "begun"
    <3>1. begun \in Steps /\ Handling(now) /\ words \in Seq(Sayings)
      BY <1>1, <2>2 DEF Steps
    <3>2. t = [now EXCEPT !.step = begun, !.earlier = words]
      OBVIOUS
    <3> HIDE DEF now, words, begun
    <3>3. /\ Handling([now EXCEPT !.step = begun, !.earlier = words])
          /\ [now EXCEPT !.step = begun, !.earlier = words].step = begun
      BY <3>1, EarlierChanged, ZenonT(60)
    <3> HIDE DEF t
    <3>4. Handling(t) /\ t.step = begun
      BY <3>2, <3>3
    <3> QED
      BY <3>4 DEF begun
  <2>4. RestsOnEvidence(t)
    BY <2>3 DEF RestsOnEvidence
  <2> HIDE DEF t
  <2>5. Turns' /\ Ordered' /\ Answered'
    BY <1>1, <2>1, <2>3, <2>4, HandlerMoves
  <2>6. Counting'
    BY <2>1, CountingKept
  <2> QED
    BY <2>5, <2>6 DEF RepliesInv
<1> QED
  BY <1>2, <1>3

\* A handler moves on to a step at which nothing is answered or rendered.
LEMMA HandlerGoesOn ==
  ASSUME RepliesInv, NEW r \in Requests, NEW t, Handling(t),
         t.step \notin {"new", "rendered", "completed", "done"}, turn[r].step \notin {"new", "done"},
         turn' = [turn EXCEPT ![r] = t], UNCHANGED <<order, uses, answers>>
  PROVE  RepliesInv'
<1>1. RestsOnEvidence(t)
  BY DEF RestsOnEvidence
<1>2. DOMAIN answers = Requests
  BY DEF RepliesInv, Answered
<1>3. Turns' /\ Ordered' /\ Answered'
  BY <1>1, <1>2, HandlerMoves
<1>4. Counting'
  BY CountingKept
<1> QED
  BY <1>3, <1>4 DEF RepliesInv

\* The memories are recalled.
LEMMA RecallKeeps ==
  ASSUME RepliesInv, NEW r \in Requests, Replies!Recall(r)
  PROVE  RepliesInv'
<1>1. turn[r].step = "begun" /\ Turns /\ Handling(turn[r])
  BY DEF RepliesInv, Turns, Replies!Recall, Replies!At
<1>2. PICK share \in BOOLEAN, direct \in BOOLEAN, reminded \in BOOLEAN,
           ranked \in Replies!Rankings, related \in SUBSET Says :
        LET recalled == IF share THEN <<>> ELSE Replies!Recalled(ranked, direct \/ reminded)
            sources == Replies!Merged((IF direct THEN Replies!Recent(r, related) ELSE <<>>) \o recalled)
            required == \E i \in DOMAIN sources : sources[i].required
        IN  turn' = [turn EXCEPT ![r] = Replies!Turn("recalled", @.said, @.earlier,
                       Replies!Scene(sources, IF required THEN "Required" ELSE "None", FALSE, {}),
                       Replies!NoReply, {})]
  BY DEF Replies!Recall
<1> DEFINE recalled == IF share THEN <<>> ELSE Replies!Recalled(ranked, direct \/ reminded)
           sources == Replies!Merged((IF direct THEN Replies!Recent(r, related) ELSE <<>>) \o recalled)
           required == \E i \in DOMAIN sources : sources[i].required
           scene == Replies!Scene(sources, IF required THEN "Required" ELSE "None", FALSE, {})
           t == Replies!Turn("recalled", turn[r].said, turn[r].earlier, scene, Replies!NoReply, {})
<1>3. turn' = [turn EXCEPT ![r] = t] /\ UNCHANGED <<order, uses, answers>>
  BY <1>2 DEF Replies!Recall
<1>4. sources \in Seq(Memories)
  <2>1. (direct \/ reminded) \in BOOLEAN
    OBVIOUS
  <2> QED
    BY <1>1, <2>1, SourcesAre
<1>5. scene.memories \in Seq(Memories)
  BY <1>4 DEF Replies!Scene
<1> HIDE DEF scene
<1>6. Handling(t) /\ t.step = "recalled"
  <2>1. "recalled" \in Steps /\ turn[r].said \in Sayings /\ turn[r].earlier \in Seq(Sayings)
    BY <1>1 DEF Handling, Steps
  <2> QED
    BY <1>5, <2>1, HandlingIs
<1> HIDE DEF t
<1> QED
  BY <1>1, <1>3, <1>6, HandlerGoesOn

\* The words are made.
LEMMA RenderedKeeps ==
  ASSUME RepliesInv, NEW r \in Requests, Replies!Render(r)
  PROVE  RepliesInv'
<1>1. /\ turn[r].step = "recalled" /\ Turns /\ Handling(turn[r]) /\ DOMAIN answers = Requests
      /\ UNCHANGED <<order, uses, answers>>
  BY DEF RepliesInv, Turns, Answered, Replies!Render, Replies!At
<1>2. /\ "rendered" \in Steps /\ turn[r].said \in Sayings /\ turn[r].earlier \in Seq(Sayings)
      /\ turn[r].scene.memories \in Seq(Memories)
  BY <1>1 DEF Handling, Steps
<1>3. ASSUME NEW t, Handling(t), RestsOnEvidence(t), t.step = "rendered", turn' = [turn EXCEPT ![r] = t]
      PROVE  RepliesInv'
  <2>1. Turns' /\ Ordered' /\ Answered'
    BY <1>1, <1>3, HandlerMoves
  <2>2. Counting'
    BY <1>1, <1>3, CountingKept
  <2> QED
    BY <2>1, <2>2 DEF RepliesInv
<1>4. ASSUME NEW scene \in Replies!Scenes(turn[r].scene),
             NEW reply \in Replies!Renderings(scene, Replies!Heard(r)), NEW used,
             turn' = [turn EXCEPT ![r] = Replies!Turn("rendered", @.said, @.earlier, scene, reply, used)]
      PROVE  RepliesInv'
  <2> DEFINE t == Replies!Turn("rendered", turn[r].said, turn[r].earlier, scene, reply, used)
  <2>1. scene.memories \in Seq(Memories)
    <3> DEFINE recalled == turn[r].scene
    <3>1. PICK given \in {<<>>, recalled.memories} :
            scene \in Replies!PlainScenes(given, recalled) \/ scene \in Replies!DerivedScenes(given)
      BY DEF Replies!Scenes
    <3>2. scene.memories = given
      <4>1. CASE scene \in Replies!PlainScenes(given, recalled)
        <5>1. PICK policy, derived : scene = Replies!Scene(given, policy, derived, {})
          BY <4>1 DEF Replies!PlainScenes
        <5> QED
          BY <5>1 DEF Replies!Scene
      <4>2. CASE scene \in Replies!DerivedScenes(given)
        <5>1. PICK i : scene = Replies!Scene(given, "Required", TRUE, {i})
          BY <4>2 DEF Replies!DerivedScenes
        <5> QED
          BY <5>1 DEF Replies!Scene
      <4> QED
        BY <3>1, <4>1, <4>2
    <3>3. <<>> \in Seq(Memories)
      OBVIOUS
    <3> QED
      BY <1>2, <3>1, <3>2, <3>3
  <2>2. /\ Handling(t) /\ t.step = "rendered" /\ t.scene = scene /\ t.reply = reply
        /\ t.said = turn[r].said /\ t.earlier = turn[r].earlier
    BY <1>2, <2>1, HandlingIs
  <2>3. turn' = [turn EXCEPT ![r] = t]
    BY <1>4
  <2> HIDE DEF t
  <2>4. RestsOnEvidence(t)
    <3> SUFFICES ASSUME scene.policy = "Required", scene.memories # <<>>, ~scene.derived,
                        Replies!Tellable(scene, Replies!Heard(r))
                 PROVE  reply.line.by \in {"model", "memory"}
      BY <2>2 DEF RestsOnEvidence, Replies!Heard
    <3> QED
      BY <2>1, RenderingRests
  <2> QED
    BY <1>3, <2>2, <2>3, <2>4
<1>5. ASSUME NEW reply, turn' = [turn EXCEPT ![r] =
                          Replies!Turn("rendered", @.said, @.earlier, Replies!NoScene, reply, {})]
      PROVE  RepliesInv'
  <2> DEFINE t == Replies!Turn("rendered", turn[r].said, turn[r].earlier, Replies!NoScene, reply, {})
  <2>1. Handling(t) /\ t.step = "rendered" /\ t.scene = Replies!NoScene
    BY <1>2, HandlingIs, NoSceneIs
  <2>2. turn' = [turn EXCEPT ![r] = t]
    BY <1>5
  <2> HIDE DEF t
  <2>3. RestsOnEvidence(t)
    BY <2>1 DEF RestsOnEvidence, Replies!NoScene, Replies!Scene
  <2> QED
    BY <1>3, <2>1, <2>2, <2>3
<1> QED
  BY <1>4, <1>5 DEF Replies!Render

\* The reply is stored, and given.
LEMMA SavesKeep ==
  ASSUME RepliesInv, NEW r \in Requests, Replies!Save(r) \/ Replies!Complete(r)
  PROVE  RepliesInv'
<1>1. Turns /\ Handling(turn[r]) /\ DOMAIN answers = Requests
  BY DEF RepliesInv, Turns, Answered
<1>2. CASE Replies!Save(r)
  <2>1. PICK line, used : turn' = [turn EXCEPT ![r] = Replies!Draft(r, line, used)]
    BY <1>2 DEF Replies!Save
  <2> DEFINE t == Replies!Draft(r, line, used)
  <2>2. turn[r].step = "rendered" /\ turn' = [turn EXCEPT ![r] = t] /\ UNCHANGED <<order, uses, answers>>
    BY <1>2, <2>1 DEF Replies!Save, Replies!At
  <2>3. Handling(t) /\ t.step = "drafted"
    <3>1. "drafted" \in Steps /\ turn[r].said \in Sayings
      BY <1>1 DEF Handling, Steps
    <3> QED
      BY <3>1, AnewIs DEF Replies!Draft
  <2> HIDE DEF t
  <2> QED
    BY <2>2, <2>3, HandlerGoesOn
<1>3. CASE Replies!Complete(r)
  <2> DEFINE t == [turn[r] EXCEPT !.step = "completed"]
  <2>1. /\ turn[r].step = "drafted" /\ turn' = [turn EXCEPT ![r] = t] /\ UNCHANGED <<order, uses>>
        /\ Replies!Answer(r, turn[r].reply.line)
    BY <1>3 DEF Replies!Complete, Replies!At
  <2>2. Handling(t) /\ t.step = "completed"
    <3>1. "completed" \in Steps
      BY DEF Steps
    <3> QED
      BY <1>1, <3>1, StepChanged
  <2>3. RestsOnEvidence(t)
    BY <2>2 DEF RestsOnEvidence
  <2> HIDE DEF t
  <2>4. /\ DOMAIN answers' = Requests /\ answers'[r] # {}
        /\ \A q \in Requests : answers[q] \subseteq answers'[q]
    BY <1>1, <2>1 DEF Replies!Answer
  <2>5. Turns' /\ Ordered' /\ Answered'
    BY <1>1, <2>1, <2>2, <2>3, <2>4, HandlerMoves
  <2>6. Counting'
    BY <2>1, CountingKept
  <2> QED
    BY <2>5, <2>6 DEF RepliesInv
<1> QED
  BY <1>2, <1>3

\* The memories of the reply are counted: one more request is done.
LEMMA CountKeeps ==
  ASSUME RepliesInv, NEW r \in Requests, Replies!CountUses(r)
  PROVE  RepliesInv'
<1>1. Turns /\ Handling(turn[r]) /\ DOMAIN answers = Requests
  BY DEF RepliesInv, Turns, Answered
<1> DEFINE t == [turn[r] EXCEPT !.step = "done"]
<1>2. /\ turn[r].step = "completed" /\ turn' = [turn EXCEPT ![r] = t] /\ UNCHANGED <<order, answers>>
      /\ uses' = Replies!Counted(turn[r].used)
  BY DEF Replies!CountUses, Replies!At
<1>3. Handling(t) /\ t.step = "done"
  <2>1. "done" \in Steps
    BY DEF Steps
  <2> QED
    BY <1>1, <2>1, StepChanged
<1>4. RestsOnEvidence(t)
  BY <1>3 DEF RestsOnEvidence
<1> HIDE DEF t
<1>5. Turns' /\ Ordered' /\ Answered'
  BY <1>1, <1>2, <1>3, <1>4, HandlerMoves
<1>6. Done' = Done \union {r} /\ r \notin Done /\ IsFiniteSet(Done)
  <2>1. DOMAIN turn = Requests
    BY <1>1 DEF Turns
  <2>2. turn'[r].step = "done" /\ \A q \in Requests \ {r} : turn'[q] = turn[q]
    BY <1>2, <1>3, <2>1
  <2>3. Done' = Done \union {r} /\ r \notin Done /\ Done \subseteq Requests
    BY <1>2, <2>2 DEF Done
  <2> QED
    BY <2>3, FS_Subset, BrainAssumption
<1>7. Cardinality(Done') = Cardinality(Done) + 1 /\ Cardinality(Done) \in Nat
  BY <1>6, FS_AddElement, FS_CardinalityType
<1>8. \A m \in Requests : uses'[m] \in Nat /\ uses'[m] <= Cardinality(Done')
  <2> SUFFICES ASSUME NEW m \in Requests PROVE uses'[m] \in Nat /\ uses'[m] <= Cardinality(Done')
    OBVIOUS
  <2>1. uses[m] \in Nat /\ uses[m] <= Cardinality(Done)
    BY DEF RepliesInv, Counting
  <2>2. uses'[m] \in {uses[m], uses[m] + 1}
    BY <1>2 DEF Replies!Counted
  <2> QED
    BY <1>7, <2>1, <2>2
<1>9. Counting'
  BY <1>2, <1>8 DEF Counting, Replies!Counted
<1> QED
  BY <1>5, <1>9 DEF RepliesInv

\* A stored reply is taken up or given again, or an attempt fails.
LEMMA AgainKeeps ==
  ASSUME RepliesInv, NEW r \in Requests, Replies!Resume(r) \/ Replies!Replay(r) \/ Replies!Fail(r)
  PROVE  RepliesInv'
<1>1. Turns /\ Handling(turn[r]) /\ DOMAIN answers = Requests
  BY DEF RepliesInv, Turns, Answered
<1>2. CASE Replies!Resume(r)
  <2> DEFINE t == [turn[r] EXCEPT !.step = "drafted", !.reply = Replies!Guarded(r), !.used = {}]
  <2>1. turn[r].step = "draft" /\ turn' = [turn EXCEPT ![r] = t] /\ UNCHANGED <<order, uses, answers>>
    BY <1>2 DEF Replies!Resume, Replies!At
  <2>2. Handling(t) /\ t.step = "drafted"
    <3> DEFINE old == turn[r]
               u == [old EXCEPT !.step = "drafted"]
               v == [u EXCEPT !.reply = Replies!Guarded(r)]
    <3>1. "drafted" \in Steps /\ Handling(old) /\ t = [v EXCEPT !.used = {}]
      BY <1>1 DEF Steps
    <3>2. Handling(u) /\ u.step = "drafted"
      BY <3>1, StepChanged
    <3> HIDE DEF u
    <3>3. Handling(v) /\ v.step = "drafted"
      BY <3>2, ReplyChanged
    <3> HIDE DEF v, t
    <3> QED
      BY <3>1, <3>3, UsedChanged
  <2> HIDE DEF t
  <2> QED
    BY <2>1, <2>2, HandlerGoesOn
<1>3. CASE Replies!Replay(r)
  <2> DEFINE t == [turn[r] EXCEPT !.reply = Replies!Guarded(r)]
  <2>1. /\ turn[r].step = "done" /\ turn' = [turn EXCEPT ![r] = t] /\ UNCHANGED <<order, uses>>
        /\ Replies!Answer(r, Replies!Guarded(r).line)
    BY <1>3 DEF Replies!Replay, Replies!At
  <2>2. Handling(t) /\ t.step = "done"
    BY <1>1, <2>1, ReplyChanged
  <2>3. RestsOnEvidence(t)
    BY <2>2 DEF RestsOnEvidence
  <2> HIDE DEF t
  <2>4. DOMAIN answers' = Requests /\ \A q \in Requests : answers[q] \subseteq answers'[q]
    BY <1>1, <2>1 DEF Replies!Answer
  <2>5. Turns' /\ Ordered' /\ Answered'
    BY <1>1, <2>1, <2>2, <2>3, <2>4, HandlerMoves
  <2>6. Counting'
    BY <2>1, <2>2, CountingKept
  <2> QED
    BY <2>5, <2>6 DEF RepliesInv
<1>4. CASE Replies!Fail(r)
  <2> DEFINE step == IF turn[r].step \in {"begun", "recalled", "rendered"} THEN "received"
                     ELSE IF turn[r].step = "drafted" THEN "draft" ELSE "done"
             reply == IF turn[r].step \in {"begun", "recalled", "rendered"} THEN Replies!NoReply
                      ELSE turn[r].reply
             t == Replies!Turn(step, turn[r].said, <<>>, Replies!NoScene, reply, {})
  <2>1. /\ turn[r].step \in {"begun", "recalled", "rendered", "drafted", "completed"}
        /\ turn' = [turn EXCEPT ![r] = t] /\ UNCHANGED <<order, uses, answers>>
    BY <1>4 DEF Replies!Fail
  <2>2. /\ step \in {"received", "draft", "done"} /\ turn[r].step # "done"
        /\ step = "done" => turn[r].step = "completed"
    BY <2>1
  <2> HIDE DEF step, reply
  <2>3. Handling(t) /\ t.step = step
    <3>1. step \in Steps /\ turn[r].said \in Sayings
      BY <1>1, <2>2 DEF Handling, Steps
    <3> QED
      BY <3>1, AnewIs
  <2>4. RestsOnEvidence(t)
    BY <2>2, <2>3 DEF RestsOnEvidence
  <2> HIDE DEF t
  <2>5. Turns' /\ Ordered' /\ Answered'
    BY <1>1, <2>1, <2>2, <2>3, <2>4, HandlerMoves
  <2>6. Counting'
    BY <2>1, <2>2, CountingKept
  <2> QED
    BY <2>5, <2>6 DEF RepliesInv
<1> QED
  BY <1>2, <1>3, <1>4

\* The invariant of the replies holds initially and is kept.
LEMMA InitReplies == BrainInit => RepliesInv
<1> SUFFICES ASSUME BrainInit PROVE RepliesInv
  OBVIOUS
<1>1. /\ order = <<>> /\ uses = [r \in Requests |-> 0] /\ answers = [r \in Requests |-> {}]
      /\ turn = [r \in Requests |->
                   Replies!Turn("new", Nobody, <<>>, Replies!NoScene, Replies!NoReply, {})]
  BY DEF BrainInit, Replies!Init
<1>2. \A r \in Requests : Handling(turn[r]) /\ turn[r].step = "new"
  <2>1. "new" \in Steps /\ Nobody \in Sayings
    BY DEF Steps, Sayings
  <2> QED
    BY <1>1, <2>1, AnewIs
<1>3. Turns
  BY <1>1, <1>2 DEF Turns, RestsOnEvidence
<1>4. Ordered /\ Answered
  BY <1>1, <1>2 DEF Ordered, Answered
<1>5. Counting
  <2>1. Done = {}
    BY <1>2 DEF Done
  <2>2. Cardinality(Done) = 0
    BY <2>1, FS_EmptySet
  <2> QED
    BY <1>1, <2>2 DEF Counting
<1> QED
  BY <1>3, <1>4, <1>5 DEF RepliesInv

LEMMA NextReplies == RepliesInv /\ [BrainNext]_<<vars, longTerm, replies, origin>> => RepliesInv'
<1> SUFFICES ASSUME RepliesInv, [BrainNext]_<<vars, longTerm, replies, origin>> PROVE RepliesInv'
  OBVIOUS
<1>1. CASE Replies!Next
  <2>1. CASE \E r \in Requests :
               (\E said \in Says : Replies!Begin(r, said)) \/ Replies!Retry(r)
    BY <2>1, BeginsKeep
  <2>2. CASE \E r \in Requests : Replies!Recall(r)
    BY <2>2, RecallKeeps
  <2>3. CASE \E r \in Requests : Replies!Render(r)
    BY <2>3, RenderedKeeps
  <2>4. CASE \E r \in Requests : Replies!Save(r) \/ Replies!Complete(r)
    BY <2>4, SavesKeep
  <2>5. CASE \E r \in Requests : Replies!CountUses(r)
    BY <2>5, CountKeeps
  <2>6. CASE \E r \in Requests : Replies!Resume(r) \/ Replies!Replay(r) \/ Replies!Fail(r)
    BY <2>6, AgainKeeps
  <2>7. CASE \/ \E r \in Requests : Replies!Remember(r) \/ Replies!Forget(r)
             \/ \E n \in past..Replies!Len(order) : n > 0 /\ Replies!Purge(n)
    BY <2>7, RepliesLeftAlone DEF Replies!Remember, Replies!Forget, Replies!Purge
  <2> QED
    BY <1>1, <2>1, <2>2, <2>3, <2>4, <2>5, <2>6, <2>7 DEF Replies!Next
<1>2. CASE UNCHANGED replies
  BY <1>2, RepliesLeftAlone DEF replies
<1> QED
  BY <1>1, <1>2 DEF BrainNext

\* Whatever the provider does, whatever texts repeat or contain one another and
\* whenever attempts fail, a turn that has to rest on memories is answered by the
\* model or by one of them, never by the scene's fixed line, if what they are told in
\* passes the guard against repetition, markup and cliches.
THEOREM RecallsAreNotDenied == BrainSpec => []RecallIsNotDenied
<1>1. RepliesInv => RecallIsNotDenied
  <2> SUFFICES ASSUME RepliesInv PROVE RecallIsNotDenied
    OBVIOUS
  <2>1. \A r \in Requests : RestsOnEvidence(turn[r])
    BY DEF RepliesInv, Turns
  <2> QED
    BY <2>1 DEF RecallIsNotDenied, Replies!RecallIsNotDenied, RestsOnEvidence, Replies!Heard, Replies!At
<1> QED
  BY <1>1, InitReplies, NextReplies, PTL DEF BrainSpec

\* However often they are attempted, resumed and replayed, the replies count each
\* memory they used once at most, and only when they were given.
THEOREM UsesAreCountedOnce == BrainSpec => []UsesAreOfReplies
<1>1. RepliesInv => UsesAreOfReplies
  <2> SUFFICES ASSUME RepliesInv PROVE UsesAreOfReplies
    OBVIOUS
  <2> DEFINE answered == {r \in Requests : answers[r] # {}}
  <2>1. Done \subseteq answered /\ answered \subseteq Requests
    BY DEF RepliesInv, Answered, Done
  <2>2. IsFiniteSet(answered)
    BY <2>1, FS_Subset, BrainAssumption
  <2>3. IsFiniteSet(Done) /\ Cardinality(Done) <= Cardinality(answered)
    <3> HIDE DEF answered
    <3> QED
      BY <2>1, <2>2, FS_Subset
  <2>4. Cardinality(Done) \in Nat /\ Cardinality(answered) \in Nat
    BY <2>2, <2>3, FS_CardinalityType
  <2>5. \A m \in Requests : uses[m] <= Cardinality(answered)
    <3> SUFFICES ASSUME NEW m \in Requests PROVE uses[m] <= Cardinality(answered)
      OBVIOUS
    <3>1. uses[m] \in Nat /\ uses[m] <= Cardinality(Done)
      BY DEF RepliesInv, Counting
    <3> HIDE DEF answered
    <3> QED
      BY <2>3, <2>4, <3>1
  <2>6. Replies!Cardinality(answered) = Cardinality(answered)
    BY DEF Replies!Cardinality, Cardinality
  <2> QED
    BY <2>5, <2>6 DEF UsesAreOfReplies, Replies!UsesAreOfReplies
<1> QED
  BY <1>1, InitReplies, NextReplies, PTL DEF BrainSpec

-------------------------------------------------------------------------------
(* Part 3: the numbers of a transcript, and the cursors into it (Transcript, *)
(* Distillation)                                                           *)

Rising(s) == \A i, j \in DOMAIN s : i < j => s[i] < s[j]

\* A counter; a request, and from when on it has the conversation's lock.
Counter == [key : Conversations, seq : Nat]
Recorder == [step : {"wait", "number", "write", "finish", "orphan"}, key : Conversations,
             distil : BOOLEAN, base : Nat]
Holding(w) == writer[w].step \in {"number", "write", "finish"}
Ends == {"whole", "torn", "cut", "open"}

FilesAreLists ==
  /\ DOMAIN file = Conversations /\ DOMAIN end = Conversations
  /\ \A c \in Conversations :
       /\ file[c] \in Seq(Nat) /\ end[c] \in Ends
       /\ end[c] = "open" => file[c] # <<>>
  /\ writer \in [Writers -> Recorder \union {Idle}]
  /\ DOMAIN lock = Conversations
  /\ cache \in Seq(Counter)

\* Whoever numbers or writes has the lock, but for threads that nobody waits for.
OneAtATime ==
  /\ \A w \in Writers : Holding(w) => lock[writer[w].key] = w
  /\ \A w \in Writers : At(w, "orphan") => writer[w].key \in spoiled

Under(lines, n) == \A i \in DOMAIN lines : lines[i] <= n
UpTo(c, n) == Under(file[c], n)

\* Who is about to write, or cached the counter, knows the largest number.
CountersAreCurrent ==
  /\ \A w \in Writers :
       /\ At(w, "write") /\ writer[w].key \notin spoiled => UpTo(writer[w].key, writer[w].base)
       /\ At(w, "finish") /\ writer[w].key \notin spoiled => UpTo(writer[w].key, writer[w].base + 2)
  /\ \A i \in DOMAIN cache :
       LET c == cache[i].key IN
       c \notin spoiled /\ (\A w \in Writers : ~(At(w, "finish") /\ writer[w].key = c)) => UpTo(c, cache[i].seq)

NumbersInv ==
  /\ FilesAreLists /\ OneAtATime /\ CountersAreCurrent
  /\ \A c \in Conversations \ spoiled : Rising(file[c])

\* A rising list that keeps its first m numbers and grows by larger ones.
Grown(s, l, lines, k, m, n) ==
  /\ l \in Nat /\ m \in Nat /\ n \in Nat /\ k \in Nat /\ m <= l
  /\ \A i \in 1..l : s[i] \in Nat
  /\ \A i \in 1..m : lines[i] = s[i]
  /\ \/ k = m + 1 /\ (lines[m + 1] = n + 1 \/ lines[m + 1] = n + 2)
     \/ k = m + 2 /\ lines[m + 1] = n + 1 /\ lines[m + 2] = n + 2

LEMMA RisesBy ==
  ASSUME NEW s, NEW l, NEW lines, NEW k, NEW m, NEW n, Grown(s, l, lines, k, m, n)
  PROVE  /\ \A i \in 1..k : lines[i] = n + 1 \/ lines[i] = n + 2 \/ \E j \in 1..l : lines[i] = s[j]
         /\ (\A i \in 1..l : s[i] <= n) => \A i \in 1..k : lines[i] <= n + 2
         /\ (\A i \in 1..l : s[i] <= n) /\ (\A i, j \in 1..l : i < j => s[i] < s[j])
              => \A i, j \in 1..k : i < j => lines[i] < lines[j]
<1> USE DEF Grown
<1>1. ASSUME NEW i \in 1..k
      PROVE  \/ i <= m /\ i \in 1..l /\ lines[i] = s[i]
             \/ i = m + 1 /\ (lines[i] = n + 1 \/ lines[i] = n + 2)
             \/ i = m + 2 /\ lines[i] = n + 2 /\ lines[m + 1] = n + 1
  <2>1. CASE i <= m
    <3>1. i \in 1..m /\ i \in 1..l
      BY <2>1
    <3> QED
      BY <2>1, <3>1
  <2>2. CASE i = m + 1
    BY <2>2
  <2>3. CASE i > m + 1
    <3>1. i = m + 2 /\ k = m + 2
      BY <2>3
    <3> QED
      BY <3>1
  <2> QED
    BY <2>1, <2>2, <2>3
<1>2. ASSUME \A i \in 1..l : s[i] <= n, NEW i \in 1..k PROVE lines[i] <= n + 2
  <2>1. CASE i <= m /\ i \in 1..l /\ lines[i] = s[i]
    BY <1>2, <2>1
  <2> QED
    BY <1>1, <2>1
<1>3. ASSUME \A i \in 1..l : s[i] <= n, \A i, j \in 1..l : i < j => s[i] < s[j],
             NEW i \in 1..k, NEW j \in 1..k, i < j
      PROVE  lines[i] < lines[j]
  <2>1. CASE j <= m
    <3>1. i \in 1..m /\ j \in 1..m /\ i \in 1..l /\ j \in 1..l
      BY <1>3, <2>1
    <3> QED
      BY <1>3, <3>1
  <2>2. CASE j > m /\ i <= m
    <3>1. i \in 1..m /\ i \in 1..l
      BY <2>2
    <3>2. lines[i] = s[i] /\ s[i] <= n /\ s[i] \in Nat
      BY <1>3, <3>1
    <3>3. lines[j] = n + 1 \/ lines[j] = n + 2
      BY <1>1, <2>2
    <3> QED
      BY <3>2, <3>3
  <2>3. CASE i > m
    <3>1. i = m + 1 /\ j = m + 2
      BY <1>3, <2>3, SMTT(30)
    <3> QED
      BY <3>1
  <2> QED
    BY <2>1, <2>2, <2>3
<1> QED
  BY <1>1, <1>2, <1>3

\* Each line is one of the new numbers, or was there.
NewOrOld(s, lines, n) ==
  \A i \in DOMAIN lines : lines[i] \in {n + 1, n + 2} \/ \E j \in DOMAIN s : lines[i] = s[j]

\* A list that keeps a beginning and goes on with new numbers.
LEMMA RisesOn ==
  ASSUME NEW s \in Seq(Nat), NEW lines \in Seq(Nat), NEW m \in Nat, NEW n \in Nat, m <= Len(s),
         \A i \in 1..m : lines[i] = s[i],
         \/ Len(lines) = m + 1 /\ (lines[m + 1] = n + 1 \/ lines[m + 1] = n + 2)
         \/ Len(lines) = m + 2 /\ lines[m + 1] = n + 1 /\ lines[m + 2] = n + 2
  PROVE  /\ lines # <<>> /\ lines[Len(lines)] \in {n + 1, n + 2} /\ Len(lines) \in DOMAIN lines
         /\ NewOrOld(s, lines, n)
         /\ (\A i \in DOMAIN s : s[i] <= n) => \A i \in DOMAIN lines : lines[i] <= n + 2
         /\ (\A i \in DOMAIN s : s[i] <= n) /\ Rising(s) => Rising(lines)
<1> DEFINE k == Len(lines)
           l == Len(s)
<1>1. /\ DOMAIN lines = 1..k /\ DOMAIN s = 1..l /\ k \in Nat /\ l \in Nat
      /\ \A i \in 1..l : s[i] \in Nat
  OBVIOUS
<1>2. lines # <<>> /\ lines[k] \in {n + 1, n + 2} /\ k \in 1..k
  <2>1. lines # <<>>
    OBVIOUS
  <2> HIDE DEF l
  <2>2. lines[k] \in {n + 1, n + 2} /\ k >= 1
    <3>1. CASE k = m + 1 /\ (lines[m + 1] = n + 1 \/ lines[m + 1] = n + 2)
      BY <1>1, <3>1
    <3>2. CASE k = m + 2 /\ lines[m + 1] = n + 1 /\ lines[m + 2] = n + 2
      BY <1>1, <3>2, SMTT(30)
    <3> QED
      BY <3>1, <3>2
  <2> HIDE DEF k
  <2> QED
    BY <1>1, <2>1, <2>2
<1>3. Grown(s, l, lines, k, m, n)
  BY <1>1 DEF Grown
<1> HIDE DEF k, l
<1>4. /\ \A i \in 1..k : lines[i] = n + 1 \/ lines[i] = n + 2 \/ \E j \in 1..l : lines[i] = s[j]
      /\ (\A i \in 1..l : s[i] <= n) => \A i \in 1..k : lines[i] <= n + 2
      /\ (\A i \in 1..l : s[i] <= n) /\ (\A i, j \in 1..l : i < j => s[i] < s[j])
           => \A i, j \in 1..k : i < j => lines[i] < lines[j]
  BY <1>3, RisesBy, Zenon
<1> QED
  BY <1>1, <1>2, <1>4 DEF Rising, NewOrOld, k

\* The lines of a list but the last one.
LEMMA FrontIs ==
  ASSUME NEW s \in Seq(Nat), s # <<>>
  PROVE  /\ Front(s) \in Seq(Nat) /\ Len(Front(s)) = Len(s) - 1 /\ Len(s) - 1 \in Nat
         /\ \A i \in 1..(Len(s) - 1) : Front(s)[i] = s[i]
         /\ Rising(s) => Rising(Front(s))
<1> DEFINE m == Len(s) - 1
<1>1. Front(s) = SubSeq(s, 1, m) /\ m \in Nat /\ m <= Len(s) /\ m - 1 + 1 = m
  BY DEF Front
<1>2. /\ Front(s) \in Seq(Nat) /\ Len(Front(s)) = Len(s) - 1 /\ Len(s) - 1 \in Nat
      /\ \A i \in 1..(Len(s) - 1) : Front(s)[i] = s[i]
  <2> HIDE DEF m
  <2>1. SubSeq(s, 1, m) \in Seq(Nat) /\ Len(SubSeq(s, 1, m)) = m
        /\ \A i \in 1..m : SubSeq(s, 1, m)[i] = s[i]
    BY <1>1
  <2> QED
    BY <1>1, <2>1 DEF m
<1>3. DOMAIN Front(s) = 1..(Len(s) - 1) /\ DOMAIN s = 1..Len(s)
  BY <1>2
<1>4. \A i \in DOMAIN Front(s) : i \in DOMAIN s /\ Front(s)[i] = s[i]
  BY <1>1, <1>2, <1>3
<1> QED
  BY <1>2, <1>4 DEF Rising

\* What an append leaves in the file: the lines that were there but for a last
\* one that lacked its newline, and lines with larger numbers.
LEMMA WrittenIs ==
  ASSUME FilesAreLists, NEW c \in Conversations, NEW n \in Nat
  PROVE  LET lines == Written(c, n) IN
         /\ lines \in Seq(Nat) /\ lines # <<>>
         /\ \E i \in DOMAIN lines : lines[i] = n + 2
         /\ \A i \in DOMAIN lines :
              lines[i] \in {n + 1, n + 2} \/ \E j \in DOMAIN file[c] : lines[i] = file[c][j]
         /\ UpTo(c, n) => \A i \in DOMAIN lines : lines[i] <= n + 2
         /\ UpTo(c, n) /\ Rising(file[c]) => Rising(lines)
<1>1. /\ file[c] \in Seq(Nat) /\ end[c] \in Ends
      /\ end[c] = "open" => file[c] # <<>>
  BY DEF FilesAreLists
<1> DEFINE s == file[c]
           lines == Written(c, n)
<1>2. PICK m \in Nat :
        /\ m <= Len(s) /\ lines \in Seq(Nat) /\ lines[Len(lines)] = n + 2
        /\ \A i \in 1..m : lines[i] = s[i]
        /\ \/ Len(lines) = m + 1 /\ (lines[m + 1] = n + 1 \/ lines[m + 1] = n + 2)
           \/ Len(lines) = m + 2 /\ lines[m + 1] = n + 1 /\ lines[m + 2] = n + 2
  <2>1. CASE end[c] = "whole"
    <3>1. lines = s \o <<n + 1, n + 2>>
      BY <2>1 DEF Written
    <3> HIDE DEF s, lines
    <3>2. s \in Seq(Nat)
      BY <1>1 DEF s
    <3>3. /\ Len(s) \in Nat /\ lines \in Seq(Nat) /\ Len(lines) = Len(s) + 2
          /\ \A i \in 1..Len(s) : lines[i] = s[i]
          /\ lines[Len(s) + 1] = n + 1 /\ lines[Len(s) + 2] = n + 2
      BY <3>1, <3>2
    <3> QED
      BY <3>3
  <2>2. CASE end[c] \in {"torn", "cut"}
    <3>1. lines = Append(s, n + 2)
      BY <2>2 DEF Written
    <3> HIDE DEF s, lines
    <3>2. s \in Seq(Nat)
      BY <1>1 DEF s
    <3>3. /\ Len(s) \in Nat /\ lines \in Seq(Nat) /\ Len(lines) = Len(s) + 1
          /\ \A i \in 1..Len(s) : lines[i] = s[i]
          /\ lines[Len(s) + 1] = n + 2
      BY <3>1, <3>2
    <3> QED
      BY <3>3
  <2>3. CASE end[c] = "open"
    <3>1. lines = Append(Front(s), n + 2) /\ s # <<>>
      BY <1>1, <2>3 DEF Written
    <3> DEFINE kept == Front(s)
               m == Len(s) - 1
    <3> HIDE DEF s, lines
    <3>2. /\ kept \in Seq(Nat) /\ Len(kept) = m /\ m \in Nat /\ m <= Len(s)
          /\ \A i \in 1..m : kept[i] = s[i]
      <4>1. s \in Seq(Nat)
        BY <1>1 DEF s
      <4> QED
        BY <3>1, <4>1, FrontIs
    <3> HIDE DEF kept, m
    <3>3. lines = Append(kept, n + 2)
      BY <3>1 DEF kept
    <3>4. /\ lines \in Seq(Nat) /\ Len(lines) = m + 1 /\ lines[m + 1] = n + 2
          /\ \A i \in 1..m : lines[i] = s[i]
      BY <3>2, <3>3
    <3> QED
      BY <3>2, <3>4
  <2> QED
    BY <1>1, <2>1, <2>2, <2>3 DEF Ends
<1>3. s \in Seq(Nat) /\ (UpTo(c, n) <=> \A i \in DOMAIN s : s[i] <= n)
  BY <1>1 DEF UpTo, Under
<1> HIDE DEF s, lines
<1>4. \E i \in DOMAIN lines : lines[i] = n + 2
  <2>1. Len(lines) \in DOMAIN lines
    BY <1>2, <1>3, RisesOn, Zenon
  <2> QED
    BY <1>2, <2>1
<1>5. /\ lines # <<>>
      /\ NewOrOld(s, lines, n)
      /\ (\A i \in DOMAIN s : s[i] <= n) => \A i \in DOMAIN lines : lines[i] <= n + 2
      /\ (\A i \in DOMAIN s : s[i] <= n) /\ Rising(s) => Rising(lines)
  <2>1. lines # <<>>
    BY <1>2, <1>3, RisesOn, Zenon
  <2>2. NewOrOld(s, lines, n)
    BY <1>2, <1>3, RisesOn, Zenon
  <2>3. (\A i \in DOMAIN s : s[i] <= n) => \A i \in DOMAIN lines : lines[i] <= n + 2
    BY <1>2, <1>3, RisesOn, Zenon
  <2>4. (\A i \in DOMAIN s : s[i] <= n) /\ Rising(s) => Rising(lines)
    BY <1>2, <1>3, RisesOn, Zenon
  <2> QED
    BY <2>1, <2>2, <2>3, <2>4
<1> QED
  BY <1>2, <1>3, <1>4, <1>5 DEF NewOrOld, lines, s

\* What a crash leaves of an append.
LEMMA CutIs ==
  ASSUME FilesAreLists, NEW c \in Conversations, NEW n \in Nat, NEW left \in Cut(c, n)
  PROVE  /\ left[1] \in Seq(Nat) /\ left[2] \in Ends
         /\ left[2] = "open" => left[1] # <<>>
         /\ UpTo(c, n) /\ Rising(file[c]) => Rising(left[1])
<1> DEFINE lines == Written(c, n)
           s == file[c]
           one == Append(s, n + 1)
<1>1. /\ s \in Seq(Nat) /\ end[c] \in Ends
      /\ end[c] = "open" => s # <<>>
  BY DEF FilesAreLists
<1>2. lines \in Seq(Nat) /\ lines # <<>> /\ (UpTo(c, n) /\ Rising(s) => Rising(lines))
  BY WrittenIs
<1>3. one \in Seq(Nat) /\ one # <<>> /\ (UpTo(c, n) /\ Rising(s) => Rising(one))
  <2>1. s \in Seq(Nat) /\ (UpTo(c, n) <=> \A i \in DOMAIN s : s[i] <= n)
    BY <1>1 DEF UpTo, Under
  <2> HIDE DEF s
  <2>2. /\ one \in Seq(Nat) /\ Len(one) = Len(s) + 1 /\ Len(s) \in Nat
        /\ one[Len(s) + 1] = n + 1 /\ \A i \in 1..Len(s) : one[i] = s[i]
    BY <2>1
  <2> HIDE DEF one
  <2> DEFINE m == Len(s)
  <2>3. /\ m \in Nat /\ m <= Len(s) /\ Len(one) \in {m + 1, m + 2} /\ Len(one) # m + 2
        /\ one[m + 1] \in {n + 1, n + 2} /\ \A i \in 1..m : one[i] = s[i]
    BY <2>2
  <2> HIDE DEF m
  <2> QED
    BY <2>1, <2>2, <2>3, RisesOn
<1>4. /\ Front(lines) \in Seq(Nat) /\ (Rising(lines) => Rising(Front(lines)))
      /\ s # <<>> => Front(s) \in Seq(Nat) /\ (Rising(s) => Rising(Front(s)))
  <2> HIDE DEF lines, s
  <2> QED
    BY <1>1, <1>2, FrontIs
<1>5. \/ left = <<s, end[c]>> \/ left = <<lines, "whole">> \/ left = <<lines, "open">>
      \/ left \in Torn(Front(lines)) \/ left \in Torn(s)
      \/ left = <<one, "open">> \/ left = <<one, "whole">>
      \/ end[c] = "open" /\ left \in Torn(Front(s))
  <2>1. \/ left \in {<<s, end[c]>>, <<lines, "whole">>, <<lines, "open">>} \union Torn(Front(lines))
        \/ left \in Torn(s) \union {<<one, "open">>, <<one, "whole">>}
        \/ left \in Torn(IF end[c] = "open" THEN Front(s) ELSE s)
    BY DEF Cut
  <2> HIDE DEF s, lines, one
  <2> QED
    BY <2>1
<1> HIDE DEF s, lines, one
<1>6. /\ left[1] \in {s, lines, one, Front(lines)} \/ (end[c] = "open" /\ left[1] = Front(s))
      /\ left[2] \in {end[c], "whole", "open", "torn", "cut"}
      /\ left[2] = "open" => left[1] \in {lines, one} \/ (left[1] = s /\ end[c] = "open")
  BY <1>5 DEF Torn
<1>7. left[1] \in Seq(Nat) /\ left[2] \in Ends /\ (left[2] = "open" => left[1] # <<>>)
  BY <1>1, <1>2, <1>3, <1>4, <1>6 DEF Ends
<1>8. UpTo(c, n) /\ Rising(s) => Rising(left[1])
  BY <1>1, <1>2, <1>3, <1>4, <1>6
<1> QED
  BY <1>7, <1>8 DEF s

\* The cached counters after one became the most recent.
LEMMA RememberLastIs ==
  ASSUME FilesAreLists, NEW c \in Conversations, NEW n \in Nat
  PROVE  /\ RememberLast(c, n) \in Seq(Counter)
         /\ \A i \in DOMAIN RememberLast(c, n) :
              \/ RememberLast(c, n)[i] = [key |-> c, seq |-> n]
              \/ RememberLast(c, n)[i].key # c
                 /\ \E j \in DOMAIN cache : RememberLast(c, n)[i] = cache[j]
<1> DEFINE places == {i \in DOMAIN cache : cache[i].key # c}
           others == Sublist(cache, places)
           last == [key |-> c, seq |-> n]
           all == Append(others, last)
<1>1. cache \in Seq(Counter) /\ last \in Counter
  BY DEF FilesAreLists, Counter
<1>2. others \in Seq(Counter) /\ ToSet(others) = {cache[i] : i \in places}
  <2>1. places \in SUBSET DOMAIN cache
    OBVIOUS
  <2> HIDE DEF places, Counter
  <2> QED
    BY <1>1, <2>1, SublistRange
<1>3. \A i \in DOMAIN others : others[i].key # c /\ \E j \in DOMAIN cache : others[i] = cache[j]
  <2>1. \A i \in DOMAIN others : others[i] \in ToSet(others)
    BY DEF ToSet
  <2> HIDE DEF others
  <2> QED
    BY <1>2, <2>1
<1>4. all \in Seq(Counter) /\ all # <<>>
      /\ \A i \in DOMAIN all : all[i] = last \/ (i \in DOMAIN others /\ all[i] = others[i])
  <2> HIDE DEF others, last, Counter
  <2> QED
    BY <1>1, <1>2
<1>5. RememberLast(c, n) = IF Len(all) > MaxConversations THEN Tail(all) ELSE all
  BY DEF RememberLast
<1> HIDE DEF all, Counter
<1>6. Tail(all) \in Seq(Counter) /\ \A i \in DOMAIN Tail(all) : i + 1 \in DOMAIN all /\ Tail(all)[i] = all[i + 1]
  BY <1>4
<1> HIDE DEF others, last
<1>7. RememberLast(c, n) \in Seq(Counter)
  BY <1>4, <1>5, <1>6
<1>8. \A i \in DOMAIN RememberLast(c, n) :
        RememberLast(c, n)[i] = last \/ \E j \in DOMAIN others : RememberLast(c, n)[i] = others[j]
  <2>1. CASE RememberLast(c, n) = all
    BY <1>4, <2>1
  <2>2. CASE RememberLast(c, n) = Tail(all)
    BY <1>4, <1>6, <2>2
  <2> QED
    BY <1>5, <2>1, <2>2
<1>9. \A i \in DOMAIN RememberLast(c, n) :
        \/ RememberLast(c, n)[i] = last
        \/ RememberLast(c, n)[i].key # c
           /\ \E j \in DOMAIN cache : RememberLast(c, n)[i] = cache[j]
  BY <1>3, <1>8
<1> QED
  BY <1>7, <1>9 DEF last

\* A request moves on, and no file, end or counter changes.
LEMMA WriterMoves ==
  ASSUME NumbersInv, NEW w \in Writers, NEW x \in Recorder \union {Idle},
         writer' = [writer EXCEPT ![w] = x], UNCHANGED <<file, end, cache>>, spoiled \subseteq spoiled',
         DOMAIN lock' = Conversations,
         \A v \in Writers \ {w} : Holding(v) => lock'[writer[v].key] = lock[writer[v].key],
         x.step \in {"number", "write", "finish"} => lock'[x.key] = w,
         x.step = "orphan" => x.key \in spoiled',
         x.step = "write" /\ x.key \notin spoiled' => UpTo(x.key, x.base),
         x.step # "finish",
         At(w, "finish") => writer[w].key \in spoiled'
  PROVE  NumbersInv'
<1>1. /\ FilesAreLists /\ OneAtATime /\ CountersAreCurrent
      /\ \A c \in Conversations \ spoiled : Rising(file[c])
  BY DEF NumbersInv
<1>2. /\ DOMAIN writer = Writers /\ DOMAIN writer' = Writers /\ writer'[w] = x
      /\ \A v \in Writers \ {w} : writer'[v] = writer[v]
  BY <1>1 DEF FilesAreLists
<1>3. FilesAreLists'
  <2>1. writer' \in [Writers -> Recorder \union {Idle}]
    BY <1>1 DEF FilesAreLists
  <2> QED
    BY <1>1, <2>1 DEF FilesAreLists
<1>4. OneAtATime'
  BY <1>1, <1>2 DEF OneAtATime, Holding, At
<1>5. \A c, n : UpTo(c, n)' <=> UpTo(c, n)
  BY DEF UpTo, Under
<1>6. CountersAreCurrent'
  <2>1. ASSUME NEW v \in Writers
        PROVE  /\ writer'[v].step = "write" /\ writer'[v].key \notin spoiled' => UpTo(writer'[v].key, writer'[v].base)
               /\ writer'[v].step = "finish" /\ writer'[v].key \notin spoiled' => UpTo(writer'[v].key, writer'[v].base + 2)
    <3>1. CASE v = w
      BY <1>2, <3>1
    <3>2. CASE v # w
      BY <1>1, <1>2, <3>2 DEF CountersAreCurrent, At
    <3> QED
      BY <3>1, <3>2
  <2>2. ASSUME NEW i \in DOMAIN cache, cache[i].key \notin spoiled',
               \A v \in Writers : ~(writer'[v].step = "finish" /\ writer'[v].key = cache[i].key)
        PROVE  UpTo(cache[i].key, cache[i].seq)
    <3>1. \A v \in Writers : ~(writer[v].step = "finish" /\ writer[v].key = cache[i].key)
      BY <1>2, <2>2 DEF At
    <3> QED
      BY <1>1, <2>2, <3>1 DEF CountersAreCurrent, At
  <2>3. (\A v \in Writers :
           /\ At(v, "write") /\ writer[v].key \notin spoiled => UpTo(writer[v].key, writer[v].base)
           /\ At(v, "finish") /\ writer[v].key \notin spoiled => UpTo(writer[v].key, writer[v].base + 2))'
    BY <2>1 DEF At, UpTo, Under
  <2>4. (\A i \in DOMAIN cache :
           LET c == cache[i].key IN
           c \notin spoiled /\ (\A v \in Writers : ~(At(v, "finish") /\ writer[v].key = c))
             => UpTo(c, cache[i].seq))'
    BY <2>2 DEF At, UpTo, Under
  <2> QED
    BY <2>3, <2>4 DEF CountersAreCurrent
<1>7. (\A c \in Conversations \ spoiled : Rising(file[c]))'
  BY <1>1 DEF Rising
<1> QED
  BY <1>3, <1>4, <1>6, <1>7 DEF NumbersInv

\* Steps of a request that write nothing.
LEMMA RequestsKeepNumbers ==
  ASSUME NumbersInv, NEW w \in Writers,
         Start(w) \/ AcquireLock(w) \/ ReadNumber(w) \/ AppendFails(w) \/ CancelAppend(w)
  PROVE  NumbersInv'
<1>1. /\ FilesAreLists /\ OneAtATime /\ CountersAreCurrent
      /\ \A c \in Conversations \ spoiled : Rising(file[c])
  BY DEF NumbersInv
<1>2. writer[w] \in Recorder \union {Idle} /\ DOMAIN writer = Writers /\ DOMAIN lock = Conversations
  BY <1>1 DEF FilesAreLists
<1>3. ~At(w, "idle") => writer[w] \in Recorder
  BY <1>2 DEF At, Idle
<1>4. Idle \in Recorder \union {Idle} /\ Idle.step = "idle"
  BY DEF Idle
<1>5. CASE Start(w)
  <2>1. PICK c \in Conversations, distil \in BOOLEAN : StartAppend(w, c, distil)
    BY <1>5 DEF Start
  <2> DEFINE x == [step |-> "wait", key |-> c, distil |-> distil, base |-> 0]
  <2>2. writer' = [writer EXCEPT ![w] = x] /\ At(w, "idle") /\ UNCHANGED <<file, end, cache, lock, spoiled>>
    BY <2>1 DEF StartAppend
  <2>3. x \in Recorder /\ x.step = "wait"
    BY DEF Recorder
  <2> HIDE DEF x
  <2> QED
    BY <1>2, <2>2, <2>3, WriterMoves DEF At
<1>6. CASE AcquireLock(w)
  <2> DEFINE c == writer[w].key
             x == IF Cached(c) THEN [writer[w] EXCEPT !.step = "write", !.base = CachedNumber(c)]
                  ELSE [writer[w] EXCEPT !.step = "number"]
  <2>1. /\ At(w, "wait") /\ lock[c] = NoWriter /\ lock' = [lock EXCEPT ![c] = w]
        /\ writer' = [writer EXCEPT ![w] = x] /\ UNCHANGED <<file, end, cache, spoiled>>
    BY <1>6 DEF AcquireLock, LockFree
  <2>2. c \in Conversations /\ writer[w] \in Recorder
    BY <1>3, <2>1 DEF At, Recorder
  <2>3. ASSUME Cached(c)
        PROVE  CachedNumber(c) \in Nat /\ (c \notin spoiled => UpTo(c, CachedNumber(c)))
    <3> HIDE DEF c
    <3> DEFINE i == CHOOSE j \in DOMAIN cache : cache[j].key = c
    <3>1. i \in DOMAIN cache /\ cache[i].key = c /\ CachedNumber(c) = cache[i].seq
      BY <2>3 DEF Cached, CachedNumber
    <3> HIDE DEF i
    <3>2. cache[i].seq \in Nat
      <4>1. cache[i] \in Counter
        BY <1>1, <3>1 DEF FilesAreLists
      <4> QED
        BY <4>1 DEF Counter
    <3>3. \A v \in Writers : ~(At(v, "finish") /\ writer[v].key = c)
      BY <1>1, <2>1, TranscriptAssumption DEF OneAtATime, Holding, At
    <3> QED
      BY <1>1, <2>3, <3>1, <3>2, <3>3 DEF CountersAreCurrent
  <2>4. /\ x \in Recorder /\ x.key = c /\ x.step \in {"number", "write"}
        /\ x.step = "write" /\ c \notin spoiled => UpTo(c, x.base)
    <3> HIDE DEF c
    <3>1. CASE Cached(c)
      BY <2>2, <2>3, <3>1 DEF Recorder, c
    <3>2. CASE ~Cached(c)
      BY <2>2, <3>2 DEF Recorder, c
    <3> QED
      BY <3>1, <3>2
  <2> HIDE DEF x
  <2>5. \A v \in Writers \ {w} : Holding(v) => lock'[writer[v].key] = lock[writer[v].key]
    BY <1>1, <2>1, TranscriptAssumption DEF OneAtATime
  <2>6. DOMAIN lock' = Conversations /\ lock'[c] = w
    BY <1>2, <2>1, <2>2
  <2> HIDE DEF c
  <2> QED
    BY <2>1, <2>4, <2>5, <2>6, WriterMoves DEF At
<1>7. ASSUME Release(w)
      PROVE  /\ DOMAIN lock' = Conversations
             /\ \A v \in Writers \ {w} : Holding(v) => lock'[writer[v].key] = lock[writer[v].key]
  <2>1. \A v \in Writers : Holding(v) => writer[v].key \in Conversations
    BY <1>1 DEF FilesAreLists, Holding, Idle, Recorder
  <2> QED
    BY <1>1, <1>7, <2>1 DEF Release, OneAtATime
<1>8. CASE ReadNumber(w)
  <2> DEFINE c == writer[w].key
             x == [writer[w] EXCEPT !.step = "write", !.base = LastSeq(file[c])]
  <2>1. At(w, "number") /\ UNCHANGED <<file, end, cache, spoiled>>
        /\ \/ writer' = [writer EXCEPT ![w] = x] /\ UNCHANGED lock
           \/ writer' = [writer EXCEPT ![w] = Idle] /\ Release(w)
    BY <1>8 DEF ReadNumber
  <2>2. c \in Conversations /\ writer[w] \in Recorder /\ lock[c] = w
    BY <1>1, <1>3, <2>1 DEF At, Recorder, OneAtATime, Holding
  <2>3. LastSeq(file[c]) \in Nat /\ (c \notin spoiled => UpTo(c, LastSeq(file[c])))
    <3> DEFINE s == file[c]
    <3>1. s \in Seq(Nat) /\ (c \notin spoiled => Rising(s))
      BY <1>1, <2>2 DEF FilesAreLists
    <3> HIDE DEF s
    <3>2. CASE s = <<>>
      BY <3>1, <3>2 DEF LastSeq, UpTo, Under, s
    <3>3. CASE s # <<>>
      <4>1. Len(s) \in DOMAIN s /\ LastSeq(s) = s[Len(s)] /\ DOMAIN s = 1..Len(s)
        BY <3>1, <3>3 DEF LastSeq, Last
      <4>2. Rising(s) => \A i \in DOMAIN s : s[i] <= s[Len(s)]
        BY <3>1, <4>1 DEF Rising
      <4>3. s[Len(s)] \in Nat
        BY <3>1, <4>1
      <4> QED
        BY <3>1, <4>1, <4>2, <4>3 DEF UpTo, Under, s
    <3> QED
      BY <3>2, <3>3 DEF s
  <2>4. /\ x \in Recorder /\ x.key = c /\ x.step = "write"
        /\ c \notin spoiled => UpTo(c, x.base)
    <3> DEFINE n == LastSeq(file[c])
    <3>1. n \in Nat /\ (c \notin spoiled => UpTo(c, n)) /\ x = [writer[w] EXCEPT !.step = "write", !.base = n]
      BY <2>3
    <3> HIDE DEF n, x
    <3> QED
      BY <2>2, <3>1 DEF Recorder
  <2> HIDE DEF x
  <2>5. CASE writer' = [writer EXCEPT ![w] = x] /\ UNCHANGED lock
    <3> HIDE DEF c
    <3> QED
      BY <1>2, <2>1, <2>2, <2>4, <2>5, WriterMoves DEF At
  <2>6. CASE writer' = [writer EXCEPT ![w] = Idle] /\ Release(w)
    BY <1>4, <1>7, <2>1, <2>6, WriterMoves DEF At
  <2> QED
    BY <2>1, <2>5, <2>6
<1>9. CASE AppendFails(w)
  <2>1. /\ At(w, "write") /\ Release(w) /\ writer' = [writer EXCEPT ![w] = Idle]
        /\ UNCHANGED <<file, end, cache, spoiled>>
    BY <1>9 DEF AppendFails
  <2> QED
    BY <1>4, <1>7, <2>1, WriterMoves DEF At
<1>10. CASE CancelAppend(w)
  <2>1. /\ Release(w) /\ UNCHANGED <<file, end, cache>> /\ spoiled \subseteq spoiled'
        /\ At(w, "write") \/ At(w, "finish") => writer[w].key \in spoiled'
    BY <1>10 DEF CancelAppend
  <2>2. CASE writer' = [writer EXCEPT ![w] = Idle]
    BY <1>4, <1>7, <2>1, <2>2, WriterMoves DEF At
  <2>3. CASE At(w, "write") /\ writer' = [writer EXCEPT ![w].step = "orphan"]
    <3> DEFINE x == [writer[w] EXCEPT !.step = "orphan"]
    <3>1. writer' = [writer EXCEPT ![w] = x]
      BY <2>3
    <3>2. x \in Recorder /\ x.step = "orphan" /\ x.key = writer[w].key
      BY <1>3, <2>3 DEF At, Recorder
    <3> HIDE DEF x
    <3> QED
      BY <1>7, <2>1, <2>3, <3>1, <3>2, WriterMoves DEF At
  <2> QED
    BY <1>10, <2>2, <2>3 DEF CancelAppend
<1> QED
  BY <1>5, <1>6, <1>8, <1>9, <1>10

\* The lines of an exchange are written.
LEMMA WritesKeepNumbers ==
  ASSUME NumbersInv, NEW w \in Writers, Write(w) \/ OrphanWrite(w)
  PROVE  NumbersInv'
<1>1. /\ FilesAreLists /\ OneAtATime /\ CountersAreCurrent
      /\ \A c \in Conversations \ spoiled : Rising(file[c])
  BY DEF NumbersInv
<1> DEFINE k == writer[w].key
           n == writer[w].base
           lines == Written(k, n)
           x == IF At(w, "write") THEN [writer[w] EXCEPT !.step = "finish"] ELSE Idle
<1>2. /\ At(w, "write") \/ (At(w, "orphan") /\ k \in spoiled)
      /\ file' = [file EXCEPT ![k] = lines] /\ end' = [end EXCEPT ![k] = "whole"]
      /\ spoiled' = (IF due[k] THEN spoiled \union {k} ELSE spoiled)
      /\ writer' = [writer EXCEPT ![w] = x] /\ UNCHANGED <<cache, lock>>
  BY <1>1 DEF Write, OrphanWrite, PutLines, At, OneAtATime
<1>3. k \in Conversations /\ n \in Nat /\ writer[w] \in Recorder /\ writer \in [Writers -> Recorder \union {Idle}]
  BY <1>1, <1>2 DEF FilesAreLists, Idle, Recorder, At
<1>4. /\ lines \in Seq(Nat)
      /\ UpTo(k, n) => \A i \in DOMAIN lines : lines[i] <= n + 2
      /\ UpTo(k, n) /\ Rising(file[k]) => Rising(lines)
  BY <1>1, <1>3, WrittenIs
<1>5. /\ x \in Recorder \union {Idle}
      /\ \/ At(w, "write") /\ x.step = "finish" /\ x.key = k /\ x.base = n
         \/ k \in spoiled /\ x.step = "idle"
  BY <1>2, <1>3 DEF Recorder, Idle, At
<1> HIDE DEF lines, x, k, n
<1>6. /\ DOMAIN file' = Conversations /\ file'[k] = lines
      /\ \A c \in Conversations \ {k} : file'[c] = file[c]
      /\ \A v \in Writers \ {w} : writer'[v] = writer[v]
      /\ writer'[w] = x /\ spoiled \subseteq spoiled'
  BY <1>1, <1>2, <1>3 DEF FilesAreLists
<1>7. FilesAreLists'
  <2>1. writer' \in [Writers -> Recorder \union {Idle}]
    BY <1>2, <1>3, <1>5
  <2>2. DOMAIN end' = Conversations /\ \A c \in Conversations :
          end'[c] \in Ends /\ (end'[c] = "open" => end[c] = "open" /\ c # k)
    BY <1>1, <1>2, <1>3 DEF FilesAreLists, Ends
  <2>3. \A c \in Conversations : file'[c] \in Seq(Nat) /\ (end'[c] = "open" => file'[c] # <<>>)
    BY <1>1, <1>4, <1>6, <2>2 DEF FilesAreLists
  <2> QED
    BY <1>1, <1>2, <1>6, <2>1, <2>2, <2>3 DEF FilesAreLists
<1>8. OneAtATime'
  <2>1. ASSUME NEW v \in Writers, writer'[v].step \in {"number", "write", "finish"}
        PROVE  lock'[writer'[v].key] = v
    BY <1>1, <1>2, <1>5, <1>6, <2>1 DEF OneAtATime, Holding, At, k
  <2>2. ASSUME NEW v \in Writers, writer'[v].step = "orphan"
        PROVE  writer'[v].key \in spoiled'
    BY <1>1, <1>5, <1>6, <2>2 DEF OneAtATime, At
  <2> QED
    BY <2>1, <2>2 DEF OneAtATime, Holding, At
<1>9. \A c \in Conversations \ {k} : \A m : Under(file'[c], m) <=> Under(file[c], m)
  BY <1>6 DEF Under, UpTo
<1>10. ASSUME k \notin spoiled
       PROVE  /\ x.step = "finish" /\ x.key = k /\ x.base = n /\ Under(file'[k], n + 2)
              /\ Rising(file'[k])
              /\ \A v \in Writers \ {w} : writer[v].step \in {"write", "finish"} => writer[v].key # k
  <2>1. At(w, "write") /\ x.step = "finish" /\ x.key = k /\ x.base = n
    BY <1>5, <1>10
  <2>2. UpTo(k, n)
    BY <1>1, <1>10, <2>1 DEF CountersAreCurrent, UpTo, k, n
  <2>3. Under(file'[k], n + 2) /\ Rising(file'[k])
    BY <1>1, <1>3, <1>4, <1>6, <1>10, <2>2 DEF Under, UpTo
  <2>4. lock[k] = w
    BY <1>1, <2>1 DEF OneAtATime, Holding, At, k
  <2>5. \A v \in Writers \ {w} : writer[v].step \in {"write", "finish"} => writer[v].key # k
    BY <1>1, <2>4 DEF OneAtATime, Holding
  <2> QED
    BY <2>1, <2>3, <2>5
<1>11. CountersAreCurrent'
  <2>1. ASSUME NEW v \in Writers, writer'[v].step \in {"write", "finish"}, writer'[v].key \notin spoiled'
        PROVE  /\ writer'[v].step = "write" => Under(file'[writer'[v].key], writer'[v].base)
               /\ writer'[v].step = "finish" => Under(file'[writer'[v].key], writer'[v].base + 2)
    <3>1. CASE v = w
      BY <1>5, <1>6, <1>10, <2>1, <3>1
    <3>2. CASE v # w
      <4>1. writer'[v] = writer[v] /\ writer[v].key \notin spoiled /\ writer[v].key \in Conversations
        BY <1>3, <1>6, <2>1, <3>2 DEF Recorder, Idle
      <4>2. writer[v].key # k
        BY <1>10, <2>1, <3>2, <4>1
      <4> QED
        BY <1>1, <1>9, <2>1, <4>1, <4>2 DEF CountersAreCurrent, UpTo, At
    <3> QED
      BY <3>1, <3>2
  <2>2. ASSUME NEW i \in DOMAIN cache, cache[i].key \notin spoiled',
               \A v \in Writers : ~(writer'[v].step = "finish" /\ writer'[v].key = cache[i].key)
        PROVE  Under(file'[cache[i].key], cache[i].seq)
    <3>1. cache[i].key \in Conversations /\ cache[i].key \notin spoiled
      <4>1. cache[i] \in Counter
        BY <1>1 DEF FilesAreLists
      <4> QED
        BY <1>6, <2>2, <4>1 DEF Counter
    <3>2. cache[i].key # k
      BY <1>6, <1>10, <2>2, <3>1
    <3>3. \A v \in Writers : ~(At(v, "finish") /\ writer[v].key = cache[i].key)
      <4> SUFFICES ASSUME NEW v \in Writers, At(v, "finish"), writer[v].key = cache[i].key PROVE FALSE
        OBVIOUS
      <4>1. v = w
        BY <1>6, <2>2 DEF At
      <4> QED
        BY <3>2, <4>1 DEF k
    <3> QED
      BY <1>1, <1>9, <3>1, <3>2, <3>3 DEF CountersAreCurrent, UpTo
  <2> QED
    BY <1>2, <2>1, <2>2 DEF CountersAreCurrent, UpTo, At
<1>12. (\A c \in Conversations \ spoiled : Rising(file[c]))'
  BY <1>1, <1>6, <1>10
<1> QED
  BY <1>7, <1>8, <1>11, <1>12 DEF NumbersInv

\* The counter is cached, the lock released.
LEMMA FinishKeepsNumbers ==
  ASSUME NumbersInv, NEW w \in Writers, FinishAppend(w)
  PROVE  NumbersInv'
<1>1. /\ FilesAreLists /\ OneAtATime /\ CountersAreCurrent
      /\ \A c \in Conversations \ spoiled : Rising(file[c])
  BY DEF NumbersInv
<1> DEFINE k == writer[w].key
           n == writer[w].base
           after == RememberLast(k, n + 2)
<1>2. /\ At(w, "finish") /\ Release(w) /\ writer' = [writer EXCEPT ![w] = Idle]
      /\ cache' = after /\ UNCHANGED <<file, end, spoiled>>
  BY DEF FinishAppend
<1>3. k \in Conversations /\ n + 2 \in Nat /\ writer \in [Writers -> Recorder \union {Idle}]
  BY <1>1, <1>2 DEF FilesAreLists, Idle, Recorder, At
<1>4. /\ after \in Seq(Counter)
      /\ \A i \in DOMAIN after :
           \/ after[i] = [key |-> k, seq |-> n + 2]
           \/ after[i].key # k /\ \E j \in DOMAIN cache : after[i] = cache[j]
  <2> DEFINE m == n + 2
  <2>1. m \in Nat
    BY <1>3
  <2> HIDE DEF m, k
  <2>2. /\ RememberLast(k, m) \in Seq(Counter)
        /\ \A i \in DOMAIN RememberLast(k, m) :
             \/ RememberLast(k, m)[i] = [key |-> k, seq |-> m]
             \/ RememberLast(k, m)[i].key # k
                /\ \E j \in DOMAIN cache : RememberLast(k, m)[i] = cache[j]
    BY <1>1, <1>3, <2>1, RememberLastIs
  <2> QED
    BY <2>2 DEF m
<1>5. k \notin spoiled => UpTo(k, n + 2)
  BY <1>1, <1>2 DEF CountersAreCurrent, UpTo
<1> HIDE DEF after, k
<1>6. writer'[w] = Idle /\ \A v \in Writers \ {w} : writer'[v] = writer[v]
  BY <1>2, <1>3
<1>7. /\ DOMAIN lock' = Conversations
      /\ \A v \in Writers \ {w} : Holding(v) => lock'[writer[v].key] = lock[writer[v].key]
  <2>1. \A v \in Writers : Holding(v) => writer[v].key \in Conversations
    BY <1>1 DEF FilesAreLists, Holding, Idle, Recorder
  <2> QED
    BY <1>1, <1>2, <2>1 DEF Release, OneAtATime
<1>8. FilesAreLists'
  <2>1. writer' \in [Writers -> Recorder \union {Idle}]
    BY <1>2, <1>3
  <2> QED
    BY <1>1, <1>2, <1>4, <1>7, <2>1 DEF FilesAreLists
<1>9. OneAtATime'
  BY <1>1, <1>2, <1>6, <1>7 DEF OneAtATime, Holding, At, Idle
<1>10. \A c, m : Under(file'[c], m) <=> Under(file[c], m)
  BY <1>2 DEF Under, UpTo
<1>11. CountersAreCurrent'
  <2>1. ASSUME NEW v \in Writers, writer'[v].step \in {"write", "finish"}, writer'[v].key \notin spoiled'
        PROVE  /\ writer'[v].step = "write" => Under(file'[writer'[v].key], writer'[v].base)
               /\ writer'[v].step = "finish" => Under(file'[writer'[v].key], writer'[v].base + 2)
    <3>1. writer'[v] = writer[v]
      BY <1>6, <2>1 DEF Idle
    <3> QED
      BY <1>1, <1>2, <1>10, <2>1, <3>1 DEF CountersAreCurrent, UpTo, At
  <2>2. ASSUME NEW i \in DOMAIN after, after[i].key \notin spoiled',
               \A v \in Writers : ~(writer'[v].step = "finish" /\ writer'[v].key = after[i].key)
        PROVE  Under(file'[after[i].key], after[i].seq)
    <3>1. CASE after[i] = [key |-> k, seq |-> n + 2]
      BY <1>2, <1>5, <1>10, <2>2, <3>1 DEF UpTo
    <3>2. CASE after[i].key # k /\ \E j \in DOMAIN cache : after[i] = cache[j]
      <4>1. PICK j \in DOMAIN cache : after[i] = cache[j]
        BY <3>2
      <4>2. \A v \in Writers : ~(At(v, "finish") /\ writer[v].key = cache[j].key)
        <5> SUFFICES ASSUME NEW v \in Writers, At(v, "finish"), writer[v].key = cache[j].key PROVE FALSE
          OBVIOUS
        <5>1. v = w
          BY <1>6, <2>2, <4>1 DEF At
        <5> QED
          BY <3>2, <4>1, <5>1 DEF k
      <4>3. cache[j].key \notin spoiled
        BY <1>2, <2>2, <4>1
      <4>4. UpTo(cache[j].key, cache[j].seq)
        BY <1>1, <4>2, <4>3 DEF CountersAreCurrent
      <4> QED
        BY <1>10, <4>1, <4>4 DEF UpTo
    <3> QED
      BY <1>4, <3>1, <3>2
  <2> QED
    BY <1>2, <2>1, <2>2 DEF CountersAreCurrent, UpTo, At
<1>12. (\A c \in Conversations \ spoiled : Rising(file[c]))'
  BY <1>1, <1>2
<1> QED
  BY <1>8, <1>9, <1>11, <1>12 DEF NumbersInv

\* A sweep, or nothing that concerns the files.
LEMMA SweepKeepsNumbers ==
  ASSUME NumbersInv, NEW c \in Conversations, SweepUnlink(c)
  PROVE  NumbersInv'
<1>1. /\ FilesAreLists /\ OneAtATime /\ CountersAreCurrent
      /\ \A q \in Conversations \ spoiled : Rising(file[q])
  BY DEF NumbersInv
<1>2. /\ file' = [file EXCEPT ![c] = <<>>] /\ end' = [end EXCEPT ![c] = "whole"]
      /\ UNCHANGED <<cache, lock, writer, spoiled>>
  BY DEF SweepUnlink
<1>3. /\ DOMAIN file' = Conversations /\ file'[c] = <<>> /\ \A q \in Conversations \ {c} : file'[q] = file[q]
      /\ DOMAIN end' = Conversations /\ end'[c] = "whole" /\ \A q \in Conversations \ {c} : end'[q] = end[q]
  BY <1>1, <1>2 DEF FilesAreLists
<1>4. FilesAreLists'
  <2>1. <<>> \in Seq(Nat)
    OBVIOUS
  <2>2. \A q \in Conversations :
          /\ file'[q] \in Seq(Nat) /\ end'[q] \in Ends
          /\ end'[q] = "open" => file'[q] # <<>>
    BY <1>1, <1>3, <2>1 DEF FilesAreLists, Ends
  <2> QED
    BY <1>1, <1>2, <1>3, <2>2 DEF FilesAreLists
<1>5. OneAtATime'
  BY <1>1, <1>2 DEF OneAtATime, Holding, At
<1>6. \A q \in Conversations : \A n : Under(file[q], n) => Under(file'[q], n)
  <2>1. DOMAIN file'[c] = {}
    BY <1>3
  <2> QED
    BY <1>3, <2>1 DEF Under, UpTo
<1>7. CountersAreCurrent'
  <2>1. ASSUME NEW v \in Writers, At(v, "write") \/ At(v, "finish"), writer[v].key \notin spoiled
        PROVE  /\ At(v, "write") => Under(file'[writer[v].key], writer[v].base)
               /\ At(v, "finish") => Under(file'[writer[v].key], writer[v].base + 2)
    <3>1. writer[v].key \in Conversations
      BY <1>1, <2>1 DEF FilesAreLists, At, Idle, Recorder
    <3> QED
      BY <1>1, <1>2, <1>6, <2>1, <3>1 DEF CountersAreCurrent, UpTo
  <2>2. ASSUME NEW i \in DOMAIN cache, cache[i].key \notin spoiled,
               \A v \in Writers : ~(At(v, "finish") /\ writer[v].key = cache[i].key)
        PROVE  Under(file'[cache[i].key], cache[i].seq)
    <3>1. cache[i].key \in Conversations
      <4>1. cache[i] \in Counter
        BY <1>1 DEF FilesAreLists
      <4> QED
        BY <4>1 DEF Counter
    <3> QED
      BY <1>1, <1>2, <1>6, <2>2, <3>1 DEF CountersAreCurrent, UpTo
  <2> QED
    BY <1>2, <2>1, <2>2 DEF CountersAreCurrent, UpTo, At
<1>8. (\A q \in Conversations \ spoiled : Rising(file[q]))'
  <2>1. Rising(<<>>)
    BY DEF Rising
  <2> QED
    BY <1>1, <1>2, <1>3, <2>1
<1> QED
  BY <1>4, <1>5, <1>7, <1>8 DEF NumbersInv

LEMMA NumbersLeftAlone ==
  ASSUME NumbersInv, UNCHANGED <<file, end, cache, lock, writer, spoiled>>
  PROVE  NumbersInv'
BY DEF NumbersInv, FilesAreLists, OneAtATime, CountersAreCurrent, Holding, At, UpTo, Under, Rising

\* A new process has nothing but the files, some of which were being written.
LEMMA CrashKeepsNumbers ==
  ASSUME NumbersInv, TranscriptCrash
  PROVE  NumbersInv'
<1>1. /\ FilesAreLists /\ OneAtATime /\ CountersAreCurrent
      /\ \A c \in Conversations \ spoiled : Rising(file[c])
  BY DEF NumbersInv
<1>2. PICK left :
        /\ \A c \in Conversations :
             \/ left[c] = <<file[c], end[c]>>
             \/ \E w \in Writing(c) : left[c] \in Cut(c, writer[w].base)
        /\ file' = [c \in Conversations |-> left[c][1]]
        /\ end' = [c \in Conversations |-> left[c][2]]
  BY DEF TranscriptCrash
<1>3. ASSUME NEW c \in Conversations
      PROVE  /\ left[c][1] \in Seq(Nat) /\ left[c][2] \in Ends
             /\ left[c][2] = "open" => left[c][1] # <<>>
             /\ c \notin spoiled => Rising(left[c][1])
  <2>1. CASE left[c] = <<file[c], end[c]>>
    BY <1>1, <2>1 DEF FilesAreLists
  <2>2. CASE \E w \in Writing(c) : left[c] \in Cut(c, writer[w].base)
    <3>1. PICK w \in Writers :
            /\ left[c] \in Cut(c, writer[w].base) /\ writer[w].key = c
            /\ At(w, "write") \/ At(w, "orphan")
      BY <2>2 DEF Writing, Recording
    <3> DEFINE n == writer[w].base
    <3>2. n \in Nat
      BY <1>1, <3>1 DEF FilesAreLists, At, Idle, Recorder
    <3>3. c \notin spoiled => UpTo(c, n)
      BY <1>1, <3>1 DEF OneAtATime, CountersAreCurrent, UpTo
    <3>4. left[c] \in Cut(c, n)
      BY <3>1
    <3> HIDE DEF n
    <3> QED
      BY <1>1, <3>2, <3>3, <3>4, CutIs
  <2> QED
    BY <1>2, <2>1, <2>2
<1>4. /\ cache' = <<>> /\ lock' = [c \in Conversations |-> NoWriter] /\ writer' = [w \in Writers |-> Idle]
      /\ UNCHANGED spoiled
  BY DEF TranscriptCrash
<1>5. FilesAreLists'
  BY <1>2, <1>3, <1>4 DEF FilesAreLists
<1>6. OneAtATime' /\ CountersAreCurrent'
  BY <1>4 DEF OneAtATime, CountersAreCurrent, UpTo, Holding, At, Idle
<1>7. (\A c \in Conversations \ spoiled : Rising(file[c]))'
  BY <1>2, <1>3, <1>4
<1> QED
  BY <1>5, <1>6, <1>7 DEF NumbersInv

\* The invariant of the numbers holds initially and is kept.
LEMMA InitNumbers == BrainInit => NumbersInv
<1> SUFFICES ASSUME BrainInit PROVE NumbersInv
  OBVIOUS
<1>1. TranscriptInit
  BY DEF BrainInit, Init
<1>2. <<>> \in Seq(Nat) /\ <<>> \in Seq(Counter) /\ Rising(<<>>)
  BY DEF Rising
<1>3. FilesAreLists
  BY <1>1, <1>2 DEF TranscriptInit, FilesAreLists, Ends
<1>4. OneAtATime /\ CountersAreCurrent
  BY <1>1 DEF TranscriptInit, OneAtATime, CountersAreCurrent, Holding, At, Idle
<1> QED
  BY <1>1, <1>2, <1>3, <1>4 DEF NumbersInv, TranscriptInit

\* Every step of the queue and the transcripts is one of these.
LEMMA StepsAre ==
  ASSUME Next
  PROVE  \/ \E w \in Writers :
              /\ Start(w) \/ AcquireLock(w) \/ ReadNumber(w) \/ AppendFails(w) \/ CancelAppend(w)
              /\ UNCHANGED distillation
         \/ \E w \in Writers : (Write(w) \/ OrphanWrite(w)) /\ UNCHANGED distillation
         \/ \E w \in Writers : Finish(w)
         \/ \E c \in Conversations : (AgeOld(c) \/ SweepStat(c)) /\ UNCHANGED distillation
         \/ \E c \in Conversations : Unlink(c)
         \/ \E o \in Objects : GrowOld(o)
         \/ StartDrain \/ Visiting \/ StoreFails \/ EndDrain \/ Close
         \/ Restart
BY DEF Next

LEMMA NextNumbers == NumbersInv /\ [BrainNext]_<<vars, longTerm, replies, origin>> => NumbersInv'
<1> SUFFICES ASSUME NumbersInv, [BrainNext]_<<vars, longTerm, replies, origin>> PROVE NumbersInv'
  OBVIOUS
<1>1. CASE Next
  <2>1. CASE \E w \in Writers :
               Start(w) \/ AcquireLock(w) \/ ReadNumber(w) \/ AppendFails(w) \/ CancelAppend(w)
    BY <2>1, RequestsKeepNumbers
  <2>2. CASE \E w \in Writers : Write(w) \/ OrphanWrite(w)
    BY <2>2, WritesKeepNumbers
  <2>3. CASE \E w \in Writers : Finish(w)
    BY <2>3, FinishKeepsNumbers DEF Finish
  <2>4. CASE \E c \in Conversations : AgeOld(c) \/ SweepStat(c)
    BY <2>4, NumbersLeftAlone DEF AgeOld, Age, SweepStat
  <2>5. CASE \E c \in Conversations : Unlink(c)
    BY <2>5, SweepKeepsNumbers DEF Unlink
  <2>6. CASE (\E o \in Objects : GrowOld(o)) \/ StartDrain \/ Visiting \/ StoreFails \/ EndDrain \/ Close
    <3>1. UNCHANGED transcript
      BY <2>6 DEF GrowOld, StartDrain, Visiting, Visit, ReadBatch, Extract, Tailing, Summarize,
         StoreFails, EndDrain, Close
    <3> QED
      BY <3>1, NumbersLeftAlone DEF transcript
  <2>7. CASE Restart
    BY <2>7, CrashKeepsNumbers DEF Restart
  <2> QED
    BY <1>1, <2>1, <2>2, <2>3, <2>4, <2>5, <2>6, <2>7, StepsAre
<1>2. CASE UNCHANGED vars
  BY <1>2, NumbersLeftAlone DEF vars, transcript
<1> QED
  BY <1>1, <1>2 DEF BrainNext

\* Whatever the cache drops, a process loses or a sweep removes, each line of a
\* transcript has a larger number than those before it, unless a thread that nobody
\* waits for wrote into it or a sweep removed it from under a write.
THEOREM TranscriptsClimb == BrainSpec => []NumbersClimb
<1>1. NumbersInv => NumbersClimb
  <2> SUFFICES ASSUME NumbersInv, NEW c \in Conversations \ spoiled PROVE Climbs(file[c])
    BY DEF NumbersClimb
  <2> DEFINE s == file[c]
  <2>1. s \in Seq(Nat) /\ Rising(s)
    BY DEF NumbersInv, FilesAreLists
  <2> HIDE DEF s
  <2>2. DOMAIN s = 1..Len(s) /\ Len(s) \in Nat
    BY <2>1
  <2>3. \A i \in 1..(Len(s) - 1) : i \in 1..Len(s) /\ i + 1 \in 1..Len(s) /\ i < i + 1
    BY <2>2
  <2>4. Climbs(s)
    BY <2>1, <2>2, <2>3 DEF Climbs, Rising
  <2> QED
    BY <2>4 DEF s
<1> QED
  BY <1>1, InitNumbers, NextNumbers, PTL DEF BrainSpec

\* The queue of conversations, and the loop that visits them.
IsEntry(entry) ==
  entry.key \in Conversations /\ entry.base \in Nat /\ entry.upto \in Nat /\ entry.appended \in Nat
SameCursor(one, other) == one.key = other.key /\ one.base = other.base /\ one.upto = other.upto
SameEntry(one, other) == SameCursor(one, other) /\ one.appended = other.appended
Visits == {"read", "extract", "tail", "summarize"}

IsQueue(queue) == queue \in Seq(Objects) /\ Len(queue) <= MaxPending
IsDrain(d) ==
  /\ d = [step |-> d.step, todo |-> d.todo, ended |-> d.ended, final |-> d.final, batch |-> d.batch]
  /\ d.step \in Visits \union {"idle", "next"} /\ IsQueue(d.todo)
  /\ d.step \in Visits => d.todo # <<>>
  /\ d.step = "extract" => d.batch \in Seq(Nat) /\ d.batch # <<>>
QueueIs ==
  /\ IsQueue(pending) /\ IsDrain(drain)
  /\ DOMAIN object = Objects /\ DOMAIN shown = Conversations /\ owed \in Nat
  /\ \A o \in InUse(pending) : IsEntry(object[o])

\* The file has a line that far, and is not about to be removed.
Longer(lines, n) == \E i \in DOMAIN lines : n <= lines[i]
Kept(c) == fresh[c] /\ ~due[c]
Told(lines, entry, numbers) ==
  \A i \in DOMAIN lines : lines[i] \in (entry.base + 1)..entry.upto => lines[i] \in numbers
Follows(entry, numbers) ==
  entry.key \notin spoiled =>
    /\ Kept(entry.key) /\ Longer(file[entry.key], entry.upto) /\ Longer(file[entry.key], entry.appended)
    /\ Told(file[entry.key], entry, numbers)
Followed(entry) == Follows(entry, shown[entry.key])

\* A batch has all the lines from the cursor to its last one.
Read(lines, cursor, batch) ==
  \A i \in DOMAIN lines : lines[i] \in (cursor + 1)..Last(batch) => lines[i] \in ToSet(batch)
\* What a visit owes is in the file, then in the batch, then behind the cursor.
Owes(step, lines, upto, batch, n) ==
  /\ step = "read" => Longer(lines, n)
  /\ step = "extract" => Longer(lines, Last(batch)) /\ Read(lines, upto, batch) /\ n <= Last(batch)
  /\ step \in {"tail", "summarize"} => n <= upto
VisitIs ==
  drain.step \in Visits /\ object[Current].key \notin spoiled =>
    Owes(drain.step, file[object[Current].key], object[Current].upto, drain.batch, owed)

CursorsInv ==
  /\ DOMAIN fresh = Conversations /\ DOMAIN due = Conversations
  /\ QueueIs /\ VisitIs /\ missed \subseteq spoiled
  /\ \A o \in InUse(pending) : Followed(object[o])
  /\ \A w \in Writers : At(w, "finish") /\ writer[w].key \notin spoiled =>
       Kept(writer[w].key) /\ Longer(file[writer[w].key], writer[w].base + 2)

\* The numbers up to one of them.
LEMMA NumbersUpTo ==
  ASSUME NEW n \in Nat
  PROVE  IsFiniteSet(1..n) /\ Cardinality(1..n) = n
BY FS_Interval

\* A sequence has no more elements than places.
LEMMA FewElements ==
  ASSUME NEW S, NEW s \in Seq(S)
  PROVE  IsFiniteSet(ToSet(s)) /\ Cardinality(ToSet(s)) \in Nat /\ Cardinality(ToSet(s)) <= Len(s)
<1> DEFINE places == 1..Len(s)
           f == [i \in places |-> s[i]]
<1>1. IsFiniteSet(places) /\ Cardinality(places) = Len(s) /\ Len(s) \in Nat
  BY NumbersUpTo
<1>2. ToSet(s) = {s[i] : i \in places}
  BY DEF ToSet
<1>3. f \in Surjection(places, ToSet(s))
  <2>1. f \in [places -> ToSet(s)]
    BY <1>2
  <2>2. \A x \in ToSet(s) : \E i \in places : f[i] = x
    BY <1>2
  <2> HIDE DEF f, places
  <2> QED
    BY <2>1, <2>2 DEF Surjection
<1> HIDE DEF f, places
<1> QED
  BY <1>1, <1>3, FS_Surjection, FS_CardinalityType

\* There is a name for an entry more.
LEMMA FreeObjectIs ==
  ASSUME QueueIs
  PROVE  FreeObject \in Objects /\ FreeObject \notin InUse(pending)
<1>1. /\ pending \in Seq(Objects) /\ Len(pending) <= MaxPending
      /\ drain.todo \in Seq(Objects) /\ Len(drain.todo) <= MaxPending
  BY DEF QueueIs, IsQueue, IsDrain
<1> DEFINE queue == ToSet(pending)
           todo == ToSet(drain.todo)
<1>2. /\ IsFiniteSet(queue) /\ Cardinality(queue) \in Nat /\ Cardinality(queue) <= Len(pending)
      /\ IsFiniteSet(todo) /\ Cardinality(todo) \in Nat /\ Cardinality(todo) <= Len(drain.todo)
  BY <1>1, FewElements
<1>3. Len(pending) \in Nat /\ Len(drain.todo) \in Nat /\ MaxPending \in Nat
  BY <1>1, DistillationAssumption
<1> HIDE DEF queue, todo
<1>4. /\ IsFiniteSet(queue \union todo)
      /\ Cardinality(queue \union todo) \in Nat /\ Cardinality(queue \union todo) <= 2 * MaxPending
  <2>1. /\ IsFiniteSet(queue \union todo)
        /\ Cardinality(queue \union todo)
             = Cardinality(queue) + Cardinality(todo) - Cardinality(queue \intersect todo)
    BY <1>2, FS_Union
  <2>2. Cardinality(queue \intersect todo) \in Nat
    BY <1>2, FS_Intersection, FS_CardinalityType
  <2>3. Cardinality(queue \union todo) \in Nat
    BY <2>1, FS_CardinalityType
  <2> QED
    BY <1>1, <1>2, <1>3, <2>1, <2>2, <2>3
<1> DEFINE free == Objects \ (queue \union todo)
<1>5. free # {} /\ free \subseteq Nat /\ IsFiniteSet(free)
  <2>1. IsFiniteSet(Objects) /\ Objects \subseteq Nat /\ Cardinality(Objects) > 2 * MaxPending
    BY DistillationAssumption
  <2>2. Cardinality(Objects) \in Nat
    BY <2>1, FS_CardinalityType
  <2>3. ASSUME Objects \subseteq queue \union todo PROVE FALSE
    <3>1. Cardinality(Objects) <= Cardinality(queue \union todo)
      BY <1>4, <2>3, FS_Subset
    <3> QED
      BY <1>3, <1>4, <2>1, <2>2, <3>1
  <2> QED
    BY <2>1, <2>3, FS_Subset
<1>6. \E o \in free : \A p \in free : o <= p
  <2> HIDE DEF free
  <2>1. /\ Cardinality(free) \in Nat
        /\ \A n \in 1..Cardinality(free) : Nth(free, n) \in free
        /\ \A p \in free : \E n \in 1..Cardinality(free) : Nth(free, n) = p
        /\ \A m, n \in 1..Cardinality(free) : m < n => Nth(free, m) < Nth(free, n)
    BY <1>5, NthLists, FS_CardinalityType
  <2>2. 1 \in 1..Cardinality(free)
    <3>1. PICK p \in free : TRUE
      BY <1>5
    <3>2. PICK n \in 1..Cardinality(free) : Nth(free, n) = p
      BY <2>1, <3>1
    <3> QED
      BY <2>1, <3>2
  <2>3. ASSUME NEW p \in free PROVE Nth(free, 1) <= p
    <3>1. PICK n \in 1..Cardinality(free) : Nth(free, n) = p
      BY <2>1
    <3>2. Nth(free, 1) \in Nat /\ p \in Nat
      BY <1>5, <2>1, <2>2
    <3>3. n = 1 \/ 1 < n
      BY <2>1
    <3> QED
      BY <2>1, <2>2, <3>1, <3>2, <3>3
  <2> QED
    BY <2>1, <2>2, <2>3
<1>7. free = Objects \ InUse(pending)
  BY DEF InUse, queue, todo
<1> HIDE DEF free
<1>8. \E o \in Objects : o \notin InUse(pending) /\ \A p \in Objects \ InUse(pending) : o <= p
  BY <1>6, <1>7
<1> QED
  BY <1>8 DEF FreeObject

\* An entry is as it was; reaches further; or is new and begins behind the exchange.
Enqueued(p, c, n) ==
  \/ p \in InUse(pending) /\ SameEntry(object'[p], object[p])
  \/ /\ p \in InUse(pending) /\ SameCursor(object'[p], object[p])
     /\ object'[p].key = c /\ object'[p].appended = n + 2
  \/ /\ p \notin InUse(pending) /\ object'[p].key = c /\ object'[p].base = n
     /\ object'[p].upto = n /\ object'[p].appended = n + 2

\* A conversation is put into the queue.
LEMMA EnqueueIs ==
  ASSUME QueueIs, NEW c \in Conversations, NEW n \in Nat, NEW upto, upto = n + 2,
         Enqueue(c, upto), UNCHANGED drain
  PROVE  /\ IsQueue(pending') /\ DOMAIN object' = Objects
         /\ \A p \in InUse(pending)' : IsEntry(object'[p])
         /\ \A p \in InUse(pending)' : Enqueued(p, c, n)
<1> DEFINE isKnown == Entry(c) # {}
           o == IF isKnown THEN CHOOSE p \in Entry(c) : TRUE ELSE FreeObject
           entry == IF isKnown
                    THEN [object[o] EXCEPT !.appended = upto, !.age = "recent", !.summarized = FALSE]
                    ELSE [key |-> c, base |-> upto - 2, upto |-> upto - 2,
                          appended |-> upto, age |-> "recent", summarized |-> FALSE]
           places == {i \in DOMAIN pending : pending[i] # o}
           others == Sublist(pending, places)
           all == Append(others, o)
           queue == IF Len(all) > MaxPending THEN Tail(all) ELSE all
<1>1. pending' = queue /\ object' = Keep(queue, [object EXCEPT ![o] = entry])
  BY DEF Enqueue
<1>2. /\ pending \in Seq(Objects) /\ Len(pending) <= MaxPending /\ DOMAIN object = Objects
      /\ \A p \in InUse(pending) : IsEntry(object[p])
      /\ drain.todo \in Seq(Objects) /\ MaxPending \in Nat \ {0}
  BY DistillationAssumption DEF QueueIs, IsQueue, IsDrain
<1>3. ToSet(pending) \subseteq Objects /\ ToSet(pending) \subseteq InUse(pending)
  BY <1>2 DEF ToSet, InUse
<1>4. /\ o \in Objects
      /\ isKnown => o \in ToSet(pending) /\ object[o].key = c
      /\ ~isKnown => o \notin InUse(pending)
  <2>1. CASE isKnown
    <3>1. o \in Entry(c)
      BY <2>1
    <3> HIDE DEF o
    <3> QED
      BY <1>3, <2>1, <3>1 DEF Entry
  <2>2. CASE ~isKnown
    BY <2>2, FreeObjectIs
  <2> QED
    BY <2>1, <2>2
<1>5. /\ IsEntry(entry)
      /\ entry.key = c /\ entry.appended = n + 2
      /\ isKnown => SameCursor(entry, object[o])
      /\ ~isKnown => entry.base = n /\ entry.upto = n
  <2>1. CASE isKnown
    <3>1. IsEntry(object[o])
      BY <1>2, <1>3, <1>4, <2>1
    <3>2. entry = [object[o] EXCEPT !.appended = upto, !.age = "recent", !.summarized = FALSE]
      BY <2>1
    <3> HIDE DEF entry, o
    <3>3. entry.key = object[o].key /\ entry.base = object[o].base /\ entry.upto = object[o].upto
          /\ entry.appended = upto
      BY <3>1, <3>2 DEF IsEntry
    <3> QED
      BY <1>4, <2>1, <3>1, <3>3 DEF IsEntry, SameCursor, o
  <2>2. CASE ~isKnown
    <3>1. upto - 2 = n
      OBVIOUS
    <3>2. entry = [key |-> c, base |-> n, upto |-> n, appended |-> upto, age |-> "recent", summarized |-> FALSE]
      BY <2>2, <3>1
    <3> HIDE DEF entry
    <3> QED
      BY <2>2, <3>2 DEF IsEntry
  <2> QED
    BY <2>1, <2>2
<1> HIDE DEF o, entry, isKnown
<1>6. /\ others \in Seq(Objects) /\ ToSet(others) \subseteq ToSet(pending) \ {o}
      /\ Len(others) \in Nat /\ Len(others) <= MaxPending
  <2>1. places \in SUBSET DOMAIN pending /\ DOMAIN pending = 1..Len(pending) /\ Len(pending) \in Nat
    BY <1>2
  <2>2. ToSet(pending) = {pending[i] : i \in DOMAIN pending}
    BY <1>2 DEF ToSet
  <2>3. IsFiniteSet(1..Len(pending)) /\ Cardinality(1..Len(pending)) = Len(pending)
    BY <2>1, NumbersUpTo
  <2>4. Cardinality(places) <= Len(pending) /\ Cardinality(places) \in Nat
    <3> HIDE DEF places
    <3> QED
      BY <2>1, <2>3, FS_Subset, FS_CardinalityType
  <2>5. others \in Seq(Objects) /\ Len(others) = Cardinality(places) /\ ToSet(others) = {pending[i] : i \in places}
    <3> HIDE DEF places
    <3> QED
      BY <1>2, <2>1, SublistRange
  <2>6. ToSet(others) \subseteq ToSet(pending) \ {o}
    BY <2>2, <2>5
  <2> HIDE DEF others, places
  <2> QED
    BY <1>2, <2>1, <2>4, <2>5, <2>6
<1> HIDE DEF others
<1>7. IsQueue(queue) /\ ToSet(queue) \subseteq ToSet(others) \union {o}
  <2>1. /\ all \in Seq(Objects) /\ Len(all) = Len(others) + 1 /\ all # <<>>
        /\ \A i \in DOMAIN all : all[i] \in ToSet(others) \union {o}
    <3>1. \A i \in DOMAIN others : others[i] \in ToSet(others)
      BY <1>6 DEF ToSet
    <3> QED
      BY <1>4, <1>6, <3>1
  <2> HIDE DEF all
  <2>2. CASE Len(all) > MaxPending
    <3>1. /\ Tail(all) \in Seq(Objects) /\ Len(Tail(all)) = Len(all) - 1
          /\ \A i \in DOMAIN Tail(all) : i + 1 \in DOMAIN all /\ Tail(all)[i] = all[i + 1]
      BY <2>1
    <3>2. \A i \in DOMAIN Tail(all) : Tail(all)[i] \in ToSet(others) \union {o}
      BY <2>1, <3>1
    <3>3. ToSet(Tail(all)) \subseteq ToSet(others) \union {o}
      BY <3>2 DEF ToSet
    <3> QED
      BY <1>2, <1>6, <2>1, <2>2, <3>1, <3>3 DEF IsQueue
  <2>3. CASE ~(Len(all) > MaxPending)
    <3>1. ToSet(all) \subseteq ToSet(others) \union {o}
      BY <2>1 DEF ToSet
    <3> QED
      BY <1>2, <1>6, <2>1, <2>3, <3>1 DEF IsQueue
  <2> QED
    BY <2>2, <2>3
<1> HIDE DEF queue
<1>8. ToSet(queue) \subseteq Objects
  BY <1>7 DEF IsQueue, ToSet
<1>9. DOMAIN object' = Objects
      /\ \A p \in InUse(pending)' : p \in Objects /\ object'[p] = IF p = o THEN entry ELSE object[p]
  <2>1. InUse(pending)' = InUse(queue)
    BY <1>1 DEF InUse
  <2>2. ToSet(drain.todo) \subseteq Objects
    BY <1>2 DEF ToSet
  <2> QED
    BY <1>1, <1>2, <1>8, <2>1, <2>2 DEF Keep, InUse
<1>10. InUse(pending)' = ToSet(queue) \union ToSet(drain.todo) /\ ToSet(pending') \subseteq InUse(pending)'
  BY <1>1 DEF InUse
<1>11. \A p \in InUse(pending)' : IsEntry(object'[p])
  <2> SUFFICES ASSUME NEW p \in InUse(pending)' PROVE IsEntry(object'[p])
    OBVIOUS
  <2>1. p = o \/ p \in InUse(pending)
    BY <1>6, <1>7, <1>10 DEF InUse
  <2> QED
    BY <1>2, <1>5, <1>9, <2>1
<1>12. ASSUME NEW p \in InUse(pending)'
       PROVE  Enqueued(p, c, n)
  <2>1. object'[p] = IF p = o THEN entry ELSE object[p]
    BY <1>9
  <2>2. CASE p = o
    BY <1>3, <1>4, <1>5, <2>1, <2>2 DEF Enqueued
  <2>3. CASE p # o
    <3>1. p \in InUse(pending)
      BY <1>6, <1>7, <1>10, <2>3 DEF InUse
    <3> QED
      BY <2>1, <2>3, <3>1 DEF Enqueued, SameEntry, SameCursor
  <2> QED
    BY <2>2, <2>3
<1> QED
  BY <1>1, <1>7, <1>9, <1>11, <1>12

\* The batch after a cursor has every line up to its last one.
LEMMA BatchIs ==
  ASSUME NEW c \in Conversations, file[c] \in Seq(Nat), NEW cursor \in Nat, NEW batch,
         batch = ReadSince(c, cursor), batch # <<>>
  PROVE  /\ batch \in Seq(Nat) /\ Last(batch) \in Nat
         /\ Rising(file[c]) =>
              /\ Longer(file[c], Last(batch)) /\ Read(file[c], cursor, batch)
              /\ Len(batch) # MaxExtract => Under(file[c], Last(batch))
<1> DEFINE lines == file[c]
           places == {i \in DOMAIN lines : lines[i] > cursor}
           later == Sublist(lines, places)
           m == IF Len(later) < MaxExtract THEN Len(later) ELSE MaxExtract
<1>1. batch = SubSeq(later, 1, m)
  BY DEF ReadSince
<1>2. /\ lines \in Seq(Nat) /\ DOMAIN lines = 1..Len(lines) /\ Len(lines) \in Nat
      /\ places \in SUBSET DOMAIN lines /\ MaxExtract \in Nat \ {0}
      /\ \A i \in places : lines[i] > cursor
  BY DistillationAssumption
<1>3. \A i \in DOMAIN lines : lines[i] > cursor => i \in places
  OBVIOUS
<1> HIDE DEF lines, places
<1>4. /\ later \in Seq(Nat) /\ Len(later) = Cardinality(places) /\ Cardinality(places) \in Nat
      /\ \A n \in 1..Cardinality(places) : later[n] = lines[Nth(places, n)]
      /\ places \subseteq Nat /\ IsFiniteSet(places)
  <2>1. IsFiniteSet(1..Len(lines))
    BY <1>2, NumbersUpTo
  <2>2. places \subseteq Nat /\ IsFiniteSet(places) /\ Cardinality(places) \in Nat
    BY <1>2, <2>1, FS_Subset, FS_CardinalityType
  <2>3. later \in Seq(Nat) /\ Len(later) = Cardinality(places)
    BY <1>2, SublistRange
  <2> QED
    BY <2>2, <2>3 DEF Sublist
<1>5. /\ \A n \in 1..Cardinality(places) : Nth(places, n) \in places
      /\ \A i \in places : \E n \in 1..Cardinality(places) : Nth(places, n) = i
      /\ \A a, b \in 1..Cardinality(places) : a < b => Nth(places, a) < Nth(places, b)
  BY <1>4, NthLists
<1>6. m \in Nat /\ m <= Len(later)
  BY <1>2, <1>4
<1> HIDE DEF later, m
<1>7. batch \in Seq(Nat) /\ Len(batch) = m /\ (\A n \in 1..m : batch[n] = later[n]) /\ m >= 1
  <2>1. /\ SubSeq(later, 1, m) \in Seq(Nat) /\ Len(SubSeq(later, 1, m)) = m
        /\ \A n \in 1..m : SubSeq(later, 1, m)[n] = later[n]
    BY <1>4, <1>6
  <2>2. m # 0
    BY <1>1, <2>1
  <2> QED
    BY <1>1, <1>6, <2>1, <2>2
<1> DEFINE last == Nth(places, m)
<1>8. m \in 1..m /\ m \in 1..Cardinality(places)
  BY <1>4, <1>6, <1>7
<1>9. /\ last \in places /\ last \in DOMAIN lines /\ Last(batch) = lines[last] /\ lines[last] \in Nat
  <2>1. last \in places
    BY <1>5, <1>8
  <2>2. Last(batch) = batch[m]
    BY <1>7 DEF Last
  <2>3. batch[m] = lines[last]
    BY <1>4, <1>7, <1>8
  <2> QED
    BY <1>2, <2>1, <2>2, <2>3
<1> HIDE DEF last
<1>10. ASSUME Rising(lines) PROVE Read(lines, cursor, batch)
  <2> SUFFICES ASSUME NEW i \in DOMAIN lines, lines[i] \in (cursor + 1)..Last(batch)
               PROVE  lines[i] \in ToSet(batch)
    BY DEF Read
  <2>1. lines[i] \in Nat /\ lines[i] > cursor /\ lines[i] <= lines[last]
    BY <1>2, <1>9
  <2>2. i \in places
    BY <1>3, <2>1
  <2>3. PICK n \in 1..Cardinality(places) : Nth(places, n) = i
    BY <1>5, <2>2
  <2>4. n <= m
    <3> SUFFICES ASSUME m < n PROVE FALSE
      BY <1>4, <1>6
    <3>1. last < i
      BY <1>5, <1>8, <2>3 DEF last
    <3>2. lines[last] < lines[i]
      BY <1>9, <1>10, <3>1 DEF Rising
    <3> QED
      BY <1>9, <2>1, <3>2
  <2>5. n \in 1..m /\ batch[n] = lines[i]
    BY <1>4, <1>6, <1>7, <2>3, <2>4
  <2> QED
    BY <1>7, <2>5 DEF ToSet
<1>11. Longer(lines, Last(batch))
  BY <1>9 DEF Longer
<1>12. ASSUME Rising(lines), Len(batch) # MaxExtract PROVE Under(lines, Last(batch))
  <2> SUFFICES ASSUME NEW i \in DOMAIN lines PROVE lines[i] <= lines[last]
    BY <1>9 DEF Under
  <2>1. m = Cardinality(places)
    BY <1>4, <1>7, <1>12 DEF m
  <2>2. lines[i] \in Nat /\ i \in Nat /\ last \in Nat
    BY <1>2, <1>4, <1>9
  <2>3. CASE lines[i] > cursor
    <3>1. i \in places
      BY <1>3, <2>3
    <3>2. PICK n \in 1..Cardinality(places) : Nth(places, n) = i
      BY <1>5, <3>1
    <3>3. n = m \/ n < m
      BY <1>4, <2>1
    <3>4. i = last \/ i < last
      BY <1>5, <1>8, <3>2, <3>3 DEF last
    <3>5. i < last => lines[i] < lines[last]
      BY <1>9, <1>12 DEF Rising
    <3> QED
      BY <1>9, <2>2, <3>4, <3>5
  <2>4. CASE ~(lines[i] > cursor)
    <3>1. lines[last] > cursor
      BY <1>2, <1>9
    <3> QED
      BY <1>9, <2>2, <2>4, <3>1
  <2> QED
    BY <2>3, <2>4
<1> QED
  BY <1>7, <1>9, <1>10, <1>11, <1>12 DEF lines

\* Nothing is read when no line lies behind the cursor.
LEMMA NoBatchIs ==
  ASSUME NEW c \in Conversations, file[c] \in Seq(Nat), NEW cursor \in Nat, ReadSince(c, cursor) = <<>>
  PROVE  Under(file[c], cursor)
<1> DEFINE lines == file[c]
           places == {i \in DOMAIN lines : lines[i] > cursor}
           later == Sublist(lines, places)
           m == IF Len(later) < MaxExtract THEN Len(later) ELSE MaxExtract
<1>1. SubSeq(later, 1, m) = <<>>
  BY DEF ReadSince
<1>2. /\ lines \in Seq(Nat) /\ DOMAIN lines = 1..Len(lines) /\ Len(lines) \in Nat
      /\ places \in SUBSET DOMAIN lines /\ MaxExtract \in Nat \ {0}
      /\ \A i \in DOMAIN lines : lines[i] > cursor => i \in places
  BY DistillationAssumption
<1> HIDE DEF lines
<1>7. \A i \in DOMAIN lines : ~(lines[i] > cursor) => lines[i] <= cursor
  <2>1. \A i \in DOMAIN lines : lines[i] \in Nat
    BY <1>2
  <2> QED
    BY <2>1
<1> HIDE DEF places
<1>3. later \in Seq(Nat) /\ Len(later) = Cardinality(places) /\ Cardinality(places) \in Nat /\ IsFiniteSet(places)
  <2>1. IsFiniteSet(1..Len(lines))
    BY <1>2, NumbersUpTo
  <2>2. places \subseteq Nat /\ IsFiniteSet(places) /\ Cardinality(places) \in Nat
    BY <1>2, <2>1, FS_Subset, FS_CardinalityType
  <2>3. later \in Seq(Nat) /\ Len(later) = Cardinality(places)
    BY <1>2, SublistRange
  <2> QED
    BY <2>2, <2>3
<1>4. m \in Nat /\ (m = 0 => Len(later) = 0)
  BY <1>2, <1>3
<1> HIDE DEF later, m
<1>5. m = 0
  <2>1. Len(SubSeq(later, 1, m)) = m
    BY <1>3, <1>4
  <2> QED
    BY <1>1, <2>1
<1>6. places = {}
  BY <1>3, <1>4, <1>5, FS_EmptySet
<1> QED
  BY <1>2, <1>6, <1>7 DEF Under, lines

\* The queue without a conversation.
LEMMA WithoutIs ==
  ASSUME IsQueue(pending), NEW places \in SUBSET DOMAIN pending
  PROVE  /\ IsQueue(Sublist(pending, places))
         /\ ToSet(Sublist(pending, places)) = {pending[i] : i \in places}
         /\ ToSet(Sublist(pending, places)) \subseteq ToSet(pending)
<1>1. pending \in Seq(Objects) /\ Len(pending) <= MaxPending /\ Len(pending) \in Nat
      /\ DOMAIN pending = 1..Len(pending) /\ MaxPending \in Nat
  BY DistillationAssumption DEF IsQueue
<1>2. IsFiniteSet(1..Len(pending)) /\ Cardinality(1..Len(pending)) = Len(pending)
  BY <1>1, NumbersUpTo
<1>3. Cardinality(places) <= Len(pending) /\ Cardinality(places) \in Nat
  BY <1>1, <1>2, FS_Subset, FS_CardinalityType
<1>4. /\ Sublist(pending, places) \in Seq(Objects) /\ Len(Sublist(pending, places)) = Cardinality(places)
      /\ ToSet(Sublist(pending, places)) = {pending[i] : i \in places}
  BY <1>1, SublistRange
<1>5. {pending[i] : i \in places} \subseteq ToSet(pending)
  BY <1>1 DEF ToSet
<1>6. IsQueue(Sublist(pending, places))
  <2> DEFINE queue == Sublist(pending, places)
             n == Cardinality(places)
  <2>1. queue \in Seq(Objects) /\ Len(queue) = n /\ n <= MaxPending
    BY <1>1, <1>3, <1>4
  <2> HIDE DEF queue, n
  <2>2. IsQueue(queue)
    BY <2>1 DEF IsQueue
  <2> QED
    BY <2>2 DEF queue
<1> QED
  BY <1>4, <1>5, <1>6

\* The fields of the loop's state, one of them changed.
LEMMA OneFieldIs ==
  ASSUME NEW a, NEW b, NEW c, NEW d, NEW e, NEW x, NEW r,
         r = [step |-> a, todo |-> b, ended |-> c, final |-> d, batch |-> e]
  PROVE  /\ [r EXCEPT !.step = x] = [step |-> x, todo |-> b, ended |-> c, final |-> d, batch |-> e]
         /\ [r EXCEPT !.todo = x] = [step |-> a, todo |-> x, ended |-> c, final |-> d, batch |-> e]
         /\ [r EXCEPT !.ended = x] = [step |-> a, todo |-> b, ended |-> x, final |-> d, batch |-> e]
         /\ [r EXCEPT !.batch = x] = [step |-> a, todo |-> b, ended |-> c, final |-> d, batch |-> x]
OBVIOUS

\* The loop goes on to its next object.
LEMMA SkipIs ==
  ASSUME IsDrain(drain), drain.step \in Visits \union {"next"}, drain.todo # <<>>
  PROVE  /\ IsDrain(Skip) /\ Skip.step = "next" /\ Skip.todo = Tail(drain.todo)
         /\ Current \in ToSet(drain.todo) /\ ToSet(Tail(drain.todo)) \subseteq ToSet(drain.todo)
<1> DEFINE todo == drain.todo
           none == <<>>
<1>1. todo \in Seq(Objects) /\ Len(todo) <= MaxPending /\ todo # <<>> /\ MaxPending \in Nat
  BY DistillationAssumption DEF IsDrain, IsQueue
<1>2. Skip = [step |-> "next", todo |-> Tail(todo), ended |-> FALSE, final |-> drain.final, batch |-> none]
  <2> DEFINE no == FALSE
             next == "next"
             rest == Tail(todo)
             step == drain.step
             last == drain.ended
             final == drain.final
             batch == drain.batch
             one == [drain EXCEPT !.step = next]
             two == [one EXCEPT !.todo = rest]
             three == [two EXCEPT !.ended = no]
  <2>1. Skip = [three EXCEPT !.batch = none]
    BY DEF Skip
  <2>2. drain = [step |-> step, todo |-> todo, ended |-> last, final |-> final, batch |-> batch]
    BY DEF IsDrain
  <2> HIDE DEF no, none, todo, rest, next, step, last, final, batch
  <2>3. one = [step |-> next, todo |-> todo, ended |-> last, final |-> final, batch |-> batch]
    BY <2>2, OneFieldIs
  <2> HIDE DEF one
  <2>4. two = [step |-> next, todo |-> rest, ended |-> last, final |-> final, batch |-> batch]
    BY <2>3, OneFieldIs
  <2> HIDE DEF two
  <2>5. three = [step |-> next, todo |-> rest, ended |-> no, final |-> final, batch |-> batch]
    BY <2>4, OneFieldIs
  <2> HIDE DEF three
  <2>6. Skip = [step |-> next, todo |-> rest, ended |-> no, final |-> final, batch |-> none]
    BY <2>1, <2>5, OneFieldIs
  <2> QED
    BY <2>6 DEF no, next, rest, final
<1> HIDE DEF none
<1>3. Skip.step = "next" /\ Skip.todo = Tail(todo) /\ Skip.ended = FALSE /\ Skip.final = drain.final
      /\ Skip.batch = none
  BY <1>2
<1> HIDE DEF todo
<1>4. /\ Tail(todo) \in Seq(Objects) /\ Len(Tail(todo)) <= MaxPending
      /\ DOMAIN todo = 1..Len(todo) /\ 1 \in 1..Len(todo) /\ Head(todo) = todo[1]
      /\ \A i \in DOMAIN Tail(todo) : i + 1 \in DOMAIN todo /\ Tail(todo)[i] = todo[i + 1]
  BY <1>1
<1>5. Head(todo) \in ToSet(todo) /\ ToSet(Tail(todo)) \subseteq ToSet(todo)
  BY <1>4 DEF ToSet
<1>6. IsDrain(Skip)
  <2>1. "next" \in Visits \union {"idle", "next"} /\ "next" \notin Visits /\ "next" # "extract"
    BY DEF Visits
  <2> QED
    BY <1>2, <1>3, <1>4, <2>1 DEF IsDrain, IsQueue
<1> QED
  BY <1>3, <1>5, <1>6 DEF Current, todo

\* What a visit leaves of the queue when its conversation leaves it.
LEMMA DequeueIs ==
  ASSUME QueueIs, drain.step \in Visits \union {"next"}, drain.todo # <<>>,
         NEW entry, entry.key = object[Current].key, Dequeue(entry)
  PROVE  /\ IsQueue(pending') /\ IsDrain(drain') /\ drain'.step = "next"
         /\ DOMAIN object' = Objects
         /\ \A o \in InUse(pending)' : o \in InUse(pending) /\ object'[o] = object[o]
<1>1. /\ IsQueue(pending) /\ IsDrain(drain) /\ DOMAIN object = Objects
      /\ ToSet(pending) \subseteq Objects /\ ToSet(drain.todo) \subseteq Objects
  BY DEF QueueIs, IsQueue, IsDrain, ToSet
<1>2. /\ IsDrain(Skip) /\ Skip.step = "next" /\ Skip.todo = Tail(drain.todo)
      /\ ToSet(Tail(drain.todo)) \subseteq ToSet(drain.todo)
  BY <1>1, SkipIs
<1> DEFINE places == {i \in DOMAIN pending : object[pending[i]].key # entry.key}
           queue == Sublist(pending, places)
<1>3. /\ drain' = Skip /\ pending' = queue
      /\ object' = [o \in Objects |-> IF o \in ToSet(queue) \union ToSet(Tail(drain.todo))
                                      THEN object[o] ELSE Unused]
  BY DEF Dequeue
<1>4. places \in SUBSET DOMAIN pending
  OBVIOUS
<1> HIDE DEF places
<1>5. IsQueue(queue) /\ ToSet(queue) \subseteq ToSet(pending)
  BY <1>1, <1>4, WithoutIs
<1> HIDE DEF queue
<1>6. InUse(pending)' = ToSet(queue) \union ToSet(Tail(drain.todo))
  BY <1>2, <1>3 DEF InUse
<1>7. InUse(pending)' \subseteq InUse(pending) /\ InUse(pending)' \subseteq Objects
  BY <1>1, <1>2, <1>5, <1>6 DEF InUse
<1> QED
  BY <1>2, <1>3, <1>5, <1>6, <1>7

\* What it leaves when its conversation stays.
Stays(entry, ended) ==
  \/ /\ drain' = Skip
     /\ object' = [object EXCEPT ![Current] = entry]
     /\ UNCHANGED <<pending, missed>>
  \/ /\ ended
     /\ drain' = [drain EXCEPT !.step = "tail", !.ended = ended, !.batch = <<>>]
     /\ object' = [object EXCEPT ![Current] = [entry EXCEPT !.summarized = TRUE]]
     /\ UNCHANGED <<pending, missed>>
LEMMA StaysIs ==
  ASSUME QueueIs, drain.step \in Visits \union {"next"}, drain.todo # <<>>,
         NEW entry, IsEntry(entry), NEW ended, Stays(entry, ended)
  PROVE  /\ IsDrain(drain')
         /\ drain'.step = "next" \/ (drain'.step = "tail" /\ ended /\ drain'.todo = drain.todo)
         /\ DOMAIN object' = Objects /\ InUse(pending)' \subseteq InUse(pending)
         /\ SameEntry(object'[Current], entry)
         /\ \A o \in InUse(pending) \ {Current} : object'[o] = object[o]
<1>1. /\ IsDrain(drain) /\ DOMAIN object = Objects
      /\ ToSet(pending) \subseteq Objects /\ ToSet(drain.todo) \subseteq Objects
  BY DEF QueueIs, IsQueue, IsDrain, ToSet
<1>2. /\ IsDrain(Skip) /\ Skip.step = "next" /\ Skip.todo = Tail(drain.todo)
      /\ Current \in ToSet(drain.todo) /\ ToSet(Tail(drain.todo)) \subseteq ToSet(drain.todo)
  BY <1>1, SkipIs
<1>3. InUse(pending) \subseteq Objects /\ Current \in Objects
  BY <1>1, <1>2 DEF InUse
<1>4. CASE /\ drain' = Skip
           /\ object' = [object EXCEPT ![Current] = entry]
           /\ UNCHANGED pending
  <2>1. DOMAIN object' = Objects /\ object'[Current] = entry
        /\ \A o \in Objects \ {Current} : object'[o] = object[o]
    BY <1>1, <1>3, <1>4
  <2>2. InUse(pending)' \subseteq InUse(pending)
    BY <1>2, <1>4 DEF InUse
  <2> QED
    BY <1>2, <1>3, <1>4, <2>1, <2>2 DEF SameEntry, SameCursor
<1>5. CASE /\ ended
           /\ drain' = [drain EXCEPT !.step = "tail", !.ended = ended, !.batch = <<>>]
           /\ object' = [object EXCEPT ![Current] = [entry EXCEPT !.summarized = TRUE]]
           /\ UNCHANGED pending
  <2> DEFINE yes == TRUE
             done == [entry EXCEPT !.summarized = yes]
             none == <<>>
  <2>1. object' = [object EXCEPT ![Current] = done] /\ SameEntry(done, entry)
    <3>1. object' = [object EXCEPT ![Current] = done]
      BY <1>5
    <3> HIDE DEF yes
    <3>2. done.key = entry.key /\ done.base = entry.base /\ done.upto = entry.upto /\ done.appended = entry.appended
      OBVIOUS
    <3> HIDE DEF done
    <3> QED
      BY <3>1, <3>2 DEF SameEntry, SameCursor
  <2> HIDE DEF done
  <2>2. DOMAIN object' = Objects /\ object'[Current] = done
        /\ \A o \in Objects \ {Current} : object'[o] = object[o]
    BY <1>1, <1>3, <2>1
  <2>3. drain' = [drain EXCEPT !.step = "tail", !.ended = ended, !.batch = none]
    BY <1>5
  <2> HIDE DEF none
  <2>4. drain' = [step |-> "tail", todo |-> drain.todo, ended |-> ended, final |-> drain.final, batch |-> none]
    BY <1>1, <2>3 DEF IsDrain
  <2>5. IsDrain(drain') /\ drain'.step = "tail" /\ drain'.todo = drain.todo
    <3>1. "tail" \in Visits /\ "tail" # "extract"
      BY DEF Visits
    <3>2. drain'.step = "tail" /\ drain'.todo = drain.todo /\ drain'.ended = ended
          /\ drain'.final = drain.final /\ drain'.batch = none
      BY <2>4
    <3>3. IsQueue(drain.todo)
      BY <1>1 DEF IsDrain
    <3> QED
      BY <2>4, <3>1, <3>2, <3>3 DEF IsDrain
  <2>6. InUse(pending)' \subseteq InUse(pending)
    BY <1>5, <2>5 DEF InUse
  <2> QED
    BY <1>3, <1>5, <2>1, <2>2, <2>5, <2>6
<1> QED
  BY <1>4, <1>5 DEF Stays

\* What is told of an entry is told of one with the same cursor.
LEMMA FollowsSame ==
  ASSUME NEW one, NEW other, SameEntry(one, other), NEW few, NEW many, few \subseteq many, Follows(other, few)
  PROVE  Follows(one, many)
BY DEF Follows, Told, SameEntry, SameCursor

\* The entries are as before but for one, whose lines are told.
LEMMA EntriesAreKept ==
  ASSUME CursorsInv, UNCHANGED <<file, fresh, due, spoiled>>, QueueIs', VisitIs', missed' \subseteq spoiled,
         NEW special,
         \A w \in Writers : writer'[w].step = "finish" => writer'[w] = writer[w],
         \A c \in Conversations : shown[c] \subseteq shown'[c],
         \A o \in InUse(pending)' :
           \/ o = special /\ Follows(object'[o], shown'[object'[o].key])
           \/ o \in InUse(pending) /\ SameEntry(object'[o], object[o])
  PROVE  CursorsInv'
<1>1. UNCHANGED <<file, fresh, due, spoiled>>
  OBVIOUS
<1>2. \A w \in Writers : (At(w, "finish") /\ writer[w].key \notin spoiled =>
        Kept(writer[w].key) /\ Longer(file[writer[w].key], writer[w].base + 2))'
  BY <1>1 DEF CursorsInv, At, Kept, Longer
<1>3. ASSUME NEW o \in InUse(pending)'
      PROVE  Followed(object[o])'
  <2> DEFINE k == object'[o].key
  <2> SUFFICES Follows(object'[o], shown'[k])
    BY <1>1 DEF Followed, Follows, Kept
  <2>1. CASE o \in InUse(pending) /\ SameEntry(object'[o], object[o])
    <3>1. k = object[o].key
      BY <2>1 DEF SameEntry, SameCursor
    <3>2. k \in Conversations
      BY <2>1, <3>1 DEF CursorsInv, QueueIs, IsEntry
    <3>3. Follows(object[o], shown[k])
      BY <2>1, <3>1 DEF CursorsInv, Followed
    <3> HIDE DEF k
    <3> QED
      BY <2>1, <3>2, <3>3, FollowsSame
  <2> QED
    BY <2>1
<1> QED
  BY <1>1, <1>2, <1>3 DEF CursorsInv, Kept

LEMMA CursorsAreKept ==
  ASSUME CursorsInv, UNCHANGED transcript, QueueIs', VisitIs', missed' \subseteq spoiled, NEW special,
         \A c \in Conversations : shown[c] \subseteq shown'[c],
         \A o \in InUse(pending)' :
           \/ o = special /\ Follows(object'[o], shown'[object'[o].key])
           \/ o \in InUse(pending) /\ SameEntry(object'[o], object[o])
  PROVE  CursorsInv'
<1>1. /\ UNCHANGED <<file, fresh, due, spoiled>>
      /\ \A w \in Writers : writer'[w].step = "finish" => writer'[w] = writer[w]
  BY DEF transcript
<1> QED
  BY <1>1, EntriesAreKept

\* A conversation leaves the queue when nothing is owed to it any more.
LEMMA DequeueKeeps ==
  ASSUME CursorsInv, drain.step \in Visits \union {"next"}, drain.todo # <<>>,
         NEW entry, entry.key = object[Current].key, IsEntry(entry), Dequeue(entry), owed' \in Nat,
         UNCHANGED transcript, DOMAIN shown' = Conversations,
         \A c \in Conversations : shown[c] \subseteq shown'[c],
         Follows(entry, shown'[entry.key]), entry.key \notin spoiled => owed' <= entry.upto
  PROVE  CursorsInv'
<1>1. QueueIs
  BY DEF CursorsInv
<1>2. /\ IsQueue(pending') /\ IsDrain(drain') /\ drain'.step = "next"
      /\ DOMAIN object' = Objects
      /\ \A o \in InUse(pending)' : o \in InUse(pending) /\ object'[o] = object[o]
  BY <1>1, DequeueIs
<1>3. QueueIs'
  BY <1>1, <1>2 DEF QueueIs
<1>4. VisitIs'
  BY <1>2 DEF VisitIs, Visits
<1>5. missed' \subseteq spoiled
  <2> DEFINE lines == file[entry.key]
             numbers == shown'[entry.key]
  <2>1. missed' = IF \E i \in DOMAIN lines : lines[i] \in (entry.base + 1)..owed' /\ lines[i] \notin numbers
                  THEN missed \union {entry.key} ELSE missed
    BY DEF Dequeue
  <2>2. missed \subseteq spoiled
    BY DEF CursorsInv
  <2>3. ASSUME entry.key \notin spoiled, NEW i \in DOMAIN lines, lines[i] \in (entry.base + 1)..owed'
        PROVE  lines[i] \in numbers
    <3>1. Told(lines, entry, numbers) /\ owed' <= entry.upto
      BY <2>3 DEF Follows
    <3>2. entry.base \in Nat /\ entry.upto \in Nat /\ owed' \in Nat
      BY DEF IsEntry
    <3>3. lines[i] \in (entry.base + 1)..entry.upto
      <4> HIDE DEF lines
      <4> QED
        BY <2>3, <3>1, <3>2
    <3> QED
      BY <3>1, <3>3 DEF Told
  <2> HIDE DEF lines, numbers
  <2> QED
    BY <2>1, <2>2, <2>3
<1> DEFINE special == 0
<1>6. \A o \in InUse(pending)' :
        \/ o = special /\ Follows(object'[o], shown'[object'[o].key])
        \/ o \in InUse(pending) /\ SameEntry(object'[o], object[o])
  BY <1>2 DEF SameEntry, SameCursor
<1> HIDE DEF special
<1> QED
  BY <1>3, <1>4, <1>5, <1>6, CursorsAreKept

\* A visit goes on after its extraction.
LEMMA AfterExtractKeeps ==
  ASSUME CursorsInv, drain.step \in Visits \union {"next"}, drain.todo # <<>>,
         NEW entry, entry.key = object[Current].key, IsEntry(entry), NEW ended, AfterExtract(entry, ended),
         UNCHANGED transcript, DOMAIN shown' = Conversations, owed' \in Nat,
         \A c \in Conversations : shown[c] \subseteq shown'[c],
         Follows(entry, shown'[entry.key]), ended /\ entry.key \notin spoiled => owed' <= entry.upto
  PROVE  CursorsInv'
<1>1. CASE ended /\ Dequeue(entry)
  BY <1>1, DequeueKeeps
<1>2. CASE Stays(entry, ended) /\ UNCHANGED <<pending, missed>>
  <2>1. QueueIs
    BY DEF CursorsInv
  <2>2. /\ IsDrain(drain')
        /\ drain'.step = "next" \/ (drain'.step = "tail" /\ ended /\ drain'.todo = drain.todo)
        /\ DOMAIN object' = Objects /\ InUse(pending)' \subseteq InUse(pending)
        /\ SameEntry(object'[Current], entry)
        /\ \A o \in InUse(pending) \ {Current} : object'[o] = object[o]
    BY <1>2, <2>1, StaysIs
  <2>3. \A o \in InUse(pending)' : IsEntry(object'[o])
    BY <2>1, <2>2 DEF QueueIs, SameEntry, SameCursor, IsEntry
  <2>4. QueueIs'
    BY <1>2, <2>1, <2>2, <2>3 DEF QueueIs
  <2>5. VisitIs'
    <3>1. CASE drain'.step = "next"
      BY <3>1 DEF VisitIs, Visits
    <3>2. CASE drain'.step = "tail" /\ ended /\ drain'.todo = drain.todo
      <4>1. Current' = Current
        BY <3>2 DEF Current
      <4>2. object'[Current].key = entry.key /\ object'[Current].upto = entry.upto
        BY <2>2 DEF SameEntry, SameCursor
      <4>3. UNCHANGED <<file, spoiled>>
        BY DEF transcript
      <4> QED
        BY <3>2, <4>1, <4>2, <4>3 DEF VisitIs, Owes
    <3> QED
      BY <2>2, <3>1, <3>2
  <2>6. missed' \subseteq spoiled
    BY <1>2 DEF CursorsInv
  <2> DEFINE special == Current
  <2>7. ASSUME NEW o \in InUse(pending)'
        PROVE  \/ o = special /\ Follows(object'[o], shown'[object'[o].key])
               \/ o \in InUse(pending) /\ SameEntry(object'[o], object[o])
    <3>1. CASE o = Current
      <4> DEFINE numbers == shown'[entry.key]
      <4>1. SameEntry(object'[o], entry) /\ object'[o].key = entry.key /\ Follows(entry, numbers)
        BY <2>2, <3>1 DEF SameEntry, SameCursor
      <4> HIDE DEF numbers
      <4>2. Follows(object'[o], numbers)
        BY <4>1, FollowsSame
      <4> QED
        BY <3>1, <4>1, <4>2 DEF numbers
    <3>2. CASE o # Current
      BY <2>2, <3>2 DEF SameEntry, SameCursor
    <3> QED
      BY <3>1, <3>2
  <2> HIDE DEF special
  <2> QED
    BY <2>4, <2>5, <2>6, <2>7, CursorsAreKept
<1>3. \/ ended /\ Dequeue(entry)
      \/ Stays(entry, ended) /\ UNCHANGED <<pending, missed>>
  BY DEF AfterExtract, Stays
<1> QED
  BY <1>1, <1>2, <1>3

\* The entry that is visited, and what is known of it.
LEMMA CurrentIs ==
  ASSUME CursorsInv, drain.todo # <<>>
  PROVE  /\ IsEntry(object[Current]) /\ object[Current].key \in Conversations
         /\ DOMAIN shown = Conversations /\ Current \in Objects /\ Current \in InUse(pending)
         /\ Followed(object[Current]) /\ owed \in Nat
<1>1. drain.todo \in Seq(Objects) /\ QueueIs
  BY DEF CursorsInv, QueueIs, IsDrain, IsQueue
<1>2. Current \in ToSet(drain.todo) /\ ToSet(drain.todo) \subseteq Objects
  BY <1>1 DEF Current, ToSet
<1>3. IsEntry(object[Current]) /\ Current \in InUse(pending)
  BY <1>1, <1>2 DEF QueueIs, InUse
<1> QED
  BY <1>1, <1>2, <1>3 DEF CursorsInv, QueueIs, IsEntry

\* A visit that has nothing more to extract.
LEMMA NothingToExtract ==
  ASSUME CursorsInv, drain.step \in Visits \union {"next"}, drain.todo # <<>>, NEW ended,
         \/ AfterExtract(object[Current], ended)
         \/ ended /\ Dequeue(object[Current]),
         UNCHANGED <<transcript, shown>>, owed' \in Nat,
         ended /\ object[Current].key \notin spoiled => owed' <= object[Current].upto
  PROVE  CursorsInv'
<1> DEFINE entry == object[Current]
<1>1. IsEntry(entry) /\ DOMAIN shown' = Conversations
  BY CurrentIs
<1>2. Follows(entry, shown'[entry.key])
  BY CurrentIs DEF Followed
<1>3. /\ entry.key = object[Current].key
      /\ AfterExtract(entry, ended) \/ (ended /\ Dequeue(entry))
      /\ ended /\ entry.key \notin spoiled => owed' <= entry.upto
  OBVIOUS
<1>4. \A c \in Conversations : shown[c] \subseteq shown'[c]
  OBVIOUS
<1> HIDE DEF entry
<1>5. CASE AfterExtract(entry, ended)
  BY <1>1, <1>2, <1>3, <1>4, <1>5, AfterExtractKeeps
<1>6. CASE ended /\ Dequeue(entry)
  BY <1>1, <1>2, <1>3, <1>4, <1>6, DequeueKeeps
<1> QED
  BY <1>3, <1>5, <1>6

\* The loop takes a step without the queue.
LEMMA LoopKeepsCursors ==
  ASSUME CursorsInv, UNCHANGED <<transcript, pending, object, missed>>, IsDrain(drain'), VisitIs',
         ToSet(drain'.todo) \subseteq InUse(pending), DOMAIN shown' = Conversations, owed' \in Nat,
         \A c \in Conversations : shown[c] \subseteq shown'[c]
  PROVE  CursorsInv'
<1>1. InUse(pending)' \subseteq InUse(pending)
  BY DEF InUse
<1>2. QueueIs' /\ missed' \subseteq spoiled
  BY <1>1 DEF CursorsInv, QueueIs
<1>3. \A o \in InUse(pending)' : o \in InUse(pending) /\ SameEntry(object'[o], object[o])
  BY <1>1 DEF SameEntry, SameCursor
<1> DEFINE special == 0
<1>4. \A o \in InUse(pending)' :
        \/ o = special /\ Follows(object'[o], shown'[object'[o].key])
        \/ o \in InUse(pending) /\ SameEntry(object'[o], object[o])
  BY <1>3
<1> HIDE DEF special
<1> QED
  BY <1>2, <1>4, CursorsAreKept

\* The loop's step, whether the conversation has ended, and what was read.
Moves(d, step, ended, batch) ==
  \/ d = [drain EXCEPT !.step = step, !.ended = ended] /\ batch = drain.batch
  \/ d = [drain EXCEPT !.step = step, !.batch = batch] /\ ended = drain.ended
  \/ d = [drain EXCEPT !.step = step] /\ ended = drain.ended /\ batch = drain.batch
LEMMA DrainMoves ==
  ASSUME IsDrain(drain), drain.todo # <<>>, NEW step \in Visits, NEW ended, NEW batch,
         step = "extract" => batch \in Seq(Nat) /\ batch # <<>>, NEW d, Moves(d, step, ended, batch)
  PROVE  IsDrain(d) /\ d.step = step /\ d.todo = drain.todo /\ d.batch = batch
<1> DEFINE todo == drain.todo
           final == drain.final
           one == [drain EXCEPT !.step = step]
           old == drain.step
           was == drain.ended
           read == drain.batch
<1>1. drain = [step |-> old, todo |-> todo, ended |-> was, final |-> final, batch |-> read]
  BY DEF IsDrain
<1>2. \/ d = [one EXCEPT !.ended = ended] /\ batch = read
      \/ d = [one EXCEPT !.batch = batch] /\ ended = was
      \/ d = one /\ ended = was /\ batch = read
  BY DEF Moves
<1>3. IsQueue(todo) /\ todo # <<>>
  BY DEF IsDrain
<1> HIDE DEF todo, final, old, was, read
<1>4. one = [step |-> step, todo |-> todo, ended |-> was, final |-> final, batch |-> read]
  BY <1>1, OneFieldIs
<1> HIDE DEF one
<1>5. d = [step |-> step, todo |-> todo, ended |-> ended, final |-> final, batch |-> batch]
  <2>1. CASE d = [one EXCEPT !.ended = ended] /\ batch = read
    BY <1>4, <2>1, OneFieldIs
  <2>2. CASE d = [one EXCEPT !.batch = batch] /\ ended = was
    BY <1>4, <2>2, OneFieldIs
  <2>3. CASE d = one /\ ended = was /\ batch = read
    BY <1>4, <2>3
  <2> QED
    BY <1>2, <2>1, <2>2, <2>3
<1>6. d.step = step /\ d.todo = todo /\ d.ended = ended /\ d.final = final /\ d.batch = batch
  BY <1>5
<1> QED
  BY <1>3, <1>5, <1>6 DEF IsDrain, todo

\* An entry is looked at: it is visited when it has lines to extract.
LEMMA VisitKeepsCursors ==
  ASSUME CursorsInv, Visit
  PROVE  CursorsInv'
<1> DEFINE entry == object[Current]
           over == drain.final \/ entry.age = "ended"
<1>1. /\ drain.step = "next" /\ drain.todo # <<>> /\ UNCHANGED <<transcript, shown>>
      /\ owed' = entry.appended
  BY DEF Visit
<1>2. IsEntry(entry) /\ Followed(entry) /\ DOMAIN shown = Conversations
  BY <1>1, CurrentIs
<1>3. owed' \in Nat
  BY <1>1, <1>2 DEF IsEntry
<1>4. CASE drain' = [drain EXCEPT !.step = "read", !.ended = over] /\ UNCHANGED <<pending, object, missed>>
  <2>1. "read" \in Visits /\ "read" # "extract" /\ IsDrain(drain)
    BY DEF Visits, CursorsInv, QueueIs
  <2> HIDE DEF over
  <2> DEFINE batch == drain.batch
             step == "read"
  <2>2. Moves(drain', step, over, batch) /\ step \in Visits
        /\ (step = "extract" => batch \in Seq(Nat) /\ batch # <<>>)
    BY <1>4, <2>1 DEF Moves
  <2> HIDE DEF step, batch
  <2>3. IsDrain(drain') /\ drain'.step = step /\ drain'.todo = drain.todo
    BY <1>1, <2>1, <2>2, DrainMoves
  <2>4. VisitIs'
    <3>1. Current' = Current /\ drain'.step = "read"
      BY <2>3 DEF Current, step
    <3>2. UNCHANGED <<file, spoiled, object>>
      BY <1>1, <1>4 DEF transcript
    <3>3. entry.key \notin spoiled => Longer(file[entry.key], owed')
      BY <1>1, <1>2 DEF Followed, Follows
    <3> QED
      BY <3>1, <3>2, <3>3 DEF VisitIs, Owes
  <2>5. DOMAIN shown' = Conversations /\ \A c \in Conversations : shown[c] \subseteq shown'[c]
    BY <1>1, <1>2
  <2>6. ToSet(drain'.todo) \subseteq InUse(pending)
    BY <2>3 DEF InUse
  <2> QED
    BY <1>1, <1>3, <1>4, <2>3, <2>4, <2>5, <2>6, LoopKeepsCursors
<1>5. CASE AfterExtract(object[Current], over) /\ (over => ~(Unextracted(entry) > 0))
  <2>1. over => owed' <= object[Current].upto
    BY <1>1, <1>2, <1>5 DEF Unextracted, IsEntry
  <2> HIDE DEF over
  <2> QED
    BY <1>1, <1>3, <1>5, <2>1, NothingToExtract
<1>6. \/ drain' = [drain EXCEPT !.step = "read", !.ended = over] /\ UNCHANGED <<pending, object, missed>>
      \/ AfterExtract(object[Current], over) /\ (over => ~(Unextracted(entry) > 0))
  BY DEF Visit
<1> QED
  BY <1>4, <1>5, <1>6

\* The lines behind the cursor are read.
LEMMA ReadKeepsCursors ==
  ASSUME CursorsInv, NumbersInv, ReadBatch
  PROVE  CursorsInv'
<1> DEFINE entry == object[Current]
           c == entry.key
           cursor == entry.upto
           lines == file[c]
           batch == ReadSince(c, cursor)
<1>1. /\ drain.step = "read" /\ UNCHANGED <<transcript, shown>> /\ drain.step \in Visits /\ drain.todo # <<>>
      /\ owed' = IF Len(batch) = MaxExtract /\ Last(batch) < owed THEN Last(batch) ELSE owed
  BY DEF ReadBatch, Visits, CursorsInv, QueueIs, IsDrain
<1>2. c \in Conversations /\ cursor \in Nat /\ Current \in Objects /\ owed \in Nat
  BY <1>1, CurrentIs DEF IsEntry
<1>3. lines \in Seq(Nat) /\ (c \notin spoiled => Rising(lines))
  BY <1>2 DEF NumbersInv, FilesAreLists
<1>4. c \notin spoiled => Longer(lines, owed)
  BY <1>1 DEF CursorsInv, VisitIs, Owes
<1>5. CASE batch = <<>> /\ AfterExtract(object[Current], drain.ended)
  <2>1. Under(lines, cursor)
    BY <1>2, <1>3, <1>5, NoBatchIs
  <2>2. owed' = owed
    BY <1>1, <1>5, DistillationAssumption
  <2>3. c \notin spoiled => owed <= cursor
    <3> HIDE DEF lines, cursor
    <3> QED
      BY <1>2, <1>3, <1>4, <2>1 DEF Longer, Under
  <2> DEFINE over == drain.ended
  <2>4. AfterExtract(object[Current], over) /\ (over /\ object[Current].key \notin spoiled => owed' <= object[Current].upto)
    BY <1>5, <2>2, <2>3
  <2> HIDE DEF over
  <2> QED
    BY <1>1, <1>2, <2>2, <2>4, NothingToExtract
<1>6. CASE batch # <<>> /\ drain' = [drain EXCEPT !.step = "extract", !.batch = batch]
           /\ UNCHANGED <<pending, object, missed>>
  <2> DEFINE step == "extract"
             over == drain.ended
  <2>1. /\ batch = ReadSince(c, cursor) /\ batch # <<>>
        /\ Moves(drain', step, over, batch) /\ step \in Visits
    BY <1>6 DEF Visits, Moves
  <2>2. UNCHANGED <<file, spoiled>>
    BY <1>1 DEF transcript
  <2>3. lines = file[c]
    OBVIOUS
  <2> HIDE DEF cursor, c, batch, lines
  <2>4. /\ batch \in Seq(Nat) /\ Last(batch) \in Nat
        /\ Rising(lines) =>
             /\ Longer(lines, Last(batch)) /\ Read(lines, cursor, batch)
             /\ Len(batch) # MaxExtract => Under(lines, Last(batch))
    BY <1>2, <1>3, <2>1, <2>3, BatchIs
  <2> HIDE DEF step, over
  <2>5. IsDrain(drain') /\ drain'.step = step /\ drain'.todo = drain.todo /\ drain'.batch = batch
    <3>1. IsDrain(drain)
      BY DEF CursorsInv, QueueIs
    <3> QED
      BY <1>1, <2>1, <2>4, <3>1, DrainMoves
  <2>6. owed' \in Nat /\ (c \notin spoiled => owed' <= Last(batch))
    <3>1. CASE Len(batch) = MaxExtract
      BY <1>1, <1>2, <2>4, <3>1
    <3>2. CASE Len(batch) # MaxExtract
      <4>1. owed' = owed
        BY <1>1, <3>2
      <4>2. ASSUME c \notin spoiled PROVE owed <= Last(batch)
        <5>1. PICK i \in DOMAIN lines : owed <= lines[i]
          BY <1>4, <4>2 DEF Longer
        <5>2. lines[i] \in Nat /\ lines[i] <= Last(batch)
          BY <1>3, <2>4, <3>2, <4>2, <5>1 DEF Under
        <5> QED
          BY <1>2, <2>4, <5>1, <5>2
      <4> QED
        BY <1>2, <4>1, <4>2
    <3> QED
      BY <3>1, <3>2
  <2>7. VisitIs'
    <3>1. Current' = Current /\ drain'.step = "extract" /\ drain'.batch = batch
      BY <2>5 DEF Current, step
    <3>2. c \notin spoiled => Longer(lines, Last(batch)) /\ Read(lines, cursor, batch) /\ owed' <= Last(batch)
      BY <1>3, <2>4, <2>6
    <3> QED
      BY <1>6, <2>2, <3>1, <3>2 DEF VisitIs, Owes, c, cursor, lines
  <2>8. DOMAIN shown' = Conversations /\ \A q \in Conversations : shown[q] \subseteq shown'[q]
    BY <1>1 DEF CursorsInv, QueueIs
  <2>9. ToSet(drain'.todo) \subseteq InUse(pending)
    BY <2>5 DEF InUse
  <2> QED
    BY <1>1, <1>6, <2>5, <2>6, <2>7, <2>8, <2>9, LoopKeepsCursors
<1> QED
  BY <1>5, <1>6 DEF ReadBatch

\* What was read is handed to the extraction, and the cursor moves behind it.
LEMMA ExtractKeepsCursors ==
  ASSUME CursorsInv, NumbersInv, Extract
  PROVE  CursorsInv'
<1> DEFINE entry == object[Current]
           c == entry.key
           batch == drain.batch
           last == Last(batch)
           new == [entry EXCEPT !.upto = last]
           numbers == shown[c] \union ToSet(batch)
           ended == drain.ended
<1>1. /\ drain.step = "extract" /\ drain.step \in Visits /\ drain.todo # <<>> /\ UNCHANGED <<transcript, owed>>
      /\ batch \in Seq(Nat) /\ batch # <<>>
  BY DEF Extract, Visits, CursorsInv, QueueIs, IsDrain
<1>2. AfterExtract(new, ended) /\ shown' = [shown EXCEPT ![c] = numbers]
  BY DEF Extract, NewCursor
<1>3. last \in Nat
  <2> HIDE DEF batch
  <2>1. Last(batch) = batch[Len(batch)] /\ Len(batch) \in DOMAIN batch
    BY <1>1 DEF Last
  <2> QED
    BY <1>1, <2>1
<1>4. /\ IsEntry(entry) /\ c \in Conversations /\ DOMAIN shown = Conversations /\ Current \in Objects
      /\ Follows(entry, shown[c]) /\ owed \in Nat
  BY <1>1, CurrentIs DEF Followed
<1>5. c \notin spoiled =>
        Longer(file[c], last) /\ Read(file[c], entry.upto, batch) /\ owed <= last
  BY <1>1 DEF CursorsInv, VisitIs, Owes
<1>6. new.key = c /\ new.base = entry.base /\ new.upto = last /\ new.appended = entry.appended
  <2>1. entry.key = c
    OBVIOUS
  <2> HIDE DEF last, entry
  <2>2. new.key = entry.key /\ new.base = entry.base /\ new.upto = last /\ new.appended = entry.appended
    BY <1>4 DEF IsEntry
  <2> QED
    BY <2>1, <2>2
<1>7. IsEntry(new)
  <2> HIDE DEF new, c, last
  <2> QED
    BY <1>3, <1>4, <1>6 DEF IsEntry
<1>8. entry.base \in Nat /\ entry.upto \in Nat /\ file[c] \in Seq(Nat)
  BY <1>4 DEF IsEntry, NumbersInv, FilesAreLists
<1>9. ASSUME c \notin spoiled
      PROVE  Told(file[c], new, numbers)
  <2> DEFINE lines == file[c]
             base == entry.base
             upto == entry.upto
  <2>1. /\ \A i \in DOMAIN lines : lines[i] \in (base + 1)..upto => lines[i] \in shown[c]
        /\ \A i \in DOMAIN lines : lines[i] \in (upto + 1)..last => lines[i] \in ToSet(batch)
    BY <1>4, <1>5, <1>9 DEF Follows, Told, Read
  <2> SUFFICES ASSUME NEW i \in DOMAIN lines, lines[i] \in (base + 1)..last PROVE lines[i] \in numbers
    BY <1>6 DEF Told
  <2>2. lines[i] \in Nat /\ base \in Nat /\ upto \in Nat
    BY <1>8
  <2> HIDE DEF lines, base, upto, last, numbers
  <2>3. lines[i] \in (base + 1)..upto \/ lines[i] \in (upto + 1)..last
    BY <1>3, <2>2
  <2> QED
    BY <2>1, <2>3 DEF numbers
<1>10. Follows(new, numbers)
  <2>1. c \notin spoiled => Kept(c) /\ Longer(file[c], entry.appended)
    BY <1>4 DEF Follows
  <2> HIDE DEF new, numbers, last, c
  <2> QED
    BY <1>5, <1>6, <1>9, <2>1 DEF Follows
<1> HIDE DEF new, numbers, batch, last, ended
<1>11. DOMAIN shown' = Conversations /\ shown'[c] = numbers /\ \A q \in Conversations : shown[q] \subseteq shown'[q]
  BY <1>2, <1>4 DEF numbers
<1>12. new.key = object[Current].key /\ Follows(new, shown'[new.key])
  BY <1>6, <1>10, <1>11
<1>13. owed' \in Nat /\ (ended /\ new.key \notin spoiled => owed' <= new.upto)
  BY <1>1, <1>4, <1>5, <1>6
<1> QED
  BY <1>1, <1>2, <1>7, <1>11, <1>12, <1>13, AfterExtractKeeps

\* A visit takes one of its steps.
LEMMA VisitingKeepsCursors ==
  ASSUME CursorsInv, NumbersInv, Visiting
  PROVE  CursorsInv'
<1> DEFINE over == TRUE
<1>1. ASSUME drain.step \in {"tail", "summarize"}, drain.todo # <<>>
      PROVE  owed \in Nat /\ (object[Current].key \notin spoiled => owed <= object[Current].upto)
  <2>1. object[Current].key \notin spoiled => owed <= object[Current].upto
    BY <1>1 DEF CursorsInv, VisitIs, Visits, Owes
  <2> QED
    BY <1>1, <2>1, CurrentIs
<1>2. CASE Tailing
  <2>1. /\ drain.step = "tail" /\ drain.step \in Visits /\ drain.todo # <<>>
        /\ UNCHANGED <<transcript, shown, owed>>
    BY <1>2 DEF Tailing, Visits, CursorsInv, QueueIs, IsDrain
  <2>2. CASE Dequeue(object[Current])
    <3>1. over /\ Dequeue(object[Current])
      BY <2>2
    <3> HIDE DEF over
    <3> QED
      BY <1>1, <2>1, <3>1, NothingToExtract
  <2>3. CASE drain' = [drain EXCEPT !.step = "summarize"] /\ UNCHANGED <<pending, object, missed>>
    <3> DEFINE step == "summarize"
               ended == drain.ended
               batch == drain.batch
    <3>1. step \in Visits /\ step # "extract" /\ IsDrain(drain) /\ Moves(drain', step, ended, batch)
      BY <2>3 DEF Visits, Moves, CursorsInv, QueueIs
    <3> HIDE DEF step, ended, batch
    <3>2. IsDrain(drain') /\ drain'.step = step /\ drain'.todo = drain.todo
      BY <2>1, <3>1, DrainMoves
    <3>3. VisitIs'
      <4>1. Current' = Current /\ drain'.step = "summarize"
        BY <3>2 DEF Current, step
      <4>2. UNCHANGED <<file, spoiled, object, owed>>
        BY <2>1, <2>3 DEF transcript
      <4> QED
        BY <1>1, <2>1, <4>1, <4>2 DEF VisitIs, Owes
    <3>4. DOMAIN shown' = Conversations /\ \A c \in Conversations : shown[c] \subseteq shown'[c]
      BY <2>1 DEF CursorsInv, QueueIs
    <3>5. ToSet(drain'.todo) \subseteq InUse(pending) /\ owed' \in Nat
      BY <1>1, <2>1, <3>2 DEF InUse
    <3> QED
      BY <2>1, <2>3, <3>2, <3>3, <3>4, <3>5, LoopKeepsCursors
  <2> QED
    BY <1>2, <2>2, <2>3 DEF Tailing
<1>3. CASE Summarize
  <2>1. /\ drain.step = "summarize" /\ drain.step \in Visits /\ drain.todo # <<>>
        /\ UNCHANGED <<transcript, shown, owed>>
        /\ over /\ Dequeue(object[Current])
    BY <1>3 DEF Summarize, Visits, CursorsInv, QueueIs, IsDrain
  <2> HIDE DEF over
  <2> QED
    BY <1>1, <2>1, NothingToExtract
<1> QED
  BY <1>2, <1>3, VisitKeepsCursors, ReadKeepsCursors, ExtractKeepsCursors DEF Visiting

\* The memory cannot be stored: the cursor stays.
LEMMA FailureKeepsCursors ==
  ASSUME CursorsInv, StoreFails
  PROVE  CursorsInv'
<1>1. /\ drain.step \in Visits /\ drain.todo # <<>> /\ UNCHANGED <<transcript, pending, object, owed, missed>>
      /\ drain' = Skip /\ IsDrain(drain)
      /\ \/ shown' = [shown EXCEPT ![object[Current].key] = @ \union ToSet(drain.batch)]
         \/ shown' = shown
  BY DEF StoreFails, history, Visits, CursorsInv, QueueIs, IsDrain
<1>2. IsDrain(Skip) /\ Skip.step = "next" /\ Skip.todo = Tail(drain.todo)
      /\ ToSet(Tail(drain.todo)) \subseteq ToSet(drain.todo)
  BY <1>1, SkipIs
<1>3. DOMAIN shown' = Conversations /\ \A c \in Conversations : shown[c] \subseteq shown'[c]
  <2>1. DOMAIN shown = Conversations
    BY DEF CursorsInv, QueueIs
  <2> QED
    BY <1>1, <2>1
<1>4. VisitIs' /\ IsDrain(drain') /\ ToSet(drain'.todo) \subseteq InUse(pending) /\ owed' \in Nat
  BY <1>1, <1>2 DEF VisitIs, Visits, InUse, CursorsInv, QueueIs
<1> QED
  BY <1>1, <1>3, <1>4, LoopKeepsCursors

\* The loop begins with the queue as it is.
LEMMA FullDrainIs ==
  ASSUME IsQueue(pending),
         NEW d, \/ d = [NoDrain EXCEPT !.step = "next", !.todo = pending]
                \/ d = [NoDrain EXCEPT !.step = "next", !.todo = pending, !.final = TRUE]
                \/ d = NoDrain
  PROVE  /\ IsDrain(d) /\ d.step \in {"idle", "next"}
         /\ d.todo = pending \/ d.todo = <<>>
<1> DEFINE todo == IF d = NoDrain THEN <<>> ELSE pending
<1>1. PICK step \in {"idle", "next"}, final \in BOOLEAN :
        d = [step |-> step, todo |-> todo, ended |-> FALSE, final |-> final, batch |-> <<>>]
  BY DEF NoDrain
<1>2. IsQueue(todo)
  <2>1. <<>> \in Seq(Objects) /\ Len(<<>>) = 0 /\ MaxPending \in Nat
    BY DistillationAssumption
  <2>2. IsQueue(<<>>)
    BY <2>1 DEF IsQueue
  <2> QED
    BY <2>2
<1>3. todo = pending \/ todo = <<>>
  OBVIOUS
<1> DEFINE none == <<>>
           no == FALSE
<1>4. d = [step |-> step, todo |-> todo, ended |-> no, final |-> final, batch |-> none]
  BY <1>1
<1> HIDE DEF todo, none, no
<1>5. d.step = step /\ d.todo = todo /\ d.ended = no /\ d.final = final /\ d.batch = none
  BY <1>4
<1>6. step \notin Visits /\ step # "extract" /\ step \in Visits \union {"idle", "next"}
  BY DEF Visits
<1> QED
  BY <1>2, <1>3, <1>4, <1>5, <1>6 DEF IsDrain

LEMMA LoopEndsKeepCursors ==
  ASSUME CursorsInv, StartDrain \/ EndDrain \/ Close
  PROVE  CursorsInv'
<1>1. /\ UNCHANGED <<transcript, pending, shown, owed, missed>>
      /\ \/ drain' = [NoDrain EXCEPT !.step = "next", !.todo = pending]
         \/ drain' = [NoDrain EXCEPT !.step = "next", !.todo = pending, !.final = TRUE]
         \/ drain' = NoDrain
      /\ \/ object' = object
         \/ object' = [o \in Objects |-> IF o \in ToSet(pending) THEN object[o] ELSE Unused]
  BY DEF StartDrain, EndDrain, Close, history
<1>2. /\ IsQueue(pending) /\ DOMAIN object = Objects /\ DOMAIN shown = Conversations
      /\ \A o \in ToSet(pending) : IsEntry(object[o]) /\ o \in Objects
  BY DEF CursorsInv, QueueIs, InUse, IsQueue, ToSet
<1> DEFINE d == drain'
<1>3. IsDrain(drain') /\ drain'.step \in {"idle", "next"} /\ (drain'.todo = pending \/ drain'.todo = <<>>)
  BY <1>1, <1>2, FullDrainIs
<1>4. ToSet(drain'.todo) \subseteq ToSet(pending)
  <2>1. ToSet(<<>>) = {}
    BY DEF ToSet
  <2> QED
    BY <1>3, <2>1
<1>5. DOMAIN object' = Objects /\ \A o \in ToSet(pending) : object'[o] = object[o]
  BY <1>1, <1>2
<1>6. InUse(pending)' = ToSet(pending) /\ ToSet(pending) \subseteq InUse(pending)
  BY <1>1, <1>4 DEF InUse
<1>7. QueueIs' /\ missed' \subseteq spoiled
  BY <1>1, <1>2, <1>3, <1>5, <1>6 DEF QueueIs, CursorsInv
<1>8. VisitIs'
  BY <1>3 DEF VisitIs, Visits
<1> DEFINE special == 0
<1>9. \A o \in InUse(pending)' :
        \/ o = special /\ Follows(object'[o], shown'[object'[o].key])
        \/ o \in InUse(pending) /\ SameEntry(object'[o], object[o])
  BY <1>5, <1>6 DEF SameEntry, SameCursor
<1> HIDE DEF special
<1>10. \A c \in Conversations : shown[c] \subseteq shown'[c]
  BY <1>1
<1> QED
  BY <1>1, <1>7, <1>8, <1>9, <1>10, CursorsAreKept

\* A conversation grows quiet.
LEMMA AgeingKeepsCursors ==
  ASSUME CursorsInv, NEW o \in Objects, GrowOld(o)
  PROVE  CursorsInv'
<1> DEFINE age == IF object[o].age = "recent" THEN "quiet" ELSE "ended"
           older == [object[o] EXCEPT !.age = age]
<1>1. drain.step = "idle" /\ object' = [object EXCEPT ![o] = older]
      /\ UNCHANGED <<transcript, pending, drain, shown, owed, missed>> /\ o \in ToSet(pending)
  BY DEF GrowOld, history
<1>2. QueueIs /\ DOMAIN object = Objects /\ IsEntry(object[o])
  BY <1>1 DEF CursorsInv, QueueIs, InUse
<1>3. SameEntry(older, object[o]) /\ IsEntry(older)
  <2> HIDE DEF age
  <2>1. older.key = object[o].key /\ older.base = object[o].base /\ older.upto = object[o].upto
        /\ older.appended = object[o].appended
    BY <1>2 DEF IsEntry
  <2> HIDE DEF older
  <2> QED
    BY <1>2, <2>1 DEF SameEntry, SameCursor, IsEntry
<1> HIDE DEF older
<1>4. DOMAIN object' = Objects /\ object'[o] = older /\ \A p \in Objects \ {o} : object'[p] = object[p]
  BY <1>1, <1>2
<1>5. \A p \in InUse(pending) : p \in Objects /\ SameEntry(object'[p], object[p]) /\ IsEntry(object'[p])
  <2>1. \A p \in InUse(pending) : p \in Objects /\ IsEntry(object[p])
    BY <1>2 DEF QueueIs, InUse, IsQueue, IsDrain, ToSet
  <2> QED
    BY <1>3, <1>4, <2>1 DEF SameEntry, SameCursor
<1>6. QueueIs' /\ missed' \subseteq spoiled
  BY <1>1, <1>2, <1>4, <1>5 DEF QueueIs, InUse, CursorsInv
<1>7. VisitIs'
  BY <1>1 DEF VisitIs, Visits
<1> DEFINE special == 0
<1>8. \A p \in InUse(pending)' :
        \/ p = special /\ Follows(object'[p], shown'[object'[p].key])
        \/ p \in InUse(pending) /\ SameEntry(object'[p], object[p])
  BY <1>1, <1>5 DEF InUse
<1> HIDE DEF special
<1>9. \A c \in Conversations : shown[c] \subseteq shown'[c]
  BY <1>1
<1> QED
  BY <1>1, <1>6, <1>7, <1>8, <1>9, CursorsAreKept

\* The queue and the loop see a file of which only later lines change.
Watched(c) ==
  \/ \E o \in InUse(pending) : object[o].key = c
  \/ \E w \in Writers : At(w, "finish") /\ writer[w].key = c
GoesOn(lines, later) ==
  \A n \in Nat : Longer(lines, n) =>
    /\ Longer(later, n)
    /\ \A i \in DOMAIN later : later[i] <= n => \E j \in DOMAIN lines : later[i] = lines[j]

LEMMA GoesOnTells ==
  ASSUME NEW lines \in Seq(Nat), NEW later \in Seq(Nat), GoesOn(lines, later), NEW n \in Nat, Longer(lines, n),
         NEW m \in Nat, NEW S, \A i \in DOMAIN lines : lines[i] \in (m + 1)..n => lines[i] \in S
  PROVE  Longer(later, n) /\ \A i \in DOMAIN later : later[i] \in (m + 1)..n => later[i] \in S
<1>1. /\ Longer(later, n)
      /\ \A i \in DOMAIN later : later[i] <= n => \E j \in DOMAIN lines : later[i] = lines[j]
  BY DEF GoesOn
<1>2. ASSUME NEW i \in DOMAIN later, later[i] \in (m + 1)..n
      PROVE  later[i] \in S
  <2>1. later[i] <= n
    BY <1>2
  <2>2. PICK j \in DOMAIN lines : later[i] = lines[j]
    BY <1>1, <2>1
  <2> QED
    BY <1>2, <2>2
<1> QED
  BY <1>1, <1>2

\* A step of the transcripts: whoever watches a file still finds its lines.
LEMMA FilesKeepCursors ==
  ASSUME CursorsInv, NumbersInv, NumbersInv', UNCHANGED <<pending, object, drain, owed, missed>>,
         DOMAIN shown' = Conversations,
         spoiled \subseteq spoiled', DOMAIN fresh' = Conversations, DOMAIN due' = Conversations,
         \A c \in Conversations \ spoiled' : Watched(c) =>
           fresh'[c] /\ ~due'[c] /\ shown'[c] = shown[c] /\ GoesOn(file[c], file'[c]),
         \A w \in Writers : writer'[w].step = "finish" /\ writer'[w].key \notin spoiled' =>
           \/ writer'[w] = writer[w]
           \/ /\ fresh'[writer'[w].key] /\ ~due'[writer'[w].key]
              /\ Longer(file'[writer'[w].key], writer'[w].base + 2)
  PROVE  CursorsInv'
<1>1. \A c \in Conversations : file[c] \in Seq(Nat) /\ file'[c] \in Seq(Nat)
  BY DEF NumbersInv, FilesAreLists
<1>2. QueueIs'
  BY DEF CursorsInv, QueueIs, InUse
<1>3. ASSUME NEW o \in InUse(pending)
      PROVE  Followed(object[o])'
  <2> DEFINE c == object[o].key
             base == object[o].base
             upto == object[o].upto
             all == object[o].appended
             lines == file[c]
             later == file'[c]
             numbers == shown[c]
  <2>1. c \in Conversations /\ base \in Nat /\ upto \in Nat /\ all \in Nat
    BY DEF CursorsInv, QueueIs, IsEntry
  <2>2. SUFFICES ASSUME c \notin spoiled'
                 PROVE  /\ fresh'[c] /\ ~due'[c] /\ Longer(later, upto) /\ Longer(later, all)
                        /\ \A i \in DOMAIN later : later[i] \in (base + 1)..upto => later[i] \in shown'[c]
    BY DEF Followed, Follows, Kept, Told
  <2>3. /\ Longer(lines, upto) /\ Longer(lines, all)
        /\ \A i \in DOMAIN lines : lines[i] \in (base + 1)..upto => lines[i] \in numbers
    <3>1. Followed(object[o]) /\ c \notin spoiled
      BY <2>2 DEF CursorsInv
    <3> QED
      BY <3>1 DEF Followed, Follows, Told
  <2>4. fresh'[c] /\ ~due'[c] /\ shown'[c] = numbers /\ GoesOn(lines, later)
    BY <2>1, <2>2 DEF Watched
  <2>5. lines \in Seq(Nat) /\ later \in Seq(Nat)
    BY <1>1, <2>1
  <2> HIDE DEF lines, later, numbers, base, upto, all, c
  <2>6. Longer(later, upto) /\ \A i \in DOMAIN later : later[i] \in (base + 1)..upto => later[i] \in numbers
    <3>1. GoesOn(lines, later) /\ base \in Nat /\ upto \in Nat
      BY <2>1, <2>4
    <3> QED
      BY <2>3, <2>5, <3>1, GoesOnTells
  <2>7. Longer(later, all)
    BY <2>1, <2>3, <2>4 DEF GoesOn
  <2> QED
    BY <2>4, <2>6, <2>7
<1>4. VisitIs'
  <2> DEFINE c == object[Current].key
             cursor == object[Current].upto
             batch == drain.batch
             last == Last(batch)
             lines == file[c]
             later == file'[c]
             numbers == ToSet(batch)
  <2>1. SUFFICES ASSUME drain.step \in Visits, c \notin spoiled'
                 PROVE  Owes(drain.step, later, cursor, batch, owed)
    BY DEF VisitIs, Current
  <2>2. drain.todo # <<>>
    BY <2>1 DEF CursorsInv, QueueIs, IsDrain
  <2>3. c \in Conversations /\ cursor \in Nat /\ owed \in Nat /\ Current \in InUse(pending)
    BY <2>2, CurrentIs DEF IsEntry
  <2>4. Owes(drain.step, lines, cursor, batch, owed)
    BY <2>1 DEF CursorsInv, VisitIs
  <2>5. GoesOn(lines, later) /\ lines \in Seq(Nat) /\ later \in Seq(Nat)
    BY <1>1, <2>1, <2>3 DEF Watched
  <2>6. CASE drain.step = "extract"
    <3>1. batch \in Seq(Nat) /\ batch # <<>>
      BY <2>6 DEF CursorsInv, QueueIs, IsDrain
    <3>2. last \in Nat
      <4> HIDE DEF batch
      <4>1. Last(batch) = batch[Len(batch)] /\ Len(batch) \in DOMAIN batch
        BY <3>1 DEF Last
      <4> QED
        BY <3>1, <4>1
    <3>3. /\ Longer(lines, last) /\ owed <= last
          /\ \A i \in DOMAIN lines : lines[i] \in (cursor + 1)..last => lines[i] \in numbers
      BY <2>4, <2>6 DEF Owes, Read
    <3> HIDE DEF lines, later, numbers, cursor, last
    <3>4. Longer(later, last) /\ \A i \in DOMAIN later : later[i] \in (cursor + 1)..last => later[i] \in numbers
      BY <2>3, <2>5, <3>2, <3>3, GoesOnTells
    <3> QED
      BY <2>6, <3>3, <3>4 DEF Owes, Read, last, numbers
  <2>7. CASE drain.step # "extract"
    <3> HIDE DEF lines, later
    <3> QED
      BY <2>3, <2>4, <2>5, <2>7 DEF Owes, GoesOn
  <2> QED
    BY <2>6, <2>7
<1>5. ASSUME NEW w \in Writers, writer'[w].step = "finish", writer'[w].key \notin spoiled'
      PROVE  /\ fresh'[writer'[w].key] /\ ~due'[writer'[w].key]
             /\ Longer(file'[writer'[w].key], writer'[w].base + 2)
  <2>1. CASE writer'[w] = writer[w]
    <3> DEFINE c == writer[w].key
               n == writer[w].base + 2
    <3>1. c \in Conversations /\ n \in Nat
      BY <1>5, <2>1 DEF NumbersInv, FilesAreLists, Recorder, Idle
    <3>2. Longer(file[c], n) /\ Watched(c) /\ c \notin spoiled'
      BY <1>5, <2>1 DEF CursorsInv, At, Watched
    <3>3. fresh'[c] /\ ~due'[c] /\ GoesOn(file[c], file'[c])
      BY <3>1, <3>2
    <3> HIDE DEF c, n
    <3>4. Longer(file'[c], n)
      BY <3>1, <3>2, <3>3 DEF GoesOn
    <3> QED
      BY <2>1, <3>3, <3>4 DEF c, n
  <2> QED
    BY <1>5, <2>1
<1>6. (missed \subseteq spoiled)' /\ InUse(pending)' = InUse(pending)
  BY DEF CursorsInv, InUse
<1> QED
  BY <1>2, <1>3, <1>4, <1>5, <1>6 DEF CursorsInv, At, Kept

LEMMA SameGoesOn ==
  ASSUME NEW lines
  PROVE  GoesOn(lines, lines)
BY DEF GoesOn

\* A request writes nothing.
LEMMA RequestsKeepCursors ==
  ASSUME CursorsInv, NumbersInv, NumbersInv', NEW w \in Writers, UNCHANGED distillation,
         Start(w) \/ AcquireLock(w) \/ ReadNumber(w) \/ AppendFails(w) \/ CancelAppend(w)
  PROVE  CursorsInv'
<1>1. writer \in [Writers -> Recorder \union {Idle}] /\ DOMAIN shown = Conversations
  BY DEF NumbersInv, FilesAreLists, CursorsInv, QueueIs
<1>2. UNCHANGED <<file, fresh, due>> /\ spoiled \subseteq spoiled'
  BY DEF Start, StartAppend, AcquireLock, ReadNumber, AppendFails, CancelAppend
<1>3. PICK x : writer' = [writer EXCEPT ![w] = x] /\ x.step # "finish"
  <2>1. CASE Start(w)
    <3>1. PICK c \in Conversations, distil \in BOOLEAN : StartAppend(w, c, distil)
      BY <2>1 DEF Start
    <3> DEFINE x == [step |-> "wait", key |-> c, distil |-> distil, base |-> 0]
    <3>2. writer' = [writer EXCEPT ![w] = x]
      BY <3>1 DEF StartAppend
    <3>3. x.step = "wait"
      OBVIOUS
    <3> HIDE DEF x
    <3> QED
      BY <3>2, <3>3
  <2>2. CASE AcquireLock(w)
    <3> DEFINE old == writer[w]
               c == old.key
    <3>1. old \in Recorder
      BY <1>1, <2>2 DEF AcquireLock, At, Idle
    <3>2. writer' = [writer EXCEPT ![w] = IF Cached(c) THEN [old EXCEPT !.step = "write", !.base = CachedNumber(c)]
                                          ELSE [old EXCEPT !.step = "number"]]
      BY <2>2 DEF AcquireLock
    <3> HIDE DEF old, c
    <3>3. CASE Cached(c)
      <4> DEFINE n == CachedNumber(c)
                 x == [old EXCEPT !.step = "write", !.base = n]
      <4>1. writer' = [writer EXCEPT ![w] = x]
        BY <3>2, <3>3
      <4> HIDE DEF n
      <4>2. x.step = "write"
        BY <3>1 DEF Recorder
      <4> QED
        BY <4>1, <4>2
    <3>4. CASE ~Cached(c)
      <4> DEFINE x == [old EXCEPT !.step = "number"]
      <4>1. writer' = [writer EXCEPT ![w] = x]
        BY <3>2, <3>4
      <4>2. x.step = "number"
        BY <3>1 DEF Recorder
      <4> QED
        BY <4>1, <4>2
    <3> QED
      BY <3>3, <3>4
  <2>3. CASE ReadNumber(w)
    <3> DEFINE n == LastSeq(file[writer[w].key])
               x == [writer[w] EXCEPT !.step = "write", !.base = n]
    <3>1. writer' = [writer EXCEPT ![w] = x] \/ writer' = [writer EXCEPT ![w] = Idle]
      BY <2>3 DEF ReadNumber
    <3> HIDE DEF n
    <3>2. x.step = "write" /\ Idle.step # "finish"
      BY <1>1, <2>3 DEF ReadNumber, At, Idle, Recorder
    <3> QED
      BY <3>1, <3>2
  <2>4. CASE AppendFails(w)
    <3>1. writer' = [writer EXCEPT ![w] = Idle] /\ Idle.step # "finish"
      BY <2>4 DEF AppendFails, Idle
    <3> QED
      BY <3>1
  <2>5. CASE CancelAppend(w)
    <3> DEFINE x == [writer[w] EXCEPT !.step = "orphan"]
    <3>1. x.step = "orphan"
      BY <1>1, <2>5 DEF CancelAppend, At, Idle, Recorder
    <3>2. writer' = [writer EXCEPT ![w] = Idle] \/ writer' = [writer EXCEPT ![w] = x]
      BY <2>5 DEF CancelAppend
    <3>3. Idle.step # "finish"
      BY DEF Idle
    <3> QED
      BY <3>1, <3>2, <3>3
  <2> QED
    BY <2>1, <2>2, <2>3, <2>4, <2>5
<1>4. \A v \in Writers : writer'[v].step = "finish" => writer'[v] = writer[v]
  BY <1>1, <1>3
<1>5. /\ UNCHANGED <<pending, object, drain, owed, missed>> /\ DOMAIN shown' = Conversations
      /\ DOMAIN fresh' = Conversations /\ DOMAIN due' = Conversations
  BY <1>1, <1>2 DEF distillation, CursorsInv
<1>6. \A c \in Conversations \ spoiled' : Watched(c) =>
        fresh'[c] /\ ~due'[c] /\ shown'[c] = shown[c] /\ GoesOn(file[c], file'[c])
  <2> SUFFICES ASSUME NEW c \in Conversations \ spoiled', Watched(c) PROVE Kept(c)
    BY <1>2, SameGoesOn DEF Kept, distillation
  <2> QED
    BY <1>2 DEF Watched, CursorsInv, Followed, Follows
<1> QED
  BY <1>2, <1>4, <1>5, <1>6, FilesKeepCursors

\* Whoever watches a conversation finds its file, and no sweep about to remove it.
LEMMA WatchedIsKept ==
  ASSUME CursorsInv, NEW c, Watched(c), c \notin spoiled
  PROVE  fresh[c] /\ ~due[c]
BY DEF Watched, CursorsInv, Followed, Follows, Kept

\* New lines have larger numbers than all that were there.
LEMMA WrittenGoesOn ==
  ASSUME FilesAreLists, NEW c \in Conversations, NEW n \in Nat, UpTo(c, n)
  PROVE  GoesOn(file[c], Written(c, n)) /\ Longer(Written(c, n), n + 2)
<1> DEFINE lines == file[c]
           later == Written(c, n)
<1>1. /\ later \in Seq(Nat) /\ \E i \in DOMAIN later : later[i] = n + 2
      /\ \A i \in DOMAIN later : later[i] \in {n + 1, n + 2} \/ \E j \in DOMAIN lines : later[i] = lines[j]
      /\ lines \in Seq(Nat) /\ \A i \in DOMAIN lines : lines[i] <= n
  <2>1. lines \in Seq(Nat) /\ \A i \in DOMAIN lines : lines[i] <= n
    BY DEF FilesAreLists, UpTo, Under
  <2> QED
    BY <2>1, WrittenIs
<1> HIDE DEF lines, later
<1>2. Longer(later, n + 2)
  BY <1>1 DEF Longer
<1>3. ASSUME NEW m \in Nat, Longer(lines, m)
      PROVE  Longer(later, m) /\ \A i \in DOMAIN later : later[i] <= m => \E j \in DOMAIN lines : later[i] = lines[j]
  <2>1. m <= n
    <3>1. PICK i \in DOMAIN lines : m <= lines[i]
      BY <1>3 DEF Longer
    <3>2. lines[i] \in Nat /\ lines[i] <= n
      BY <1>1
    <3> QED
      BY <3>1, <3>2
  <2>2. Longer(later, m)
    <3>1. PICK i \in DOMAIN later : later[i] = n + 2
      BY <1>1
    <3> QED
      BY <2>1, <3>1 DEF Longer
  <2>3. ASSUME NEW i \in DOMAIN later, later[i] <= m
        PROVE  \E j \in DOMAIN lines : later[i] = lines[j]
    <3>1. ~(later[i] \in {n + 1, n + 2})
      BY <2>1, <2>3
    <3> QED
      BY <1>1, <3>1
  <2> QED
    BY <2>2, <2>3
<1> QED
  BY <1>2, <1>3 DEF GoesOn, lines, later

\* An exchange is written, by its request or by a thread that nobody waits for.
LEMMA WritesKeepCursors ==
  ASSUME CursorsInv, NumbersInv, NumbersInv', NEW w \in Writers, UNCHANGED distillation,
         Write(w) \/ OrphanWrite(w)
  PROVE  CursorsInv'
<1> DEFINE k == writer[w].key
           n == writer[w].base
           lines == Written(k, n)
           x == IF At(w, "write") THEN [writer[w] EXCEPT !.step = "finish"] ELSE Idle
<1>1. /\ FilesAreLists /\ OneAtATime /\ CountersAreCurrent /\ DOMAIN shown = Conversations
  BY DEF NumbersInv, CursorsInv, QueueIs
<1>2. /\ At(w, "write") \/ (At(w, "orphan") /\ k \in spoiled)
      /\ file' = [file EXCEPT ![k] = lines] /\ fresh' = [fresh EXCEPT ![k] = TRUE]
      /\ spoiled' = (IF due[k] THEN spoiled \union {k} ELSE spoiled)
      /\ writer' = [writer EXCEPT ![w] = x] /\ UNCHANGED due
  BY <1>1 DEF Write, OrphanWrite, PutLines, At, OneAtATime
<1>3. k \in Conversations /\ n \in Nat /\ writer[w] \in Recorder /\ writer \in [Writers -> Recorder \union {Idle}]
  BY <1>1, <1>2 DEF FilesAreLists, Idle, Recorder, At
<1>4. \/ At(w, "write") /\ x.step = "finish" /\ x.key = k /\ x.base = n
      \/ k \in spoiled /\ x.step = "idle"
  BY <1>2, <1>3 DEF Recorder, Idle, At
<1>5. k \notin spoiled' => k \notin spoiled /\ ~due[k] /\ At(w, "write") /\ UpTo(k, n)
  BY <1>1, <1>2 DEF CountersAreCurrent, UpTo
<1>6. k \notin spoiled' => GoesOn(file[k], lines) /\ Longer(lines, n + 2)
  <2> HIDE DEF k, n
  <2> QED
    BY <1>1, <1>3, <1>5, WrittenGoesOn
<1> HIDE DEF lines, x, k, n
<1>7. /\ file'[k] = lines /\ \A c \in Conversations \ {k} : file'[c] = file[c]
      /\ writer'[w] = x /\ \A v \in Writers \ {w} : writer'[v] = writer[v]
      /\ spoiled \subseteq spoiled'
  BY <1>1, <1>2, <1>3 DEF FilesAreLists
<1>8. /\ DOMAIN fresh' = Conversations /\ DOMAIN due' = Conversations /\ fresh'[k]
      /\ \A c \in Conversations \ {k} : fresh'[c] = fresh[c]
  <2> DEFINE yes == TRUE
  <2>1. fresh' = [fresh EXCEPT ![k] = yes] /\ yes /\ DOMAIN fresh = Conversations /\ DOMAIN due = Conversations
    BY <1>2 DEF CursorsInv
  <2> HIDE DEF yes
  <2> QED
    BY <1>2, <1>3, <2>1
<1>9. ASSUME NEW c \in Conversations \ spoiled', Watched(c)
      PROVE  fresh'[c] /\ ~due'[c] /\ shown'[c] = shown[c] /\ GoesOn(file[c], file'[c])
  <2>1. shown'[c] = shown[c]
    BY DEF distillation
  <2>2. CASE c = k
    BY <1>2, <1>5, <1>6, <1>7, <1>8, <1>9, <2>1, <2>2
  <2>3. CASE c # k
    <3>1. fresh[c] /\ ~due[c]
      BY <1>7, <1>9, WatchedIsKept
    <3> QED
      BY <1>2, <1>7, <1>8, <2>1, <2>3, <3>1, SameGoesOn
  <2> QED
    BY <2>2, <2>3
<1>10. ASSUME NEW v \in Writers, writer'[v].step = "finish", writer'[v].key \notin spoiled'
       PROVE  \/ writer'[v] = writer[v]
              \/ /\ fresh'[writer'[v].key] /\ ~due'[writer'[v].key]
                 /\ Longer(file'[writer'[v].key], writer'[v].base + 2)
  <2>1. CASE v = w
    <3>1. x.step = "finish" /\ writer'[v] = x /\ k \in spoiled => k \in spoiled'
      BY <1>7, <1>10, <2>1
    <3>2. x.key = k /\ x.base = n /\ x.step = "finish"
      BY <1>4, <3>1, <1>7, <1>10, <2>1
    <3> QED
      BY <1>2, <1>5, <1>6, <1>7, <1>8, <1>10, <2>1, <3>2
  <2>2. CASE v # w
    BY <1>7, <2>2
  <2> QED
    BY <2>1, <2>2
<1>11. UNCHANGED <<pending, object, drain, owed, missed>> /\ DOMAIN shown' = Conversations
  BY <1>1 DEF distillation
<1> QED
  BY <1>7, <1>8, <1>9, <1>10, <1>11, FilesKeepCursors

\* A file ages, or a sweep finds it old: nobody watches it.
LEMMA SweepKeepsCursors ==
  ASSUME CursorsInv, NumbersInv, NumbersInv', NEW c \in Conversations,
         \/ (AgeOld(c) \/ SweepStat(c)) /\ UNCHANGED distillation
         \/ Unlink(c)
  PROVE  CursorsInv'
<1>1. /\ DOMAIN fresh = Conversations /\ DOMAIN due = Conversations /\ DOMAIN shown = Conversations
      /\ DOMAIN file = Conversations
  BY DEF CursorsInv, QueueIs, NumbersInv, FilesAreLists
<1>2. ASSUME Watched(c) PROVE c \in spoiled
  <2> SUFFICES ASSUME c \notin spoiled PROVE FALSE
    OBVIOUS
  <2>1. fresh[c] /\ ~due[c]
    BY <1>2, WatchedIsKept
  <2>2. CASE AgeOld(c)
    BY <1>2, <2>2 DEF AgeOld, Recording, Watched, At
  <2>3. CASE SweepStat(c)
    BY <2>1, <2>3 DEF SweepStat
  <2>4. CASE Unlink(c)
    BY <2>1, <2>4 DEF Unlink, SweepUnlink
  <2> QED
    BY <2>2, <2>3, <2>4
<1> DEFINE other == Conversations \ {c}
<1>3. /\ UNCHANGED <<spoiled, writer, pending, object, drain, owed, missed>>
      /\ DOMAIN fresh' = Conversations /\ DOMAIN due' = Conversations /\ DOMAIN shown' = Conversations
      /\ \A q \in Conversations \ {c} : fresh'[q] = fresh[q] /\ due'[q] = due[q] /\ shown'[q] = shown[q] /\ file'[q] = file[q]
  <2>1. CASE AgeOld(c) /\ UNCHANGED distillation
    BY <1>1, <2>1 DEF AgeOld, Age, distillation
  <2>2. CASE SweepStat(c) /\ UNCHANGED distillation
    BY <1>1, <2>2 DEF SweepStat, distillation
  <2>3. CASE Unlink(c)
    BY <1>1, <2>3 DEF Unlink, SweepUnlink, history
  <2> QED
    BY <2>1, <2>2, <2>3
<1>4. ASSUME NEW q \in Conversations \ spoiled', Watched(q)
      PROVE  fresh'[q] /\ ~due'[q] /\ shown'[q] = shown[q] /\ GoesOn(file[q], file'[q])
  <2>1. q # c
    BY <1>2, <1>3, <1>4
  <2>2. fresh[q] /\ ~due[q]
    BY <1>3, <1>4, WatchedIsKept
  <2> QED
    BY <1>3, <2>1, <2>2, SameGoesOn
<1>5. \A w \in Writers : writer'[w] = writer[w]
  BY <1>3
<1> QED
  BY <1>3, <1>4, <1>5, FilesKeepCursors

\* An exchange is queued for distillation, behind the cursor or with a cursor of its own.
LEMMA FinishKeepsCursors ==
  ASSUME CursorsInv, NumbersInv, NEW w \in Writers, Finish(w)
  PROVE  CursorsInv'
<1> DEFINE c == writer[w].key
           n == writer[w].base
           upto == n + 2
<1>1. /\ At(w, "finish") /\ UNCHANGED <<file, fresh, due, spoiled, drain, shown, owed, missed>>
      /\ writer' = [writer EXCEPT ![w] = Idle]
      /\ \/ Enqueue(c, upto)
         \/ UNCHANGED <<pending, object>>
  BY DEF Finish, FinishAppend, history
<1>2. c \in Conversations /\ n \in Nat /\ writer \in [Writers -> Recorder \union {Idle}]
  BY <1>1 DEF NumbersInv, FilesAreLists, Idle, Recorder, At
<1>3. c \notin spoiled => Kept(c) /\ Longer(file[c], upto)
  BY <1>1 DEF CursorsInv
<1>4. \A v \in Writers : writer'[v].step = "finish" => writer'[v] = writer[v]
  BY <1>1, <1>2 DEF Idle
<1>5. QueueIs /\ VisitIs /\ missed' \subseteq spoiled
  BY <1>1 DEF CursorsInv
<1>6. QueueIs' /\ \A p \in InUse(pending)' : Enqueued(p, c, n)
  <2>1. CASE Enqueue(c, upto)
    <3>1. upto = n + 2 /\ UNCHANGED drain
      BY <1>1
    <3> HIDE DEF c, n, upto
    <3>2. /\ IsQueue(pending') /\ DOMAIN object' = Objects
          /\ \A p \in InUse(pending)' : IsEntry(object'[p])
          /\ \A p \in InUse(pending)' : Enqueued(p, c, n)
      BY <1>2, <1>5, <2>1, <3>1, EnqueueIs
    <3>3. QueueIs'
      BY <1>1, <1>5, <3>2 DEF QueueIs
    <3> QED
      BY <3>2, <3>3
  <2>2. CASE UNCHANGED <<pending, object>>
    <3>1. InUse(pending)' = InUse(pending)
      BY <1>1, <2>2 DEF InUse
    <3>2. QueueIs'
      BY <1>1, <1>5, <2>2, <3>1 DEF QueueIs
    <3> QED
      BY <2>2, <3>1, <3>2 DEF Enqueued, SameEntry, SameCursor
  <2> QED
    BY <1>1, <2>1, <2>2
<1>7. VisitIs'
  <2> SUFFICES ASSUME drain.step \in Visits
               PROVE  SameCursor(object'[Current], object[Current])
    BY <1>1, <1>5 DEF VisitIs, SameCursor, Current
  <2>1. Current \in InUse(pending) /\ Current \in InUse(pending)'
    <3>1. drain.todo \in Seq(Objects) /\ drain.todo # <<>>
      BY <1>5 DEF QueueIs, IsDrain, IsQueue
    <3>2. Current \in ToSet(drain.todo)
      BY <3>1 DEF Current, ToSet
    <3> QED
      BY <1>1, <3>2 DEF InUse
  <2> QED
    BY <1>6, <2>1 DEF Enqueued, SameEntry
<1>8. ASSUME NEW o \in InUse(pending)'
      PROVE  Followed(object[o])'
  <2> SUFFICES Follows(object'[o], shown[object'[o].key])
    BY <1>1 DEF Followed, Follows, Kept
  <2>1. CASE o \in InUse(pending) /\ SameEntry(object'[o], object[o])
    <3>1. Followed(object[o]) /\ object'[o].key = object[o].key
      BY <2>1 DEF CursorsInv, SameEntry, SameCursor
    <3> QED
      BY <2>1, <3>1, FollowsSame DEF Followed
  <2>2. CASE /\ o \in InUse(pending) /\ SameCursor(object'[o], object[o])
             /\ object'[o].key = c /\ object'[o].appended = n + 2
    <3>1. Followed(object[o]) /\ upto = n + 2
      BY <2>2 DEF CursorsInv
    <3> QED
      BY <1>3, <2>2, <3>1 DEF Followed, Follows, Told, SameCursor
  <2>3. CASE /\ object'[o].key = c /\ object'[o].base = n /\ object'[o].upto = n
             /\ object'[o].appended = n + 2
    <3> DEFINE lines == file[c]
    <3>1. lines \in Seq(Nat)
      BY <1>2 DEF NumbersInv, FilesAreLists
    <3>2. \A i \in DOMAIN lines : lines[i] \notin (n + 1)..n
      <4> HIDE DEF lines, n
      <4> QED
        BY <1>2, <3>1
    <3>3. c \notin spoiled => Longer(lines, n)
      <4>1. c \notin spoiled => Longer(lines, upto)
        BY <1>3
      <4> HIDE DEF lines, n, c
      <4> QED
        BY <1>2, <3>1, <4>1 DEF Longer
    <3>4. c \notin spoiled => Longer(lines, n + 2) /\ Kept(c)
      BY <1>3
    <3> HIDE DEF n, c
    <3> QED
      BY <2>3, <3>2, <3>3, <3>4 DEF Follows, Told, lines
  <2> QED
    BY <1>6, <2>1, <2>2, <2>3 DEF Enqueued
<1>9. \A v \in Writers : (At(v, "finish") /\ writer[v].key \notin spoiled =>
        Kept(writer[v].key) /\ Longer(file[writer[v].key], writer[v].base + 2))'
  BY <1>1, <1>4 DEF CursorsInv, At, Kept, Longer
<1> QED
  BY <1>1, <1>5, <1>6, <1>7, <1>8, <1>9 DEF CursorsInv

\* A new process has an empty queue.
LEMMA EmptyQueueIs ==
  ASSUME DOMAIN fresh' = Conversations, DOMAIN due' = Conversations, DOMAIN shown' = Conversations,
         DOMAIN object' = Objects, pending' = <<>>, drain' = NoDrain,
         owed' \in Nat, missed' \subseteq spoiled',
         \A w \in Writers : writer'[w].step # "finish"
  PROVE  CursorsInv'
<1> DEFINE none == <<>>
           no == FALSE
<1>1. IsQueue(none) /\ ToSet(none) = {}
  <2>1. none \in Seq(Objects) /\ Len(none) = 0 /\ MaxPending \in Nat
    BY DistillationAssumption
  <2> QED
    BY <2>1 DEF IsQueue, ToSet
<1>2. NoDrain = [step |-> "idle", todo |-> none, ended |-> no, final |-> no, batch |-> none] /\ pending' = none
  BY DEF NoDrain
<1> HIDE DEF none, no
<1>3. /\ NoDrain.step = "idle" /\ NoDrain.todo = none /\ NoDrain.ended = no /\ NoDrain.final = no
      /\ NoDrain.batch = none
  BY <1>2
<1>4. IsDrain(drain')
  <2>1. "idle" \notin Visits /\ "idle" # "extract"
    BY DEF Visits
  <2> QED
    BY <1>1, <1>2, <1>3, <2>1 DEF IsDrain
<1>5. InUse(pending)' = {}
  BY <1>1, <1>2, <1>3 DEF InUse
<1>6. QueueIs'
  BY <1>1, <1>2, <1>4, <1>5 DEF QueueIs
<1>7. VisitIs'
  BY <1>3 DEF VisitIs, Visits
<1> QED
  BY <1>5, <1>6, <1>7 DEF CursorsInv, At

LEMMA RestartKeepsCursors ==
  ASSUME CursorsInv, Restart
  PROVE  CursorsInv'
<1>1. /\ pending' = <<>> /\ drain' = NoDrain /\ DOMAIN object' = Objects
      /\ UNCHANGED <<shown, owed, missed, spoiled>>
  BY DEF Restart, TranscriptCrash, history
<1>2. DOMAIN fresh' = Conversations /\ DOMAIN due' = Conversations /\ \A w \in Writers : writer'[w] = Idle
  BY DEF Restart, TranscriptCrash
<1>3. Idle.step # "finish" /\ DOMAIN shown = Conversations /\ owed \in Nat /\ missed \subseteq spoiled
  BY DEF Idle, CursorsInv, QueueIs
<1> QED
  BY <1>1, <1>2, <1>3, EmptyQueueIs

\* The invariant of the cursors holds initially and is kept.
LEMMA InitCursors == BrainInit => CursorsInv
<1> SUFFICES ASSUME BrainInit PROVE CursorsInv
  OBVIOUS
<1>1. Init /\ TranscriptInit
  BY DEF BrainInit, Init
<1>2. /\ DOMAIN fresh = Conversations /\ DOMAIN due = Conversations /\ DOMAIN shown = Conversations
      /\ DOMAIN object = Objects /\ pending = <<>> /\ drain = NoDrain /\ owed = 0 /\ missed = {}
      /\ \A w \in Writers : writer[w].step # "finish"
  BY <1>1 DEF Init, TranscriptInit, Idle
<1> DEFINE none == <<>>
           no == FALSE
<1>3. IsQueue(none) /\ ToSet(none) = {}
  <2>1. none \in Seq(Objects) /\ Len(none) = 0 /\ MaxPending \in Nat
    BY DistillationAssumption
  <2> QED
    BY <2>1 DEF IsQueue, ToSet
<1>4. NoDrain = [step |-> "idle", todo |-> none, ended |-> no, final |-> no, batch |-> none] /\ pending = none
  BY <1>2 DEF NoDrain
<1> HIDE DEF none, no
<1>5. /\ NoDrain.step = "idle" /\ NoDrain.todo = none /\ NoDrain.ended = no /\ NoDrain.final = no
      /\ NoDrain.batch = none
  BY <1>4
<1>6. IsDrain(drain)
  <2>1. "idle" \notin Visits /\ "idle" # "extract"
    BY DEF Visits
  <2> QED
    BY <1>2, <1>3, <1>4, <1>5, <2>1 DEF IsDrain
<1>7. InUse(pending) = {}
  BY <1>2, <1>3, <1>4, <1>5 DEF InUse
<1>8. QueueIs
  BY <1>2, <1>3, <1>4, <1>6, <1>7 DEF QueueIs
<1>9. VisitIs
  BY <1>2, <1>5 DEF VisitIs, Visits
<1> QED
  BY <1>2, <1>7, <1>8, <1>9 DEF CursorsInv, At

LEMMA NextCursors ==
  NumbersInv /\ NumbersInv' /\ CursorsInv /\ [BrainNext]_<<vars, longTerm, replies, origin>> => CursorsInv'
<1> SUFFICES ASSUME NumbersInv, NumbersInv', CursorsInv, [BrainNext]_<<vars, longTerm, replies, origin>>
             PROVE  CursorsInv'
  OBVIOUS
<1>1. CASE Next
  <2>1. CASE \E w \in Writers :
               /\ Start(w) \/ AcquireLock(w) \/ ReadNumber(w) \/ AppendFails(w) \/ CancelAppend(w)
               /\ UNCHANGED distillation
    BY <2>1, RequestsKeepCursors
  <2>2. CASE \E w \in Writers : (Write(w) \/ OrphanWrite(w)) /\ UNCHANGED distillation
    BY <2>2, WritesKeepCursors
  <2>3. CASE \E w \in Writers : Finish(w)
    BY <2>3, FinishKeepsCursors
  <2>4. CASE \/ \E c \in Conversations : (AgeOld(c) \/ SweepStat(c)) /\ UNCHANGED distillation
             \/ \E c \in Conversations : Unlink(c)
    BY <2>4, SweepKeepsCursors
  <2>5. CASE \E o \in Objects : GrowOld(o)
    BY <2>5, AgeingKeepsCursors
  <2>6. CASE StartDrain \/ EndDrain \/ Close
    BY <2>6, LoopEndsKeepCursors
  <2>7. CASE Visiting
    BY <2>7, VisitingKeepsCursors
  <2>8. CASE StoreFails
    BY <2>8, FailureKeepsCursors
  <2>9. CASE Restart
    BY <2>9, RestartKeepsCursors
  <2> QED
    BY <1>1, <2>1, <2>2, <2>3, <2>4, <2>5, <2>6, <2>7, <2>8, <2>9, StepsAre
<1>2. CASE UNCHANGED vars
  BY <1>2 DEF vars, transcript, distillation, CursorsInv, QueueIs, InUse, VisitIs, Current, Followed, Follows, Kept, At
<1> QED
  BY <1>1, <1>2 DEF BrainNext

\* Whatever the loop, its failures, cancellations, restarts and sweeps do to the queue
\* and the files, no line between where an entry began and its cursor was left out of
\* what the extraction was shown, and the loop takes no conversation out of the queue
\* with a line unshown that waited when its visit began, but for those behind a full
\* batch.
THEOREM NothingIsSkipped == BrainSpec => []NoGap
<1>1. CursorsInv => NoGap
  BY DEF CursorsInv, InUse, Followed, Follows, Told, NoGap
<1>2. BrainInit => NumbersInv /\ CursorsInv
  BY InitNumbers, InitCursors
<1>3. (NumbersInv /\ CursorsInv) /\ [BrainNext]_<<vars, longTerm, replies, origin>>
        => (NumbersInv /\ CursorsInv)'
  BY NextNumbers, NextCursors
<1> QED
  BY <1>1, <1>2, <1>3, PTL DEF BrainSpec

-------------------------------------------------------------------------------
(* Part 5: the long-term memory of a player (LongTermMemory, MemoryFile) is    *)
(* the atomic store of DistilledMemory                                         *)

\* A set of naturals with an element has a smallest one.
LEMMA SmallestNumber ==
  ASSUME NEW T \in SUBSET Nat, T # {}
  PROVE  \E x \in T : \A y \in T : x <= y
<1>1. PICK x \in T : \A y \in T : <<y, x>> \notin OpToRel(<, Nat)
  BY NatLessThanWellFounded, WFMin
<1>2. \A y \in T : ~(y < x)
  BY <1>1 DEF OpToRel
<1> QED
  BY <1>2

\* And, with a bound, a largest one.
LEMMA LargestNumber ==
  ASSUME NEW T \in SUBSET Nat, T # {}, NEW bound \in Nat, \A x \in T : x <= bound
  PROVE  \E x \in T : \A y \in T : y <= x
<1> DEFINE U == {bound - x : x \in T}
<1>1. U \subseteq Nat /\ U # {}
  <2>1. \A x \in T : bound - x \in Nat
    OBVIOUS
  <2> QED BY <2>1
<1>2. PICK u \in U : \A v \in U : u <= v
  <2> HIDE DEF U
  <2> QED BY <1>1, SmallestNumber
<1>3. PICK x \in T : u = bound - x
  BY <1>2
<1>4. \A y \in T : bound - x <= bound - y
  BY <1>2, <1>3
<1>5. \A y \in T : y <= x
  BY <1>4
<1> QED
  BY <1>5

\* A set that has 0, and with a number the next, has all of them.
LEMMA EveryNumber ==
  ASSUME NEW T, 0 \in T, \A n \in Nat : n \in T => n + 1 \in T
  PROVE  \A n \in Nat : n \in T
<1> DEFINE Out == {n \in Nat : n \notin T}
<1> SUFFICES ASSUME Out # {} PROVE FALSE
  OBVIOUS
<1>1. PICK n \in Out : \A m \in Out : n <= m
  <2>1. Out \subseteq Nat
    OBVIOUS
  <2> HIDE DEF Out
  <2> QED BY <2>1, SmallestNumber
<1>2. n \in Nat /\ n # 0
  OBVIOUS
<1>3. n - 1 \in Nat /\ n - 1 \notin Out
  BY <1>1, <1>2
<1> QED
  BY <1>2, <1>3

\* A loop of n rounds, of which each takes the value that the one before left.
Loops(n, D, base, step) ==
  n \in Nat /\ base \in D /\ \A k \in 1..n, d \in D : step[k][d] \in D
Rounds(f, n, base, step) ==
  \A k \in 0..n : f[k] = IF k = 0 THEN base ELSE step[k][f[k - 1]]

\* What is defined so exists.
LEMMA LoopExists ==
  ASSUME NEW n, NEW D, NEW base, NEW step, Loops(n, D, base, step)
  PROVE  \E f \in [0..n -> D] : Rounds(f, n, base, step)
<1> USE DEF Loops
<1> DEFINE Solved == {m \in Nat : m <= n => \E f \in [0..m -> D] : Rounds(f, m, base, step)}
<1>1. 0 \in Solved
  <2> DEFINE f == [k \in 0..0 |-> base]
  <2>1. f \in [0..0 -> D] /\ Rounds(f, 0, base, step)
    BY DEF Rounds
  <2> HIDE DEF f
  <2> QED BY <2>1
<1>2. ASSUME NEW m \in Nat, m \in Solved PROVE m + 1 \in Solved
  <2> SUFFICES ASSUME m + 1 <= n
               PROVE  \E f \in [0..(m + 1) -> D] : Rounds(f, m + 1, base, step)
    OBVIOUS
  <2>1. PICK f \in [0..m -> D] : Rounds(f, m, base, step)
    BY <1>2
  <2> DEFINE g == [k \in 0..(m + 1) |-> IF k <= m THEN f[k] ELSE step[m + 1][f[m]]]
  <2>2. step[m + 1][f[m]] \in D
    OBVIOUS
  <2>3. g \in [0..(m + 1) -> D]
    BY <2>2
  <2>4. ASSUME NEW k \in 0..(m + 1) PROVE g[k] = IF k = 0 THEN base ELSE step[k][g[k - 1]]
    <3>1. CASE k <= m
      <4>1. g[k] = f[k] /\ (k # 0 => g[k - 1] = f[k - 1])
        BY <3>1
      <4>2. f[k] = IF k = 0 THEN base ELSE step[k][f[k - 1]]
        BY <2>1, <3>1 DEF Rounds
      <4> QED BY <4>1, <4>2
    <3>2. CASE k = m + 1
      BY <3>2
    <3> QED BY <3>1, <3>2
  <2>5. Rounds(g, m + 1, base, step)
    BY <2>4 DEF Rounds
  <2> HIDE DEF g
  <2> QED BY <2>3, <2>5
<1>3. n \in Solved
  <2> HIDE DEF Solved
  <2> QED BY <1>1, <1>2, EveryNumber
<1> QED
  BY <1>3

\* What every round keeps holds after all of them.
LEMMA LoopKeeps ==
  ASSUME NEW n \in Nat, NEW f, NEW good,
         f[0] \in good, \A k \in 1..n : f[k - 1] \in good => f[k] \in good
  PROVE  \A k \in 0..n : f[k] \in good
<1> DEFINE Held == {m \in Nat : m <= n => f[m] \in good}
<1>1. 0 \in Held
  OBVIOUS
<1>2. ASSUME NEW m \in Nat, m \in Held PROVE m + 1 \in Held
  <2> SUFFICES ASSUME m + 1 <= n PROVE f[m + 1] \in good
    OBVIOUS
  <2>1. f[m] \in good
    BY <1>2
  <2>2. m + 1 \in 1..n /\ (m + 1) - 1 = m
    OBVIOUS
  <2> QED BY <2>1, <2>2
<1>3. \A m \in Nat : m \in Held
  <2> HIDE DEF Held
  <2> QED BY <1>1, <1>2, EveryNumber
<1> QED
  BY <1>3

\* below[i]: what comes before i in a strict order of a finite set.
Ordering(S, below) ==
  /\ IsFiniteSet(S) /\ below \in [S -> SUBSET S]
  /\ \A i \in S : i \notin below[i]
  /\ \A i, j \in S : /\ j \in below[i] => below[j] \subseteq below[i]
                     /\ i # j => i \in below[j] \/ j \in below[i]

\* Its elements have as many before them as there are numbers below its size.
LEMMA PlacesInOrder ==
  ASSUME NEW S, NEW below, Ordering(S, below)
  PROVE  /\ Cardinality(S) \in Nat
         /\ \A i \in S : Cardinality(below[i]) \in 0..(Cardinality(S) - 1)
         /\ \A n \in 0..(Cardinality(S) - 1) : \E i \in S : Cardinality(below[i]) = n
         /\ \A i, j \in S : Cardinality(below[i]) = Cardinality(below[j]) => i = j
<1> USE DEF Ordering
<1> DEFINE size == Cardinality(S)
           place == [i \in S |-> Cardinality(below[i]) + 1]
<1>1. size \in Nat
  BY FS_CardinalityType
<1>2. ASSUME NEW i \in S
      PROVE  IsFiniteSet(below[i]) /\ Cardinality(below[i]) \in 0..(size - 1)
  <2>1. below[i] \subseteq S /\ below[i] # S
    OBVIOUS
  <2>2. IsFiniteSet(below[i]) /\ Cardinality(below[i]) <= size /\ Cardinality(below[i]) # size
    BY <2>1, FS_Subset, Zenon
  <2>3. Cardinality(below[i]) \in Nat
    BY <2>2, FS_CardinalityType
  <2> QED BY <1>1, <2>2, <2>3
<1>3. ASSUME NEW i \in S, NEW j \in S, j \in below[i]
      PROVE  Cardinality(below[j]) < Cardinality(below[i])
  <2>1. below[j] \subseteq below[i] /\ below[j] # below[i]
    BY <1>3
  <2>2. Cardinality(below[j]) <= Cardinality(below[i]) /\ Cardinality(below[j]) # Cardinality(below[i])
    BY <1>2, <2>1, FS_Subset, Zenon
  <2> QED BY <1>2, <2>2
<1>4. ASSUME NEW i \in S, NEW j \in S, i # j PROVE Cardinality(below[i]) # Cardinality(below[j])
  <2>1. CASE i \in below[j]
    BY <2>1, <1>2, <1>3
  <2>2. CASE j \in below[i]
    BY <2>2, <1>2, <1>3
  <2> QED BY <1>4, <2>1, <2>2
<1>5. place \in Injection(S, 1..size)
  <2>1. \A i \in S : place[i] \in 1..size
    BY <1>1, <1>2
  <2>2. \A i, j \in S : place[i] = place[j] => i = j
    BY <1>2, <1>4
  <2> QED BY <2>1, <2>2 DEF Injection, IsInjective
<1>6. IsFiniteSet(1..size) /\ Cardinality(1..size) = size
  BY <1>1, FS_Interval
<1>7. place \in Surjection(S, 1..size)
  <2> HIDE DEF place
  <2> QED BY <1>5, <1>6, FS_Injection
<1>8. \A n \in 1..size : \E i \in S : place[i] = n
  <2> HIDE DEF place
  <2> QED BY <1>7 DEF Surjection
<1>9. ASSUME NEW n \in 0..(size - 1) PROVE \E i \in S : Cardinality(below[i]) = n
  <2>1. n + 1 \in 1..size
    BY <1>1
  <2>2. PICK i \in S : place[i] = n + 1
    BY <1>8, <2>1
  <2>3. Cardinality(below[i]) = n
    BY <2>2, <1>2
  <2> QED BY <2>3
<1> QED
  BY <1>1, <1>2, <1>4, <1>9

\* Those with fewer than k before them are k, or all.
LEMMA FirstInOrder ==
  ASSUME NEW S, NEW below, Ordering(S, below), NEW k \in Nat
  PROVE  LET first == {i \in S : Cardinality(below[i]) < k} IN
         /\ k <= Cardinality(S) => Cardinality(first) = k
         /\ Cardinality(S) <= k => first = S
<1> DEFINE first == {i \in S : Cardinality(below[i]) < k}
           size == Cardinality(S)
           place == [i \in first |-> Cardinality(below[i]) + 1]
<1>1. /\ size \in Nat
      /\ \A i \in S : Cardinality(below[i]) \in 0..(size - 1)
      /\ \A n \in 0..(size - 1) : \E i \in S : Cardinality(below[i]) = n
      /\ \A i, j \in S : Cardinality(below[i]) = Cardinality(below[j]) => i = j
  BY PlacesInOrder
<1>2. size <= k => first = S
  BY <1>1
<1>3. ASSUME k <= size PROVE Cardinality(first) = k
  <2>1. place \in Bijection(first, 1..k)
    <3>1. \A i \in first : place[i] \in 1..k
      BY <1>1
    <3>2. \A i, j \in first : place[i] = place[j] => i = j
      BY <1>1
    <3>3. ASSUME NEW n \in 1..k PROVE \E i \in first : place[i] = n
      <4>1. n - 1 \in 0..(size - 1)
        BY <1>3, <1>1
      <4>2. PICK i \in S : Cardinality(below[i]) = n - 1
        BY <1>1, <4>1
      <4>3. i \in first /\ place[i] = n
        BY <4>2
      <4> QED BY <4>3
    <3> QED BY <3>1, <3>2, <3>3 DEF Bijection, Injection, Surjection, IsInjective
  <2>2. IsFiniteSet(first)
    BY FS_Subset DEF Ordering
  <2>3. IsFiniteSet(1..k) /\ Cardinality(1..k) = k
    BY FS_Interval
  <2> HIDE DEF place, first
  <2>4. Cardinality(first) = Cardinality(1..k)
    <3>1. ExistsBijection(first, 1..k)
      BY <2>1 DEF ExistsBijection
    <3> QED BY <3>1, <2>2, FS_Bijection
  <2> QED BY <2>3, <2>4
<1> QED
  BY <1>2, <1>3

\* Each entry of a sublist is that at some place, and no two are of the same.
LEMMA SublistPlaces ==
  ASSUME NEW S, NEW s \in Seq(S), NEW places \in SUBSET DOMAIN s
  PROVE  /\ DOMAIN Sublist(s, places) = 1..Cardinality(places)
         /\ \A n \in 1..Cardinality(places) :
              Nth(places, n) \in places /\ Sublist(s, places)[n] = s[Nth(places, n)]
         /\ \A m, n \in 1..Cardinality(places) : m # n => Nth(places, m) # Nth(places, n)
<1>1. places \in SUBSET Nat /\ IsFiniteSet(places) /\ Cardinality(places) \in Nat
  <2>1. IsFiniteSet(1..Len(s))
    BY FS_Interval
  <2> QED BY <2>1, FS_Subset, FS_CardinalityType
<1>2. \A n \in 1..Cardinality(places) : Nth(places, n) \in places
  BY <1>1, NthLists
<1>3. \A m, n \in 1..Cardinality(places) : m < n => Nth(places, m) < Nth(places, n)
  BY <1>1, NthLists
<1>4. ASSUME NEW m \in 1..Cardinality(places), NEW n \in 1..Cardinality(places), m # n
      PROVE  Nth(places, m) # Nth(places, n)
  <2>1. Nth(places, m) \in Nat /\ Nth(places, n) \in Nat
    BY <1>1, <1>2
  <2>2. m < n \/ n < m
    BY <1>1, <1>4
  <2>3. Nth(places, m) < Nth(places, n) \/ Nth(places, n) < Nth(places, m)
    BY <1>3, <2>2
  <2> QED BY <2>1, <2>3
<1> QED
  BY <1>2, <1>4 DEF Sublist

Lasting == LongTerm!Memory
AnySource == Sources \union {NoSource}
Times == 0..MaxClock

\* Each text once.
Distinct(s) == \A i, j \in DOMAIN s : s[i].text = s[j].text => i = j
Store(s) == s \in Seq(Lasting) /\ Distinct(s) /\ Len(s) <= MaxMemories

\* The parts' copies of the operators on sequences and sets are those.
LEMMA LongTermSequences ==
  /\ \A s, places : LongTerm!Sublist(s, places) = Sublist(s, places)
  /\ \A S : LongTerm!Cardinality(S) = Cardinality(S)
  /\ \A S : LongTerm!Abstract!Cardinality(S) = Cardinality(S)
  /\ \A s : LongTerm!ToSet(s) = ToSet(s)
<1>1. \A S : LongTerm!Cardinality(S) = Cardinality(S)
  BY DEF LongTerm!Cardinality, Cardinality
<1>2. \A S : LongTerm!Abstract!Cardinality(S) = Cardinality(S)
  BY DEF LongTerm!Abstract!Cardinality, Cardinality
<1>3. \A s : LongTerm!ToSet(s) = ToSet(s)
  BY DEF LongTerm!ToSet, ToSet
<1>4. \A s, places : LongTerm!Sublist(s, places) = Sublist(s, places)
  <2>1. \A places, n : LongTerm!Nth(places, n) = Nth(places, n)
    BY <1>1 DEF LongTerm!Nth, Nth
  <2> QED BY <1>1, <2>1 DEF LongTerm!Sublist, Sublist
<1> QED BY <1>1, <1>2, <1>3, <1>4

LEMMA KindsAreRanked ==
  ASSUME NEW a \in LongTerm!Kinds, NEW b \in LongTerm!Kinds
  PROVE  /\ LongTerm!KindOrder[a] \in 0..2 /\ LongTerm!KindOrder[b] \in 0..2
         /\ LongTerm!KindOrder[a] = LongTerm!KindOrder[b] => a = b
BY DEF LongTerm!Kinds, LongTerm!KindOrder

LEMMA FieldsAre ==
  ASSUME NEW m \in Lasting
  PROVE  /\ m.kind \in LongTerm!Kinds /\ m.text \in Texts /\ m.text \in Nat /\ m.source \in AnySource
         /\ m.created \in Times /\ m.recalled \in Times \union {Never}
         /\ m.count \in 0..MaxCount /\ m.importance \in 1..10
BY BrainAssumption DEF Lasting, LongTerm!Memory, AnySource, Times

LEMMA StrengthIs ==
  ASSUME NEW m \in Lasting, NEW now \in Times PROVE LongTerm!Strength(m, now) \in Int
<1>1. \A n \in Int : 2^n \in Int
  OBVIOUS
<1>2. m.count \in Int /\ m.importance \in Int
  BY FieldsAre, BrainAssumption
<1> DEFINE reference == IF m.recalled = Never THEN m.created ELSE m.recalled
           age == IF now > reference THEN now - reference ELSE 0
           bonus == IF m.count < LongTerm!MaxRecallBonus THEN m.count ELSE LongTerm!MaxRecallBonus
<1>3. reference \in Int
  BY FieldsAre, BrainAssumption DEF Times
<1>4. age \in Int /\ MaxClock \in Int
  <2> HIDE DEF reference
  <2> QED BY <1>3, BrainAssumption DEF Times
<1>5. bonus \in Int
  BY <1>2 DEF LongTerm!MaxRecallBonus
<1>6. LongTerm!Strength(m, now) = 12 * m.importance * 2^(MaxClock - age) + 20 * bonus * 2^MaxClock
  BY DEF LongTerm!Strength
<1> HIDE DEF reference, age, bonus
<1> DEFINE p == 2^(MaxClock - age)
           q == 2^MaxClock
<1>7. p \in Int /\ q \in Int
  BY <1>1, <1>4
<1>8. LongTerm!Strength(m, now) = 12 * m.importance * p + 20 * bonus * q
  BY <1>6
<1> HIDE DEF p, q
<1> QED BY <1>2, <1>5, <1>7, <1>8

LEMMA ScoreIs ==
  ASSUME NEW m \in Lasting, NEW now \in Times, NEW matching
  PROVE  LongTerm!Score(m, matching, now) \in Int
<1>1. 2^MaxClock \in Int
  BY BrainAssumption
<1>2. LongTerm!Strength(m, now) \in Int
  BY StrengthIs
<1> QED BY <1>1, <1>2 DEF LongTerm!Score

LEMMA BuildMemoryIs ==
  ASSUME NEW kind \in LongTerm!Kinds, NEW text \in Texts, NEW importance \in Int,
         NEW source \in AnySource, NEW created \in Times, NEW recalled \in Times \union {Never},
         NEW count \in 0..MaxCount
  PROVE  LET m == LongTerm!BuildMemory(kind, text, importance, source, created, recalled, count) IN
         /\ m \in Lasting /\ m.kind = kind /\ m.text = text
<1>1. (IF importance < 1 THEN 1 ELSE IF importance > 10 THEN 10 ELSE importance) \in 1..10
  OBVIOUS
<1> QED
  BY <1>1 DEF LongTerm!BuildMemory, Lasting, LongTerm!Memory, AnySource, Times

LEMMA InheritIs ==
  ASSUME NEW merged \in Seq(Lasting), Distinct(merged), NEW memory \in Lasting
  PROVE  LET heir == LongTerm!Inherit(memory, merged) IN
         /\ heir \in Lasting
         /\ heir.kind = memory.kind /\ heir.text = memory.text /\ heir.source = memory.source
         /\ \A i \in DOMAIN merged : merged[i].text = memory.text => heir.count >= merged[i].count
<1> DEFINE heir == LongTerm!Inherit(memory, merged)
<1>1. CASE memory.text \notin LongTerm!Texting(merged)
  <2>1. heir = memory
    BY <1>1 DEF LongTerm!Inherit
  <2>2. \A i \in DOMAIN merged : merged[i].text # memory.text
    BY <1>1 DEF LongTerm!Texting
  <2> HIDE DEF heir
  <2> QED BY <2>1, <2>2 DEF heir
<1>2. CASE memory.text \in LongTerm!Texting(merged)
  <2>1. PICK i \in DOMAIN merged : merged[i].text = memory.text
    BY <1>2 DEF LongTerm!Texting
  <2> DEFINE first(j) == /\ merged[j].text = memory.text
                         /\ \A k \in 1..(j - 1) : merged[k].text # memory.text
             old == merged[CHOOSE j \in DOMAIN merged : first(j)]
  <2>2. i \in Nat /\ DOMAIN merged = 1..Len(merged)
    OBVIOUS
  <2>3. first(i)
    <3>1. ASSUME NEW k \in 1..(i - 1) PROVE merged[k].text # memory.text
      <4>1. k \in DOMAIN merged /\ k # i
        BY <2>2
      <4> QED BY <2>1, <4>1 DEF Distinct
    <3> QED BY <2>1, <3>1
  <2>4. \A j \in DOMAIN merged : first(j) => j = i
    BY <2>1 DEF Distinct
  <2>5. old = merged[i]
    <3> HIDE DEF first
    <3> QED BY <2>3, <2>4
  <2>6. heir = [memory EXCEPT !.count = IF old.count > memory.count THEN old.count ELSE memory.count,
                              !.recalled = IF old.recalled # Never THEN old.recalled
                                           ELSE memory.recalled]
    BY <1>2 DEF LongTerm!Inherit
  <2>7. old \in Lasting
    BY <2>5
  <2>8. \A j \in DOMAIN merged : merged[j].text = memory.text => merged[j] = old
    BY <2>1, <2>5 DEF Distinct
  <2> HIDE DEF heir, old, first
  <2>9. /\ old.count \in 0..MaxCount /\ old.recalled \in Times \union {Never}
        /\ memory.count \in 0..MaxCount /\ memory.recalled \in Times \union {Never}
    BY <2>7, FieldsAre
  <2> DEFINE c == IF old.count > memory.count THEN old.count ELSE memory.count
             r == IF old.recalled # Never THEN old.recalled ELSE memory.recalled
  <2>10. c \in 0..MaxCount /\ c >= old.count
    BY <2>9, BrainAssumption
  <2>11. r \in Times \union {Never}
    BY <2>9
  <2>12. heir = [memory EXCEPT !.count = c, !.recalled = r]
    BY <2>6
  <2> HIDE DEF c, r
  <2>13. /\ heir \in Lasting /\ heir.count = c
         /\ heir.kind = memory.kind /\ heir.text = memory.text /\ heir.source = memory.source
    BY <2>10, <2>11, <2>12 DEF Lasting, LongTerm!Memory, Times
  <2> QED BY <2>8, <2>10, <2>13 DEF heir
<1> QED BY <1>1, <1>2

\* What a memory that comes in leaves of the others.
Absorbs(result, merged, memory) ==
  /\ result \in Seq(Lasting) /\ Distinct(result) /\ Len(result) \in Nat \ {0}
  /\ \A i \in DOMAIN merged :
       LongTerm!ReplacedBy(memory, merged[i]) \/ \E j \in DOMAIN result : result[j] = merged[i]
  /\ \A j \in DOMAIN result :
       j = Len(result) \/ \E i \in DOMAIN merged : merged[i] = result[j]
  /\ result[Len(result)].kind = memory.kind /\ result[Len(result)].text = memory.text
  /\ result[Len(result)].source = memory.source
  /\ \A i \in DOMAIN merged :
       merged[i].text = memory.text => result[Len(result)].count >= merged[i].count

LEMMA MergeOneIs ==
  ASSUME NEW merged \in Seq(Lasting), Distinct(merged), NEW memory \in Lasting, NEW result,
         result = LongTerm!MergeOne(merged, memory)
  PROVE  Absorbs(result, merged, memory)
<1> DEFINE places == {i \in DOMAIN merged : ~LongTerm!ReplacedBy(memory, merged[i])}
           others == Sublist(merged, places)
           heir == LongTerm!Inherit(memory, merged)
<1>1. result = Append(others, heir)
  BY LongTermSequences DEF LongTerm!MergeOne
<1>2. places \in SUBSET DOMAIN merged /\ DOMAIN merged = 1..Len(merged) /\ Len(merged) \in Nat
  OBVIOUS
<1>3. /\ \A i \in DOMAIN merged : i \in places <=> ~LongTerm!ReplacedBy(memory, merged[i])
      /\ \A i \in places : merged[i].text # memory.text
  BY DEF LongTerm!ReplacedBy
<1> HIDE DEF places
<1>4. Cardinality(places) \in Nat /\ Cardinality(places) <= Len(merged)
  <2>1. IsFiniteSet(1..Len(merged)) /\ Cardinality(1..Len(merged)) = Len(merged)
    BY <1>2, NumbersUpTo
  <2>2. IsFiniteSet(places) /\ Cardinality(places) <= Cardinality(1..Len(merged))
    BY <1>2, <2>1, FS_Subset, Zenon
  <2> QED BY <2>1, <2>2, FS_CardinalityType
<1>5. /\ others \in Seq(Lasting) /\ Len(others) = Cardinality(places)
      /\ ToSet(others) = {merged[i] : i \in places}
  BY <1>2, SublistRange
<1>6. /\ DOMAIN others = 1..Cardinality(places)
      /\ \A n \in 1..Cardinality(places) : Nth(places, n) \in places /\ others[n] = merged[Nth(places, n)]
      /\ \A m, n \in 1..Cardinality(places) : m # n => Nth(places, m) # Nth(places, n)
  BY <1>2, SublistPlaces
<1>7. \A i \in places : \E n \in DOMAIN others : others[n] = merged[i]
  <2>1. \A i \in places : merged[i] \in ToSet(others)
    BY <1>5
  <2> QED BY <2>1 DEF ToSet
<1>8. /\ heir \in Lasting
      /\ heir.kind = memory.kind /\ heir.text = memory.text /\ heir.source = memory.source
      /\ \A i \in DOMAIN merged : merged[i].text = memory.text => heir.count >= merged[i].count
  BY InheritIs
<1> HIDE DEF others, heir
<1>9. /\ result \in Seq(Lasting) /\ Len(result) = Cardinality(places) + 1
      /\ DOMAIN result = 1..(Cardinality(places) + 1)
      /\ result[Cardinality(places) + 1] = heir
      /\ \A n \in 1..Cardinality(places) : result[n] = others[n]
  BY <1>1, <1>4, <1>5, <1>8
<1>10. Distinct(result)
  <2>1. ASSUME NEW m \in 1..Cardinality(places), NEW n \in 1..Cardinality(places), m # n
        PROVE  result[m].text # result[n].text
    <3>1. Nth(places, m) \in DOMAIN merged /\ Nth(places, n) \in DOMAIN merged
          /\ Nth(places, m) # Nth(places, n)
      BY <1>2, <1>6, <2>1
    <3>2. result[m] = merged[Nth(places, m)] /\ result[n] = merged[Nth(places, n)]
      BY <1>6, <1>9
    <3> QED BY <3>1, <3>2 DEF Distinct
  <2>2. ASSUME NEW m \in 1..Cardinality(places) PROVE result[m].text # heir.text
    BY <1>3, <1>6, <1>8, <1>9
  <2>3. ASSUME NEW m \in 1..(Cardinality(places) + 1), NEW n \in 1..(Cardinality(places) + 1),
               m # n
        PROVE  result[m].text # result[n].text
    <3>1. CASE m \in 1..Cardinality(places) /\ n \in 1..Cardinality(places)
      BY <2>1, <2>3, <3>1
    <3>2. CASE m = Cardinality(places) + 1
      <4>1. n \in 1..Cardinality(places)
        BY <1>4, <2>3, <3>2
      <4> QED BY <1>9, <2>2, <3>2, <4>1
    <3>3. CASE n = Cardinality(places) + 1
      <4>1. m \in 1..Cardinality(places)
        BY <1>4, <2>3, <3>3
      <4> QED BY <1>9, <2>2, <3>3, <4>1
    <3> QED BY <1>4, <3>1, <3>2, <3>3
  <2> QED BY <1>9, <2>3 DEF Distinct
<1>11. ASSUME NEW i \in DOMAIN merged
       PROVE  LongTerm!ReplacedBy(memory, merged[i]) \/ \E j \in DOMAIN result : result[j] = merged[i]
  <2> SUFFICES ASSUME i \in places PROVE \E j \in DOMAIN result : result[j] = merged[i]
    BY <1>3
  <2>1. PICK n \in 1..Cardinality(places) : others[n] = merged[i]
    BY <1>6, <1>7
  <2>2. n \in DOMAIN result /\ result[n] = merged[i]
    BY <1>4, <1>9, <2>1
  <2> QED BY <2>2
<1>12. ASSUME NEW j \in DOMAIN result
       PROVE  j = Len(result) \/ \E i \in DOMAIN merged : merged[i] = result[j]
  <2> SUFFICES ASSUME j # Len(result) PROVE \E i \in DOMAIN merged : merged[i] = result[j]
    OBVIOUS
  <2>1. j \in 1..Cardinality(places)
    BY <1>4, <1>9
  <2>2. Nth(places, j) \in DOMAIN merged /\ merged[Nth(places, j)] = result[j]
    BY <1>2, <1>6, <1>9, <2>1
  <2> QED BY <2>2
<1> QED BY <1>2, <1>4, <1>8, <1>9, <1>10, <1>11, <1>12 DEF Absorbs

Plain(s) == \A k \in DOMAIN s : s[k].kind # "session_summary"
\* What is remembered at once: memories of an extraction, or one summary.
Incoming(s) == s \in Seq(Lasting) /\ (Plain(s) \/ Len(s) = 1)

\* The texts of the one that are in the other have been recalled as often.
Inherits(result, current) ==
  \A i \in DOMAIN current, j \in DOMAIN result :
    current[i].text = result[j].text => result[j].count >= current[i].count
Succeeds(result, current) ==
  \A i \in DOMAIN current : \E j \in DOMAIN result : LongTerm!ReplacedBy(result[j], current[i])
SameTexts(result, current) ==
  \A i \in DOMAIN current : \E j \in DOMAIN result : result[j].text = current[i].text

\* merge takes the memories that come in one after the other.
MergesFrom(f, current, incoming) ==
  /\ f[0] = current
  /\ \A k \in 1..Len(incoming) : f[k] = LongTerm!MergeOne(f[k - 1], incoming[k])
  /\ \A k \in 0..Len(incoming) : f[k] \in Seq(Lasting) /\ Distinct(f[k])

LEMMA MergeAllIs ==
  ASSUME NEW current \in Seq(Lasting), Distinct(current), NEW incoming \in Seq(Lasting)
  PROVE  \E f : MergesFrom(f, current, incoming)
                /\ LongTerm!MergeAll(current, incoming) = f[Len(incoming)]
<1> DEFINE n == Len(incoming)
           D == {s \in Seq(Lasting) : Distinct(s)}
           step == [k \in 1..n |-> [d \in D |-> LongTerm!MergeOne(d, incoming[k])]]
           Body(t) == [m \in 0..n |-> IF m = 0 THEN current
                                      ELSE LongTerm!MergeOne(t[m - 1], incoming[m])]
           t == CHOOSE u : u = Body(u)
<1>1. n \in Nat /\ \A k \in 1..n : incoming[k] \in Lasting
  OBVIOUS
<1>2. ASSUME NEW k \in 1..n, NEW d \in D PROVE LongTerm!MergeOne(d, incoming[k]) \in D
  BY <1>1, MergeOneIs DEF Absorbs
<1>3. Loops(n, D, current, step)
  BY <1>1, <1>2 DEF Loops
<1>4. PICK f \in [0..n -> D] : Rounds(f, n, current, step)
  <2> HIDE DEF n, D, step
  <2> QED BY <1>3, LoopExists
<1>5. ASSUME NEW k \in 0..n
      PROVE  f[k] = IF k = 0 THEN current ELSE LongTerm!MergeOne(f[k - 1], incoming[k])
  <2>1. f[k] = IF k = 0 THEN current ELSE step[k][f[k - 1]]
    <3> HIDE DEF n, D, step
    <3> QED BY <1>4 DEF Rounds
  <2>2. CASE k # 0
    <3>1. k \in 1..n /\ k - 1 \in 0..n
      BY <1>1, <2>2
    <3>2. f[k - 1] \in D
      <4> HIDE DEF D
      <4> QED BY <3>1, <1>4
    <3>3. step[k][f[k - 1]] = LongTerm!MergeOne(f[k - 1], incoming[k])
      <4> HIDE DEF n, D
      <4> QED BY <3>1, <3>2
    <3> HIDE DEF step
    <3> QED BY <2>1, <2>2, <3>3
  <2>3. CASE k = 0
    <3> HIDE DEF step
    <3> QED BY <2>1, <2>3
  <2> QED BY <2>2, <2>3
<1>6. f = Body(f)
  <2> HIDE DEF n, D, step
  <2> QED BY <1>4, <1>5
<1>7. t = Body(t)
  <2> HIDE DEF Body
  <2> QED BY <1>6
<1>8. LongTerm!MergeAll(current, incoming) = t[n]
  BY DEF LongTerm!MergeAll
<1>9. /\ t[0] = current
      /\ \A k \in 1..n : t[k] = LongTerm!MergeOne(t[k - 1], incoming[k])
  <2>1. \A m \in 0..n : t[m] = IF m = 0 THEN current ELSE LongTerm!MergeOne(t[m - 1], incoming[m])
    <3> HIDE DEF t, n
    <3> QED BY <1>7
  <2> HIDE DEF t, n
  <2> QED BY <1>1, <2>1
<1>10. \A k \in 0..n : t[k] \in D
  <2>1. ASSUME NEW k \in 1..n, t[k - 1] \in D PROVE t[k] \in D
    <3>1. LongTerm!MergeOne(t[k - 1], incoming[k]) \in D
      <4> HIDE DEF t, n, D
      <4> QED BY <1>2, <2>1
    <3> HIDE DEF t, n, D
    <3> QED BY <1>9, <3>1
  <2>2. t[0] \in D
    BY <1>9
  <2> HIDE DEF t, n, D
  <2> QED BY <1>1, <2>1, <2>2, LoopKeeps
<1>11. \A k \in 0..n : t[k] \in Seq(Lasting) /\ Distinct(t[k])
  <2> HIDE DEF t, n
  <2> QED BY <1>10
<1> HIDE DEF t
<1> QED
  BY <1>8, <1>9, <1>11 DEF MergesFrom

\* One plain memory more.
LEMMA PlainOneMore ==
  ASSUME NEW current \in Seq(Lasting), NEW merged \in Seq(Lasting), Distinct(merged),
         Inherits(merged, current), SameTexts(merged, current),
         NEW memory \in Lasting, memory.kind # "session_summary",
         NEW result, result = LongTerm!MergeOne(merged, memory)
  PROVE  Inherits(result, current) /\ SameTexts(result, current)
<1>1. /\ result \in Seq(Lasting) /\ Len(result) \in Nat \ {0}
      /\ \A i \in DOMAIN merged :
           LongTerm!ReplacedBy(memory, merged[i]) \/ \E j \in DOMAIN result : result[j] = merged[i]
      /\ \A j \in DOMAIN result :
           j = Len(result) \/ \E i \in DOMAIN merged : merged[i] = result[j]
      /\ result[Len(result)].text = memory.text
      /\ \A i \in DOMAIN merged : merged[i].text = memory.text
           => result[Len(result)].count >= merged[i].count
  <2>1. Absorbs(result, merged, memory)
    BY MergeOneIs
  <2> QED BY <2>1 DEF Absorbs
<1>2. Len(result) \in DOMAIN result
  BY <1>1
<1>3. \A i \in DOMAIN merged : LongTerm!ReplacedBy(memory, merged[i]) => merged[i].text = memory.text
  BY DEF LongTerm!ReplacedBy
<1>4. \A i \in DOMAIN merged : \E j \in DOMAIN result : result[j].text = merged[i].text
  BY <1>1, <1>2, <1>3
<1>5. SameTexts(result, current)
  BY <1>4 DEF SameTexts
<1>6. ASSUME NEW i \in DOMAIN current, NEW j \in DOMAIN result, current[i].text = result[j].text
      PROVE  result[j].count >= current[i].count
  <2>1. CASE \E k \in DOMAIN merged : merged[k] = result[j]
    BY <1>6, <2>1 DEF Inherits
  <2>2. CASE j = Len(result)
    <3>1. PICK k \in DOMAIN merged : merged[k].text = current[i].text
      BY DEF SameTexts
    <3>2. result[j].count >= merged[k].count /\ merged[k].count >= current[i].count
      BY <1>1, <1>6, <2>2, <3>1 DEF Inherits
    <3>3. result[j].count \in Int /\ merged[k].count \in Int /\ current[i].count \in Int
      <4>1. result[j] \in Lasting /\ merged[k] \in Lasting /\ current[i] \in Lasting
        BY <1>1
      <4> QED BY <4>1, FieldsAre, BrainAssumption
    <3> QED BY <3>2, <3>3
  <2> QED BY <1>1, <2>1, <2>2
<1> QED BY <1>5, <1>6 DEF Inherits

\* What merge makes of the memories before the cap: nothing is gone that nothing replaces.
LEMMA MergedIs ==
  ASSUME NEW current \in Seq(Lasting), Distinct(current), NEW incoming, Incoming(incoming),
         NEW merged, merged = LongTerm!MergeAll(current, incoming)
  PROVE  /\ merged \in Seq(Lasting) /\ Distinct(merged)
         /\ Inherits(merged, current) /\ Succeeds(merged, current)
<1>1. incoming \in Seq(Lasting) /\ Len(incoming) \in Nat
  BY DEF Incoming
<1>2. PICK f : MergesFrom(f, current, incoming) /\ merged = f[Len(incoming)]
  BY <1>1, MergeAllIs
<1>3. /\ f[0] = current
      /\ \A k \in 1..Len(incoming) : f[k] = LongTerm!MergeOne(f[k - 1], incoming[k])
      /\ \A k \in 0..Len(incoming) : f[k] \in Seq(Lasting) /\ Distinct(f[k])
  BY <1>2 DEF MergesFrom
<1>4. merged \in Seq(Lasting) /\ Distinct(merged)
  BY <1>1, <1>2, <1>3
<1>5. CASE Plain(incoming)
  <2> DEFINE good == {s \in Seq(Lasting) :
                        Distinct(s) /\ Inherits(s, current) /\ SameTexts(s, current)}
  <2>1. f[0] \in good
    <3>1. Inherits(current, current) /\ SameTexts(current, current)
      <4>1. \A i \in DOMAIN current : current[i].count \in Int
        <5>1. \A i \in DOMAIN current : current[i] \in Lasting
          OBVIOUS
        <5> QED BY <5>1, FieldsAre, BrainAssumption
      <4>2. \A i, j \in DOMAIN current : current[i].text = current[j].text => i = j
        BY DEF Distinct
      <4> QED BY <4>1, <4>2 DEF Inherits, SameTexts
    <3> QED BY <1>3, <3>1
  <2>2. ASSUME NEW k \in 1..Len(incoming), f[k - 1] \in good PROVE f[k] \in good
    <3>1. incoming[k] \in Lasting /\ incoming[k].kind # "session_summary"
      BY <1>1, <1>5 DEF Plain
    <3>2. f[k] = LongTerm!MergeOne(f[k - 1], incoming[k]) /\ k \in 0..Len(incoming)
      BY <1>1, <1>3
    <3>3. Inherits(f[k], current) /\ SameTexts(f[k], current)
      BY <2>2, <3>1, <3>2, PlainOneMore
    <3> QED BY <1>3, <3>2, <3>3
  <2>3. f[Len(incoming)] \in good
    <3>1. \A k \in 0..Len(incoming) : f[k] \in good
      <4> HIDE DEF good
      <4> QED BY <1>1, <2>1, <2>2, LoopKeeps
    <3> HIDE DEF good
    <3> QED BY <1>1, <3>1
  <2>4. Inherits(merged, current) /\ SameTexts(merged, current)
    BY <1>2, <2>3
  <2>5. Succeeds(merged, current)
    BY <2>4 DEF SameTexts, Succeeds, LongTerm!ReplacedBy
  <2> QED BY <1>4, <2>4, <2>5
<1>6. CASE Len(incoming) = 1
  <2> DEFINE memory == incoming[1]
             last == merged[Len(merged)]
  <2>1. merged = LongTerm!MergeOne(current, memory) /\ memory \in Lasting
    <3>1. 1 \in 1..Len(incoming) /\ 1 - 1 = 0 /\ merged = f[1]
      BY <1>2, <1>6
    <3>2. f[1] = LongTerm!MergeOne(f[0], memory)
      BY <1>3, <3>1
    <3> QED BY <1>1, <1>3, <3>1, <3>2
  <2> HIDE DEF memory
  <2>2. /\ Len(merged) \in Nat \ {0}
        /\ \A i \in DOMAIN current :
             LongTerm!ReplacedBy(memory, current[i]) \/ \E j \in DOMAIN merged : merged[j] = current[i]
        /\ \A j \in DOMAIN merged :
             j = Len(merged) \/ \E i \in DOMAIN current : current[i] = merged[j]
        /\ last.kind = memory.kind /\ last.text = memory.text /\ last.source = memory.source
        /\ \A i \in DOMAIN current : current[i].text = memory.text => last.count >= current[i].count
    <3>1. Absorbs(merged, current, memory)
      BY <2>1, MergeOneIs
    <3> QED BY <3>1 DEF Absorbs
  <2>3. Len(merged) \in DOMAIN merged
    BY <1>4, <2>2
  <2>4. Succeeds(merged, current)
    BY <2>2, <2>3 DEF Succeeds, LongTerm!ReplacedBy
  <2>5. Inherits(merged, current)
    <3> SUFFICES ASSUME NEW i \in DOMAIN current, NEW j \in DOMAIN merged,
                        current[i].text = merged[j].text
                 PROVE  merged[j].count >= current[i].count
      BY DEF Inherits
    <3>1. CASE j = Len(merged)
      BY <2>2, <3>1
    <3>2. CASE \E k \in DOMAIN current : current[k] = merged[j]
      <4>1. merged[j] = current[i]
        BY <3>2 DEF Distinct
      <4>2. current[i] \in Lasting
        OBVIOUS
      <4>3. current[i].count \in Int
        BY <4>2, FieldsAre, BrainAssumption
      <4> QED BY <4>1, <4>3
    <3> QED BY <2>2, <3>1, <3>2
  <2> QED BY <1>4, <2>4, <2>5
<1> QED BY <1>5, <1>6 DEF Incoming

\* The memories at some places.
Takes(result, s, places) ==
  /\ result \in Seq(Lasting) /\ Distinct(result) /\ Len(result) = Cardinality(places)
  /\ \A j \in DOMAIN result : \E i \in places : result[j] = s[i]
  /\ \A i \in places : \E j \in DOMAIN result : result[j] = s[i]

LEMMA SublistTakes ==
  ASSUME NEW s \in Seq(Lasting), Distinct(s), NEW places \in SUBSET DOMAIN s
  PROVE  Takes(Sublist(s, places), s, places)
<1> DEFINE r == Sublist(s, places)
<1>1. r \in Seq(Lasting) /\ Len(r) = Cardinality(places) /\ ToSet(r) = {s[i] : i \in places}
  BY SublistRange
<1>2. /\ DOMAIN r = 1..Cardinality(places)
      /\ \A n \in 1..Cardinality(places) : Nth(places, n) \in places /\ r[n] = s[Nth(places, n)]
      /\ \A m, n \in 1..Cardinality(places) : m # n => Nth(places, m) # Nth(places, n)
  BY SublistPlaces
<1> HIDE DEF r
<1>3. \A j \in DOMAIN r : \E i \in places : r[j] = s[i]
  BY <1>2
<1>4. \A i \in places : \E j \in DOMAIN r : r[j] = s[i]
  <2>1. \A i \in places : s[i] \in ToSet(r)
    BY <1>1
  <2> QED BY <2>1 DEF ToSet
<1>5. Distinct(r)
  <2> SUFFICES ASSUME NEW m \in DOMAIN r, NEW n \in DOMAIN r, m # n PROVE r[m].text # r[n].text
    BY DEF Distinct
  <2>1. Nth(places, m) \in DOMAIN s /\ Nth(places, n) \in DOMAIN s /\ Nth(places, m) # Nth(places, n)
    BY <1>2
  <2>2. r[m] = s[Nth(places, m)] /\ r[n] = s[Nth(places, n)]
    BY <1>2
  <2> QED BY <2>1, <2>2 DEF Distinct
<1>6. Takes(r, s, places)
  BY <1>1, <1>3, <1>4, <1>5 DEF Takes
<1> QED BY <1>6 DEF r

\* Strength, age and place order the memories.
LEMMA StrongerIsOrder ==
  ASSUME NEW s \in Seq(Lasting), NEW now \in Times
  PROVE  Ordering(DOMAIN s, [i \in DOMAIN s |-> LongTerm!StrongerThan(s, i, now)])
<1> DEFINE S == DOMAIN s
           strength == [i \in S |-> LongTerm!Strength(s[i], now)]
           created == [i \in S |-> s[i].created]
           below == [i \in S |-> LongTerm!StrongerThan(s, i, now)]
<1>1. ASSUME NEW i \in S PROVE strength[i] \in Int /\ created[i] \in Int /\ i \in Int
  <2>1. s[i] \in Lasting
    OBVIOUS
  <2>2. LongTerm!Strength(s[i], now) \in Int
    BY <2>1, StrengthIs
  <2>3. s[i].created \in Int
    BY <2>1, FieldsAre, BrainAssumption DEF Times
  <2> QED BY <2>2, <2>3
<1>2. ASSUME NEW i \in S, NEW j \in S
      PROVE  j \in below[i] <=> \/ strength[j] > strength[i]
                                \/ strength[j] = strength[i] /\ created[j] > created[i]
                                \/ strength[j] = strength[i] /\ created[j] = created[i] /\ j < i
  BY DEF LongTerm!StrongerThan
<1>3. below \in [S -> SUBSET S]
  BY DEF LongTerm!StrongerThan
<1>4. IsFiniteSet(S)
  <2>1. S = 1..Len(s) /\ Len(s) \in Nat
    OBVIOUS
  <2> HIDE DEF S
  <2> QED BY <2>1, NumbersUpTo
<1> HIDE DEF strength, created, below, S
<1>5. ASSUME NEW i \in S PROVE i \notin below[i]
  BY <1>1, <1>2
<1>6. ASSUME NEW i \in S, NEW j \in S, j \in below[i] PROVE below[j] \subseteq below[i]
  <2> SUFFICES ASSUME NEW k \in S, k \in below[j] PROVE k \in below[i]
    BY <1>3
  <2>1. /\ strength[i] \in Int /\ strength[j] \in Int /\ strength[k] \in Int
        /\ created[i] \in Int /\ created[j] \in Int /\ created[k] \in Int
        /\ i \in Int /\ j \in Int /\ k \in Int
    BY <1>1
  <2>2. \/ strength[k] > strength[i]
        \/ strength[k] = strength[i] /\ created[k] > created[i]
        \/ strength[k] = strength[i] /\ created[k] = created[i] /\ k < i
    <3>1. \/ strength[j] > strength[i]
          \/ strength[j] = strength[i] /\ created[j] > created[i]
          \/ strength[j] = strength[i] /\ created[j] = created[i] /\ j < i
      BY <1>2, <1>6
    <3>2. \/ strength[k] > strength[j]
          \/ strength[k] = strength[j] /\ created[k] > created[j]
          \/ strength[k] = strength[j] /\ created[k] = created[j] /\ k < j
      BY <1>2
    <3> QED BY <2>1, <3>1, <3>2
  <2> QED BY <1>2, <2>2
<1>7. ASSUME NEW i \in S, NEW j \in S, i # j PROVE i \in below[j] \/ j \in below[i]
  BY <1>1, <1>2, <1>7
<1>8. Ordering(S, below)
  BY <1>3, <1>4, <1>5, <1>6, <1>7 DEF Ordering
<1> QED BY <1>8 DEF S, below

\* The strongest are as many as fit, or all.
LEMMA StrongestAre ==
  ASSUME NEW s \in Seq(Lasting), NEW now \in Times
  PROVE  /\ LongTerm!Strongest(s, now) \in SUBSET DOMAIN s
         /\ \/ Cardinality(LongTerm!Strongest(s, now)) = MaxMemories
            \/ Len(s) <= MaxMemories /\ LongTerm!Strongest(s, now) = DOMAIN s
<1> DEFINE S == DOMAIN s
           below == [i \in S |-> LongTerm!StrongerThan(s, i, now)]
           first == {i \in S : Cardinality(below[i]) < MaxMemories}
<1>1. Ordering(S, below)
  BY StrongerIsOrder
<1>2. LongTerm!Strongest(s, now) = first
  <2>1. \A T : LongTerm!Cardinality(T) = Cardinality(T)
    BY LongTermSequences
  <2> QED BY <2>1 DEF LongTerm!Strongest
<1>3. Cardinality(S) = Len(s) /\ Len(s) \in Nat /\ MaxMemories \in Nat
  <2>1. S = 1..Len(s) /\ Len(s) \in Nat
    OBVIOUS
  <2> HIDE DEF S
  <2> QED BY <2>1, NumbersUpTo, BrainAssumption
<1>4. /\ MaxMemories <= Cardinality(S) => Cardinality(first) = MaxMemories
      /\ Cardinality(S) <= MaxMemories => first = S
  <2> HIDE DEF S, below
  <2> QED BY <1>1, <1>3, FirstInOrder
<1>5. first \in SUBSET S
  OBVIOUS
<1> HIDE DEF first, S
<1>6. \/ Cardinality(first) = MaxMemories
      \/ Len(s) <= MaxMemories /\ first = S
  BY <1>3, <1>4
<1> QED BY <1>2, <1>5, <1>6 DEF S

\* What a player's memories are once others were merged into them.
LEMMA MergeIs ==
  ASSUME NEW current, Store(current), NEW incoming, Incoming(incoming), NEW now \in Times,
         NEW result, result = LongTerm!Merge(current, incoming, now)
  PROVE  /\ Store(result) /\ Inherits(result, current)
         /\ Len(result) = MaxMemories \/ Succeeds(result, current)
<1> DEFINE merged == LongTerm!MergeAll(current, incoming)
           strong == LongTerm!Strongest(merged, now)
           survivors == {merged[i] : i \in strong}
           places == {i \in DOMAIN merged : merged[i] \in survivors}
<1>1. result = Sublist(merged, places)
  BY LongTermSequences DEF LongTerm!Merge
<1>2. /\ merged \in Seq(Lasting) /\ Distinct(merged)
      /\ Inherits(merged, current) /\ Succeeds(merged, current)
  <2> HIDE DEF merged
  <2>1. current \in Seq(Lasting) /\ Distinct(current)
    BY DEF Store
  <2> QED BY <2>1, MergedIs DEF merged
<1> HIDE DEF merged
<1>3. /\ strong \in SUBSET DOMAIN merged
      /\ \/ Cardinality(strong) = MaxMemories
         \/ Len(merged) <= MaxMemories /\ strong = DOMAIN merged
  BY <1>2, StrongestAre
<1> HIDE DEF strong
<1>4. places = strong
  <2>1. \A i \in DOMAIN merged, j \in strong : merged[i] = merged[j] => i = j
    BY <1>2, <1>3 DEF Distinct
  <2>2. \A i \in places : i \in strong
    BY <2>1
  <2>3. \A i \in strong : i \in places
    BY <1>3
  <2> HIDE DEF places
  <2>4. places \subseteq DOMAIN merged
    BY DEF places
  <2> QED BY <2>2, <2>3, <2>4
<1> HIDE DEF places, survivors
<1>5. Takes(result, merged, strong)
  BY <1>1, <1>2, <1>3, <1>4, SublistTakes
<1>6. \/ Len(result) = MaxMemories
      \/ Len(result) <= MaxMemories /\ strong = DOMAIN merged
  <2>1. Cardinality(DOMAIN merged) = Len(merged)
    <3>1. DOMAIN merged = 1..Len(merged) /\ Len(merged) \in Nat
      BY <1>2
    <3> QED BY <3>1, NumbersUpTo
  <2> QED BY <1>3, <1>5, <2>1 DEF Takes
<1>7. Store(result)
  BY <1>5, <1>6, BrainAssumption DEF Takes, Store
<1>8. Inherits(result, current)
  <2>1. \A j \in DOMAIN result : \E i \in DOMAIN merged : result[j] = merged[i]
    BY <1>3, <1>5 DEF Takes
  <2> QED BY <1>2, <2>1 DEF Inherits
<1>9. ASSUME strong = DOMAIN merged PROVE Succeeds(result, current)
  <2>1. \A i \in DOMAIN merged : \E j \in DOMAIN result : result[j] = merged[i]
    BY <1>5, <1>9 DEF Takes
  <2> QED BY <1>2, <2>1 DEF Succeeds
<1> QED BY <1>6, <1>7, <1>8, <1>9

\* The rank for a query orders memories of which each has another text.
LEMMA RankIsOrder ==
  ASSUME NEW s \in Seq(Lasting), Distinct(s), NEW matching, NEW now \in Times
  PROVE  Ordering(DOMAIN s, [i \in DOMAIN s |-> {j \in DOMAIN s :
                                LongTerm!RanksBefore(s[j], s[i], matching, now)}])
<1> DEFINE S == DOMAIN s
           score == [i \in S |-> LongTerm!Score(s[i], matching, now)]
           created == [i \in S |-> s[i].created]
           kind == [i \in S |-> LongTerm!KindOrder[s[i].kind]]
           text == [i \in S |-> s[i].text]
           below == [i \in S |-> {j \in S : LongTerm!RanksBefore(s[j], s[i], matching, now)}]
<1>1. ASSUME NEW i \in S
      PROVE  score[i] \in Int /\ created[i] \in Int /\ kind[i] \in Int /\ text[i] \in Int
  <2>1. s[i] \in Lasting
    OBVIOUS
  <2>2. LongTerm!Score(s[i], matching, now) \in Int
    BY <2>1, ScoreIs
  <2>3. s[i].created \in Int /\ s[i].text \in Int /\ s[i].kind \in LongTerm!Kinds
    BY <2>1, FieldsAre, BrainAssumption DEF Times
  <2>4. LongTerm!KindOrder[s[i].kind] \in Int
    BY <2>3, KindsAreRanked
  <2> QED BY <2>2, <2>3, <2>4
<1>2. ASSUME NEW i \in S, NEW j \in S
      PROVE  j \in below[i] <=>
               \/ score[j] > score[i]
               \/ score[j] = score[i] /\ created[j] > created[i]
               \/ score[j] = score[i] /\ created[j] = created[i] /\ kind[j] < kind[i]
               \/ score[j] = score[i] /\ created[j] = created[i] /\ kind[j] = kind[i]
                  /\ text[j] < text[i]
  <2>1. s[i] \in Lasting /\ s[j] \in Lasting
    OBVIOUS
  <2>2. s[i].kind = s[j].kind <=> kind[i] = kind[j]
    <3>1. s[i].kind \in LongTerm!Kinds /\ s[j].kind \in LongTerm!Kinds
      BY <2>1, FieldsAre
    <3> QED BY <3>1, KindsAreRanked
  <2>3. j \in below[i] <=> LongTerm!RanksBefore(s[j], s[i], matching, now)
    OBVIOUS
  <2> HIDE DEF below
  <2> QED BY <2>2, <2>3 DEF LongTerm!RanksBefore
<1>3. below \in [S -> SUBSET S]
  OBVIOUS
<1>4. IsFiniteSet(S)
  <2>1. S = 1..Len(s) /\ Len(s) \in Nat
    OBVIOUS
  <2> HIDE DEF S
  <2> QED BY <2>1, NumbersUpTo
<1>5. ASSUME NEW i \in S, NEW j \in S, i # j PROVE text[i] # text[j]
  BY <1>5 DEF Distinct
<1> HIDE DEF score, created, kind, text, below, S
<1>6. ASSUME NEW i \in S PROVE i \notin below[i]
  BY <1>1, <1>2
<1>7. ASSUME NEW i \in S, NEW j \in S, j \in below[i] PROVE below[j] \subseteq below[i]
  <2> SUFFICES ASSUME NEW k \in S, k \in below[j] PROVE k \in below[i]
    BY <1>3
  <2>1. /\ score[i] \in Int /\ score[j] \in Int /\ score[k] \in Int
        /\ created[i] \in Int /\ created[j] \in Int /\ created[k] \in Int
        /\ kind[i] \in Int /\ kind[j] \in Int /\ kind[k] \in Int
        /\ text[i] \in Int /\ text[j] \in Int /\ text[k] \in Int
    BY <1>1
  <2>2. \/ score[j] > score[i]
        \/ score[j] = score[i] /\ created[j] > created[i]
        \/ score[j] = score[i] /\ created[j] = created[i] /\ kind[j] < kind[i]
        \/ score[j] = score[i] /\ created[j] = created[i] /\ kind[j] = kind[i]
           /\ text[j] < text[i]
    BY <1>2, <1>7
  <2>3. \/ score[k] > score[j]
        \/ score[k] = score[j] /\ created[k] > created[j]
        \/ score[k] = score[j] /\ created[k] = created[j] /\ kind[k] < kind[j]
        \/ score[k] = score[j] /\ created[k] = created[j] /\ kind[k] = kind[j]
           /\ text[k] < text[j]
    BY <1>2
  <2>4. \/ score[k] > score[i]
        \/ score[k] = score[i] /\ created[k] > created[i]
        \/ score[k] = score[i] /\ created[k] = created[i] /\ kind[k] < kind[i]
        \/ score[k] = score[i] /\ created[k] = created[i] /\ kind[k] = kind[i]
           /\ text[k] < text[i]
    <3>1. score[k] >= score[j] /\ score[j] >= score[i]
      BY <2>1, <2>2, <2>3
    <3>2. CASE score[k] # score[j] \/ score[j] # score[i]
      <4>1. score[k] > score[i]
        BY <2>1, <3>1, <3>2
      <4> QED BY <4>1
    <3>3. CASE score[k] = score[j] /\ score[j] = score[i]
      <4>1. created[k] >= created[j] /\ created[j] >= created[i]
        BY <2>1, <2>2, <2>3, <3>3
      <4>2. CASE created[k] # created[j] \/ created[j] # created[i]
        BY <2>1, <3>3, <4>1, <4>2
      <4>3. CASE created[k] = created[j] /\ created[j] = created[i]
        BY <2>1, <2>2, <2>3, <3>3, <4>3
      <4> QED BY <4>2, <4>3
    <3> QED BY <3>2, <3>3
  <2> QED BY <1>2, <2>4
<1>8. ASSUME NEW i \in S, NEW j \in S, i # j PROVE i \in below[j] \/ j \in below[i]
  <2>1. text[i] # text[j]
    BY <1>5, <1>8
  <2> QED BY <1>1, <1>2, <2>1
<1>9. Ordering(S, below)
  BY <1>3, <1>4, <1>6, <1>7, <1>8 DEF Ordering
<1> QED BY <1>9 DEF S, below

\* Asked for as many as there are, rank gives all, each once.
LEMMA RankIs ==
  ASSUME NEW s, Store(s), NEW matching, NEW now \in Times, NEW result,
         result = LongTerm!Rank(s, matching, MaxMemories, now)
  PROVE  /\ Store(result) /\ Len(result) = Len(s)
         /\ \A j \in DOMAIN result : \E i \in DOMAIN s : result[j] = s[i]
         /\ \A i \in DOMAIN s : \E j \in DOMAIN result : result[j] = s[i]
<1> DEFINE S == DOMAIN s
           below == [i \in S |-> {j \in S : LongTerm!RanksBefore(s[j], s[i], matching, now)}]
           at(n) == CHOOSE i \in S : Cardinality(below[i]) = n - 1
<1>1. s \in Seq(Lasting) /\ Distinct(s) /\ Len(s) \in Nat /\ S = 1..Len(s) /\ Len(s) <= MaxMemories
  BY DEF Store
<1>2. result = [n \in 1..Len(s) |-> s[at(n)]]
  <2> DEFINE many == IF Len(s) < MaxMemories THEN Len(s) ELSE MaxMemories
             first(n) == CHOOSE i \in S : LongTerm!Cardinality(below[i]) = n - 1
  <2>1. many = Len(s)
    <3>1. MaxMemories \in Nat
      BY BrainAssumption
    <3> HIDE DEF S, below
    <3> QED BY <1>1, <3>1
  <2>2. \A n : first(n) = at(n)
    <3>1. \A T : LongTerm!Cardinality(T) = Cardinality(T)
      BY LongTermSequences
    <3> HIDE DEF S, below
    <3> QED BY <3>1
  <2>3. result = [n \in 1..many |-> s[CHOOSE i \in S : LongTerm!Cardinality({j \in S :
                          LongTerm!RanksBefore(s[j], s[i], matching, now)}) = n - 1]]
    BY DEF LongTerm!Rank
  <2>4. \A n : first(n) = CHOOSE i \in S : LongTerm!Cardinality({j \in S :
                          LongTerm!RanksBefore(s[j], s[i], matching, now)}) = n - 1
    OBVIOUS
  <2>5. result = [n \in 1..many |-> s[first(n)]]
    <3> HIDE DEF many, first
    <3> QED BY <2>3, <2>4
  <2> HIDE DEF many, first, at
  <2> QED BY <2>1, <2>2, <2>5
<1>3. Cardinality(S) = Len(s)
  <2> HIDE DEF S
  <2> QED BY <1>1, NumbersUpTo
<1>4. /\ \A i \in S : Cardinality(below[i]) \in 0..(Len(s) - 1)
      /\ \A n \in 0..(Len(s) - 1) : \E i \in S : Cardinality(below[i]) = n
      /\ \A i, j \in S : Cardinality(below[i]) = Cardinality(below[j]) => i = j
  <2>1. Ordering(S, below)
    BY <1>1, RankIsOrder
  <2> HIDE DEF S, below
  <2> QED BY <1>3, <2>1, PlacesInOrder
<1> HIDE DEF S, below
<1>5. ASSUME NEW n \in 1..Len(s) PROVE at(n) \in S /\ Cardinality(below[at(n)]) = n - 1
  <2>1. n - 1 \in 0..(Len(s) - 1)
    BY <1>1
  <2>2. \E i \in S : Cardinality(below[i]) = n - 1
    BY <1>4, <2>1
  <2> QED BY <2>2
<1>6. ASSUME NEW i \in S
      PROVE  Cardinality(below[i]) + 1 \in 1..Len(s) /\ at(Cardinality(below[i]) + 1) = i
  <2> DEFINE n == Cardinality(below[i]) + 1
  <2>1. n \in 1..Len(s) /\ n - 1 = Cardinality(below[i])
    BY <1>1, <1>4
  <2> HIDE DEF n
  <2>2. at(n) \in S /\ Cardinality(below[at(n)]) = Cardinality(below[i])
    <3>1. at(n) \in S /\ Cardinality(below[at(n)]) = n - 1
      <4> HIDE DEF at
      <4> QED BY <1>5, <2>1
    <3> HIDE DEF at
    <3> QED BY <2>1, <3>1
  <2>3. at(n) = i
    <3> HIDE DEF at
    <3> QED BY <1>4, <2>2
  <2>4. n \in 1..Len(s) /\ at(n) = i
    BY <2>1, <2>3
  <2> QED BY <2>4 DEF n
<1> HIDE DEF at
<1>7. \A n \in 1..Len(s) : s[at(n)] \in Lasting
  BY <1>1, <1>5 DEF S
<1>8. /\ result \in Seq(Lasting) /\ Len(result) = Len(s) /\ DOMAIN result = 1..Len(s)
      /\ \A n \in 1..Len(s) : result[n] = s[at(n)]
  BY <1>1, <1>2, <1>7
<1>9. Distinct(result)
  <2> SUFFICES ASSUME NEW m \in 1..Len(s), NEW n \in 1..Len(s), result[m].text = result[n].text
               PROVE  m = n
    BY <1>8 DEF Distinct
  <2>1. at(m) = at(n)
    BY <1>1, <1>5, <1>8 DEF Distinct, S
  <2>2. m - 1 = n - 1
    BY <1>5, <2>1
  <2> QED BY <1>1, <2>2
<1>10. \A j \in DOMAIN result : \E i \in DOMAIN s : result[j] = s[i]
  BY <1>5, <1>8 DEF S
<1>11. \A i \in DOMAIN s : \E j \in DOMAIN result : result[j] = s[i]
  <2> SUFFICES ASSUME NEW i \in S PROVE \E j \in 1..Len(s) : result[j] = s[i]
    BY <1>8 DEF S
  <2> DEFINE n == Cardinality(below[i]) + 1
  <2>1. n \in 1..Len(s) /\ at(n) = i
    BY <1>6
  <2> HIDE DEF n
  <2> QED BY <1>8, <2>1
<1> QED BY <1>1, <1>8, <1>9, <1>10, <1>11 DEF Store

-------------------------------------------------------------------------------
\* Two stores of the same lines.
Alike(a, b) == a.kind = b.kind /\ a.text = b.text /\ a.source = b.source
LinesOf(s) == LongTerm!Lines(s)

LEMMA SameLines ==
  ASSUME NEW s, NEW r,
         \A j \in DOMAIN r : \E i \in DOMAIN s : Alike(r[j], s[i]),
         \A i \in DOMAIN s : \E j \in DOMAIN r : Alike(r[j], s[i])
  PROVE  LinesOf(r) = LinesOf(s)
BY DEF LinesOf, LongTerm!Lines, Alike

LEMMA RankKeepsLines ==
  ASSUME NEW s, Store(s), NEW matching, NEW now \in Times, NEW result,
         result = LongTerm!Rank(s, matching, MaxMemories, now)
  PROVE  LinesOf(result) = LinesOf(s)
<1>1. /\ \A j \in DOMAIN result : \E i \in DOMAIN s : result[j] = s[i]
      /\ \A i \in DOMAIN s : \E j \in DOMAIN result : result[j] = s[i]
  BY RankIs
<1> QED BY <1>1, SameLines DEF Alike

\* A store of n memories has n lines.
LEMMA LinesAre ==
  ASSUME NEW s, Store(s)
  PROVE  /\ Cardinality(LinesOf(s)) = Len(s)
         /\ LongTerm!Abstract!WellFormed(LinesOf(s))
         /\ s # <<>> => LinesOf(s) # {}
<1> DEFINE line == [i \in DOMAIN s |->
                      [kind |-> s[i].kind, text |-> s[i].text, source |-> s[i].source]]
           lines == LinesOf(s)
<1>1. /\ s \in Seq(Lasting) /\ Distinct(s) /\ Len(s) <= MaxMemories
      /\ DOMAIN s = 1..Len(s) /\ Len(s) \in Nat
  BY DEF Store
<1>2. lines = {line[i] : i \in DOMAIN s}
  BY DEF LinesOf, LongTerm!Lines
<1>3. \A i \in DOMAIN s : line[i].text = s[i].text /\ line[i] \in lines
  BY <1>2
<1>4. \A i \in DOMAIN s : line[i] \in [kind : LongTerm!Kinds, text : Texts, source : AnySource]
  <2> SUFFICES ASSUME NEW i \in DOMAIN s
               PROVE  line[i] \in [kind : LongTerm!Kinds, text : Texts, source : AnySource]
    OBVIOUS
  <2>1. s[i] \in Lasting
    BY <1>1
  <2> QED BY <2>1, FieldsAre
<1> HIDE DEF line, lines
<1>5. \A i, j \in DOMAIN s : line[i].text = line[j].text => i = j
  BY <1>1, <1>3 DEF Distinct
<1>6. Cardinality(lines) = Len(s)
  <2>1. [i \in DOMAIN s |-> line[i]] \in Bijection(DOMAIN s, lines)
    BY <1>2, <1>3, <1>5 DEF Bijection, Injection, Surjection, IsInjective
  <2>2. IsFiniteSet(DOMAIN s) /\ Cardinality(DOMAIN s) = Len(s)
    BY <1>1, NumbersUpTo
  <2>3. ExistsBijection(DOMAIN s, lines)
    BY <2>1 DEF ExistsBijection
  <2> QED BY <2>2, <2>3, FS_Bijection
<1>7. lines \subseteq [kind : LongTerm!Kinds, text : Texts, source : AnySource]
  BY <1>2, <1>4
<1>8. \A a, b \in lines : a.text = b.text => a = b
  BY <1>2, <1>5
<1>9. LongTerm!Abstract!WellFormed(lines)
  <2>1. LongTerm!Abstract!Cardinality(lines) = Cardinality(lines)
    BY LongTermSequences
  <2> QED BY <1>1, <1>6, <1>7, <1>8, <2>1 DEF LongTerm!Abstract!WellFormed, AnySource
<1>10. s # <<>> => lines # {}
  <2> SUFFICES ASSUME s # <<>> PROVE lines # {}
    OBVIOUS
  <2>1. 1 \in DOMAIN s
    BY <1>1
  <2> QED BY <1>3, <2>1
<1> QED BY <1>6, <1>9, <1>10 DEF lines

\* A request's recall counts, and changes no line.
LEMMA CountedIs ==
  ASSUME NEW s, Store(s), NEW matching, clock \in Times, NEW result,
         result = LongTerm!Counted(s, matching)
  PROVE  Store(result) /\ LinesOf(result) = LinesOf(s) /\ Inherits(result, s)
<1> DEFINE picked == LongTerm!ToSet(LongTerm!Rank(s, matching, Limit, clock))
<1>1. result = [i \in DOMAIN s |->
                  IF s[i] \in picked
                  THEN [s[i] EXCEPT !.recalled = clock, !.count = LongTerm!UpTo(s[i].count + 1)]
                  ELSE s[i]]
  BY DEF LongTerm!Counted
<1> HIDE DEF picked
<1>2. /\ s \in Seq(Lasting) /\ Distinct(s) /\ Len(s) <= MaxMemories
      /\ DOMAIN s = 1..Len(s) /\ Len(s) \in Nat
  BY DEF Store
<1>3. ASSUME NEW i \in DOMAIN s
      PROVE  result[i] \in Lasting /\ Alike(result[i], s[i]) /\ result[i].count >= s[i].count
  <2>1. s[i] \in Lasting
    BY <1>2
  <2>2. s[i].count \in 0..MaxCount /\ MaxCount \in Nat
    BY <2>1, FieldsAre, BrainAssumption
  <2> DEFINE count == LongTerm!UpTo(s[i].count + 1)
  <2>3. count \in 0..MaxCount /\ count >= s[i].count
    BY <2>2 DEF LongTerm!UpTo
  <2>4. clock \in Times \union {Never}
    OBVIOUS
  <2>5. CASE s[i] \in picked
    <3>1. result[i] = [s[i] EXCEPT !.recalled = clock, !.count = count]
      BY <1>1, <2>5
    <3> HIDE DEF count
    <3> QED BY <2>1, <2>3, <2>4, <3>1 DEF Lasting, LongTerm!Memory, Times, Alike
  <2>6. CASE s[i] \notin picked
    <3>1. result[i] = s[i]
      BY <1>1, <2>6
    <3> QED BY <2>1, <2>2, <3>1 DEF Alike
  <2> QED BY <2>5, <2>6
<1>4. result \in Seq(Lasting) /\ DOMAIN result = DOMAIN s /\ Len(result) = Len(s)
  <2>1. DOMAIN result = 1..Len(s)
    BY <1>1, <1>2
  <2>2. result = [i \in 1..Len(s) |-> result[i]]
    BY <1>1, <1>2
  <2> QED BY <1>2, <1>3, <2>1, <2>2
<1>5. Distinct(result)
  BY <1>2, <1>3, <1>4 DEF Distinct, Alike
<1>6. LinesOf(result) = LinesOf(s)
  BY <1>3, <1>4, SameLines
<1>7. Inherits(result, s)
  <2>1. \A i \in DOMAIN s, j \in DOMAIN result : s[i].text = result[j].text => i = j
    BY <1>2, <1>3, <1>4 DEF Distinct, Alike
  <2> QED BY <1>3, <2>1 DEF Inherits
<1> QED BY <1>2, <1>4, <1>5, <1>6, <1>7 DEF Store

Item == [text : Nat, sources : Seq(Nat)]

\* The recalls of the memories that an item stands for.
LEMMA RecallsAre ==
  ASSUME NEW current \in Seq(Lasting), NEW item \in Item,
         \A k \in DOMAIN item.sources : item.sources[k] \in DOMAIN current
  PROVE  LongTerm!Recalls(current, item) \in Nat
<1> DEFINE n == Len(item.sources)
           D == Nat
           zero == 0
           count(k) == current[item.sources[k]].count
           step == [k \in 1..n |-> [d \in D |-> d + count(k)]]
           Body(t) == [m \in 0..n |-> IF m = 0 THEN 0 ELSE t[m - 1] + current[item.sources[m]].count]
           t == CHOOSE u : u = Body(u)
<1>1. n \in Nat /\ DOMAIN item.sources = 1..n
  BY DEF Item
<1>2. ASSUME NEW k \in 1..n PROVE count(k) \in Nat
  <2>1. current[item.sources[k]] \in Lasting
    BY <1>1
  <2> QED BY <2>1, FieldsAre, BrainAssumption
<1>3. Loops(n, D, zero, step)
  <2>1. \A k \in 1..n, d \in D : step[k][d] = d + count(k) /\ d + count(k) \in D
    <3> HIDE DEF count
    <3> QED BY <1>2, SMTT(30)
  <2>2. zero \in D
    OBVIOUS
  <2> HIDE DEF step, D, zero, n
  <2> QED BY <1>1, <2>1, <2>2 DEF Loops
<1>4. PICK f \in [0..n -> D] : Rounds(f, n, zero, step)
  <2> HIDE DEF n, D, zero, step
  <2> QED BY <1>3, LoopExists
<1>5. ASSUME NEW k \in 0..n PROVE f[k] = IF k = 0 THEN 0 ELSE f[k - 1] + count(k)
  <2>1. f[k] = IF k = 0 THEN zero ELSE step[k][f[k - 1]]
    <3> HIDE DEF n, D, step, zero
    <3> QED BY <1>4 DEF Rounds
  <2>2. CASE k # 0
    <3>1. k \in 1..n /\ k - 1 \in 0..n
      BY <1>1, <2>2
    <3>2. f[k - 1] \in D
      <4> HIDE DEF D
      <4> QED BY <3>1, <1>4
    <3>3. step[k][f[k - 1]] = f[k - 1] + count(k)
      <4> HIDE DEF n, D, count
      <4> QED BY <3>1, <3>2
    <3> HIDE DEF step, count
    <3> QED BY <2>1, <2>2, <3>3
  <2>3. CASE k = 0
    <3> HIDE DEF step, count
    <3> QED BY <2>1, <2>3
  <2> QED BY <2>2, <2>3
<1>6. f = Body(f)
  <2>1. Body(f) = [m \in 0..n |-> IF m = 0 THEN 0 ELSE f[m - 1] + count(m)]
    OBVIOUS
  <2>2. \A m \in 0..n : f[m] = Body(f)[m]
    <3> HIDE DEF n, D, count, Body
    <3> QED BY <1>5, <2>1
  <2> HIDE DEF n, D, Body, count
  <2>3. f = [m \in 0..n |-> f[m]]
    BY <1>4
  <2> QED BY <2>1, <2>2, <2>3
<1>7. t = Body(t)
  <2> HIDE DEF Body
  <2> QED BY <1>6
<1>8. LongTerm!Recalls(current, item) = t[n]
  BY DEF LongTerm!Recalls
<1>9. \A m \in 0..n : t[m] = IF m = 0 THEN 0 ELSE t[m - 1] + count(m)
  <2> HIDE DEF t, n
  <2> QED BY <1>7
<1>10. \A k \in 0..n : t[k] \in D
  <2>1. ASSUME NEW k \in 1..n, t[k - 1] \in D PROVE t[k] \in D
    <3>1. k \in 0..n /\ k # 0 /\ count(k) \in Nat
      <4> HIDE DEF count
      <4> QED BY <1>1, <1>2
    <3>2. t[k] = t[k - 1] + count(k)
      <4> HIDE DEF t, n, count
      <4> QED BY <1>9, <3>1
    <3> HIDE DEF t, n, count
    <3> QED BY <2>1, <3>1, <3>2
  <2>2. t[0] \in D
    <3> HIDE DEF t, n, count
    <3> QED BY <1>1, <1>9
  <2> HIDE DEF t, n, D
  <2> QED BY <1>1, <2>1, <2>2, LoopKeeps
<1> HIDE DEF t, n
<1> QED BY <1>1, <1>8, <1>10

\* The extremes of the memories that an item stands for.
LEMMA ExtremesAre ==
  ASSUME NEW olds \in SUBSET Lasting, olds # {}
  PROVE  /\ \E m \in olds : \A n \in olds :
              LongTerm!KindOrder[m.kind] <= LongTerm!KindOrder[n.kind]
         /\ \E m \in olds : \A n \in olds : m.importance >= n.importance
         /\ \E m \in olds : \A n \in olds : m.created <= n.created
         /\ LET recalls == {m.recalled : m \in olds} \ {Never} IN
            recalls # {} => \E r \in recalls : r \in Times /\ \A s \in recalls : r >= s
<1>1. ASSUME NEW m \in olds
      PROVE  /\ LongTerm!KindOrder[m.kind] \in Nat
             /\ m.importance \in Nat /\ m.importance <= 10
             /\ m.created \in Nat
             /\ m.recalled \in Times \union {Never}
  <2>1. m \in Lasting
    OBVIOUS
  <2>2. /\ m.kind \in LongTerm!Kinds /\ m.importance \in 1..10 /\ m.created \in 0..MaxClock
        /\ m.recalled \in Times \union {Never}
    BY <2>1, FieldsAre DEF Times
  <2>3. LongTerm!KindOrder[m.kind] \in Nat
    BY <2>2, KindsAreRanked
  <2> QED BY <2>2, <2>3, BrainAssumption
<1>2. \E m \in olds : \A n \in olds :
        LongTerm!KindOrder[m.kind] <= LongTerm!KindOrder[n.kind]
  <2> DEFINE T == {LongTerm!KindOrder[m.kind] : m \in olds}
  <2>1. T \subseteq Nat /\ T # {}
    BY <1>1
  <2>2. PICK x \in T : \A y \in T : x <= y
    <3> HIDE DEF T
    <3> QED BY <2>1, SmallestNumber
  <2> QED BY <2>2
<1>3. \E m \in olds : \A n \in olds : m.importance >= n.importance
  <2> DEFINE T == {m.importance : m \in olds}
  <2>1. T \subseteq Nat /\ T # {} /\ \A x \in T : x <= 10
    BY <1>1
  <2>2. PICK x \in T : \A y \in T : y <= x
    <3> HIDE DEF T
    <3> QED BY <2>1, LargestNumber
  <2>3. PICK m \in olds : x = m.importance
    BY <2>2
  <2>4. \A n \in olds : n.importance <= m.importance
    BY <2>2, <2>3
  <2> QED BY <2>4, <1>1
<1>4. \E m \in olds : \A n \in olds : m.created <= n.created
  <2> DEFINE T == {m.created : m \in olds}
  <2>1. T \subseteq Nat /\ T # {}
    BY <1>1
  <2>2. PICK x \in T : \A y \in T : x <= y
    <3> HIDE DEF T
    <3> QED BY <2>1, SmallestNumber
  <2> QED BY <2>2
<1> DEFINE recalls == {m.recalled : m \in olds} \ {Never}
<1>5. ASSUME recalls # {} PROVE \E r \in recalls : r \in Times /\ \A s \in recalls : r >= s
  <2>1. \A r \in recalls : r \in Times
    BY <1>1
  <2>2. recalls \subseteq Nat /\ MaxClock \in Nat /\ \A r \in recalls : r <= MaxClock
    <3> HIDE DEF recalls
    <3> QED BY <2>1, BrainAssumption DEF Times
  <2> HIDE DEF recalls
  <2>3. PICK r \in recalls : \A s \in recalls : s <= r
    BY <1>5, <2>2, LargestNumber
  <2>4. \A s \in recalls : r >= s
    BY <2>2, <2>3
  <2> QED BY <2>1, <2>4
<1> QED BY <1>2, <1>3, <1>4, <1>5

\* An item that is not refused makes a memory of its text.
LEMMA ConsolidateIs ==
  ASSUME NEW current \in Seq(Lasting), NEW item \in Item, LongTerm!Acceptable(item.text),
         ~LongTerm!Refused(current, item)
  PROVE  /\ LongTerm!Consolidate(current, item) \in Lasting
         /\ LongTerm!Consolidate(current, item).text = item.text
<1> DEFINE sources == LongTerm!SourcesOf(current, item)
           leading == CHOOSE m \in sources : \A n \in sources :
                        LongTerm!KindOrder[m.kind] <= LongTerm!KindOrder[n.kind]
           best == CHOOSE m \in sources : \A n \in sources : m.importance >= n.importance
           first == CHOOSE m \in sources : \A n \in sources : m.created <= n.created
           keys == {m.source : m \in sources}
           recalls == {m.recalled : m \in sources} \ {Never}
           source == IF LongTerm!Cardinality(keys) = 1 THEN CHOOSE key \in keys : TRUE ELSE NoSource
           recalled == IF recalls = {} THEN Never
                       ELSE CHOOSE r \in recalls : \A s \in recalls : r >= s
           count == LongTerm!UpTo(LongTerm!Recalls(current, item))
<1>1. LongTerm!Consolidate(current, item) =
        LongTerm!BuildMemory(leading.kind, item.text, best.importance, source, first.created,
                             recalled, count)
  BY DEF LongTerm!Consolidate
<1>2. item.sources \in Seq(Nat) /\ item.sources # <<>>
      /\ \A k \in DOMAIN item.sources : item.sources[k] \in DOMAIN current
  <2>1. LongTerm!ToSet(item.sources) \subseteq DOMAIN current /\ item.sources # <<>>
    BY DEF LongTerm!Refused
  <2> QED BY <2>1 DEF LongTerm!ToSet, Item
<1>3. sources \in SUBSET Lasting /\ sources # {}
  <2>1. \A k \in DOMAIN item.sources : current[item.sources[k]] \in Lasting
    BY <1>2
  <2>2. 1 \in DOMAIN item.sources
    BY <1>2
  <2> QED BY <2>1, <2>2 DEF LongTerm!SourcesOf
<1> HIDE DEF sources
<1>4. leading \in sources /\ best \in sources /\ first \in sources
  BY <1>3, ExtremesAre
<1>5. recalled \in Times \union {Never}
  <2>1. CASE recalls # {}
    <3>1. \E r \in recalls : r \in Times /\ \A s \in recalls : r >= s
      BY <1>3, <2>1, ExtremesAre
    <3>2. \A r \in recalls : r \in Times
      <4>1. \A m \in sources : m.recalled \in Times \union {Never}
        BY <1>3, FieldsAre
      <4> QED BY <4>1
    <3> HIDE DEF recalls
    <3> QED BY <2>1, <3>1, <3>2
  <2>2. CASE recalls = {}
    BY <2>2
  <2> QED BY <2>1, <2>2
<1>6. source \in AnySource
  <2>1. keys # {} /\ keys \subseteq AnySource
    BY <1>3, FieldsAre
  <2> HIDE DEF keys
  <2> QED BY <2>1 DEF AnySource
<1>7. count \in 0..MaxCount
  <2>1. LongTerm!Recalls(current, item) \in Nat
    BY <1>2, RecallsAre
  <2> QED BY <2>1, BrainAssumption DEF LongTerm!UpTo
<1>8. /\ leading.kind \in LongTerm!Kinds /\ best.importance \in Int /\ first.created \in Times
  <2>1. leading \in Lasting /\ best \in Lasting /\ first \in Lasting
    BY <1>3, <1>4
  <2> HIDE DEF leading, best, first
  <2>2. best.importance \in 1..10
    BY <2>1, FieldsAre
  <2> QED BY <2>1, <2>2, FieldsAre
<1>9. item.text \in Texts
  BY DEF LongTerm!Acceptable
<1> HIDE DEF leading, best, first, source, recalled, count
<1> QED BY <1>1, <1>5, <1>6, <1>7, <1>8, <1>9, BuildMemoryIs

\* Each memory is there under its text, or a result's item stands for it.
StandsFor(merged, current, result) ==
  \A i \in DOMAIN current :
    \/ current[i].text \in LongTerm!Texting(merged)
    \/ \E k \in DOMAIN result : i \in LongTerm!ToSet(result[k].sources)
                                /\ result[k].text \in LongTerm!Texting(merged)

\* What a model's answer makes of a store: fewer memories, of which each was
\* there or stands for some.
LEMMA ConsolidatedIs ==
  ASSUME NEW current, Store(current), NEW result \in Seq(Item), NEW outcome,
         outcome = LongTerm!Consolidated(current, result), outcome # <<>>
  PROVE  /\ Store(outcome) /\ Len(outcome) < Len(current)
         /\ StandsFor(outcome, current, result)
<1> DEFINE places == {i \in DOMAIN result : LongTerm!Acceptable(result[i].text)}
           good == Sublist(result, places)
           used == UNION {LongTerm!ToSet(good[i].sources) : i \in DOMAIN good}
           kept == LongTerm!KeptMemories(current, used)
           built == [i \in DOMAIN good |-> LongTerm!Consolidate(current, good[i])]
           merged == kept \o built
           Bad == \/ \E i \in DOMAIN result : LongTerm!Refused(current, result[i])
                  \/ good = <<>>
                  \/ \E i, j \in DOMAIN merged : i # j /\ merged[i].text = merged[j].text
                  \/ Len(merged) >= Len(current)
<1>1. outcome = IF Bad THEN <<>> ELSE merged
  BY LongTermSequences DEF LongTerm!Consolidated
<1>2. outcome = merged /\ ~Bad
  <2> HIDE DEF Bad, merged
  <2> QED BY <1>1
<1>3. /\ \A i \in DOMAIN result : ~LongTerm!Refused(current, result[i])
      /\ \A i, j \in DOMAIN merged : merged[i].text = merged[j].text => i = j
      /\ ~(Len(merged) >= Len(current))
  <2> HIDE DEF merged
  <2> QED BY <1>2
<1> HIDE DEF Bad
<1>4. /\ current \in Seq(Lasting) /\ Len(current) \in Nat /\ Len(current) <= MaxMemories
      /\ MaxMemories \in Nat
  BY BrainAssumption DEF Store
<1>5. /\ good \in Seq(Item)
      /\ \A j \in DOMAIN good : \E i \in places : good[j] = result[i]
  <2>1. places \in SUBSET DOMAIN result
    OBVIOUS
  <2> HIDE DEF places
  <2>2. good \in Seq(Item)
    BY <2>1, SublistRange
  <2>3. \A j \in DOMAIN good : \E i \in places : good[j] = result[i]
    BY <2>1, SublistPlaces
  <2> QED BY <2>2, <2>3
<1>6. ASSUME NEW j \in DOMAIN good
      PROVE  \E i \in DOMAIN result : /\ good[j] = result[i] /\ good[j] \in Item
                                      /\ LongTerm!Acceptable(good[j].text)
                                      /\ ~LongTerm!Refused(current, good[j])
  <2>1. PICK i \in places : good[j] = result[i]
    BY <1>5
  <2>2. i \in DOMAIN result /\ LongTerm!Acceptable(result[i].text)
    OBVIOUS
  <2> HIDE DEF places, good
  <2> QED BY <1>3, <1>5, <2>1, <2>2
<1> HIDE DEF good, places
<1>7. ASSUME NEW j \in DOMAIN good
      PROVE  built[j] \in Lasting /\ built[j].text = good[j].text
  <2>1. built[j] = LongTerm!Consolidate(current, good[j])
    OBVIOUS
  <2> HIDE DEF built
  <2> QED BY <1>4, <1>6, <2>1, ConsolidateIs
<1>8. built \in Seq(Lasting) /\ DOMAIN built = DOMAIN good
  <2>1. DOMAIN built = DOMAIN good /\ DOMAIN good = 1..Len(good) /\ Len(good) \in Nat
    BY <1>5
  <2>2. built = [i \in 1..Len(good) |-> built[i]]
    BY <2>1
  <2> HIDE DEF built
  <2> QED BY <1>7, <2>1, <2>2
<1>9. kept \in Seq(Lasting) /\ ToSet(kept) = {current[i] : i \in DOMAIN current \ used}
  <2>1. kept = Sublist(current, DOMAIN current \ used)
    BY LongTermSequences DEF LongTerm!KeptMemories
  <2>2. (DOMAIN current \ used) \in SUBSET DOMAIN current
    OBVIOUS
  <2> HIDE DEF kept, used
  <2> QED BY <1>4, <2>1, <2>2, SublistRange
<1>10. \A i \in used : \E j \in DOMAIN good : i \in LongTerm!ToSet(good[j].sources)
  OBVIOUS
<1> HIDE DEF kept, built, used
<1>11. /\ merged \in Seq(Lasting) /\ Len(merged) \in Nat
       /\ \A i \in DOMAIN kept : \E n \in DOMAIN merged : merged[n] = kept[i]
       /\ \A i \in DOMAIN built : \E n \in DOMAIN merged : merged[n] = built[i]
  <2>1. /\ Len(kept) \in Nat /\ Len(built) \in Nat
        /\ DOMAIN kept = 1..Len(kept) /\ DOMAIN built = 1..Len(built)
    BY <1>8, <1>9
  <2>2. /\ merged \in Seq(Lasting) /\ Len(merged) = Len(kept) + Len(built)
        /\ DOMAIN merged = 1..(Len(kept) + Len(built))
        /\ \A n \in 1..(Len(kept) + Len(built)) :
             merged[n] = IF n <= Len(kept) THEN kept[n] ELSE built[n - Len(kept)]
    BY <1>8, <1>9
  <2> HIDE DEF merged
  <2>3. ASSUME NEW i \in DOMAIN kept PROVE i \in DOMAIN merged /\ merged[i] = kept[i]
    BY <2>1, <2>2
  <2>4. ASSUME NEW i \in DOMAIN built
        PROVE  Len(kept) + i \in DOMAIN merged /\ merged[Len(kept) + i] = built[i]
    <3>1. /\ Len(kept) + i \in 1..(Len(kept) + Len(built)) /\ ~(Len(kept) + i <= Len(kept))
          /\ (Len(kept) + i) - Len(kept) = i
      BY <2>1
    <3> QED BY <2>2, <3>1
  <2> QED BY <2>1, <2>2, <2>3, <2>4
<1> HIDE DEF merged
<1>12. Store(outcome) /\ Len(outcome) < Len(current)
  BY <1>2, <1>3, <1>4, <1>11 DEF Store, Distinct
<1>13. StandsFor(outcome, current, result)
  <2> SUFFICES ASSUME NEW i \in DOMAIN current
               PROVE  \/ current[i].text \in LongTerm!Texting(merged)
                      \/ \E k \in DOMAIN result : i \in LongTerm!ToSet(result[k].sources)
                                                  /\ result[k].text \in LongTerm!Texting(merged)
    BY <1>2 DEF StandsFor
  <2>1. CASE i \notin used
    <3>1. current[i] \in ToSet(kept)
      BY <1>9, <2>1
    <3>2. PICK k \in DOMAIN kept : kept[k] = current[i]
      BY <3>1 DEF ToSet
    <3>3. PICK n \in DOMAIN merged : merged[n] = current[i]
      BY <1>11, <3>2
    <3> QED BY <3>3 DEF LongTerm!Texting
  <2>2. CASE i \in used
    <3>1. PICK j \in DOMAIN good : i \in LongTerm!ToSet(good[j].sources)
      BY <1>10, <2>2
    <3>2. PICK k \in DOMAIN result : good[j] = result[k]
      BY <1>6
    <3>3. PICK n \in DOMAIN merged : merged[n] = built[j]
      BY <1>8, <1>11
    <3>4. merged[n].text = result[k].text
      BY <1>7, <3>2, <3>3
    <3>5. result[k].text \in LongTerm!Texting(merged)
      BY <3>4 DEF LongTerm!Texting
    <3> QED BY <3>1, <3>2, <3>5
  <2> QED BY <2>1, <2>2
<1> QED BY <1>12, <1>13, SMTT(30)

\* Who calls the store, and how far each is.
AllCallers == Readers \union {Drain}
Asks == {"idle", "recall", "load"}
Updates == {"consolidate", "replace", "write"}
JobSteps == Asks \union {"known", "remember", "read"} \union Updates
Jobs == [step : JobSteps, value : Seq(Lasting), more : BOOLEAN]

\* What is kept and held are stores, and only the task has more to do than to ask.
HoldsStores ==
  /\ Store(memories) /\ (known = NotCached \/ Store(known))
  /\ clock \in Times /\ holder \in AllCallers \union {NoCaller}
  /\ task \in [AllCallers -> Jobs] /\ \A x \in Readers : task[x].step \in Asks

\* Whoever reads or writes the file has the lock, and who reads it found no cache.
LockIsHeld ==
  \A x \in AllCallers :
    /\ task[x].step \in {"load", "read", "write"} => holder = x
    /\ task[x].step \in {"load", "read"} => known = NotCached

\* What the task holds between the steps of an update.
UpdateIsWhole ==
  /\ task[Drain].step \in {"remember", "read"} => Incoming(task[Drain].value)
  /\ task[Drain].step \in Updates => Store(task[Drain].value)
  /\ task[Drain].step = "consolidate" =>
       /\ Len(task[Drain].value) = MaxMemories
       /\ known # NotCached =>
            LinesOf(known) = LinesOf(task[Drain].value) \/ LinesOf(known) = LinesOf(memories)
  /\ task[Drain].step = "replace" => Len(task[Drain].value) < MaxMemories
  /\ task[Drain].step = "write" /\ known # NotCached => LinesOf(known) = LinesOf(task[Drain].value)

LongTermInv == HoldsStores /\ LockIsHeld /\ UpdateIsWhole

\* What DistilledMemory sees of the store, and the steps it allows.
KnownLines == LinesOf(LongTerm!Known)
StoredLines == LinesOf(memories)
Promised == [LongTerm!Abstract!Next]_<<LongTerm!Lines(LongTerm!Known), LongTerm!Lines(memories)>>
\* What the cache counts is not forgotten while an extraction is remembered.
Remembering ==
  known # NotCached /\ known' # NotCached /\ task[Drain].step \in {"remember", "read"}
    => Inherits(known', known)

\* A store is not taken for the value that stands for none.
LEMMA StoresAreCached == \A s : Store(s) => s # NotCached
<1> SUFFICES ASSUME NEW s, Store(s) PROVE s # NotCached
  OBVIOUS
<1>1. s \in [1..Len(s) -> LongTerm!Memory] /\ Len(s) \in 0..MaxMemories
  BY BrainAssumption DEF Store, Lasting
<1> QED BY <1>1, LongTermAssumption

LEMMA KnownIs ==
  LongTerm!Known = IF task[Drain].step \in Updates THEN task[Drain].value
                   ELSE IF known # NotCached THEN known ELSE memories
BY DEF LongTerm!Known, Updates

LEMMA KnownIsStore == LongTermInv => Store(LongTerm!Known)
BY KnownIs DEF LongTermInv, HoldsStores, UpdateIsWhole

\* The ways in which a step of the store is one of DistilledMemory, or none.
LEMMA NothingChanges ==
  ASSUME KnownLines' = KnownLines, StoredLines' = StoredLines PROVE Promised
BY DEF Promised, KnownLines, StoredLines, LinesOf

LEMMA UpdateIsLost ==
  ASSUME KnownLines' = StoredLines, StoredLines' = StoredLines PROVE Promised
BY DEF Promised, KnownLines, StoredLines, LinesOf, LongTerm!Abstract!Next, LongTerm!Abstract!Revert

LEMMA UpdateIsStored ==
  ASSUME KnownLines' = KnownLines, StoredLines' = KnownLines PROVE Promised
BY DEF Promised, KnownLines, StoredLines, LinesOf, LongTerm!Abstract!Next, LongTerm!Abstract!Save

LEMMA UpdateIsMade ==
  ASSUME LongTermInv, NEW after, Store(after), KnownLines' = LinesOf(after),
         StoredLines' = StoredLines,
         Len(after) = MaxMemories \/ Succeeds(after, LongTerm!Known)
  PROVE  Promised
<1> DEFINE before == LongTerm!Known
<1>1. LongTerm!Abstract!WellFormed(LinesOf(after)) /\ Cardinality(LinesOf(after)) = Len(after)
  BY LinesAre
<1>2. Len(after) = MaxMemories => LongTerm!Abstract!Cardinality(LinesOf(after)) = MaxMemories
  BY <1>1, LongTermSequences
<1>3. ASSUME Succeeds(after, before), NEW old \in LinesOf(before)
      PROVE  \E new \in LinesOf(after) : LongTerm!Abstract!Replaces(new, old)
  <2>1. PICK i \in DOMAIN before :
          old = [kind |-> before[i].kind, text |-> before[i].text, source |-> before[i].source]
    BY DEF LinesOf, LongTerm!Lines
  <2>2. PICK j \in DOMAIN after : LongTerm!ReplacedBy(after[j], before[i])
    BY <1>3 DEF Succeeds
  <2> DEFINE new == [kind |-> after[j].kind, text |-> after[j].text, source |-> after[j].source]
  <2>3. new \in LinesOf(after)
    BY DEF LinesOf, LongTerm!Lines
  <2>4. LongTerm!Abstract!Replaces(new, old)
    BY <2>1, <2>2 DEF LongTerm!ReplacedBy, LongTerm!Abstract!Replaces
  <2> QED BY <2>3, <2>4
<1>4. KnownLines = LinesOf(before)
  BY DEF KnownLines
<1> HIDE DEF before
<1>5. \A old \in KnownLines \ KnownLines' :
        \/ LongTerm!Abstract!Cardinality(KnownLines') = MaxMemories
        \/ \E new \in KnownLines' : LongTerm!Abstract!Replaces(new, old)
  <2>1. CASE Len(after) = MaxMemories
    BY <1>2, <2>1
  <2>2. CASE Succeeds(after, before)
    BY <1>3, <1>4, <2>2
  <2> QED BY <2>1, <2>2 DEF before
<1>6. LongTerm!Abstract!WellFormed(KnownLines')
  BY <1>1
<1>7. LongTerm!Abstract!Remember
  BY <1>5, <1>6 DEF LongTerm!Abstract!Remember, KnownLines, StoredLines, LinesOf
<1> QED BY <1>7 DEF Promised, LongTerm!Abstract!Next

\* Fewer memories take the place of a full store.
LEMMA MemoriesAreConsolidated ==
  ASSUME NEW before, Store(before), KnownLines = LinesOf(before), Len(before) = MaxMemories,
         NEW after, Store(after), after # <<>>, KnownLines' = LinesOf(after),
         Len(after) < MaxMemories, StoredLines' = StoredLines
  PROVE  Promised
<1>1. /\ LongTerm!Abstract!WellFormed(KnownLines') /\ KnownLines' # {}
      /\ Cardinality(KnownLines') = Len(after) /\ Cardinality(KnownLines) = Len(before)
  BY LinesAre
<1>2. /\ LongTerm!Abstract!Cardinality(KnownLines') < MaxMemories
      /\ LongTerm!Abstract!Cardinality(KnownLines) = MaxMemories
  BY <1>1, LongTermSequences
<1>3. LongTerm!Abstract!Consolidate
  BY <1>1, <1>2 DEF LongTerm!Abstract!Consolidate, KnownLines, StoredLines, LinesOf
<1> QED BY <1>3 DEF Promised, LongTerm!Abstract!Next

\* A caller goes on to its next step.
GoesTo(after, x, step, value) ==
  /\ after \in [AllCallers -> Jobs] /\ after[x].step = step /\ after[x].value = value
  /\ \A y \in AllCallers : y # x => after[y] = task[y]

\* Each way in which the code has a caller go on.
LEMMA JobMoves ==
  ASSUME task \in [AllCallers -> Jobs], NEW x \in AllCallers,
         NEW step \in JobSteps,
         NEW value \in Seq(Lasting)
  PROVE  /\ GoesTo(LongTerm!Put(x, step, value), x, step, value)
         /\ \A more \in BOOLEAN :
              GoesTo([task EXCEPT ![x] = [step |-> step, value |-> value, more |-> more]],
                    x, step, value)
         /\ GoesTo([task EXCEPT ![x].step = step], x, step, task[x].value)
<1>1. task[x] \in Jobs
  OBVIOUS
<1>2. GoesTo(LongTerm!Put(x, step, value), x, step, value)
  <2> DEFINE one == [task[x] EXCEPT !.step = step]
             two == [one EXCEPT !.value = value]
  <2>1. one \in Jobs /\ one.step = step
    BY <1>1 DEF Jobs, JobSteps
  <2> HIDE DEF one
  <2>2. two \in Jobs /\ two.step = step /\ two.value = value
    BY <2>1 DEF Jobs, JobSteps
  <2>3. LongTerm!Put(x, step, value) = [task EXCEPT ![x] = two]
    BY DEF LongTerm!Put, one
  <2> HIDE DEF two
  <2> QED BY <2>2, <2>3 DEF GoesTo
<1>3. ASSUME NEW more \in BOOLEAN
      PROVE  GoesTo([task EXCEPT ![x] = [step |-> step, value |-> value, more |-> more]], x, step, value)
  BY DEF GoesTo, Jobs, JobSteps
<1>4. GoesTo([task EXCEPT ![x].step = step], x, step, task[x].value)
  BY <1>1 DEF GoesTo, Jobs, JobSteps
<1> QED BY <1>2, <1>3, <1>4

\* The cache comes, goes or counts, while the task stays where it is.
LEMMA CacheChanges ==
  ASSUME LongTermInv, memories' = memories, task'[Drain] = task[Drain],
         \/ known' = known
         \/ known' = NotCached
         \/ /\ known # NotCached /\ LinesOf(known') = LinesOf(known) /\ Inherits(known', known)
         \/ /\ known = NotCached /\ LinesOf(known') = LinesOf(memories)
            /\ task[Drain].step # "write"
  PROVE  UpdateIsWhole' /\ Promised /\ Remembering
<1>1. UpdateIsWhole'
  BY DEF LongTermInv, UpdateIsWhole
<1>2. StoredLines' = StoredLines
  BY DEF StoredLines
<1>3. KnownLines' = KnownLines \/ KnownLines' = StoredLines
  <2>1. LongTerm!Known' = IF task'[Drain].step \in Updates THEN task'[Drain].value
                          ELSE IF known' # NotCached THEN known' ELSE memories'
    BY DEF LongTerm!Known, Updates
  <2>2. KnownLines' = LinesOf(LongTerm!Known') /\ KnownLines = LinesOf(LongTerm!Known)
    BY DEF KnownLines
  <2> QED BY <2>1, <2>2, KnownIs DEF StoredLines
<1>4. Promised
  BY <1>2, <1>3, NothingChanges, UpdateIsLost
<1>5. Remembering
  <2>1. ASSUME known # NotCached PROVE Inherits(known, known)
    <3>1. Store(known)
      BY <2>1 DEF LongTermInv, HoldsStores
    <3>2. known \in Seq(Lasting) /\ Distinct(known)
      BY <3>1 DEF Store
    <3>3. \A i \in DOMAIN known : known[i].count \in Int
      <4>1. \A i \in DOMAIN known : known[i] \in Lasting
        BY <3>2
      <4> QED BY <4>1, FieldsAre, BrainAssumption
    <3> QED BY <3>2, <3>3 DEF Inherits, Distinct
  <2> QED BY <2>1 DEF Remembering
<1> QED BY <1>1, <1>4, <1>5

Keeps == LongTermInv' /\ Promised /\ Remembering

\* Nobody reads or writes the file while the lock is free.
LEMMA NobodyHolds ==
  ASSUME LongTermInv, holder = NoCaller, NEW x \in AllCallers
  PROVE  task[x].step \notin {"load", "read", "write"}
BY LongTermAssumption DEF LongTermInv, LockIsHeld, AllCallers

\* A request counts its recall in the cache, and is done.
LEMMA RequestUses ==
  ASSUME LongTermInv, NEW x \in Readers, NEW s, Store(s), LongTerm!Use(x, s)
  PROVE  /\ GoesTo(task', x, "idle", <<>>)
         /\ Store(known') /\ LinesOf(known') = LinesOf(s) /\ Inherits(known', s)
<1>1. x # Drain
  BY LongTermAssumption
<1>2. /\ task' = LongTerm!Put(x, "idle", <<>>)
      /\ \E matching \in SUBSET Texts : known' = LongTerm!Counted(s, matching)
  BY <1>1 DEF LongTerm!Use
<1>3. GoesTo(task', x, "idle", <<>>)
  <2> DEFINE none == <<>>
  <2>1. none \in Seq(Lasting) /\ x \in AllCallers /\ task \in [AllCallers -> Jobs]
        /\ "idle" \in JobSteps
    BY DEF AllCallers, LongTermInv, HoldsStores, Asks, JobSteps
  <2>2. task' = LongTerm!Put(x, "idle", none)
    BY <1>2
  <2> HIDE DEF none
  <2>3. GoesTo(LongTerm!Put(x, "idle", none), x, "idle", none)
    BY <2>1, JobMoves
  <2>4. GoesTo(task', x, "idle", none)
    BY <2>2, <2>3
  <2> QED BY <2>4 DEF none
<1>4. clock \in Times
  BY DEF LongTermInv, HoldsStores
<1> QED BY <1>2, <1>3, <1>4, CountedIs

\* A request moves, alone.
LEMMA RequestMoves ==
  ASSUME LongTermInv, NEW x \in Readers, NEW step \in Asks, NEW value,
         GoesTo(task', x, step, value), memories' = memories, clock' = clock
  PROVE  /\ task'[Drain] = task[Drain]
         /\ task' \in [AllCallers -> Jobs] /\ \A y \in Readers : task'[y].step \in Asks
         /\ Store(memories') /\ clock' \in Times
         /\ \A y \in AllCallers : y # x => task'[y] = task[y]
         /\ task'[x].step = step
<1>1. x \in AllCallers /\ Drain \in AllCallers /\ Drain # x /\ Readers \subseteq AllCallers
  BY LongTermAssumption DEF AllCallers
<1> QED BY <1>1 DEF GoesTo, LongTermInv, HoldsStores

LEMMA RequestsRecall ==
  ASSUME LongTermInv, NEW x \in Readers,
         LongTerm!StartRecall(x) \/ LongTerm!RecallLock(x) \/ LongTerm!RecallLoad(x)
  PROVE  Keeps
<1>1. /\ x \in AllCallers /\ Readers \subseteq AllCallers
      /\ Store(memories) /\ (known = NotCached \/ Store(known))
      /\ holder \in AllCallers \union {NoCaller} /\ NoCaller \notin AllCallers
  BY LongTermAssumption DEF AllCallers, LongTermInv, HoldsStores
<1>2. memories' = memories /\ clock' = clock
  BY DEF LongTerm!StartRecall, LongTerm!RecallLock, LongTerm!RecallLoad
<1>3. ASSUME NEW step \in Asks, task' = LongTerm!Put(x, step, <<>>)
      PROVE  GoesTo(task', x, step, <<>>)
  <2> DEFINE none == <<>>
  <2>1. none \in Seq(Lasting) /\ task \in [AllCallers -> Jobs]
        /\ step \in JobSteps
    BY DEF LongTermInv, HoldsStores, JobSteps
  <2>2. task' = LongTerm!Put(x, step, none)
    BY <1>3
  <2> HIDE DEF none
  <2>3. GoesTo(task', x, step, none)
    BY <1>1, <2>1, <2>2, JobMoves
  <2> QED BY <2>3 DEF none
\* The cache answers.
<1>4. ASSUME known # NotCached, LongTerm!Use(x, known), holder' = holder PROVE Keeps
  <2>1. /\ GoesTo(task', x, "idle", <<>>)
        /\ Store(known') /\ LinesOf(known') = LinesOf(known) /\ Inherits(known', known)
    BY <1>1, <1>4, RequestUses
  <2>2. "idle" \in Asks
    BY DEF Asks
  <2>3. /\ task'[Drain] = task[Drain]
        /\ task' \in [AllCallers -> Jobs] /\ \A y \in Readers : task'[y].step \in Asks
        /\ Store(memories') /\ clock' \in Times
        /\ \A y \in AllCallers : y # x => task'[y] = task[y]
        /\ task'[x].step = "idle"
    BY <1>2, <2>1, <2>2, RequestMoves
  <2>4. UpdateIsWhole' /\ Promised /\ Remembering
    BY <1>2, <1>4, <2>1, <2>3, CacheChanges
  <2>5. HoldsStores'
    BY <1>1, <1>4, <2>1, <2>3 DEF HoldsStores
  <2>6. LockIsHeld'
    BY <1>4, <2>3 DEF LockIsHeld, LongTermInv
  <2> QED BY <2>4, <2>5, <2>6 DEF Keeps, LongTermInv
\* There is none yet.
<1>5. ASSUME task' = LongTerm!Put(x, "recall", <<>>), known' = known, holder' = holder PROVE Keeps
  <2>1. "recall" \in Asks
    BY DEF Asks
  <2>2. GoesTo(task', x, "recall", <<>>)
    BY <1>3, <1>5, <2>1
  <2>3. /\ task'[Drain] = task[Drain]
        /\ task' \in [AllCallers -> Jobs] /\ \A y \in Readers : task'[y].step \in Asks
        /\ Store(memories') /\ clock' \in Times
        /\ \A y \in AllCallers : y # x => task'[y] = task[y]
        /\ task'[x].step = "recall"
    BY <1>2, <2>1, <2>2, RequestMoves
  <2>4. UpdateIsWhole' /\ Promised /\ Remembering
    BY <1>2, <1>5, <2>3, CacheChanges
  <2>5. HoldsStores'
    BY <1>1, <1>5, <2>3 DEF HoldsStores
  <2>6. LockIsHeld'
    BY <1>5, <2>3 DEF LockIsHeld, LongTermInv
  <2> QED BY <2>4, <2>5, <2>6 DEF Keeps, LongTermInv
<1>6. CASE LongTerm!StartRecall(x)
  BY <1>4, <1>5, <1>6 DEF LongTerm!StartRecall
<1>7. CASE LongTerm!RecallLock(x)
  <2>1. CASE known # NotCached
    BY <1>4, <1>7, <2>1 DEF LongTerm!RecallLock
  <2>2. CASE known = NotCached
    <3>1. /\ holder = NoCaller /\ task' = LongTerm!Put(x, "load", <<>>) /\ holder' = x /\ known' = known
      BY <1>7, <2>2 DEF LongTerm!RecallLock, LongTerm!Free
    <3>2. "load" \in Asks
      BY DEF Asks
    <3>3. GoesTo(task', x, "load", <<>>)
      BY <1>3, <3>1, <3>2
    <3>4. /\ task'[Drain] = task[Drain]
          /\ task' \in [AllCallers -> Jobs] /\ \A y \in Readers : task'[y].step \in Asks
          /\ Store(memories') /\ clock' \in Times
          /\ \A y \in AllCallers : y # x => task'[y] = task[y]
          /\ task'[x].step = "load"
      BY <1>2, <3>2, <3>3, RequestMoves
    <3>5. UpdateIsWhole' /\ Promised /\ Remembering
      BY <1>2, <3>1, <3>4, CacheChanges
    <3>6. HoldsStores'
      BY <1>1, <3>1, <3>4 DEF HoldsStores
    <3>7. LockIsHeld'
      <4>1. \A y \in AllCallers : task[y].step \notin {"load", "read", "write"}
        BY <3>1, NobodyHolds
      <4> QED BY <2>2, <3>1, <3>4, <4>1 DEF LockIsHeld
    <3> QED BY <3>5, <3>6, <3>7 DEF Keeps, LongTermInv
  <2> QED BY <2>1, <2>2
<1>8. CASE LongTerm!RecallLoad(x)
  <2>1. task[x].step = "load" /\ LongTerm!Use(x, memories) /\ holder' = NoCaller
    BY <1>8 DEF LongTerm!RecallLoad, LongTerm!At
  <2>2. known = NotCached /\ \A y \in AllCallers : y # x => task[y].step \notin {"load", "read", "write"}
    BY <1>1, <2>1 DEF LongTermInv, LockIsHeld
  <2>3. /\ GoesTo(task', x, "idle", <<>>) /\ Store(known') /\ LinesOf(known') = LinesOf(memories)
    BY <1>1, <2>1, RequestUses
  <2>4. "idle" \in Asks
    BY DEF Asks
  <2>5. /\ task'[Drain] = task[Drain]
        /\ task' \in [AllCallers -> Jobs] /\ \A y \in Readers : task'[y].step \in Asks
        /\ Store(memories') /\ clock' \in Times
        /\ \A y \in AllCallers : y # x => task'[y] = task[y]
        /\ task'[x].step = "idle"
    BY <1>2, <2>3, <2>4, RequestMoves
  <2>6. task[Drain].step # "write"
    BY <2>2, LongTermAssumption DEF AllCallers
  <2>7. UpdateIsWhole' /\ Promised /\ Remembering
    BY <1>2, <2>2, <2>3, <2>5, <2>6, CacheChanges
  <2>8. HoldsStores'
    BY <2>1, <2>3, <2>5 DEF HoldsStores
  <2>9. LockIsHeld'
    BY <2>1, <2>2, <2>5 DEF LockIsHeld
  <2> QED BY <2>7, <2>8, <2>9 DEF Keeps, LongTermInv
<1> QED BY <1>6, <1>7, <1>8

LEMMA OthersEvict ==
  ASSUME LongTermInv, LongTerm!Evict \/ LongTerm!Tick PROVE Keeps
<1>1. /\ memories' = memories /\ holder' = holder /\ task' = task
      /\ known' = known \/ known' = NotCached
  BY DEF LongTerm!Evict, LongTerm!Tick
<1>2. clock' \in Times
  <2>1. CASE LongTerm!Evict
    BY <2>1 DEF LongTerm!Evict, LongTermInv, HoldsStores
  <2>2. CASE LongTerm!Tick
    BY <2>2, BrainAssumption DEF LongTerm!Tick, LongTermInv, HoldsStores, Times
  <2> QED BY <2>1, <2>2
<1>3. UpdateIsWhole' /\ Promised /\ Remembering
  BY <1>1, CacheChanges
<1>4. HoldsStores' /\ LockIsHeld'
  BY <1>1, <1>2 DEF LongTermInv, HoldsStores, LockIsHeld
<1> QED BY <1>3, <1>4 DEF Keeps, LongTermInv

LEMMA RestartKeepsMemories ==
  ASSUME LongTermInv, LongTerm!Restart PROVE Keeps
<1>1. /\ memories' = memories /\ known' = NotCached /\ holder' = NoCaller /\ clock' = clock
      /\ task' = [x \in AllCallers |-> LongTerm!Idle]
  BY DEF LongTerm!Restart, LongTerm!Callers, AllCallers
<1>2. LongTerm!Idle \in Jobs /\ LongTerm!Idle.step = "idle"
  BY DEF LongTerm!Idle, Jobs, JobSteps, Asks
<1>3. task' \in [AllCallers -> Jobs] /\ \A x \in AllCallers : task'[x].step = "idle"
  BY <1>1, <1>2
<1>4. Drain \in AllCallers /\ Readers \subseteq AllCallers
  BY DEF AllCallers
<1>5. HoldsStores'
  BY <1>1, <1>3, <1>4 DEF LongTermInv, HoldsStores, Asks
<1>6. LockIsHeld' /\ UpdateIsWhole'
  BY <1>3, <1>4 DEF LockIsHeld, UpdateIsWhole, Updates
<1>7. KnownLines' = StoredLines /\ StoredLines' = StoredLines
  <2>1. LongTerm!Known' = memories
    BY <1>1, <1>3, <1>4 DEF LongTerm!Known
  <2> QED BY <1>1, <2>1 DEF KnownLines, StoredLines
<1>8. Promised /\ Remembering
  BY <1>1, <1>7, UpdateIsLost DEF Remembering
<1> QED BY <1>5, <1>6, <1>8 DEF Keeps, LongTermInv

\* The task moves, alone.
LEMMA TaskMoves ==
  ASSUME LongTermInv, NEW step, NEW value, GoesTo(task', Drain, step, value), clock' = clock,
         Store(memories'), known' = NotCached \/ Store(known'),
         \/ holder' = holder /\ step \notin {"load", "read", "write"}
         \/ /\ holder = NoCaller \/ holder = Drain
            /\ holder' = IF step \in {"load", "read", "write"} THEN Drain ELSE NoCaller,
         \/ known' = known \/ known' = NotCached
         \/ /\ step \notin {"load", "read"}
            /\ known # NotCached \/ holder = NoCaller \/ holder = Drain,
         step \in {"load", "read"} => known' = NotCached
  PROVE  HoldsStores' /\ LockIsHeld' /\ task'[Drain].step = step /\ task'[Drain].value = value
<1>1. /\ Drain \in AllCallers /\ Readers \subseteq AllCallers /\ Drain \notin Readers
      /\ NoCaller \notin AllCallers
  BY LongTermAssumption DEF AllCallers
<1>2. /\ task' \in [AllCallers -> Jobs] /\ task'[Drain].step = step /\ task'[Drain].value = value
      /\ \A y \in AllCallers : y # Drain => task'[y] = task[y]
  BY DEF GoesTo
<1>3. HoldsStores'
  <2>1. \A x \in Readers : task'[x].step \in Asks
    BY <1>1, <1>2 DEF LongTermInv, HoldsStores
  <2>2. holder' \in AllCallers \union {NoCaller}
    BY <1>1 DEF LongTermInv, HoldsStores
  <2>3. clock' \in Times
    BY DEF LongTermInv, HoldsStores
  <2> QED BY <1>2, <2>1, <2>2, <2>3 DEF HoldsStores
<1>4. LockIsHeld'
  <2> SUFFICES ASSUME NEW x \in AllCallers
               PROVE  /\ task'[x].step \in {"load", "read", "write"} => holder' = x
                      /\ task'[x].step \in {"load", "read"} => known' = NotCached
    BY DEF LockIsHeld
  <2>1. CASE x = Drain
    BY <1>2, <2>1
  <2>2. CASE x # Drain
    <3>1. task'[x] = task[x]
      BY <1>2, <2>2
    <3>2. /\ task[x].step \in {"load", "read", "write"} => holder = x
          /\ task[x].step \in {"load", "read"} => known = NotCached
      BY DEF LongTermInv, LockIsHeld
    <3> QED BY <1>1, <2>2, <3>1, <3>2
  <2> QED BY <2>1, <2>2
<1> QED BY <1>2, <1>3, <1>4

\* After a recall: the task is done, or holds all memories to consolidate them.
Recalled(s) ==
  \/ GoesTo(task', Drain, "idle", <<>>)
  \/ \E r : GoesTo(task', Drain, "consolidate", r) /\ Store(r) /\ Len(r) = MaxMemories
            /\ LinesOf(r) = LinesOf(s)

LEMMA PutMoves ==
  ASSUME LongTermInv, NEW x \in AllCallers, NEW step \in JobSteps, NEW value \in Seq(Lasting),
         task' = LongTerm!Put(x, step, value)
  PROVE  GoesTo(task', x, step, value)
BY JobMoves DEF LongTermInv, HoldsStores, JobSteps

LEMMA PutNothing ==
  ASSUME LongTermInv, NEW x \in AllCallers, NEW step \in JobSteps,
         task' = LongTerm!Put(x, step, <<>>)
  PROVE  GoesTo(task', x, step, <<>>)
<1> DEFINE none == <<>>
<1>1. none \in Seq(Lasting) /\ task' = LongTerm!Put(x, step, none)
  OBVIOUS
<1> HIDE DEF none
<1>2. GoesTo(task', x, step, none)
  BY <1>1, PutMoves
<1> QED BY <1>2 DEF none

LEMMA TaskUses ==
  ASSUME LongTermInv, NEW s, Store(s), LongTerm!Use(Drain, s)
  PROVE  known' = s /\ Recalled(s)
<1>1. /\ known' = s
      /\ task' = IF Len(s) < MaxMemories THEN LongTerm!Put(Drain, "idle", <<>>)
                 ELSE LongTerm!Put(Drain, "consolidate", LongTerm!Rank(s, {}, MaxMemories, clock))
  BY DEF LongTerm!Use
<1>2. Drain \in AllCallers /\ "idle" \in JobSteps /\ "consolidate" \in JobSteps
  BY DEF AllCallers, JobSteps, Asks, Updates
<1>3. CASE Len(s) < MaxMemories
  BY <1>1, <1>2, <1>3, PutNothing DEF Recalled
<1>4. CASE ~(Len(s) < MaxMemories)
  <2> DEFINE matching == {}
             r == LongTerm!Rank(s, matching, MaxMemories, clock)
  <2>1. task' = LongTerm!Put(Drain, "consolidate", r) /\ clock \in Times
    BY <1>1, <1>4 DEF LongTermInv, HoldsStores
  <2> HIDE DEF matching
  <2>2. Store(r) /\ Len(r) = Len(s) /\ LinesOf(r) = LinesOf(s)
    BY <2>1, RankIs, RankKeepsLines
  <2>3. Len(r) = MaxMemories /\ r \in Seq(Lasting)
    <3>1. Len(s) \in Nat /\ Len(s) <= MaxMemories /\ MaxMemories \in Nat
      BY BrainAssumption DEF Store
    <3> QED BY <1>4, <2>2, <3>1 DEF Store
  <2> HIDE DEF r
  <2>4. GoesTo(task', Drain, "consolidate", r)
    BY <1>2, <2>1, <2>3, PutMoves
  <2> QED BY <1>1, <2>2, <2>3, <2>4 DEF Recalled
<1> QED BY <1>1, <1>3, <1>4

LEMMA TaskRecalls ==
  ASSUME LongTermInv, LongTerm!StartKnown \/ LongTerm!RecallLock(Drain) \/ LongTerm!RecallLoad(Drain)
  PROVE  Keeps
<1>1. /\ Drain \in AllCallers /\ NoCaller \notin AllCallers
      /\ Store(memories) /\ (known = NotCached \/ Store(known))
  BY LongTermAssumption DEF AllCallers, LongTermInv, HoldsStores
<1>2. /\ memories' = memories /\ clock' = clock /\ StoredLines' = StoredLines
      /\ task[Drain].step \in {"known", "recall", "load"}
  BY DEF LongTerm!StartKnown, LongTerm!RecallLock, LongTerm!RecallLoad, LongTerm!At, StoredLines
<1>3. task[Drain].step \notin Updates /\ Remembering
  BY <1>2 DEF Updates, Remembering
\* The memories are there.
<1>4. ASSUME NEW s, Store(s), LongTerm!Use(Drain, s), LinesOf(s) = KnownLines,
             \/ known # NotCached /\ known = s /\ holder' = holder
             \/ holder = Drain /\ holder' = NoCaller
      PROVE  Keeps
  <2>1. known' = s /\ Recalled(s)
    BY <1>4, TaskUses
  <2>2. PICK step, r : /\ GoesTo(task', Drain, step, r)
                       /\ \/ step = "idle"
                          \/ /\ step = "consolidate" /\ Store(r) /\ Len(r) = MaxMemories
                             /\ LinesOf(r) = LinesOf(s)
    BY <2>1 DEF Recalled
  <2>3. step \notin {"load", "read", "write"} /\ Store(known')
    BY <1>4, <2>1, <2>2
  <2>4. HoldsStores' /\ LockIsHeld' /\ task'[Drain].step = step /\ task'[Drain].value = r
    BY <1>1, <1>2, <1>4, <2>1, <2>2, <2>3, TaskMoves
  <2>5. UpdateIsWhole'
    BY <1>2, <2>1, <2>2, <2>4 DEF UpdateIsWhole, Updates
  <2>6. KnownLines' = KnownLines
    <3>1. known' # NotCached
      BY <2>3, StoresAreCached
    <3>2. LongTerm!Known' = IF step = "consolidate" THEN r ELSE s
      BY <2>1, <2>2, <2>4, <3>1 DEF LongTerm!Known
    <3> QED BY <1>4, <2>2, <3>2 DEF KnownLines
  <2> QED BY <1>2, <1>3, <2>4, <2>5, <2>6, NothingChanges DEF Keeps, LongTermInv
\* They have to be read.
<1>5. ASSUME known = NotCached, known' = known,
             \/ task' = LongTerm!Put(Drain, "recall", <<>>) /\ holder' = holder
             \/ task' = LongTerm!Put(Drain, "load", <<>>) /\ holder = NoCaller /\ holder' = Drain
      PROVE  Keeps
  <2>1. PICK step \in {"recall", "load"} :
          /\ task' = LongTerm!Put(Drain, step, <<>>)
          /\ \/ step = "recall" /\ holder' = holder
             \/ step = "load" /\ holder = NoCaller /\ holder' = Drain
    BY <1>5
  <2>2. GoesTo(task', Drain, step, <<>>)
    BY <1>1, <2>1, PutNothing, SMTT(30) DEF JobSteps, Asks
  <2>3. HoldsStores' /\ LockIsHeld' /\ task'[Drain].step = step
    BY <1>1, <1>2, <1>5, <2>1, <2>2, TaskMoves
  <2>4. UpdateIsWhole'
    BY <2>1, <2>3 DEF UpdateIsWhole, Updates
  <2>5. KnownLines' = KnownLines
    <3>1. LongTerm!Known' = memories
      BY <1>2, <1>5, <2>1, <2>3 DEF LongTerm!Known
    <3>2. LongTerm!Known = memories
      BY <1>3, <1>5, KnownIs
    <3> QED BY <3>1, <3>2 DEF KnownLines
  <2> QED BY <1>2, <1>3, <2>3, <2>4, <2>5, NothingChanges DEF Keeps, LongTermInv
<1>6. known # NotCached => KnownLines = LinesOf(known)
  BY <1>3, KnownIs DEF KnownLines
<1>7. CASE LongTerm!StartKnown
  BY <1>1, <1>4, <1>5, <1>6, <1>7 DEF LongTerm!StartKnown
<1>8. CASE LongTerm!RecallLock(Drain)
  BY <1>1, <1>4, <1>5, <1>6, <1>8 DEF LongTerm!RecallLock, LongTerm!Free
<1>9. CASE LongTerm!RecallLoad(Drain)
  <2>1. task[Drain].step = "load" /\ LongTerm!Use(Drain, memories) /\ holder' = NoCaller
    BY <1>9 DEF LongTerm!RecallLoad, LongTerm!At
  <2>2. holder = Drain /\ known = NotCached
    BY <1>1, <2>1 DEF LongTermInv, LockIsHeld
  <2>3. KnownLines = LinesOf(memories)
    BY <1>3, <2>2, KnownIs DEF KnownLines
  <2> QED BY <1>1, <1>4, <2>1, <2>2, <2>3
<1> QED BY <1>7, <1>8, <1>9

LEMMA InheritsItself == ASSUME NEW s, Store(s) PROVE Inherits(s, s)
<1>1. s \in Seq(Lasting) /\ Distinct(s)
  BY DEF Store
<1>2. \A i \in DOMAIN s : s[i] \in Lasting
  BY <1>1
<1>3. \A i \in DOMAIN s : s[i].count \in Int
  BY <1>2, FieldsAre, BrainAssumption
<1> QED BY <1>1, <1>3 DEF Inherits, Distinct

\* A memory that was never recalled.
LEMMA NewMemoryIs ==
  ASSUME NEW kind \in LongTerm!Kinds, NEW text \in Texts, NEW importance \in Int,
         NEW source \in AnySource, NEW now \in Times, NEW result,
         result = LongTerm!BuildMemory(kind, text, importance, source, now, Never, 0)
  PROVE  result \in Lasting /\ result.kind = kind
<1> DEFINE zero == 0
<1>1. zero \in 0..MaxCount /\ Never \in Times \union {Never}
      /\ result = LongTerm!BuildMemory(kind, text, importance, source, now, Never, zero)
  BY BrainAssumption
<1> HIDE DEF zero
<1> QED BY <1>1, BuildMemoryIs

\* The memories that texts of one kind make.
LEMMA MemoriesOfAre ==
  ASSUME NEW kind \in LongTerm!Kinds, NEW texts \in Seq(Nat), NEW importance \in Int,
         NEW now \in Times, NEW result, result = LongTerm!MemoriesOf(kind, texts, importance, now)
  PROVE  result \in Seq(Lasting) /\ \A k \in DOMAIN result : result[k].kind = kind
<1> DEFINE base == [i \in DOMAIN texts |->
                      LongTerm!BuildMemory(kind, texts[i], importance, NoSource, now, Never, 0)]
           S == {base[i] : i \in DOMAIN texts}
           places == {i \in DOMAIN texts : LongTerm!Acceptable(texts[i])}
<1>1. result = Sublist(base, places)
  BY LongTermSequences DEF LongTerm!MemoriesOf
<1>2. DOMAIN texts = 1..Len(texts) /\ Len(texts) \in Nat /\ places \in SUBSET DOMAIN texts
  OBVIOUS
<1>3. ASSUME NEW i \in places PROVE base[i] \in Lasting /\ base[i].kind = kind
  <2>1. texts[i] \in Texts
    BY DEF LongTerm!Acceptable
  <2>2. NoSource \in AnySource
    BY DEF AnySource
  <2>3. base[i] = LongTerm!BuildMemory(kind, texts[i], importance, NoSource, now, Never, 0)
    OBVIOUS
  <2> HIDE DEF base
  <2> QED BY <2>1, <2>2, <2>3, NewMemoryIs
<1>4. base \in Seq(S) /\ DOMAIN base = DOMAIN texts
  <2>1. base = [i \in 1..Len(texts) |-> base[i]] /\ DOMAIN base = DOMAIN texts
    BY <1>2
  <2>2. \A i \in 1..Len(texts) : base[i] \in S
    BY <1>2
  <2> HIDE DEF base, S
  <2> QED BY <1>2, <2>1, <2>2
<1> HIDE DEF base, S, places
<1>5. /\ result \in Seq(S) /\ DOMAIN result = 1..Cardinality(places)
      /\ \A n \in 1..Cardinality(places) :
           Nth(places, n) \in places /\ result[n] = base[Nth(places, n)]
  BY <1>1, <1>2, <1>4, SublistPlaces, SublistRange
<1>6. \A n \in DOMAIN result : result[n] \in Lasting /\ result[n].kind = kind
  BY <1>3, <1>5
<1>7. result \in Seq(Lasting)
  <2>1. Len(result) \in Nat /\ DOMAIN result = 1..Len(result)
        /\ result = [n \in 1..Len(result) |-> result[n]]
    <3>1. result \in Seq(S)
      BY <1>5
    <3> QED BY <3>1
  <2> QED BY <1>6, <2>1
<1> QED BY <1>6, <1>7

LEMMA ExtractionsAreIncoming ==
  ASSUME NEW answer \in LongTerm!ExtractionAnswers, NEW now \in Times
  PROVE  Incoming(LongTerm!MemoriesFrom(answer.profile, answer.episode, answer.importance, now))
<1>1. answer.profile \in Seq(Nat) /\ answer.episode \in Seq(Nat) /\ answer.importance \in Int
  <2>1. CASE answer \in Extractions
    BY <2>1, LongTermAssumption
  <2>2. CASE answer \notin Extractions
    <3> DEFINE none == <<>>
    <3>1. answer = [profile |-> none, episode |-> none,
                    importance |-> LongTerm!DefaultImportance["episode"]]
      BY <2>2 DEF LongTerm!ExtractionAnswers
    <3>2. none \in Seq(Nat) /\ LongTerm!DefaultImportance["episode"] \in Int
      BY DEF LongTerm!DefaultImportance
    <3> HIDE DEF none
    <3> QED BY <3>1, <3>2
  <2> QED BY <2>1, <2>2
<1> DEFINE p == LongTerm!MemoriesOf("profile", answer.profile,
                                    LongTerm!DefaultImportance["profile"], now)
           e == LongTerm!MemoriesOf("episode", answer.episode, answer.importance, now)
<1>2. /\ "profile" \in LongTerm!Kinds /\ "episode" \in LongTerm!Kinds
      /\ LongTerm!DefaultImportance["profile"] \in Int
  BY DEF LongTerm!Kinds, LongTerm!DefaultImportance
<1>3. p \in Seq(Lasting) /\ \A k \in DOMAIN p : p[k].kind = "profile"
  BY <1>1, <1>2, MemoriesOfAre
<1>4. e \in Seq(Lasting) /\ \A k \in DOMAIN e : e[k].kind = "episode"
  BY <1>1, <1>2, MemoriesOfAre
<1>5. LongTerm!MemoriesFrom(answer.profile, answer.episode, answer.importance, now) = p \o e
  BY DEF LongTerm!MemoriesFrom
<1> HIDE DEF p, e
<1> DEFINE all == p \o e
<1>6. /\ all \in Seq(Lasting) /\ DOMAIN all = 1..(Len(p) + Len(e))
      /\ \A n \in 1..(Len(p) + Len(e)) : all[n] = IF n <= Len(p) THEN p[n] ELSE e[n - Len(p)]
      /\ Len(p) \in Nat /\ Len(e) \in Nat /\ DOMAIN p = 1..Len(p) /\ DOMAIN e = 1..Len(e)
  BY <1>3, <1>4
<1> HIDE DEF all
<1>7. Plain(all)
  <2> SUFFICES ASSUME NEW n \in 1..(Len(p) + Len(e)) PROVE all[n].kind # "session_summary"
    BY <1>6 DEF Plain
  <2>1. CASE n <= Len(p)
    <3>1. n \in DOMAIN p /\ all[n] = p[n]
      BY <1>6, <2>1
    <3> QED BY <1>3, <3>1
  <2>2. CASE ~(n <= Len(p))
    <3>1. n - Len(p) \in DOMAIN e /\ all[n] = e[n - Len(p)]
      BY <1>6, <2>2
    <3> QED BY <1>4, <3>1
  <2> QED BY <2>1, <2>2
<1> QED BY <1>5, <1>6, <1>7 DEF Incoming, all

LEMMA SummariesAreIncoming ==
  ASSUME NEW text, NEW source \in Sources, NEW now \in Times, NEW summary,
         summary = LongTerm!SummaryMemory(text, source, now), summary # <<>>
  PROVE  Incoming(summary)
<1> DEFINE m == LongTerm!BuildMemory("session_summary", text,
                  LongTerm!DefaultImportance["session_summary"], source, now, Never, 0)
<1>1. text \in Texts /\ summary = <<m>>
  BY DEF LongTerm!SummaryMemory, LongTerm!Acceptable
<1>2. m \in Lasting
  <2>1. /\ "session_summary" \in LongTerm!Kinds /\ source \in AnySource
        /\ LongTerm!DefaultImportance["session_summary"] \in Int
    BY DEF AnySource, LongTerm!Kinds, LongTerm!DefaultImportance
  <2> QED BY <1>1, <2>1, NewMemoryIs
<1> HIDE DEF m
<1> QED BY <1>1, <1>2 DEF Incoming

\* The task takes up what it is to remember.
LEMMA RememberStarts ==
  ASSUME LongTermInv, NEW incoming, Incoming(incoming), NEW more \in BOOLEAN,
         LongTerm!StartRemember(incoming, more)
  PROVE  Keeps
<1>1. /\ task[Drain].step = "idle" /\ memories' = memories /\ known' = known
      /\ holder' = holder /\ clock' = clock
      /\ task' = [task EXCEPT ![Drain] = [step |-> "remember", value |-> incoming, more |-> more]]
  BY DEF LongTerm!StartRemember, LongTerm!At
<1>2. GoesTo(task', Drain, "remember", incoming)
  <2>1. /\ task \in [AllCallers -> Jobs] /\ Drain \in AllCallers /\ incoming \in Seq(Lasting)
        /\ "remember" \in JobSteps
    BY DEF LongTermInv, HoldsStores, AllCallers, Incoming, JobSteps
  <2> QED BY <1>1, <2>1, JobMoves
<1>3. HoldsStores' /\ LockIsHeld' /\ task'[Drain].step = "remember" /\ task'[Drain].value = incoming
  <2>1. Store(memories') /\ (known' = NotCached \/ Store(known'))
    BY <1>1 DEF LongTermInv, HoldsStores
  <2> QED BY <1>1, <1>2, <2>1, TaskMoves
<1>4. UpdateIsWhole'
  BY <1>3 DEF UpdateIsWhole, Updates
<1>5. KnownLines' = KnownLines /\ StoredLines' = StoredLines
  BY <1>1, <1>3 DEF KnownLines, StoredLines, LongTerm!Known
<1>6. Remembering
  BY <1>1 DEF Remembering
<1> QED BY <1>3, <1>4, <1>5, <1>6, NothingChanges DEF Keeps, LongTermInv

\* Or there is nothing to.
LEMMA NothingStarts ==
  ASSUME LongTermInv, LongTerm!StartNothing PROVE Keeps
<1>1. /\ task[Drain].step = "idle" /\ memories' = memories /\ known' = known
      /\ holder' = holder /\ clock' = clock /\ task' = LongTerm!Put(Drain, "known", <<>>)
  BY DEF LongTerm!StartNothing, LongTerm!At
<1>2. GoesTo(task', Drain, "known", <<>>)
  BY <1>1, PutNothing DEF AllCallers, JobSteps
<1>3. HoldsStores' /\ LockIsHeld' /\ task'[Drain].step = "known"
  <2>1. Store(memories') /\ (known' = NotCached \/ Store(known'))
    BY <1>1 DEF LongTermInv, HoldsStores
  <2> QED BY <1>1, <1>2, <2>1, TaskMoves
<1>4. UpdateIsWhole'
  BY <1>3 DEF UpdateIsWhole, Updates
<1>5. KnownLines' = KnownLines /\ StoredLines' = StoredLines
  BY <1>1, <1>3 DEF KnownLines, StoredLines, LongTerm!Known
<1>6. Remembering
  BY <1>1 DEF Remembering
<1> QED BY <1>3, <1>4, <1>5, <1>6, NothingChanges DEF Keeps, LongTermInv

LEMMA AbsorbKeeps ==
  ASSUME LongTermInv, NEW s, Store(s), LongTerm!Absorb(s), memories' = memories, clock' = clock,
         task[Drain].step \in {"remember", "read"},
         \/ known = s /\ holder = NoCaller
         \/ known = NotCached /\ holder = Drain /\ s = memories
  PROVE  Keeps
<1> DEFINE merged == LongTerm!Merge(s, task[Drain].value, clock)
<1>1. Incoming(task[Drain].value) /\ clock \in Times
  BY DEF LongTermInv, HoldsStores, UpdateIsWhole
<1>2. /\ Store(merged) /\ Inherits(merged, s)
      /\ Len(merged) = MaxMemories \/ Succeeds(merged, s)
  <2> DEFINE value == task[Drain].value
  <2>1. Incoming(value)
    BY <1>1
  <2> HIDE DEF value
  <2>2. LET r == LongTerm!Merge(s, value, clock) IN
        /\ Store(r) /\ Inherits(r, s) /\ (Len(r) = MaxMemories \/ Succeeds(r, s))
    BY <1>1, <2>1, MergeIs
  <2> QED BY <2>2 DEF value
<1>3. IF merged = s
      THEN /\ task' = LongTerm!Put(Drain, LongTerm!AfterRemember, <<>>) /\ holder' = NoCaller
           /\ known' = known
      ELSE /\ known' = merged /\ task' = LongTerm!Put(Drain, "write", merged) /\ holder' = Drain
  BY DEF LongTerm!Absorb, LongTerm!MergeNow
<1> HIDE DEF merged
<1>4. /\ Drain \in AllCallers /\ Store(memories') /\ (known = NotCached \/ Store(known))
      /\ StoredLines' = StoredLines /\ task[Drain].step \notin Updates
  BY DEF AllCallers, LongTermInv, HoldsStores, StoredLines, Updates
<1>5. LongTerm!Known = s
  BY <1>4, KnownIs, StoresAreCached
<1>6. CASE merged = s
  <2>1. LongTerm!AfterRemember \in {"known", "idle"}
    BY DEF LongTerm!AfterRemember
  <2>2. PICK step \in {"known", "idle"} : task' = LongTerm!Put(Drain, step, <<>>)
    BY <1>3, <1>6, <2>1
  <2>3. GoesTo(task', Drain, step, <<>>)
    BY <1>4, <2>2, PutNothing DEF JobSteps, Asks
  <2>4. HoldsStores' /\ LockIsHeld' /\ task'[Drain].step = step
    BY <1>3, <1>4, <1>6, <2>2, <2>3, TaskMoves
  <2>5. UpdateIsWhole'
    BY <2>2, <2>4 DEF UpdateIsWhole, Updates
  <2>6. KnownLines' = KnownLines
    <3>1. LongTerm!Known' = s
      BY <1>3, <1>6, <2>2, <2>4, StoresAreCached DEF LongTerm!Known
    <3> QED BY <1>5, <3>1 DEF KnownLines
  <2>7. Remembering
    BY <1>3, <1>4, <1>6, InheritsItself DEF Remembering
  <2> QED BY <1>4, <2>4, <2>5, <2>6, <2>7, NothingChanges DEF Keeps, LongTermInv
<1>7. CASE merged # s
  <2>1. GoesTo(task', Drain, "write", merged)
    BY <1>2, <1>3, <1>4, <1>7, PutMoves DEF JobSteps, Updates, Store
  <2>2. HoldsStores' /\ LockIsHeld' /\ task'[Drain].step = "write" /\ task'[Drain].value = merged
    BY <1>2, <1>3, <1>4, <1>7, <2>1, TaskMoves
  <2>3. UpdateIsWhole'
    BY <1>2, <1>3, <1>7, <2>2 DEF UpdateIsWhole, Updates
  <2>4. KnownLines' = LinesOf(merged)
    BY <2>2 DEF KnownLines, LongTerm!Known
  <2>5. Promised
    BY <1>2, <1>4, <1>5, <2>4, UpdateIsMade
  <2>6. Remembering
    BY <1>2, <1>3, <1>7 DEF Remembering
  <2> QED BY <2>2, <2>3, <2>5, <2>6 DEF Keeps, LongTermInv
<1> QED BY <1>6, <1>7

LEMMA TaskRemembers ==
  ASSUME LongTermInv, LongTerm!RememberLock \/ LongTerm!RememberRead PROVE Keeps
<1>1. /\ memories' = memories /\ clock' = clock /\ StoredLines' = StoredLines
      /\ Drain \in AllCallers /\ Store(memories) /\ (known = NotCached \/ Store(known))
  BY DEF LongTerm!RememberLock, LongTerm!RememberRead, AllCallers, LongTermInv, HoldsStores,
         StoredLines
<1>2. CASE LongTerm!RememberLock
  <2>1. task[Drain].step = "remember" /\ holder = NoCaller
    BY <1>2 DEF LongTerm!RememberLock, LongTerm!At, LongTerm!Free
  <2>2. CASE known # NotCached
    <3>1. LongTerm!Absorb(known)
      BY <1>2, <2>2 DEF LongTerm!RememberLock
    <3> QED BY <1>1, <2>1, <2>2, <3>1, AbsorbKeeps
  <2>3. CASE known = NotCached
    <3>1. /\ task' = [task EXCEPT ![Drain].step = "read"] /\ holder' = Drain /\ known' = known
      BY <1>2, <2>3 DEF LongTerm!RememberLock
    <3>2. GoesTo(task', Drain, "read", task[Drain].value)
      <4>1. /\ task \in [AllCallers -> Jobs] /\ task[Drain].value \in Seq(Lasting)
            /\ "read" \in JobSteps
        BY <1>1 DEF LongTermInv, HoldsStores, Jobs, JobSteps
      <4> QED BY <1>1, <3>1, <4>1, JobMoves
    <3>3. HoldsStores' /\ LockIsHeld' /\ task'[Drain].step = "read"
          /\ task'[Drain].value = task[Drain].value
      BY <1>1, <2>1, <2>3, <3>1, <3>2, TaskMoves
    <3>4. UpdateIsWhole'
      BY <2>1, <3>3 DEF UpdateIsWhole, Updates, LongTermInv
    <3>5. KnownLines' = KnownLines
      BY <1>1, <2>1, <3>1, <3>3 DEF KnownLines, LongTerm!Known
    <3>6. Remembering
      BY <2>3 DEF Remembering
    <3> QED BY <1>1, <3>3, <3>4, <3>5, <3>6, NothingChanges DEF Keeps, LongTermInv
  <2> QED BY <2>2, <2>3
<1>3. CASE LongTerm!RememberRead
  <2>1. task[Drain].step = "read" /\ LongTerm!Absorb(memories)
    BY <1>3 DEF LongTerm!RememberRead, LongTerm!At
  <2>2. holder = Drain /\ known = NotCached
    BY <1>1, <2>1 DEF LongTermInv, LockIsHeld
  <2> QED BY <1>1, <2>1, <2>2, AbsorbKeeps
<1> QED BY <1>2, <1>3

LEMMA AnswersAreItems == LongTerm!ConsolidationAnswers \subseteq Seq(Item)
<1> DEFINE none == <<>>
<1>1. none \in Seq(Item) /\ Results \subseteq Seq(Item)
  BY LongTermAssumption DEF Item
<1>2. LongTerm!ConsolidationAnswers = Results \union {none}
  BY DEF LongTerm!ConsolidationAnswers
<1> HIDE DEF none
<1> QED BY <1>1, <1>2

\* The model's answer is used, or the memories stay.
LEMMA TaskConsolidates ==
  ASSUME LongTermInv, NEW result \in LongTerm!ConsolidationAnswers, LongTerm!AskConsolidation(result)
  PROVE  Keeps
<1> DEFINE value == task[Drain].value
           merged == LongTerm!Consolidated(value, result)
<1>1. /\ task[Drain].step = "consolidate" /\ memories' = memories /\ known' = known
      /\ holder' = holder /\ clock' = clock /\ StoredLines' = StoredLines
      /\ task' = IF merged = <<>> THEN LongTerm!Put(Drain, "idle", <<>>)
                 ELSE LongTerm!Put(Drain, "replace", merged)
  BY DEF LongTerm!AskConsolidation, LongTerm!At, StoredLines
<1>2. /\ Store(value) /\ Len(value) = MaxMemories
      /\ known # NotCached => LinesOf(known) = LinesOf(value) \/ LinesOf(known) = LinesOf(memories)
      /\ KnownLines = LinesOf(value)
  BY <1>1, KnownIs DEF LongTermInv, UpdateIsWhole, KnownLines, Updates
<1> HIDE DEF value
<1>3. /\ Drain \in AllCallers /\ Store(memories') /\ (known = NotCached \/ Store(known))
      /\ "idle" \in JobSteps /\ "replace" \in JobSteps
  BY <1>1 DEF AllCallers, LongTermInv, HoldsStores, JobSteps, Asks, Updates
<1>4. Remembering
  BY <1>1 DEF Remembering
<1> DEFINE none == <<>>
<1>5. CASE merged = none
  <2>1. GoesTo(task', Drain, "idle", <<>>)
    BY <1>1, <1>3, <1>5, PutNothing
  <2>2. HoldsStores' /\ LockIsHeld' /\ task'[Drain].step = "idle"
    BY <1>1, <1>3, <2>1, TaskMoves
  <2>3. UpdateIsWhole'
    BY <2>2 DEF UpdateIsWhole, Updates
  <2>4. KnownLines' = KnownLines \/ KnownLines' = StoredLines
    <3>1. LongTerm!Known' = IF known # NotCached THEN known ELSE memories
      BY <1>1, <2>2 DEF LongTerm!Known
    <3> QED BY <1>2, <3>1 DEF KnownLines, StoredLines
  <2>5. Promised
    BY <1>1, <2>4, NothingChanges, UpdateIsLost
  <2> QED BY <1>4, <2>2, <2>3, <2>5 DEF Keeps, LongTermInv
<1>6. CASE merged # none
  <2>1. Store(merged) /\ Len(merged) < MaxMemories
    BY <1>2, <1>6, AnswersAreItems, ConsolidatedIs
  <2>2. task' = LongTerm!Put(Drain, "replace", merged) /\ merged # <<>>
    BY <1>1, <1>6
  <2> HIDE DEF merged
  <2>3. GoesTo(task', Drain, "replace", merged)
    BY <1>3, <2>1, <2>2, PutMoves DEF Store
  <2>4. HoldsStores' /\ LockIsHeld' /\ task'[Drain].step = "replace" /\ task'[Drain].value = merged
    BY <1>1, <1>3, <2>3, TaskMoves
  <2>5. UpdateIsWhole'
    BY <2>1, <2>4 DEF UpdateIsWhole, Updates
  <2>6. KnownLines' = LinesOf(merged)
    BY <2>4 DEF KnownLines, LongTerm!Known
  <2>7. Promised
    BY <1>1, <1>2, <2>1, <2>2, <2>6, MemoriesAreConsolidated
  <2> QED BY <1>4, <2>4, <2>5, <2>7 DEF Keeps, LongTermInv
<1> QED BY <1>5, <1>6

\* A sequence is its first entries, when it has no more.
LEMMA AllOfIt == ASSUME NEW s \in Seq(Lasting) PROVE SubSeq(s, 1, Len(s)) = s
OBVIOUS

LEMMA TaskReplaces ==
  ASSUME LongTermInv, LongTerm!ReplaceMemories PROVE Keeps
<1> DEFINE value == task[Drain].value
<1>1. /\ task[Drain].step = "replace" /\ holder = NoCaller /\ holder' = Drain
      /\ memories' = memories /\ clock' = clock /\ StoredLines' = StoredLines
  BY DEF LongTerm!ReplaceMemories, LongTerm!At, LongTerm!Free, StoredLines
<1>2. Store(value) /\ Len(value) < MaxMemories /\ KnownLines = LinesOf(value)
  BY <1>1, KnownIs DEF LongTermInv, UpdateIsWhole, KnownLines, Updates
<1>3. /\ known' = value
      /\ task' = [task EXCEPT ![Drain] = [step |-> "write", value |-> value, more |-> FALSE]]
  <2>1. SubSeq(value, 1, IF Len(value) < MaxMemories THEN Len(value) ELSE MaxMemories) = value
    <3> HIDE DEF value
    <3>1. (IF Len(value) < MaxMemories THEN Len(value) ELSE MaxMemories) = Len(value)
      BY <1>2
    <3>2. value \in Seq(Lasting)
      BY <1>2 DEF Store
    <3> QED BY <3>1, <3>2, AllOfIt
  <2> QED BY <2>1 DEF LongTerm!ReplaceMemories
<1> HIDE DEF value
<1>4. Drain \in AllCallers /\ Store(memories')
  BY <1>1 DEF AllCallers, LongTermInv, HoldsStores
<1>5. GoesTo(task', Drain, "write", value)
  <2>1. /\ task \in [AllCallers -> Jobs] /\ value \in Seq(Lasting)
        /\ "write" \in JobSteps
    BY <1>2 DEF LongTermInv, HoldsStores, Store, Updates, JobSteps
  <2>2. PICK more \in BOOLEAN :
          task' = [task EXCEPT ![Drain] = [step |-> "write", value |-> value, more |-> more]]
    BY <1>3
  <2> QED BY <1>4, <2>1, <2>2, JobMoves
<1>6. HoldsStores' /\ LockIsHeld' /\ task'[Drain].step = "write" /\ task'[Drain].value = value
  BY <1>1, <1>2, <1>3, <1>4, <1>5, TaskMoves
<1>7. UpdateIsWhole'
  BY <1>2, <1>3, <1>6 DEF UpdateIsWhole, Updates
<1>8. KnownLines' = KnownLines
  BY <1>2, <1>6 DEF KnownLines, LongTerm!Known
<1>9. Remembering
  BY <1>1 DEF Remembering
<1> QED BY <1>1, <1>6, <1>7, <1>8, <1>9, NothingChanges DEF Keeps, LongTermInv

LEMMA TaskWrites ==
  ASSUME LongTermInv, LongTerm!WriteFile \/ LongTerm!WriteFails PROVE Keeps
<1> DEFINE value == task[Drain].value
<1>1. /\ task[Drain].step = "write" /\ holder' = NoCaller /\ known' = known /\ clock' = clock
      /\ \E step \in {"known", "idle"} : task' = LongTerm!Put(Drain, step, <<>>)
      /\ memories' = value \/ memories' = memories
  BY DEF LongTerm!WriteFile, LongTerm!WriteFails, LongTerm!At, LongTerm!AfterRemember
<1>2. /\ Store(value) /\ KnownLines = LinesOf(value)
      /\ known # NotCached => LinesOf(known) = LinesOf(value)
  BY <1>1, KnownIs DEF LongTermInv, UpdateIsWhole, KnownLines, Updates
<1> HIDE DEF value
<1>3. /\ Drain \in AllCallers /\ Store(memories) /\ (known = NotCached \/ Store(known))
      /\ holder = Drain
  BY <1>1 DEF AllCallers, LongTermInv, HoldsStores, LockIsHeld
<1>4. PICK step \in {"known", "idle"} : task' = LongTerm!Put(Drain, step, <<>>)
  BY <1>1
<1>5. GoesTo(task', Drain, step, <<>>)
  BY <1>3, <1>4, PutNothing DEF JobSteps, Asks
<1>6. Store(memories')
  BY <1>1, <1>2, <1>3
<1>7. HoldsStores' /\ LockIsHeld' /\ task'[Drain].step = step
  BY <1>1, <1>3, <1>4, <1>5, <1>6, TaskMoves
<1>8. UpdateIsWhole'
  BY <1>4, <1>7 DEF UpdateIsWhole, Updates
<1>9. LongTerm!Known' = IF known # NotCached THEN known ELSE memories'
  BY <1>1, <1>4, <1>7 DEF LongTerm!Known
<1>10. Promised
  <2>1. CASE memories' = value
    <3>1. KnownLines' = KnownLines /\ StoredLines' = KnownLines
      BY <1>2, <1>9, <2>1 DEF KnownLines, StoredLines
    <3> QED BY <3>1, UpdateIsStored
  <2>2. CASE memories' = memories
    <3>1. StoredLines' = StoredLines /\ (KnownLines' = KnownLines \/ KnownLines' = StoredLines)
      BY <1>2, <1>9, <2>2 DEF KnownLines, StoredLines
    <3> QED BY <3>1, NothingChanges, UpdateIsLost
  <2> QED BY <1>1, <2>1, <2>2
<1>11. Remembering
  BY <1>1 DEF Remembering
<1> QED BY <1>7, <1>8, <1>10, <1>11 DEF Keeps, LongTermInv

-------------------------------------------------------------------------------
LEMMA InitMemories ==
  BrainInit => LongTermInv /\ LongTerm!Abstract!Init
<1> SUFFICES ASSUME BrainInit PROVE LongTermInv /\ LongTerm!Abstract!Init
  OBVIOUS
<1>1. /\ memories = <<>> /\ known = NotCached /\ holder = NoCaller /\ clock = 0
      /\ task = [x \in AllCallers |-> LongTerm!Idle]
  BY DEF BrainInit, LongTerm!Init, LongTerm!Callers, AllCallers
<1>2. LongTerm!Idle \in Jobs /\ LongTerm!Idle.step = "idle"
  BY DEF LongTerm!Idle, Jobs, JobSteps, Asks
<1>3. /\ task \in [AllCallers -> Jobs] /\ \A x \in AllCallers : task[x].step = "idle"
      /\ Drain \in AllCallers /\ Readers \subseteq AllCallers
  BY <1>1, <1>2 DEF AllCallers
<1>4. Store(memories)
  <2> DEFINE none == <<>>
  <2>1. none \in Seq(Lasting) /\ Len(none) = 0 /\ Distinct(none)
    BY DEF Distinct
  <2> HIDE DEF none
  <2>2. Store(none)
    BY <2>1, BrainAssumption DEF Store
  <2> QED BY <1>1, <2>2 DEF none
<1>5. LongTermInv
  BY <1>1, <1>3, <1>4, BrainAssumption
     DEF LongTermInv, HoldsStores, LockIsHeld, UpdateIsWhole, Asks, Updates, Times
<1>6. LongTerm!Abstract!Init
  <2>1. LongTerm!Known = memories
    BY <1>1, <1>3 DEF LongTerm!Known
  <2>2. LongTerm!Lines(memories) = {}
    BY <1>1 DEF LongTerm!Lines
  <2> QED BY <2>1, <2>2 DEF LongTerm!Abstract!Init
<1> QED BY <1>5, <1>6

LEMMA MemoriesLeftAlone ==
  ASSUME LongTermInv, UNCHANGED longTerm PROVE Keeps
<1>1. /\ memories' = memories /\ holder' = holder /\ task' = task
      /\ known' = known /\ clock' = clock
  BY DEF longTerm
<1>2. UpdateIsWhole' /\ Promised /\ Remembering
  BY <1>1, CacheChanges
<1>3. HoldsStores' /\ LockIsHeld'
  BY <1>1 DEF LongTermInv, HoldsStores, LockIsHeld
<1> QED BY <1>2, <1>3 DEF Keeps, LongTermInv

LEMMA NextMemories ==
  LongTermInv /\ [BrainNext]_<<vars, longTerm, replies, origin>> => Keeps
<1> SUFFICES ASSUME LongTermInv, [BrainNext]_<<vars, longTerm, replies, origin>> PROVE Keeps
  OBVIOUS
<1>1. CASE UNCHANGED longTerm
  BY <1>1, MemoriesLeftAlone
<1>2. ASSUME LongTerm!Next PROVE Keeps
  <2>1. ASSUME NEW x \in LongTerm!Callers,
               LongTerm!StartRecall(x) \/ LongTerm!RecallLock(x) \/ LongTerm!RecallLoad(x)
        PROVE  Keeps
    <3>1. CASE x \in Readers
      BY <2>1, <3>1, RequestsRecall
    <3>2. CASE x = Drain
      <4>1. ~LongTerm!StartRecall(Drain)
        BY LongTermAssumption DEF LongTerm!StartRecall
      <4> QED BY <2>1, <3>2, <4>1, TaskRecalls
    <3> QED BY <3>1, <3>2 DEF LongTerm!Callers
  <2>2. ASSUME NEW answer \in LongTerm!ExtractionAnswers, LongTerm!Extract(answer) PROVE Keeps
    <3> DEFINE extracted ==
                 LongTerm!MemoriesFrom(answer.profile, answer.episode, answer.importance, clock)
    <3>1. LongTerm!StartRemember(extracted, TRUE) \/ LongTerm!StartNothing
      BY <2>2 DEF LongTerm!Extract
    <3>2. Incoming(extracted)
      <4>1. clock \in Times
        BY DEF LongTermInv, HoldsStores
      <4> QED BY <4>1, ExtractionsAreIncoming
    <3> HIDE DEF extracted
    <3>3. CASE LongTerm!StartRemember(extracted, TRUE)
      <4>1. \E more \in BOOLEAN : LongTerm!StartRemember(extracted, more)
        BY <3>3
      <4> QED BY <3>2, <4>1, RememberStarts
    <3> QED BY <3>1, <3>3, NothingStarts
  <2>3. ASSUME NEW text \in LongTerm!SummaryAnswers, NEW source \in Sources,
               LongTerm!Summarize(text, source)
        PROVE  Keeps
    <3> DEFINE summary == LongTerm!SummaryMemory(text, source, clock)
    <3>1. LongTerm!StartRemember(summary, FALSE) /\ summary # <<>>
      BY <2>3 DEF LongTerm!Summarize, LongTerm!StartRemember
    <3>2. Incoming(summary)
      <4>1. clock \in Times
        BY DEF LongTermInv, HoldsStores
      <4> QED BY <3>1, <4>1, SummariesAreIncoming
    <3> HIDE DEF summary
    <3>3. \E more \in BOOLEAN : LongTerm!StartRemember(summary, more)
      BY <3>1
    <3> QED BY <3>2, <3>3, RememberStarts
  <2>4. ASSUME NEW result \in LongTerm!ConsolidationAnswers, LongTerm!AskConsolidation(result)
        PROVE  Keeps
    BY <2>4, TaskConsolidates
  <2>5. ASSUME LongTerm!StartKnown \/ LongTerm!RememberLock \/ LongTerm!RememberRead PROVE Keeps
    BY <2>5, TaskRecalls, TaskRemembers
  <2>6. ASSUME LongTerm!ReplaceMemories \/ LongTerm!WriteFile \/ LongTerm!WriteFails PROVE Keeps
    BY <2>6, TaskReplaces, TaskWrites
  <2>7. ASSUME LongTerm!Evict \/ LongTerm!Tick \/ LongTerm!Restart PROVE Keeps
    BY <2>7, OthersEvict, RestartKeepsMemories
  <2> QED BY <1>2, <2>1, <2>2, <2>3, <2>4, <2>5, <2>6, <2>7 DEF LongTerm!Next
<1> QED BY <1>1, <1>2 DEF BrainNext

\* The long-term memory of a player changes one whole update at a time: every step of
\* the store, of the requests that recall and of the task that remembers, a crash, an
\* eviction and a failed write are steps of DistilledMemory or change nothing there
\* (FileLongTermStore and _drain in memory.py and companion.py).
THEOREM UpdatesAreAtomic == BrainSpec => ImplementsDistilledMemory
<1> DEFINE lines == <<LongTerm!Lines(LongTerm!Known), LongTerm!Lines(memories)>>
<1>1. LongTermInv /\ [BrainNext]_<<vars, longTerm, replies, origin>>
        => LongTermInv' /\ [LongTerm!Abstract!Next]_lines
  BY NextMemories DEF Keeps, Promised
<1>2. BrainInit => LongTermInv /\ LongTerm!Abstract!Init
  BY InitMemories
<1>3. ImplementsDistilledMemory <=> LongTerm!Abstract!Init /\ [][LongTerm!Abstract!Next]_lines
  BY DEF ImplementsDistilledMemory, LongTerm!ImplementsDistilledMemory, LongTerm!Abstract!Spec
<1> HIDE DEF lines
<1> QED BY <1>1, <1>2, <1>3, PTL DEF BrainSpec

LEMMA MemoriesAlways == BrainSpec => []LongTermInv
<1>1. LongTermInv /\ [BrainNext]_<<vars, longTerm, replies, origin>> => LongTermInv'
  BY NextMemories DEF Keeps
<1> QED BY <1>1, InitMemories, PTL DEF BrainSpec

\* A consolidation makes room, it does not delete: whatever the model answers, each of
\* the memories is there afterwards, or a line stands for it (consolidated in memory.py).
THEOREM ConsolidationsLoseNothing == BrainSpec => []ConsolidationLosesNothing
<1>1. LongTermInv => ConsolidationLosesNothing
  <2> SUFFICES ASSUME LongTermInv, task[Drain].step = "consolidate",
                      NEW result \in LongTerm!ConsolidationAnswers,
                      LongTerm!Consolidated(task[Drain].value, result) # <<>>
               PROVE  StandsFor(LongTerm!Consolidated(task[Drain].value, result),
                                task[Drain].value, result)
    BY DEF ConsolidationLosesNothing, LongTerm!ConsolidationLosesNothing, LongTerm!At, StandsFor
  <2> DEFINE value == task[Drain].value
             merged == LongTerm!Consolidated(value, result)
  <2>1. Store(value)
    BY DEF LongTermInv, UpdateIsWhole, Updates
  <2>2. merged # <<>> /\ result \in Seq(Item)
    BY AnswersAreItems
  <2> HIDE DEF value
  <2>3. StandsFor(merged, value, result)
    BY <2>1, <2>2, ConsolidatedIs
  <2> QED BY <2>3 DEF value
<1> QED BY <1>1, MemoriesAlways, PTL

\* A text that is extracted again keeps the recalls that it was given, whatever requests
\* recall, evict and reload the cache meanwhile (merge and _record_recall in memory.py).
\* It says nothing of replace_all, which writes what a consolidation read.
THEOREM RecallsAreKept == BrainSpec => RecallsAreInherited
<1> DEFINE Held == known # NotCached /\ known' # NotCached
                     /\ (LongTerm!At(Drain, "remember") \/ LongTerm!At(Drain, "read")) =>
                     \A i \in DOMAIN known, j \in DOMAIN known' :
                       known[i].text = known'[j].text => known'[j].count >= known[i].count
<1>1. LongTermInv /\ [BrainNext]_<<vars, longTerm, replies, origin>> => [Held]_(LongTerm!vars)
  <2>1. Remembering => Held
    BY DEF Remembering, Inherits, LongTerm!At
  <2> QED BY <2>1, NextMemories DEF Keeps
<1>2. RecallsAreInherited <=> [][Held]_(LongTerm!vars)
  BY DEF RecallsAreInherited, LongTerm!RecallsAreInherited
<1> HIDE DEF Held
<1> QED BY <1>1, <1>2, MemoriesAlways, PTL DEF BrainSpec
===============================================================================
