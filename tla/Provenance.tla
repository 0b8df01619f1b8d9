------------------------------- MODULE Provenance -------------------------------
(***************************************************************************)
(* Where a reply comes from.  A turn of the companion asks the language    *)
(* model up to five times on its way through the graph; whatever fails is  *)
(* answered by the rules of MockLLMProvider.  The calls are traced in the  *)
(* context of the turn, and when it ends a log says which steps fell back  *)
(* and who made the words.  One turn: its context is its own.              *)
(***************************************************************************)
EXTENDS Naturals, SequencesExt, Sublists

CONSTANTS
  Providers,  \* "openai" or "local"; "mock"; "keyless": one of them without a key
  Reasons,    \* FallbackReason of an error: a timeout, an empty or an invalid answer, ...
  MaxCalls,   \* _MAX_PROVIDER_CALLS
  NoReason

VARIABLES
  deployed,  \* the provider that is configured
  graph,     \* the turn in the graph
  calls,     \* _provider_calls_context
  verdict,   \* _sanitizer_context: "none", "accepted" or "rejected"
  made,      \* ghost: the calls that were made
  log        \* the turn's ResponseProvenance

vars == <<deployed, graph, calls, verdict, made, log>>

\* Where a turn is: before a call of the provider, or "done".
StepOf ==
  [answer |-> "resolve_pending", top |-> "classify_top", item |-> "resolve_recipe",
   target |-> "resolve_recipe", command |-> "classify_command", craft |-> "resolve_recipe",
   say |-> "generate_dialogue"]

\* by: who made the reply; match: repository_match; node: the last node.  The state
\* has answered (a pending question was), the intent and the label of a command.
Start(at, node) ==
  [at |-> at, answered |-> FALSE, intent |-> "none", label |-> "none",
   node |-> node, match |-> FALSE, by |-> "nobody"]
NoTurn == Start("done", "none")
NoLog == [source |-> "none"]

Init ==
  /\ deployed \in Providers
  /\ graph = NoTurn /\ calls = <<>> /\ verdict = "none" /\ made = <<>> /\ log = NoLog

-------------------------------------------------------------------------------
(* The trace of calls *)

Call(step, effective, reason) == [step |-> step, effective |-> effective, reason |-> reason]

\* _record_provider_call; quiet: _provider_observation_suppressed.
Record(trace, quiet, call) ==
  IF quiet \/ Len(trace) >= MaxCalls THEN trace ELSE Append(trace, call)

\* The calls of MockLLMProvider by itself; without a key each stands for a model.
MockReason == IF deployed = "keyless" THEN "provider_unavailable" ELSE NoReason
MockAnswers(step) == Record(calls, FALSE, Call(step, "mock", MockReason))

ModelAnswers(step) == Record(calls, FALSE, Call(step, deployed, NoReason))

\* Mutant: the mock's own record of the call is not suppressed.
FallBackLoudly(step, reason) ==
  Record(Record(calls, FALSE, Call(step, "mock", NoReason)), FALSE, Call(step, "mock", reason))
\* After any error: the mock answers unobserved, then the fallback is recorded.
FallBack(step, reason) ==
  Record(Record(calls, TRUE, Call(step, "mock", NoReason)), FALSE, Call(step, "mock", reason))

\* One call: who answers, and the reason of a fallback.
Asked(step, by, reason) ==
  /\ made' = Append(made, Call(step, by, reason))
  /\ IF deployed \in {"mock", "keyless"}
     THEN by = "mock" /\ reason = MockReason /\ calls' = MockAnswers(step)
     ELSE \/ by = deployed /\ reason = NoReason /\ calls' = ModelAnswers(step)
          \/ by = "mock" /\ reason \in Reasons /\ calls' = FallBack(step, reason)

-------------------------------------------------------------------------------
(* The graph between two calls *)

Say(g, node) == [g EXCEPT !.at = "say", !.node = node]
\* Words that no model sees.
Fixed(g, node) == [g EXCEPT !.at = "done", !.node = node, !.by = "fixed"]
FromRepository(g) ==
  [g EXCEPT !.at = "done", !.node = "recipe", !.by = "repository", !.match = TRUE]

\* recipe_node: a verified recipe, or a question which one is meant.
Recipe(g) == {FromRepository(g), Fixed(g, "recipe")}

\* resolve_pending_node: an answer to the open question, or another subject.
AfterAnswer(g) == {Say([g EXCEPT !.answered = TRUE], "gather"), [g EXCEPT !.at = "top"]}

\* _TOP_ROUTES but for commands and recipes.
Talking == [enemy |-> "enemy", lore |-> "lore", conversation |-> "conversation",
            unknown |-> "unsupported"]
\* enemy_node and lore_node may have a fact for the reply to rest on.
Talk(g, intent) ==
  LET said == Say([g EXCEPT !.intent = intent], Talking[intent]) IN
  {said} \union IF intent \in {"enemy", "lore"} THEN {[said EXCEPT !.match = TRUE]} ELSE {}

\* classify_top_node: the intent, corrected by what the text plainly is.
AfterTop(g) ==
  LET asRecipe == [g EXCEPT !.intent = "recipe"] IN
  (UNION {Talk(g, intent) : intent \in DOMAIN Talking})
    \union Recipe(asRecipe) \union {[asRecipe EXCEPT !.at = "target"]}
    \union {[g EXCEPT !.at = "command", !.intent = "command"],
            [g EXCEPT !.at = "item", !.intent = "conversation"]}
\* A conversation that names an item, unless it asks how to gather it.
AfterItem(g, by) ==
  Talk(g, "conversation")
    \union IF by = "mock" THEN {}
           ELSE {FromRepository([g EXCEPT !.intent = "recipe"]),
                 [g EXCEPT !.intent = "recipe", !.at = "target"]} \union Talk(g, "unknown")

\* command_classify_node and its terminals; only a craft order has fixed words.
AfterCommand(g) ==
  {Say([g EXCEPT !.label = label], label) : label \in {"movement_command", "attack", "gather", "unsupported"}}
    \union {Say([g EXCEPT !.label = "craft"], "craft"), Fixed([g EXCEPT !.label = "craft"], "craft"),
            [g EXCEPT !.label = "craft", !.at = "craft"]}
AfterCraft(g, by) == {Say(g, "craft")} \union IF by = "mock" THEN {} ELSE {Fixed(g, "craft")}

-------------------------------------------------------------------------------
(* A turn *)

\* _prepare_response_locked: begin_provider_trace.  With a question open it is asked
\* first whether the text answers it, unless that text is a question itself.
BeginTurn ==
  /\ graph = NoTurn /\ log = NoLog /\ made = <<>>
  /\ graph' \in {Start("top", "none"), Start("answer", "none")}
  /\ UNCHANGED <<deployed, calls, verdict, made, log>>
\* react_with_provenance: a situation is not routed.
BeginSituation ==
  /\ graph = NoTurn /\ log = NoLog /\ made = <<>>
  /\ graph' = Start("say", "situation")
  /\ UNCHANGED <<deployed, calls, verdict, made, log>>

\* The calls of a provider, and what the graph makes of their results.
Routing(at, by, reason, next) ==
  /\ graph.at = at
  /\ Asked(StepOf[at], by, reason)
  /\ graph' \in next
  /\ UNCHANGED <<deployed, verdict, log>>

ResolvePending(by, reason) == Routing("answer", by, reason, AfterAnswer(graph))
ClassifyTop(by, reason) == Routing("top", by, reason, AfterTop(graph))
ClassifyCommand(by, reason) == Routing("command", by, reason, AfterCommand(graph))
ResolveRecipe(by, reason) ==
  \/ Routing("item", by, reason, AfterItem(graph, by))
  \/ Routing("target", by, reason, Recipe(graph))
  \/ Routing("craft", by, reason, AfterCraft(graph, by))

\* render_observed: the words are the provider's, or replace what sanitize rejects.
Render(by, reason, accepted) ==
  /\ graph.at = "say"
  /\ Asked(StepOf.say, by, reason)
  /\ verdict' = IF accepted THEN "accepted" ELSE "rejected"
  /\ graph' = [graph EXCEPT !.at = "done", !.by = IF accepted THEN by ELSE "guard"]
  /\ UNCHANGED <<deployed, log>>

\* The turn times out or its request is cancelled: the trace goes with it.
Cancel ==
  /\ graph.at # "done"
  /\ graph' = NoTurn /\ calls' = <<>> /\ verdict' = "none"
  /\ UNCHANGED <<deployed, made, log>>

-------------------------------------------------------------------------------
(* The log *)

\* _build_provenance
SourceOf(said) ==
  IF verdict = "rejected" THEN "validation_rejection"
  ELSE IF said # <<>>
  THEN IF Last(said).effective = "mock" THEN "mock_fallback" ELSE Last(said).effective
  ELSE IF graph.match THEN "game_repository"
  ELSE "fixed_fallback"
ReasonOf(said) ==
  LET reasons == Sublist(calls, {i \in DOMAIN calls : calls[i].reason # NoReason}) IN
  IF verdict = "rejected" THEN "sanitizer_rejection"
  ELSE IF said # <<>> /\ Last(said).reason # NoReason THEN Last(said).reason
  ELSE IF reasons # <<>> THEN Head(reasons).reason
  ELSE NoReason

\* selected_route: computed again from the state the graph ends in.
SelectedRoute ==
  IF graph.node = "situation" THEN "situation"
  ELSE IF graph.answered THEN "gather"
  ELSE IF graph.intent = "command" THEN graph.label
  ELSE IF graph.intent = "recipe" THEN "recipe"
  ELSE Talking[graph.intent]

\* _log_provenance; a call succeeded that has no reason to fall back.
Log ==
  LET said == Sublist(calls, {i \in DOMAIN calls : calls[i].step = StepOf.say}) IN
  /\ graph.at = "done" /\ graph # NoTurn /\ log = NoLog
  /\ log' = [source |-> SourceOf(said), reason |-> ReasonOf(said), route |-> SelectedRoute,
             succeeded |-> \A i \in DOMAIN calls : calls[i].reason = NoReason,
             calls |-> calls]
  /\ calls' = <<>> /\ UNCHANGED <<deployed, graph, verdict, made>>

Next ==
  \/ BeginTurn \/ BeginSituation \/ Cancel \/ Log
  \/ \E by \in {deployed, "mock"}, reason \in Reasons \union {NoReason, MockReason} :
       \/ ResolvePending(by, reason) \/ ClassifyTop(by, reason)
       \/ ClassifyCommand(by, reason) \/ ResolveRecipe(by, reason)
       \/ \E accepted \in BOOLEAN : Render(by, reason, accepted)

Spec == Init /\ [][Next]_vars

-------------------------------------------------------------------------------
(* Properties *)

Credit(by) ==
  CASE by = "guard" -> "validation_rejection" [] by = "mock" -> "mock_fallback"
    [] by = "repository" -> "game_repository" [] by = "fixed" -> "fixed_fallback"
    [] OTHER -> by

\* The log of a turn has each of its calls, once and in order, names who made the
\* words and the node they come from, and has a reason exactly when some step of
\* the turn was not the configured provider's.
LogIsTrue ==
  log # NoLog =>
    /\ log.calls = made
    /\ log.source = Credit(graph.by) /\ log.route = graph.node
    /\ log.reason # NoReason <=>
         ~log.succeeded \/ graph.by = "guard"
    /\ log.succeeded <=> \A i \in DOMAIN made : made[i].effective = deployed
===============================================================================
