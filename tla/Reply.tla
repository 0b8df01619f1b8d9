---------------------------------- MODULE Reply ----------------------------------
(***************************************************************************)
(* What a chat reply says: which memories and earlier messages a turn is   *)
(* given, how a failed or refused answer of the model is replaced, what is *)
(* kept from repeating the player's words, and which memories count as     *)
(* used.  One conversation; ChatOperation has the request's rows, and      *)
(* Conversation its working memory.                                        *)
(***************************************************************************)
EXTENDS Naturals, FiniteSets, SequencesExt, Sublists

CONSTANTS
  Requests,
  Texts,         \* what the player says
  Telling,       \* Telling[text]: the words in which it is told, often its own
  Near,          \* <<words, text>>: they have the text in them, or are a clause of it
  Unfit,         \* words that are not displayed: too long, with markup, a cliche, none
  SceneSays,     \* the words of a scene's fallback
  Providers,     \* "openai" or "local"; "mock"; "keyless": one of them without a key
  HistoryLimit,  \* messages that history_before reads
  MaxSources,    \* MAX_PROMPT_MEMORIES
  MaxFailures,   \* bound: failed attempts
  Nobody

VARIABLES
  provider,
  order,      \* the requests by the sequence of their messages
  turn,       \* turn[r]: the handler of r, and the reply the database has
  memory,     \* memory[r]: the memory taken from what r said
  uses,       \* uses[r]: its recall_count
  due,        \* how many of the first requests are past their retention
  erased,     \* the <<request, speaker>> whose content is erased
  answers,    \* answers[r]: ghost, the replies r was answered with
  failures

vars == <<provider, order, turn, memory, uses, due, erased, answers, failures>>

-------------------------------------------------------------------------------
(* Lines *)

\* Who made a line, and of which texts its words are.
Line(by, says) == [by |-> by, says |-> says]
NoLine == Line("nobody", {})
\* The display guards and the last resort, which is lengthened until it is not
\* what the player said.
Guard == Line("guard", {})

\* _matches_echo_keys
Repeats(line, heard) ==
  \/ line.says # {} /\ line.says \subseteq heard
  \/ \E text \in heard : <<line.says, text>> \in Near
Displayed(line, heard) == line.says \notin Unfit /\ ~Repeats(line, heard)

\* finalize_display_text
Finalize(line, fallback, heard) ==
  IF Displayed(line, heard) THEN line
  ELSE IF Displayed(fallback, heard) THEN fallback
  ELSE Guard

\* _memory_body: a text may be told in other words.
Told(claims) == Line("memory", {Telling[text] : text \in claims})

-------------------------------------------------------------------------------
(* A scene: the memories in the prompt, what their use is bound to, and whether *)
(* an answer was computed from some of them                                     *)

Scene(memories, policy, derived, refs) ==
  [memories |-> memories, policy |-> policy, derived |-> derived, refs |-> refs]
Indexes(scene) == DOMAIN scene.memories
FixedLine(scene) ==
  IF scene.derived THEN Line("derived", {}) ELSE Line("fallback", SceneSays)
Claims(scene, refs) == {scene.memories[i].claim : i \in refs}

\* Mutant: only what the model referred to.
OnlyReferred(scene, refs) == IF scene.policy = "Required" THEN refs ELSE {}
\* _fallback_memory_references
FallbackRefs(scene, refs) ==
  IF scene.policy # "Required" THEN {}
  ELSE IF refs # {} THEN refs
  ELSE Indexes(scene) \intersect {1}

\* _memory_grounded_fallback, provider_failure_fallback
Grounded(scene, refs) ==
  LET selected == FallbackRefs(scene, refs) IN
  IF scene.derived \/ selected = {} THEN FixedLine(scene) ELSE Told(Claims(scene, selected))

\* The provider's output.  fits: sanitize has no objection but those below.
Output(line, refs, fits) == [line |-> line, refs |-> refs, fits |-> fits]

\* MockLLMProvider.generate_dialogue with its fallback text.
Mock(scene, fallback, fits) ==
  IF scene.policy = "Required" /\ scene.memories # <<>>
  THEN Output(Line("memory", {scene.memories[1].claim}), {1}, fits)
  ELSE Output(fallback, {}, fits)

\* The model answers, with references that exist.
ModelOutputs(scene) ==
  {Output(Line("model", says), refs, fits) :
     says \in {{}} \union {{text} : text \in Texts}, refs \in SUBSET Indexes(scene),
     fits \in BOOLEAN}

\* After a timeout, an error, an empty or an invalid answer.
InItsPlace(scene) == {Mock(scene, Grounded(scene, {}), fits) : fits \in BOOLEAN}

\* OpenAIProvider, LocalLLMProvider, MockLLMProvider
Outputs(scene) ==
  CASE provider = "mock" -> {Mock(scene, FixedLine(scene), fits) : fits \in BOOLEAN}
    [] provider = "keyless" -> {Output(Grounded(scene, {}), {}, fits) : fits \in BOOLEAN}
    [] OTHER -> ModelOutputs(scene) \union InItsPlace(scene)

\* sanitize; refs: those of the output, or for a required recall those inferred.
Accepts(scene, output, refs, heard) ==
  /\ output.fits /\ Displayed(output.line, heard)
  /\ scene.policy = "Required" => refs # {}
  /\ scene.policy = "Optional" => ~Repeats(output.line, Claims(scene, refs))
References(scene, output) ==
  IF scene.policy = "Required" /\ output.refs = {} THEN SUBSET Indexes(scene) ELSE {output.refs}

\* render_observed
Rendered(line, refs) == [line |-> line, refs |-> refs]
Rendering(scene, output, refs, heard) ==
  IF Accepts(scene, output, refs, heard)
  THEN Rendered(Finalize(output.line, FixedLine(scene), heard), refs)
  ELSE Rendered(Finalize(Grounded(scene, output.refs), FixedLine(scene), heard),
                IF scene.derived THEN scene.refs ELSE FallbackRefs(scene, output.refs))
Renderings(scene, heard) ==
  UNION {{Rendering(scene, output, refs, heard) : refs \in References(scene, output)} :
           output \in Outputs(scene)}

-------------------------------------------------------------------------------
(* The messages, and what a turn knows of them *)

\* A request is "new"; its handler is "begun" with its message stored, has
\* "recalled", "rendered", and stored the reply: "drafted"; then it is "completed",
\* until its memories are counted: "done".  Between attempts "received" or "draft".
\* earlier: what the player said before, newest first, as the handler read it.
Turn(step, said, earlier, scene, reply, used) ==
  [step |-> step, said |-> said, earlier |-> earlier, scene |-> scene, reply |-> reply,
   used |-> used]
NoScene == Scene(<<>>, "None", FALSE, {})
NoReply == Rendered(NoLine, {})

Init ==
  /\ provider \in Providers
  /\ order = <<>> /\ due = 0 /\ erased = {} /\ failures = 0
  /\ turn = [r \in Requests |-> Turn("new", Nobody, <<>>, NoScene, NoReply, {})]
  /\ memory = [r \in Requests |-> "None"]
  /\ uses = [r \in Requests |-> 0]
  /\ answers = [r \in Requests |-> {}]

At(r, step) == turn[r].step = step
Completed(r) == turn[r].step \in {"completed", "done"}
Speakers == {"player", "companion"}

\* delivered_at: a player's message has it from the start.
Delivered(r, speaker) == speaker = "player" \/ Completed(r)

FirstOf(items, n) == SubSeq(items, 1, IF Len(items) < n THEN Len(items) ELSE n)

\* history_before: of the newest messages of these requests, the player's words.
Messages(requests) ==
  LET all == [n \in 1..2 * Len(requests) |->
                <<requests[(n + 1) \div 2], IF n % 2 = 1 THEN "companion" ELSE "player">>]
  IN  Sublist(all, {n \in DOMAIN all : Delivered(all[n][1], all[n][2]) /\ all[n] \notin erased})
Statements(requests) ==
  LET newest == FirstOf(Messages(requests), HistoryLimit)
      words == Sublist(newest, {i \in DOMAIN newest : newest[i][2] = "player"})
  IN  [i \in DOMAIN words |-> turn[words[i][1]].said]
Place(r) == CHOOSE i \in DOMAIN order : order[i] = r
History(r) == Statements(Reverse(SubSeq(order, 1, Place(r) - 1)))
\* What the player said then and now.
Heard(r) == ToSet(turn[r].earlier) \union {turn[r].said}

-------------------------------------------------------------------------------
(* A turn *)

Evidence(claim, of, required) == [claim |-> claim, of |-> of, required |-> required]
\* SourceMemoryStore.recall: some active memories, best first; the first one
\* must be used when the player asked for it, or the place reminds of it.
Recalled(ranked, required) ==
  [i \in DOMAIN ranked |-> Evidence(turn[ranked[i]].said, ranked[i], required /\ i = 1)]
Rankings ==
  {ranked \in SeqOf({r \in Requests : memory[r] = "Active"}, MaxSources) : IsInjective(ranked)}

\* _merge_recent_evidence: what the player said lately comes first; a text is
\* evidence once.
Recent(r, related) ==
  LET earlier == turn[r].earlier
      said == FirstOf(Sublist(earlier, {i \in DOMAIN earlier : earlier[i] \in related}), MaxSources)
  IN  [i \in DOMAIN said |-> Evidence(said[i], Nobody, TRUE)]
Merged(items) ==
  FirstOf(Sublist(items, {i \in DOMAIN items : \A j \in 1..i - 1 : items[j].claim # items[i].claim}),
          MaxSources)

\* create_response up to the brain; a retry reads the messages again.
Begin(r, said) ==
  /\ At(r, "new")
  /\ order' = Append(order, r)
  /\ turn' = [turn EXCEPT ![r] = Turn("begun", said, Statements(Reverse(order)), NoScene, NoReply, {})]
  /\ UNCHANGED <<provider, memory, uses, due, erased, answers, failures>>
Retry(r) ==
  /\ At(r, "received")
  /\ turn' = [turn EXCEPT ![r].step = "begun", ![r].earlier = History(r)]
  /\ UNCHANGED <<provider, order, memory, uses, due, erased, answers, failures>>

\* _prepare_response_locked up to the graph.  share: the player tells something
\* to be remembered; direct: asks what was; reminded: the place reminds of it.
Recall(r) ==
  /\ At(r, "begun")
  /\ \E share, direct, reminded \in BOOLEAN, ranked \in Rankings, related \in SUBSET Texts :
       LET recalled == IF share THEN <<>> ELSE Recalled(ranked, direct \/ reminded)
           sources == Merged((IF direct THEN Recent(r, related) ELSE <<>>) \o recalled)
           required == \E i \in DOMAIN sources : sources[i].required
       IN  turn' = [turn EXCEPT ![r] = Turn("recalled", @.said, @.earlier,
                      Scene(sources, IF required THEN "Required" ELSE "None", FALSE, {}),
                      NoReply, {})]
  /\ UNCHANGED <<provider, order, memory, uses, due, erased, answers, failures>>

\* say: a scene may hide the memories, and only some scenes bind the reply to them.
Loosely(memories) == IF memories = <<>> THEN "None" ELSE "Optional"
PlainScenes(memories, recalled) ==
  {Scene(memories, policy, derived, {}) : derived \in BOOLEAN,
     policy \in {Loosely(memories)} \union
                  (IF recalled.policy = "Required" \/ memories # <<>> THEN {"Required"} ELSE {})}
DerivedScenes(memories) == {Scene(memories, "Required", TRUE, {i}) : i \in DOMAIN memories}
Scenes(recalled) ==
  UNION {PlainScenes(memories, recalled) \union DerivedScenes(memories) :
           memories \in {<<>>, recalled.memories}}

\* The graph: the model's line or one that is fixed, guarded once more.
Render(r) ==
  /\ At(r, "recalled")
  /\ \/ \E scene \in Scenes(turn[r].scene) :
          \E reply \in Renderings(scene, Heard(r)) :
            turn' = [turn EXCEPT ![r] = Turn("rendered", @.said, @.earlier, scene, reply,
                       {scene.memories[i].of : i \in reply.refs} \ {Nobody})]
     \/ turn' = [turn EXCEPT ![r] =
                   Turn("rendered", @.said, @.earlier, NoScene, Rendered(Line("fixed", {}), {}), {})]
  /\ UNCHANGED <<provider, order, memory, uses, due, erased, answers, failures>>

\* save_generated.  A reply that the missing materials refute is replaced, and
\* not published; one whose sequence is taken is lost (see ChatOperation).
Draft(r, line, used) ==
  Turn("drafted", turn[r].said, <<>>, NoScene, Rendered(line, {}), used)
Save(r) ==
  /\ At(r, "rendered") /\ Last(order) = r
  /\ \/ turn' = [turn EXCEPT ![r] = Draft(r, turn[r].reply.line, turn[r].used)]
     \/ turn' = [turn EXCEPT ![r] = Draft(r, Line("refusal", {}), {})]
  /\ UNCHANGED <<provider, order, memory, uses, due, erased, answers, failures>>

Answer(r, line) == answers' = [answers EXCEPT ![r] = @ \union {line}]
\* complete, and the answer.
Complete(r) ==
  /\ At(r, "drafted")
  /\ turn' = [turn EXCEPT ![r].step = "completed"]
  /\ Answer(r, turn[r].reply.line)
  /\ UNCHANGED <<provider, order, memory, uses, due, erased, failures>>

Counted(used) ==
  [m \in Requests |-> IF m \in used /\ memory[m] = "Active" THEN uses[m] + 1 ELSE uses[m]]
\* commit_response and record_used; the answer may be given after it.
CountUses(r) ==
  /\ At(r, "completed")
  /\ uses' = Counted(turn[r].used)
  /\ turn' = [turn EXCEPT ![r].step = "done"]
  /\ UNCHANGED <<provider, order, memory, due, erased, answers, failures>>

\* _guard_chat_display_text with a stored reply: the row is corrected too.
Guarded(r) ==
  [turn[r].reply EXCEPT !.line = Finalize(@, Guard, ToSet(History(r)) \union {turn[r].said})]
Stored(r) == <<r, "companion">> \notin erased
\* The process that rendered the draft is gone, and what it would have published.
Resume(r) ==
  /\ At(r, "draft") /\ Stored(r)
  /\ turn' = [turn EXCEPT ![r].step = "drafted", ![r].reply = Guarded(r), ![r].used = {}]
  /\ UNCHANGED <<provider, order, memory, uses, due, erased, answers, failures>>
\* Mutant: what was answered again is published again.
PublishAgain(r) ==
  /\ At(r, "done") /\ Stored(r)
  /\ turn' = [turn EXCEPT ![r].step = "completed", ![r].reply = Guarded(r)]
  /\ Answer(r, Guarded(r).line)
  /\ UNCHANGED <<provider, order, memory, uses, due, erased, failures>>
Replay(r) ==
  /\ At(r, "done") /\ Stored(r)
  /\ turn' = [turn EXCEPT ![r].reply = Guarded(r)]
  /\ Answer(r, Guarded(r).line)
  /\ UNCHANGED <<provider, order, memory, uses, due, erased, failures>>

\* An attempt ends without its answer: a timeout, a failed transaction, a crash.
Fail(r) ==
  /\ failures < MaxFailures /\ failures' = failures + 1
  /\ turn' = [turn EXCEPT ![r] =
       IF turn[r].step \in {"begun", "recalled", "rendered"}
       THEN Turn("received", @.said, <<>>, NoScene, NoReply, {})
       ELSE Turn(IF @.step = "drafted" THEN "draft" ELSE "done", @.said, <<>>, NoScene, @.reply, {})]
  /\ turn[r].step \in {"begun", "recalled", "rendered", "drafted", "completed"}
  /\ UNCHANGED <<provider, order, memory, uses, due, erased, answers>>

-------------------------------------------------------------------------------
(* Memories and retention, of which MemoryPipeline has the steps *)

Remember(r) ==
  /\ memory[r] = "None" /\ Completed(r) /\ <<r, "player">> \notin erased
  /\ memory' = [memory EXCEPT ![r] = "Active"]
  /\ UNCHANGED <<provider, order, turn, uses, due, erased, answers, failures>>
Forget(r) ==
  /\ memory[r] = "Active"
  /\ memory' = [memory EXCEPT ![r] = "Deleted"]
  /\ UNCHANGED <<provider, order, turn, uses, due, erased, answers, failures>>

\* _purge_canonical: messages past their time, but for the evidence of memories.
Idle(r) == turn[r].step \in {"received", "draft", "done"}
Purge(n) ==
  LET past == {order[i] : i \in 1..n} \X Speakers
      kept == {r \in Requests : memory[r] = "Active"} \X {"player"}
  IN  /\ \A i \in 1..n : Idle(order[i])
      /\ due' = n /\ erased' = erased \union (past \ kept)
      /\ UNCHANGED <<provider, order, turn, memory, uses, answers, failures>>

Next ==
  \/ \E r \in Requests :
       \/ \E said \in Texts : Begin(r, said)
       \/ Retry(r) \/ Recall(r) \/ Render(r) \/ Save(r) \/ Complete(r) \/ CountUses(r)
       \/ Resume(r) \/ Replay(r) \/ Fail(r) \/ Remember(r) \/ Forget(r)
  \/ \E n \in due..Len(order) : n > 0 /\ Purge(n)

Spec == Init /\ [][Next]_vars

-------------------------------------------------------------------------------
(* Properties *)

Tellable(scene, heard) ==
  \A refs \in SUBSET Indexes(scene) :
    refs # {} => Displayed(Told(Claims(scene, refs)), heard)
\* A recall that has to rest on evidence is not answered as if there were none,
\* whatever the provider does and however the sanitizer judges, unless the guard
\* drops the words in which the evidence is told: they repeat what the player said
\* then or now, in whole or in part, or are not fit to be displayed.
RecallIsNotDenied ==
  \A r \in Requests :
    LET scene == turn[r].scene IN
    At(r, "rendered") /\ scene.policy = "Required" /\ scene.memories # <<>> /\ ~scene.derived
    /\ Tellable(scene, Heard(r))
      => turn[r].reply.line.by \in {"model", "memory"}

\* However often it is attempted, resumed and replayed, a reply counts the
\* memories it used once at most, and only when it was given.
UsesAreOfReplies ==
  \A m \in Requests : uses[m] <= Cardinality({r \in Requests : answers[r] # {}})
===============================================================================
