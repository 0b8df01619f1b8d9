----------------------------- MODULE LongTermMemory -----------------------------
(***************************************************************************)
(* The long-term memories of a player (brain/memory.py): how a model's     *)
(* answer becomes memories, how they are merged under a cap, ranked for a  *)
(* prompt, and consolidated when the cap is reached.                       *)
(*                                                                         *)
(* A text is a number: those in Texts satisfy the rules for a memory, the  *)
(* others contain a digit, are empty or too long.  A time is a number of   *)
(* half-lives, of which at most MaxClock pass.                             *)
(***************************************************************************)
EXTENDS Integers, SequencesExt, Sublists

CONSTANTS
  Texts,            \* texts that may be remembered
  BadTexts,         \* texts that break the rules
  Sources,          \* conversations summaries come from
  MaxMemories,      \* MAX_MEMORIES_PER_PLAYER
  MaxClock,         \* bound: half-lives that pass
  MaxCount,         \* bound: more recalls of a memory are not told apart
  NoSource, Never   \* no source_key; a memory that was never recalled

Kinds == {"profile", "episode", "session_summary"}
KindOrder == [profile |-> 0, episode |-> 1, session_summary |-> 2]
DefaultImportance == [profile |-> 6, episode |-> 4, session_summary |-> 2]
MaxRecallBonus == 5
UpTo(count) == IF count < MaxCount THEN count ELSE MaxCount

\* LongTermMemory.
Memory ==
  [kind : Kinds, text : Texts, source : Sources \union {NoSource}, created : 0..MaxClock,
   recalled : (0..MaxClock) \union {Never}, count : 0..MaxCount, importance : 1..10]

Texting(memories) == {memories[i].text : i \in DOMAIN memories}

\* build_memory, for a text that is not refused.
Acceptable(text) == text \in Texts
BuildMemory(kind, text, importance, source, created, recalled, count) ==
  [kind |-> kind, text |-> text, source |-> source, created |-> created,
   recalled |-> recalled, count |-> count,
   importance |-> IF importance < 1 THEN 1 ELSE IF importance > 10 THEN 10 ELSE importance]

\* memories_from and summary_memory: what is refused is left out.
MemoriesOf(kind, texts, importance, now) ==
  Sublist([i \in DOMAIN texts |->
             BuildMemory(kind, texts[i], importance, NoSource, now, Never, 0)],
          {i \in DOMAIN texts : Acceptable(texts[i])})
MemoriesFrom(profile, episode, importance, now) ==
  MemoriesOf("profile", profile, DefaultImportance["profile"], now)
    \o MemoriesOf("episode", episode, importance, now)
SummaryMemory(text, source, now) ==
  IF Acceptable(text)
  THEN <<BuildMemory("session_summary", text, DefaultImportance["session_summary"], source, now,
                     Never, 0)>>
  ELSE <<>>

-------------------------------------------------------------------------------
(* Strength, and the rank of a memory for a query *)

\* The code's strength times forty, in parts of which the last half-life leaves one.
Strength(memory, now) ==
  LET reference == IF memory.recalled = Never THEN memory.created ELSE memory.recalled
      age == IF now > reference THEN now - reference ELSE 0
      bonus == IF memory.count < MaxRecallBonus THEN memory.count ELSE MaxRecallBonus
  IN  12 * memory.importance * 2^(MaxClock - age) + 20 * bonus * 2^MaxClock

\* matching: the texts that share a keyword with the query.
Score(memory, matching, now) ==
  Strength(memory, now) + IF memory.text \in matching THEN 80 * 2^MaxClock ELSE 0

RanksBefore(a, b, matching, now) ==
  LET sa == Score(a, matching, now)  sb == Score(b, matching, now) IN
  \/ sa > sb
  \/ sa = sb /\ a.created > b.created
  \/ sa = sb /\ a.created = b.created /\ KindOrder[a.kind] < KindOrder[b.kind]
  \/ sa = sb /\ a.created = b.created /\ a.kind = b.kind /\ a.text < b.text

\* As many as limit, each after all that rank before it.
Rank(memories, matching, limit, now) ==
  LET before(i) == {j \in DOMAIN memories : RanksBefore(memories[j], memories[i], matching, now)} IN
  [n \in 1..(IF Len(memories) < limit THEN Len(memories) ELSE limit) |->
     memories[CHOOSE i \in DOMAIN memories : Cardinality(before(i)) = n - 1]]

-------------------------------------------------------------------------------
(* merge *)

\* A memory replaces those with its text, and a summary that of its conversation.
ReplacedBy(memory, kept) ==
  \/ kept.text = memory.text
  \/ /\ memory.kind = "session_summary" /\ kept.kind = "session_summary"
     /\ kept.source = memory.source

\* What is known of the same text is inherited.
Inherit(memory, merged) ==
  IF memory.text \notin Texting(merged) THEN memory
  ELSE LET old == merged[CHOOSE i \in DOMAIN merged :
                           /\ merged[i].text = memory.text
                           /\ \A j \in 1..(i - 1) : merged[j].text # memory.text]
       IN  [memory EXCEPT !.count = IF old.count > @ THEN old.count ELSE @,
                          !.recalled = IF old.recalled # Never THEN old.recalled ELSE @]

MergeOne(merged, memory) ==
  Append(Sublist(merged, {i \in DOMAIN merged : ~ReplacedBy(memory, merged[i])}),
         Inherit(memory, merged))

StrongerThan(memories, i, now) ==
  {j \in DOMAIN memories :
     LET a == memories[j]  b == memories[i] IN
     \/ Strength(a, now) > Strength(b, now)
     \/ Strength(a, now) = Strength(b, now) /\ a.created > b.created
     \/ Strength(a, now) = Strength(b, now) /\ a.created = b.created /\ j < i}

\* One memory after the other.
MergeAll(current, incoming) ==
  LET upto[n \in 0..Len(incoming)] ==
        IF n = 0 THEN current ELSE MergeOne(upto[n - 1], incoming[n])
  IN  upto[Len(incoming)]

\* Then the strongest survive, in the order they had.
Strongest(memories, now) ==
  {i \in DOMAIN memories : Cardinality(StrongerThan(memories, i, now)) < MaxMemories}

Merge(current, incoming, now) ==
  LET merged == MergeAll(current, incoming)
      survivors == {merged[i] : i \in Strongest(merged, now)}
  IN  Sublist(merged, {i \in DOMAIN merged : merged[i] \in survivors})

-------------------------------------------------------------------------------
(* consolidated: the memories a model's answer makes of the current ones, or   *)
(* <<>> (None).  The answer is a sequence of texts with the numbers of the     *)
(* memories they stand for.                                                    *)

SourcesOf(current, item) == {current[item.sources[k]] : k \in DOMAIN item.sources}

Refused(current, item) ==
  \/ item.sources = <<>> \/ ~(ToSet(item.sources) \subseteq DOMAIN current)
  \/ /\ Len(item.sources) > 1
     /\ \E memory \in SourcesOf(current, item) : memory.text = item.text

Recalls(current, item) ==
  LET total[n \in 0..Len(item.sources)] ==
        IF n = 0 THEN 0 ELSE total[n - 1] + current[item.sources[n]].count
  IN  total[Len(item.sources)]

Consolidate(current, item) ==
  LET sources == SourcesOf(current, item)
      leading == CHOOSE m \in sources : \A n \in sources : KindOrder[m.kind] <= KindOrder[n.kind]
      keys == {m.source : m \in sources}
      recalls == {m.recalled : m \in sources} \ {Never}
  IN  BuildMemory(leading.kind, item.text,
        (CHOOSE m \in sources : \A n \in sources : m.importance >= n.importance).importance,
        IF Cardinality(keys) = 1 THEN CHOOSE key \in keys : TRUE ELSE NoSource,
        (CHOOSE m \in sources : \A n \in sources : m.created <= n.created).created,
        IF recalls = {} THEN Never ELSE CHOOSE r \in recalls : \A s \in recalls : r >= s,
        UpTo(Recalls(current, item)))

\* Mutant: the memories no item stands for are dropped.
NothingKept(current, used) == <<>>
KeptMemories(current, used) == Sublist(current, DOMAIN current \ used)

Consolidated(current, result) ==
  LET good == Sublist(result, {i \in DOMAIN result : Acceptable(result[i].text)})
      used == UNION {ToSet(good[i].sources) : i \in DOMAIN good}
      merged == KeptMemories(current, used)
                  \o [i \in DOMAIN good |-> Consolidate(current, good[i])]
  IN  IF \/ \E i \in DOMAIN result : Refused(current, result[i])
         \/ good = <<>>
         \/ \E i, j \in DOMAIN merged : i # j /\ merged[i].text = merged[j].text
         \/ Len(merged) >= Len(current)
      THEN <<>> ELSE merged
===============================================================================
