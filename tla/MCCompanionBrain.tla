--------------------------- MODULE MCCompanionBrain ---------------------------
(* Instances of CompanionBrain for TLC. *)
EXTENDS CompanionBrain

CONSTANTS opinion, word, name, yourName

MCSymmetry ==
  Permutations(Conversations) \union Permutations(Writers) \union Permutations(Requests)

\* The parts share no state: a behaviour runs one of them.
MCOther == "mock"
MCNoReplies == Replies!Init /\ provider = MCOther
MCNoOrigin == Origin!Init /\ deployed = MCOther
MCNext ==
  \/ LongTerm!Init /\ MCNoReplies /\ MCNoOrigin /\ Next /\ UNCHANGED <<longTerm, replies, origin>>
  \/ Init /\ MCNoReplies /\ MCNoOrigin /\ LongTerm!Next /\ UNCHANGED <<vars, replies, origin>>
  \/ Init /\ LongTerm!Init /\ MCNoOrigin /\ Replies!Next /\ UNCHANGED <<vars, longTerm, origin>>
  \/ Init /\ LongTerm!Init /\ MCNoReplies /\ Origin!Next /\ UNCHANGED <<vars, longTerm, replies>>
MCSpec == BrainInit /\ [][MCNext]_<<vars, longTerm, replies, origin>>

\* Bound: three exchanges, of two conversations.
MCFewAppends == \E c \in Conversations : appends[c] < MaxAppends

\* The word is one of the opinion's; a name is told in other words, which with the
\* opinion are too long.
MCSays == {opinion, word, name}
MCTelling == [text \in MCSays |-> IF text = name THEN yourName ELSE text]
MCNear == {<<{opinion}, word>>}
MCUnfit == {{opinion, yourName}}
MCSceneSays == {name}
MCProviders == {"openai", "mock", "keyless"}

MCExtractions ==
  {[profile |-> <<1>>, episode |-> <<>>, importance |-> 1],
   [profile |-> <<2, 0>>, episode |-> <<3>>, importance |-> 10]}
MCItems == [text : {1, 4}, sources : {<<1, 2>>, <<3>>}]
MCResults == {<<[text |-> 0, sources |-> <<1, 2>>]>>, <<[text |-> 3, sources |-> <<4>>]>>,
              <<[text |-> 2, sources |-> <<2, 2>>]>>, <<[text |-> 3, sources |-> <<>>]>>}
               \union {<<item>> : item \in MCItems}
               \union {<<item, other>> : item \in MCItems, other \in MCItems}
===============================================================================
