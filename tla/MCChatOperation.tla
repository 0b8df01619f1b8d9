--------------------------- MODULE MCChatOperation ---------------------------
(* Instances of ChatOperation for TLC. *)
EXTENDS ChatOperation, TLC

MCSymmetry == Permutations(Requests) \union Permutations(Digests)
              \union Permutations(Handlers)
===============================================================================
