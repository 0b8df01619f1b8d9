--------------------------- MODULE MCMemoryPipeline ---------------------------
(* Instances of MemoryPipeline for TLC. *)
EXTENDS MemoryPipeline, TLC

MCSymmetry == Permutations(Texts) \union Permutations(Types)
              \union Permutations(Workers) \union Permutations(Users)
===============================================================================
