------------------------------- MODULE MCPairing -------------------------------
(* Instances of Pairing for TLC. *)
EXTENDS Pairing, TLC

\* Sessions, uuids and request ids differ in nothing but their name.
MCSymmetry == Permutations(Sessions) \union Permutations(Requests)
              \union Permutations(DeviceIds \ OpenDevices) \union Permutations(CodeIds)
===============================================================================
