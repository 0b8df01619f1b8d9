------------------------------- MODULE Sublists -------------------------------
(***************************************************************************)
(* The elements of a sequence at some of its places: what is left of the   *)
(* rows of a table, the lines of a file or the entries of a queue when     *)
(* those that fail a condition are left out.                               *)
(***************************************************************************)
EXTENDS Naturals, FiniteSets

\* The n-th smallest number of a finite set.
Nth(places, n) == CHOOSE i \in places : Cardinality({k \in places : k <= i}) = n

Sublist(s, places) == [n \in 1..Cardinality(places) |-> s[Nth(places, n)]]
===============================================================================
