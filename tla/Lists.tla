------------------------------- MODULE Lists -------------------------------
(* Lists from which the code takes entries out in place, the later ones       *)
(* moving up: the response cache's entries and a request's header fields.     *)
EXTENDS Integers, Sequences, FiniteSets

(* The entries at some positions of a list, in their order.                   *)
EntriesAt(list, positions) ==
    [k \in 1..Cardinality(positions) |->
        list[CHOOSE i \in positions : Cardinality({j \in positions : j < i}) = k - 1]]
=============================================================================
