----------------------------- MODULE Selection ------------------------------
(***************************************************************************)
(* The elements of a sequence that are in a set, in their order: what      *)
(* Vec::retain and Iterator::filter leave.  SelectSeq of the standard      *)
(* module does the same by recursion; this definition can be reasoned      *)
(* about without induction.                                                *)
(***************************************************************************)
EXTENDS Naturals, FiniteSets

Places(seq, S) == {i \in DOMAIN seq : seq[i] \in S}

\* The place of i among the members of T, and the member at a place.
Rank(T, i) == Cardinality({j \in T : j <= i})
Nth(T, n)  == CHOOSE i \in T : Rank(T, i) = n

Selected(seq, S) ==
  LET at == Places(seq, S) IN [n \in 1 .. Cardinality(at) |-> seq[Nth(at, n)]]

\* How many of T come before i, when R are the pairs in order; and T in that order.
Ahead(T, R, i) == Cardinality({j \in T : <<j, i>> \in R})
Lineup(T, R)   == [n \in 1 .. Cardinality(T) |-> CHOOSE i \in T : Ahead(T, R, i) = n - 1]
=============================================================================
