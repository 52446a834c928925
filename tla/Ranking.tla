------------------------------- MODULE Ranking -------------------------------
(* Sets and parts of sequences, put in an order.                           *)
EXTENDS Integers, Sequences, FiniteSets

(* A set as a sequence: every element behind those that are before it.     *)
Ranked(S, before) ==
  LET Ahead(x) == {y \in S : <<y, x>> \in before}
  IN  [k \in 1 .. Cardinality(S) |-> CHOOSE x \in S : Cardinality(Ahead(x)) = k - 1]

(* What stands in a sequence at some places, in the order in which it      *)
(* stands there.                                                           *)
Kept(s, at) ==
  LET places == Ranked(at, {p \in at \X at : p[1] < p[2]})
  IN  [k \in 1 .. Cardinality(at) |-> s[places[k]]]
=============================================================================
