------------------------------- MODULE Basics -------------------------------
(***************************************************************************)
(* What the modules that are checked side by side share: the null of the    *)
(* tables and of the language, and the listing of a set in an order.         *)
(***************************************************************************)
EXTENDS Integers, FiniteSets

CONSTANT NULL

\* The members of a finite set, listed by the pairs of the first before the second: each in
\* the place after those that are before it.
Ordered(S, before) ==
    [i \in 1..Cardinality(S) |-> CHOOSE x \in S : Cardinality({y \in S : <<y, x>> \in before}) = i - 1]
=============================================================================
