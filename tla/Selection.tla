------------------------------ MODULE Selection ------------------------------
(***************************************************************************)
(* What iterator chains and sorts of the standard library make of a sequence *)
(* or a set, by places and by counting, so that both TLC and a proof can     *)
(* follow them.                                                              *)
(***************************************************************************)
EXTENDS Naturals, Sequences, FiniteSets

\* The elements of s at the places in K, in their order, and those that satisfy Op.
Picked(s, K) ==
    [p \in 1 .. Cardinality(K) |->
       s[CHOOSE i \in K : Cardinality({j \in K : j < i}) = p - 1]]
Filter(s, Op(_)) == Picked(s, {i \in DOMAIN s : Op(s[i])})
Each(s, Op(_)) == [i \in DOMAIN s |-> Op(s[i])]

\* The elements of S in the order R, a strict order as a set of pairs: each stands
\* behind as many as there are before it.
Ranked(S, R) ==
    [p \in 1 .. Cardinality(S) |->
       CHOOSE x \in S : Cardinality({y \in S : <<y, x>> \in R}) = p - 1]
=============================================================================
