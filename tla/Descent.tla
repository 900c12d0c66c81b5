------------------------------- MODULE Descent -------------------------------
(***************************************************************************)
(* The order in which a method comes closer to its end: tuples of numbers, *)
(* the first number counting most.                                         *)
(***************************************************************************)
EXTENDS Integers, Sequences

\* v comes before w: it is smaller at the first place where they differ.
Descends(v, w) ==
    \E i \in DOMAIN w : v[i] < w[i] /\ \A k \in 1..i-1 : v[k] = w[k]

\* A condition as a number.
Count(condition) == IF condition THEN 1 ELSE 0

=============================================================================
