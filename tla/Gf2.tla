---------------------------------- MODULE Gf2 ----------------------------------
(* Sets as vectors over GF(2): a vector is the set of its ones.              *)
EXTENDS Integers, FiniteSets

Odd(S) == Cardinality(S) % 2 = 1

\* The sum of the vectors that Q names: the places where an odd number of them is one.
Added(vectors, Q) ==
  {c \in UNION {vectors[q] : q \in Q} : Odd({q \in Q : c \in vectors[q]})}
=============================================================================
