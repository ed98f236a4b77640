------------------------------ MODULE Evaluation ------------------------------
(* A model checker evaluates a function where it is applied; in a fold over   *)
(* functions that is again and again.                                         *)

\* The value itself, computed once.
Forced(value) == CHOOSE v \in {value} : v = value

\* Of(value), with the value computed first.
After(value, Of(_)) == CHOOSE r \in {Of(v) : v \in {value}} : TRUE
=============================================================================
