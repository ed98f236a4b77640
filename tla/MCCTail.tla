------------------------------- MODULE MCCTail -------------------------------
(* Settings of the C tail worker for TLC: three legs after a fast first    *)
(* one without a fallback range, and two legs with one.                    *)
EXTENDS CTail

Env(n, fast, primary, fallback, stop) ==
  [legs |-> n, fast |-> fast, primary |-> primary, fallback |-> fallback, stop |-> stop]

MCSettings ==
  {Env(3, TRUE, 1, 1, 1), Env(2, FALSE, 1, 2, 1), Env(2, TRUE, 2, 3, 1)}
=============================================================================
