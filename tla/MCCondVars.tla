---- MODULE MCCondVars ----
(* Instances of CondVars for TLC. *)
EXTENDS CondVars, TLC

CONSTANTS w1, w2, w3, w4, p1, p2, r1, r2

\* Clock readings: with a timeout of 500 ms the second gives 10^9 ns.
HalfNow == {1, 500000000}

\* A batch may be empty, or negative.
BatchSizes == {-1, 0, 2}

====
