---- MODULE MCListR ----
(* Instances of ListR for TLC. *)
EXTENDS ListR, TLC

CONSTANTS t1, t2, t3, n1, n2, n3, v1, v2

====
