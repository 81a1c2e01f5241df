---- MODULE MCObservable ----
(* Instances of Observable for TLC. *)
EXTENDS Observable, TLC

CONSTANTS t1, t2, a, b, q, d, w, f, g

TwoWays == f :> b @@ g :> a

====
