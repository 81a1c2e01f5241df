---- MODULE MCWmEpoll ----
(* Instances of WmEpoll for TLC. *)
EXTENDS WmEpoll, TLC

CONSTANTS x, y, e1, e2, e3

====
