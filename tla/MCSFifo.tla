------------------------------ MODULE MCSFifo ------------------------------
(* Instances of SFifo for TLC; the cfg files give all constants a value.     *)
EXTENDS SFifo
=============================================================================
