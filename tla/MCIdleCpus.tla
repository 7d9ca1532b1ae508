------------------------------ MODULE MCIdleCpus ------------------------------
(* Instances of IdleCpus for TLC. *)
EXTENDS IdleCpus

CONSTANTS t1, w1, u1, none
===============================================================================
