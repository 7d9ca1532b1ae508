----------------------------- MODULE MCAccounting -----------------------------
(* Instances of Accounting for TLC. *)
EXTENDS Accounting, TLC

CONSTANTS t1, t2, c1, c2, usersched, nobody

Symmetry == Permutations(CPUs)
===============================================================================
