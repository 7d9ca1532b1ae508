----------------------------- MODULE MCBpfBackend -----------------------------
(* Instances of BpfBackend for TLC. *)
EXTENDS BpfBackend, TLC

CONSTANTS t1, t2, t3, t4, usersched

Symmetry == Permutations(Tasks \ (KTasks \cup GoThreads))
===============================================================================
