------------------------------ MODULE MCUserSched ------------------------------
(* Instances of UserSched for TLC. *)
EXTENDS UserSched

CONSTANTS p1, p2
================================================================================
