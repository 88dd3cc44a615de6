------------------------------- MODULE MCIds -------------------------------
(* Small instances of Ids for TLC. *)
EXTENDS Ids

CONSTANTS p1, p2

OwnMachine == [p \in Replicas |-> IF p = p1 THEN 0 ELSE 1]
=============================================================================
