--------------------------- MODULE MCConductor ---------------------------
(***************************************************************************)
(* The conductor on a single block: the node and Raft agree on the head,   *)
(* so that what is explored is locks, flags, callers and failing calls.    *)
(***************************************************************************)
EXTENDS Conductor

CONSTANTS g

MCNumber == [b \in Blocks |-> 0]
MCChain == [b \in Blocks |-> {b}]
============================================================================
