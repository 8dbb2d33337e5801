------------------------- MODULE MCConductorHeads -------------------------
(***************************************************************************)
(* The conductor on a forked chain, without admin calls: what is explored  *)
(* is start_sequencer against a node and a committed head that move.       *)
(*                                                                         *)
(*      g - a1 - a2 - a3                                                   *)
(*        \ b1 - b2                                                        *)
(***************************************************************************)
EXTENDS Conductor

CONSTANTS g, a1, a2, a3, b1, b2

MCBlocks == {g, a1, a2, a3, b1, b2}

MCNumber == [b \in MCBlocks |-> CASE b = g -> 0
                                  [] b \in {a1, b1} -> 1
                                  [] b \in {a2, b2} -> 2
                                  [] b = a3 -> 3]

MCChain == [b \in MCBlocks |-> CASE b = g -> {g}
                                 [] b \in {a1, b1} -> {g, b}
                                 [] b = a2 -> {g, a1, a2}
                                 [] b = a3 -> {g, a1, a2, a3}
                                 [] b = b2 -> {g, b1, b2}]
============================================================================
