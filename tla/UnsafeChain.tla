---------------------------- MODULE UnsafeChain ----------------------------
(***************************************************************************)
(* The unsafe L2 chain as the conductor sees it: blocks with a number and  *)
(* a hash (a block IS its hash here), of which an execution node holds one *)
(* chain at a time.  The tree of blocks is a parameter.                    *)
(***************************************************************************)
EXTENDS Naturals

CONSTANTS
    Blocks,   \* the block hashes that can occur
    Number,   \* Number[b]: the block number of b
    Chain     \* Chain[b]: b and all its ancestors down to the oldest block

(***************************************************************************)
(* Each block sits on exactly one chain, numbered without gaps.            *)
(***************************************************************************)
ASSUME ChainAssumption ==
    /\ Number \in [Blocks -> Nat]
    /\ Chain \in [Blocks -> SUBSET Blocks]
    /\ \A b \in Blocks :
        /\ b \in Chain[b]
        /\ \A n \in 0 .. Number[b] : \E c \in Chain[b] : Number[c] = n
        /\ \A c, d \in Chain[b] : Number[c] = Number[d] => c = d
        /\ \A c \in Chain[b] : Chain[c] = {d \in Chain[b] : Number[d] <= Number[c]}

Descends(b, a) == a \in Chain[b]

Children(b) == {c \in Blocks : b \in Chain[c] /\ Number[c] = Number[b] + 1}

(***************************************************************************)
(* eth_getBlockByNumber on a node whose head is `head'; the caller checks  *)
(* that the number is not above the head.                                  *)
(***************************************************************************)
BlockByNumber(head, n) == CHOOSE c \in Chain[head] : Number[c] = n
============================================================================
