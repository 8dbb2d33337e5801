----------------------------- MODULE UnsafeHead -----------------------------
(***************************************************************************)
(* What the consensus layer promises the conductor about the unsafe head:  *)
(* a register that holds the payload with the highest block number ever    *)
(* acknowledged.  The head only moves forwards while the process runs; a   *)
(* restart may forget a payload nobody was told about, never one that was  *)
(* acknowledged.                                                           *)
(***************************************************************************)
EXTENDS Naturals

VARIABLES
    head,   \* the number latest_unsafe_payload answers; 0 before any payload
    acked,  \* the highest number a commit was acknowledged for
    starts  \* how often the process has been restarted

vars == <<head, acked, starts>>

Init ==
    /\ head = 0
    /\ acked = 0
    /\ starts = 0

\* A payload, or a snapshot holding one, with a higher number arrives.
Advance ==
    /\ head' \in Nat
    /\ head' > head
    /\ UNCHANGED <<acked, starts>>

\* A commit is acknowledged once its number is covered by the head.
Acknowledge ==
    /\ acked' \in acked .. head
    /\ UNCHANGED <<head, starts>>

\* The process restarts from its disk.
Recover ==
    /\ head' \in acked .. head
    /\ starts' = starts + 1
    /\ UNCHANGED acked

Next ==
    \/ Advance
    \/ Acknowledge
    \/ Recover

Spec == Init /\ [][Next]_vars

=============================================================================
