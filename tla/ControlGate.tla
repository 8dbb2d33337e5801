---------------------------- MODULE ControlGate ----------------------------
(***************************************************************************)
(* What pause(), resume() and stop() promise an operator, for the life of  *)
(* one process: a gate in front of the node.  The conductor drives the     *)
(* node (starts it, stops it, hands the leadership over) only in actions   *)
(* that pass the open gate.  The gate closes behind the action in flight,  *)
(* never on it; stop() shuts it for good, and Raft goes down only while    *)
(* nothing drives.                                                         *)
(***************************************************************************)

VARIABLES
    driving,   \* an action is between its first and its last command
    paused,    \* the operator has the node
    stopping,  \* stop() was called
    closing,   \* stop() is shutting Raft down
    stopped    \* ... and has done so

vars == <<driving, paused, stopping, closing, stopped>>

Init ==
    /\ driving = FALSE /\ paused \in BOOLEAN
    /\ stopping = FALSE /\ closing = FALSE /\ stopped = FALSE

\* Action_locked, past its guard.
Begin ==
    /\ ~driving /\ ~closing
    /\ ~paused /\ ~stopping /\ ~stopped
    /\ driving' = TRUE
    /\ UNCHANGED <<paused, stopping, closing, stopped>>

\* The action returns, or is dropped with the control loop.
End ==
    /\ driving /\ driving' = FALSE
    /\ UNCHANGED <<paused, stopping, closing, stopped>>

Pause ==
    /\ ~driving /\ ~closing
    /\ paused' = TRUE
    /\ UNCHANGED <<driving, stopping, closing, stopped>>

Resume ==
    /\ paused' = FALSE
    /\ UNCHANGED <<driving, stopping, closing, stopped>>

Shut ==
    /\ ~stopped /\ ~closing
    /\ stopping' = TRUE
    /\ UNCHANGED <<driving, paused, closing, stopped>>

Close ==
    /\ stopping /\ ~driving /\ ~closing /\ ~stopped
    /\ closing' = TRUE
    /\ UNCHANGED <<driving, paused, stopping, stopped>>

\* Raft is down, or the shutdown failed or was given up.
Closed ==
    /\ closing /\ closing' = FALSE
    /\ stopped' \in BOOLEAN
    /\ UNCHANGED <<driving, paused, stopping>>

Next == Begin \/ End \/ Pause \/ Resume \/ Shut \/ Close \/ Closed

Spec == Init /\ [][Next]_vars
=============================================================================
