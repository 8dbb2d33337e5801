---------------------------- MODULE MCRaftStore ----------------------------
(***************************************************************************)
(* Model-checking instance of RaftStore.                                   *)
(***************************************************************************)
EXTENDS RaftStore

\* Two payloads of one height, by two leaders; and none.
TwoForks == <<1, 1>>
NoPayloads == << >>
=============================================================================
