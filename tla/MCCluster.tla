----------------------------- MODULE MCCluster -----------------------------
(***************************************************************************)
(* Cluster administration over Raft and over LocalConsensus, one question  *)
(* at a time: two membership calls; a transfer and one membership call;    *)
(* the local members; the local payload file; the Raft transport.          *)
(***************************************************************************)
EXTENDS RaftCluster, LocalNode, RaftTransport

CONSTANTS m1, m2

Spellings == [scheme : {"none", "http://"}, host : {"peer"}, slashes : 0 .. 2]

VARIABLE part

Init ==
    /\ ClusterInit /\ LocalInit /\ TransportInit
    /\ part \in {"membership", "transfer", "local members", "local payloads", "transport"}
    /\ part # "transfer" => round_robin
    /\ config.servers[Me].addr = "a"
    /\ part \notin {"membership", "transfer"} => Members(config) = Servers
    /\ part # "transport" => listening

\* Bounds: two calls about one server at one address, or one change about
\* this server or another, at either address.
Small ==
    IF part = "transfer" THEN config'.version <= 2
    ELSE /\ \A s \in Servers : config'.servers[s].addr # "b"
         /\ \A t \in Calls : \/ member_call'[t].pc \in {"idle", "returned"}
                             \/ member_call'[t].id = 3 /\ member_call'[t].addr \in {"none", "a"}

RaftNext ==
    /\ \/ part = "membership" /\ \E t \in Calls : MembershipStep(t)
       \/ part = "transfer" /\ TransferStep
       \/ part = "transfer" /\ MembershipStep(m1)
       \/ part \in {"membership", "transfer"} /\ RaftStep
    /\ Small

LocalNodeNext ==
    \/ part = "local members" /\ LocalMembership
    \/ part = "local payloads" /\ LocalPayloads
    \/ part \in {"local members", "local payloads"} /\ LocalRestart

Next ==
    \/ RaftNext /\ UNCHANGED <<local_vars, transport_vars, part>>
    \/ LocalNodeNext /\ UNCHANGED <<cluster_vars, transport_vars, part>>
    \/ part = "transport" /\ TransportNext /\ UNCHANGED <<cluster_vars, local_vars, part>>

Spec == Init /\ [][Next]_<<cluster_vars, local_vars, transport_vars, part>>
=============================================================================
