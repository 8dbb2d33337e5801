--------------------------- MODULE RaftTransport ---------------------------
(***************************************************************************)
(* The carriers of openraft's messages between servers                     *)
(* (raft_consensus.rs): the HTTP transport that op-conductor runs, and the *)
(* in-memory one of embedded clusters.  Senders with RPCs to one peer; what *)
(* the peer's Raft answers is external.                                    *)
(***************************************************************************)
EXTENDS Naturals, Sequences

CONSTANTS
    Senders,        \* network clients, each with one RPC at a time
    PeerAddrs       \* spellings of the peer's address

\* Spelled with or without the scheme, with any number of trailing slashes.
ASSUME TransportAssumption ==
    PeerAddrs \subseteq [scheme : {"none", "http://"}, host : {"peer"}, slashes : Nat]

VARIABLES
    registered,     \* InMemoryRaftNetwork.peers holds the peer
    listening,      \* serve_raft_transport runs at the peer
    rpc             \* the RPC of each sender

transport_vars == <<registered, listening, rpc>>

Methods == {"append_entries", "vote", "full_snapshot", "transfer_leader"}

\* Results of an RPC.  A transfer is answered by Rust's (), the others by a
\* struct.
Success(v) == [ok |-> TRUE, value |-> v]
Failure(class) == [ok |-> FALSE, value |-> class]
NotYet == Failure("not yet")
ValueOf(method) == IF method = "transfer_leader" THEN "unit" ELSE "response"

\* there: the peer was there when the RPC was sent; lost: something was lost.
NoRpc == [at |-> "idle", via |-> "http", method |-> "vote",
          body |-> [result |-> "null", error |-> "none"],
          there |-> FALSE, lost |-> FALSE, given |-> NotYet, outcome |-> NotYet]

TransportInit ==
    /\ registered = FALSE /\ listening \in BOOLEAN
    /\ rpc = [s \in Senders |-> NoRpc]

\* Mutant: trailing slashes are cut only where a scheme is added.
raft_url_untrimmed(addr, method) ==
    IF addr.scheme \in {"http://", "https://"}
    THEN [scheme |-> addr.scheme, host |-> addr.host, slashes |-> addr.slashes, method |-> method]
    ELSE [scheme |-> "http://", host |-> addr.host, slashes |-> 0, method |-> method]

\* A scheme is added unless there is one; trailing slashes are cut.
raft_url(addr, method) ==
    [scheme |-> IF addr.scheme \in {"http://", "https://"} THEN addr.scheme ELSE "http://",
     host |-> addr.host, slashes |-> 0, method |-> method]

\* The router of serve_raft_transport_on_listener, /raft/ and a method.
Routes == {[scheme |-> "http://", host |-> "peer", slashes |-> 0, method |-> m] : m \in Methods}

\* RaftHttpResponse as it is on the wire: an absent Option and () are both
\* null, and null is read as an absent Option.
RaftHttpResponse(result) ==
    IF result.ok
    THEN [result |-> IF result.value = "unit" THEN "null" ELSE result.value, error |-> "none"]
    ELSE [result |-> "null", error |-> result.value]

into_result(r) ==
    IF r.error # "none" THEN Failure("Network")
    ELSE IF r.result # "null" THEN Success(r.result)
    ELSE Failure("Network")

----------------------------------------------------------------------------

Goes_to(s, r) == rpc' = [rpc EXCEPT ![s] = r] /\ UNCHANGED <<registered, listening>>

\* A client that the factory made for the peer's address.
SendHttp(s) ==
    /\ rpc[s].at = "idle"
    /\ \E m \in Methods, a \in PeerAddrs :
           LET r == [NoRpc EXCEPT !.method = m, !.there = listening] IN
           IF listening /\ raft_url(a, m) \in Routes
           THEN Goes_to(s, [r EXCEPT !.at = "sent"])
           ELSE Goes_to(s, [r EXCEPT !.at = "done", !.outcome = Failure("Network")])

\* target_raft.
SendInMemory(s) ==
    /\ rpc[s].at = "idle"
    /\ \E m \in Methods :
           LET r == [NoRpc EXCEPT !.via = "memory", !.method = m, !.there = registered] IN
           IF registered
           THEN Goes_to(s, [r EXCEPT !.at = "sent"])
           ELSE Goes_to(s, [r EXCEPT !.at = "done", !.outcome = Failure("Unreachable")])

\* The request or the answer is lost, or the answer is an HTTP error status.
Lost(s) ==
    /\ rpc[s].at \in {"sent", "answered"} /\ rpc[s].via = "http"
    /\ Goes_to(s, [rpc[s] EXCEPT !.at = "done", !.lost = TRUE, !.outcome = Failure("Network")])

\* http_append_entries, http_vote, http_full_snapshot, http_transfer_leader.
HandlesHttp(s) ==
    /\ rpc[s].at = "sent" /\ rpc[s].via = "http" /\ listening
    /\ \E result \in {Success(ValueOf(rpc[s].method)), Failure("Raft")} :
           Goes_to(s, [rpc[s] EXCEPT !.at = "answered", !.given = result,
                                     !.body = RaftHttpResponse(result)])

\* The rest of HttpRaftClient::post.
PostReturns(s) ==
    /\ rpc[s].at = "answered"
    /\ Goes_to(s, [rpc[s] EXCEPT !.at = "done", !.outcome = into_result(rpc[s].body)])

\* In memory the peer's Raft is called directly.
HandlesInMemory(s) ==
    /\ rpc[s].at = "sent" /\ rpc[s].via = "memory"
    /\ \E result \in {Success(ValueOf(rpc[s].method)), Failure("Raft")} :
           Goes_to(s, [rpc[s] EXCEPT !.at = "done", !.given = result,
                           !.outcome = IF result.ok THEN result ELSE Failure("Network")])

\* openraft takes the result, or drops the RPC after its timeout.
Taken(s) == rpc[s].at # "idle" /\ Goes_to(s, NoRpc)

PeerRegisters ==
    /\ ~registered /\ registered' = TRUE
    /\ UNCHANGED <<listening, rpc>>

PeerComesOrGoes ==
    /\ listening' = ~listening
    /\ UNCHANGED <<registered, rpc>>

TransportNext ==
    \/ \E s \in Senders : \/ SendHttp(s) \/ SendInMemory(s) \/ Lost(s)
                          \/ HandlesHttp(s) \/ PostReturns(s) \/ HandlesInMemory(s)
                          \/ Taken(s)
    \/ PeerRegisters \/ PeerComesOrGoes

TransportSpec == TransportInit /\ [][TransportNext]_transport_vars

----------------------------------------------------------------------------

(***************************************************************************)
(* A sender never takes a lost request for a success: what it calls        *)
(* success is what the peer's Raft answered to this RPC.  A peer that is   *)
(* there is reached however its address is spelled, and unless something   *)
(* is lost over HTTP the sender learns what the peer answered.  The one    *)
(* answer HTTP cannot carry is the () of a transfer: null reads as "raft   *)
(* peer returned empty response".                                          *)
(***************************************************************************)
AnswersCarried ==
    \A s \in Senders : rpc[s].at = "done" =>
        /\ rpc[s].outcome.ok => rpc[s].given = rpc[s].outcome
        /\ rpc[s].there /\ ~rpc[s].lost =>
              /\ rpc[s].given # NotYet
              /\ rpc[s].outcome.ok = (rpc[s].given.ok /\ (rpc[s].via = "http" =>
                                                          rpc[s].method # "transfer_leader"))
=============================================================================
