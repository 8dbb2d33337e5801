----------------------------- MODULE RpcServer -----------------------------
(***************************************************************************)
(* The JSON-RPC server (rpc/server.rs): bodies and batches, notifications, *)
(* parameter checks, dispatch to the conductor, and the proxy to the       *)
(* execution client and the rollup node, whose results only a leader hands *)
(* on.  A conductor operation is here its outcome; module Conductor has    *)
(* its steps.                                                              *)
(***************************************************************************)
EXTENDS RpcClient, Metrics

CONSTANTS
    Callers,        \* HTTP connections and websockets
    Bodies,         \* what each caller may send: batches and single requests
    BackendAnswers, \* what a proxied call may meet: RpcClient's responses
    MaxBodies,      \* bound: bodies a caller sends
    MaxLeads        \* bound: consensus leadership changes

VARIABLES
    conn,           \* per caller: the body in hand, what is answered so far
    proxying,       \* whether the server was given ProxyConfig
    consensus_leader,
    leader_override,
    handled,        \* history: requests that ran to their end
    led,            \* history: per caller, see LedSince
    bodies,         \* bound counters
    leads_changed

rpc_vars == <<conn, proxying, consensus_leader, leader_override, counters, handled,
              led, bodies, leads_changed>>

\* A request value: an object that decodes or not, its id ("none" when the
\* key is missing, "null" when it is null), its version, method and params.
Request(id, jsonrpc, method, params) ==
    [decodes |-> TRUE, id |-> id, jsonrpc |-> jsonrpc, method |-> method, params |-> params]
Malformed(id) == [Request(id, "2.0", "", << >>) EXCEPT !.decodes = FALSE]

\* A params value that is neither an array nor null.
NotArray == <<Json("not array", 0)>>
array_params(params) == params # NotArray

\* The values a body can hold.
Requests == [decodes : BOOLEAN, id : STRING, jsonrpc : STRING, method : STRING,
             params : Seq([kind : STRING, n : Int])]

Batch(requests) == [kind |-> "batch", requests |-> requests]
Single(request) == [kind |-> "single", requests |-> <<request>>]
NoJson == [kind |-> "no json", requests |-> << >>]

ASSUME RpcAssumption ==
    /\ \A k \in Callers : \A body \in Bodies[k] :
           /\ body \in [kind : {"batch", "single", "no json"}, requests : Seq(Requests)]
           /\ body.kind = "single" => Len(body.requests) = 1
    /\ MaxBodies \in Nat /\ MaxLeads \in Nat

----------------------------------------------------------------------------
(* Parameters.                                                             *)

IsString(v) == v.kind \in {"hex", "HEX", "padded", "decimal", "text", "tag"}

\* canonical_hex_quantity: 0x or 0X, no padding; lower case comes out.
IsHexQuantity(v) == v.kind \in {"hex", "HEX"}
decode_hex_quantity(v) == IsHexQuantity(v) /\ v.n <= MaxU64

MaxI64 == MaxU64 \div 2

no_params(p) == Len(p) = 0
bool_param(p) == Len(p) = 1 /\ IsBool(p[1])
string_string_params(p) == Len(p) = 2 /\ IsString(p[1]) /\ IsString(p[2])
id_version_params(p) == Len(p) = 2 /\ IsString(p[1]) /\ IsQuantity(p[2])
membership_change_params(p) ==
    Len(p) = 3 /\ IsString(p[1]) /\ IsString(p[2]) /\ IsQuantity(p[3])
\* A payload value holds a block number and a block hash that both parse.
unsafe_payload_param(p) == Len(p) = 1 /\ p[1].kind = "payload"
eth_get_block_by_number_proxy_params(p) ==
    /\ Len(p) = 2 /\ IsBool(p[2])
    /\ p[1].kind = "tag" \/ (decode_hex_quantity(p[1]) /\ p[1].n <= MaxI64)
output_at_block_proxy_params(p) == Len(p) = 1 /\ decode_hex_quantity(p[1])
miner_set_max_da_size_proxy_params(p) ==
    Len(p) = 2 /\ IsHexQuantity(p[1]) /\ IsHexQuantity(p[2])

----------------------------------------------------------------------------
(* Methods.                                                                *)

is_proxy_method(m) ==
    m \in {"eth_getBlockByNumber", "miner_setMaxDASize", "optimism_syncStatus",
           "optimism_outputAtBlock", "optimism_rollupConfig", "admin_sequencerActive"}

Reads == {"rpc_modules", "health_status", "conductor_leader", "conductor_leaderWithID",
          "conductor_leaderOverridden", "conductor_paused", "conductor_stopped",
          "conductor_active", "conductor_sequencerHealthy"}

\* Those whose conductor operation can fail.
Fallible == {"conductor_pause", "conductor_resume", "conductor_stop",
             "conductor_clusterMembership", "conductor_transferLeader",
             "conductor_transferLeaderToServer", "conductor_addServerAsVoter",
             "conductor_addServerAsNonvoter", "conductor_removeServer",
             "conductor_demoteVoter", "conductor_commitUnsafePayload"}

Served(m) ==
    \/ m \in Reads \cup Fallible \cup {"conductor_overrideLeader"}
    \/ is_proxy_method(m) /\ proxying

ParamsFit(m, p) ==
    /\ array_params(p)
    /\ CASE m = "conductor_overrideLeader" -> bool_param(p)
         [] m = "conductor_transferLeaderToServer" -> string_string_params(p)
         [] m \in {"conductor_addServerAsVoter", "conductor_addServerAsNonvoter"}
                -> membership_change_params(p)
         [] m \in {"conductor_removeServer", "conductor_demoteVoter"} -> id_version_params(p)
         [] m = "conductor_commitUnsafePayload" -> unsafe_payload_param(p)
         [] m = "eth_getBlockByNumber" -> eth_get_block_by_number_proxy_params(p)
         [] m = "optimism_outputAtBlock" -> output_at_block_proxy_params(p)
         [] m = "miner_setMaxDASize" -> miner_set_max_da_size_proxy_params(p)
         [] OTHER -> no_params(p)

\* What dispatch says before it does anything.
Refused(r) ==
    IF r.jsonrpc # "2.0" THEN "invalid_request"
    ELSE IF ~Served(r.method) THEN "method_not_found"
    ELSE IF ~ParamsFit(r.method, r.params) THEN "invalid_params"
    ELSE "none"

\* proxy_error: a backend's own code goes on, the rest is internal.
proxy_error(e) ==
    CASE e = "MethodNotFound" -> "method_not_found"
      [] e = "InvalidParams" -> "invalid_params"
      [] OTHER -> "internal"

\* Every proxied method but one is answered by the leader only.
LeaderOnly(m) == is_proxy_method(m) /\ m # "miner_setMaxDASize"

leader == leader_override \/ consensus_leader

----------------------------------------------------------------------------
(* One body, request by request.                                           *)

Idle == [pc |-> "idle", body |-> NoJson, at |-> 0, out |-> << >>, trail |-> << >>]

RpcInit ==
    /\ conn = [k \in Callers |-> Idle]
    /\ proxying \in BOOLEAN
    /\ consensus_leader \in BOOLEAN /\ leader_override = FALSE
    /\ counters = NoCounters
    /\ handled = 0 /\ led = [k \in Callers |-> FALSE]
    /\ bodies = [k \in Callers |-> 0] /\ leads_changed = 0

Now(k) == conn[k].body.requests[conn[k].at]

\* A response: the request's id and its result's or error's code.
Response_value(id, code) == [id |-> id, code |-> code]

\* Mutant: an id that is null reads as no id.
is_notification_null(r) == r.decodes /\ r.id \in {"none", "null"}

is_notification(r) == r.decodes /\ r.id = "none"

\* handle_bytes and handle_payload up to the first request.
Receive(k) ==
    /\ conn[k].pc = "idle" /\ bodies[k] < MaxBodies
    /\ bodies' = [bodies EXCEPT ![k] = @ + 1]
    /\ \E body \in Bodies[k] :
           LET only(code) == [Idle EXCEPT !.pc = "reply", !.body = body,
                                          !.out = <<Response_value("none", code)>>]
           IN  conn' = [conn EXCEPT ![k] =
                   CASE body.kind = "no json" -> only("parse")
                     [] body.kind = "batch" /\ body.requests = << >> -> only("invalid_request")
                     [] OTHER -> [Idle EXCEPT !.pc = "next", !.body = body, !.at = 1]]
    /\ UNCHANGED <<proxying, consensus_leader, leader_override, counters, handled,
                   leads_changed>>

\* The request in hand is over: `called' says whether the conductor or a
\* backend was asked on its behalf.
Completes(k, code, called) ==
    LET c == conn[k]
        r == Now(k)
        c2 == [c EXCEPT !.trail = Append(@, [code |-> code, called |-> called, led |-> led[k]]),
                        !.out = IF is_notification(r) THEN @
                                ELSE Append(@, Response_value(r.id, code)),
                        !.pc = IF c.at = Len(c.body.requests) THEN "reply" ELSE "next",
                        !.at = IF c.at = Len(c.body.requests) THEN @ ELSE @ + 1]
    IN  conn' = [conn EXCEPT ![k] = c2]

\* Mutant: an error is answered without being recorded.
Recorded_ok(r, code) ==
    /\ handled' = handled + 1
    /\ CASE is_notification(r) -> record_rpc_server_notification(r.method)
         [] code = "ok" -> \E d \in Durations : record_rpc_server_request(r.method, d, code)
         [] OTHER -> UNCHANGED counters

\* The tail of handle_request_value.
Recorded(r, code) ==
    /\ handled' = handled + 1
    /\ IF is_notification(r)
       THEN record_rpc_server_notification(r.method)
       ELSE \E d \in Durations : record_rpc_server_request(r.method, d, code)

\* A value that is no request is answered, id or not, and not recorded.
Undecodable(k) ==
    /\ conn[k].pc = "next" /\ ~Now(k).decodes
    /\ Completes(k, "invalid_request", FALSE)
    /\ UNCHANGED <<proxying, consensus_leader, leader_override, counters, handled, bodies,
                   leads_changed>>

DispatchRefused(k) ==
    /\ conn[k].pc = "next" /\ Now(k).decodes /\ Refused(Now(k)) # "none"
    /\ Completes(k, Refused(Now(k)), FALSE)
    /\ Recorded(Now(k), Refused(Now(k)))
    /\ UNCHANGED <<proxying, consensus_leader, leader_override, bodies, leads_changed>>

Sound(k) == conn[k].pc = "next" /\ Now(k).decodes /\ Refused(Now(k)) = "none"

DispatchConductor(k) ==
    /\ Sound(k) /\ ~is_proxy_method(Now(k).method)
    /\ \E code \in {"ok"} \cup (IF Now(k).method \in Fallible THEN {"internal"} ELSE {}) :
           Completes(k, code, TRUE) /\ Recorded(Now(k), code)
    /\ leader_override' = IF Now(k).method = "conductor_overrideLeader"
                          THEN Now(k).params[1] = Bool(TRUE) ELSE leader_override
    /\ UNCHANGED <<proxying, consensus_leader, bodies, leads_changed>>

\* proxy_to_backend sends.
DispatchProxy(k) ==
    /\ Sound(k) /\ is_proxy_method(Now(k).method)
    /\ conn' = [conn EXCEPT ![k].pc = "proxy"]
    /\ UNCHANGED <<proxying, consensus_leader, leader_override, counters, handled, bodies,
                   leads_changed>>

\* A proxied request's step: it ends with a code, or goes on at pc.
ProxyEnds(k, code) == Completes(k, code, TRUE) /\ Recorded(Now(k), code)
ProxyGoesOn(k, pc) ==
    conn' = [conn EXCEPT ![k].pc = pc] /\ UNCHANGED <<counters, handled>>

\* The backend's error goes on at once, and so does the result of the one
\* method that followers serve.
BackendAnswered(k) ==
    /\ conn[k].pc = "proxy"
    /\ \E r \in BackendAnswers :
           LET answer == call(r, TRUE) IN
           \/ ~answer.ok /\ ProxyEnds(k, proxy_error(answer.error))
           \/ answer.ok /\ ~LeaderOnly(Now(k).method) /\ ProxyEnds(k, "ok")
           \/ answer.ok /\ LeaderOnly(Now(k).method) /\ ProxyGoesOn(k, "answered")
    /\ UNCHANGED <<proxying, consensus_leader, leader_override, bodies, leads_changed>>

\* Mutant: nobody looks once the answer is there.
LooksAtOverride_never(k) ==
    /\ conn[k].pc = "answered"
    /\ ProxyEnds(k, "ok")
    /\ UNCHANGED <<proxying, consensus_leader, leader_override, bodies, leads_changed>>

\* proxy_to_leader with the result in hand, Conductor::leader: the override
\* is loaded, and only without one is the consensus asked.
LooksAtOverride(k) ==
    /\ conn[k].pc = "answered"
    /\ \/ leader_override /\ ProxyEnds(k, "ok")
       \/ ~leader_override /\ ProxyGoesOn(k, "looking")
    /\ UNCHANGED <<proxying, consensus_leader, leader_override, bodies, leads_changed>>

LooksAtConsensus(k) ==
    /\ conn[k].pc = "looking"
    /\ ProxyEnds(k, IF consensus_leader THEN "ok" ELSE "internal")
    /\ UNCHANGED <<proxying, consensus_leader, leader_override, bodies, leads_changed>>

\* Json(response), or NO_CONTENT; a websocket then reads its next message.
Reply(k) ==
    /\ conn[k].pc = "reply"
    /\ conn' = [conn EXCEPT ![k] = Idle]
    /\ UNCHANGED <<proxying, consensus_leader, leader_override, counters, handled, bodies,
                   leads_changed>>

\* The caller goes away: the rest of its body is dropped where it waits.
Disconnect(k) ==
    /\ conn[k].pc \in {"next", "proxy", "answered", "looking"}
    /\ conn' = [conn EXCEPT ![k] = Idle]
    /\ UNCHANGED <<proxying, consensus_leader, leader_override, counters, handled, bodies,
                   leads_changed>>

LeaderChanges ==
    /\ leads_changed < MaxLeads
    /\ leads_changed' = leads_changed + 1
    /\ consensus_leader' = ~consensus_leader
    /\ UNCHANGED <<conn, proxying, leader_override, counters, handled, bodies>>

\* The history of each call that waits to be handed on: whether the conductor
\* has led, by consensus or by override, in a state since the backend's answer.
\* What it did before does not count.
LedSince ==
    led' = [k \in Callers |-> conn'[k].pc \in {"answered", "looking"} /\ (led[k] \/ leader')]

RpcNext ==
    /\ \/ \E k \in Callers :
              \/ Receive(k) \/ Undecodable(k) \/ DispatchRefused(k) \/ DispatchConductor(k)
              \/ DispatchProxy(k) \/ BackendAnswered(k) \/ LooksAtOverride(k)
              \/ LooksAtConsensus(k) \/ Reply(k) \/ Disconnect(k)
       \/ LeaderChanges
    /\ LedSince

RpcSpec == RpcInit /\ [][RpcNext]_rpc_vars

----------------------------------------------------------------------------

(***************************************************************************)
(* The answers of a body are, in its order, those of the requests that     *)
(* have an id (null counts) or could not be read, and no others: request i *)
(* has the answer whose place is the number of those up to i.              *)
(***************************************************************************)
Asked(requests, n) == {i \in 1 .. n : requests[i].id # "none" \/ ~requests[i].decodes}

AnswersMatchRequests ==
    \A k \in Callers : conn[k].trail # << >> =>
        LET c == conn[k]
            asked == Asked(c.body.requests, Len(c.trail))
        IN  /\ Len(c.out) = Cardinality(asked)
            /\ \A i \in asked :
                   c.out[Cardinality(Asked(c.body.requests, i))].id = c.body.requests[i].id

(***************************************************************************)
(* A result of the rollup node or the execution client reaches a caller    *)
(* only if the conductor led, or was made to, at some moment after the     *)
(* backend had answered: having led when the call came in, or while it was *)
(* under way, is not enough.  Leadership and override may change between   *)
(* the two reads of which Conductor::leader consists.                      *)
(***************************************************************************)
ProxiedWhileLeading ==
    \A k \in Callers : \A i \in DOMAIN conn[k].trail :
        (LeaderOnly(conn[k].body.requests[i].method) /\ conn[k].trail[i].code = "ok")
            => conn[k].trail[i].led

(***************************************************************************)
(* Every request that decodes and runs to its end is recorded exactly      *)
(* once, as a request with its outcome or as a notification, whoever else  *)
(* is served meanwhile.                                                    *)
(***************************************************************************)
EveryRequestRecorded ==
    handled = Total(counters.count) + Total(counters.notifications)
=============================================================================
