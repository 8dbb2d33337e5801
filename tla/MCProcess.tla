----------------------------- MODULE MCProcess -----------------------------
(***************************************************************************)
(* Command lines that differ from a working one in one flag or the flags   *)
(* of one feature, and answers in which each source is fine or not.        *)
(***************************************************************************)
EXTENDS Process

GoodJson == [l1_hash |-> "one", l2_hash |-> "two", system_config |-> "one",
             times |-> "one", seq_window |-> "two", l1_chain_id |-> "one",
             l2_chain_id |-> "two", addresses |-> "one"]

Base == [rollup_boost |-> FALSE, rollup_boost_next |-> FALSE, next_url |-> TRUE,
         network |-> "none", rollup_file |-> "json", rollup_json |-> GoodJson,
         consensus_addr |-> "good", consensus_port |-> 0, rpc_port |-> 65535,
         rpc_addr |-> "good", server_id |-> TRUE, storage_dir |-> TRUE,
         interval |-> 1, unsafe_interval |-> 1, safe_enabled |-> FALSE,
         safe_interval |-> 2, min_peers |-> 1, el_enabled |-> FALSE,
         el_min |-> 1, el_api |-> "net", el_url |-> "none", supervisor |-> "none",
         limit |-> 0, interval_seconds |-> 0, ws_url |-> "none", ws_port |-> 0,
         metrics |-> FALSE, metrics_addr |-> "good", metrics_port |-> 0,
         pprof |-> TRUE, pprof_addr |-> "good", pprof_port |-> 0,
         pprof_type |-> "none", heartbeat |-> 3, lease |-> 1,
         bootstrap |-> TRUE, paused |-> FALSE]

\* Other values of the flags: features, and mistakes.
Alternatives ==
    {[Base EXCEPT !.network = n] : n \in {"known", "unknown"}}
    \cup {[Base EXCEPT !.rollup_file = f] : f \in {"none", "undecodable"}}
    \cup {[Base EXCEPT !.rollup_json.l2_hash = v] : v \in {"one", "zero", "junk"}}
    \cup {[Base EXCEPT !.rollup_json.seq_window = "one"]}
    \cup {[Base EXCEPT !.rollup_json.l2_chain_id = v] : v \in {"one", "zero"}}
    \cup {[Base EXCEPT !.consensus_addr = v] : v \in {"empty", "unresolvable"}}
    \cup {[Base EXCEPT !.rpc_port = v] : v \in {-1, 65536}}
    \cup {[Base EXCEPT !.server_id = FALSE], [Base EXCEPT !.rpc_addr = "unresolvable"]}
    \cup {[Base EXCEPT !.interval = v] : v \in {Unset, 0}}
    \cup {[Base EXCEPT !.unsafe_interval = v] : v \in {Unset, 0}}
    \cup {[Base EXCEPT !.min_peers = v] : v \in {Unset, 0, 2}}
    \cup {[Base EXCEPT !.safe_interval = 0], [Base EXCEPT !.lease = 0],
          [Base EXCEPT !.heartbeat = 1], [Base EXCEPT !.bootstrap = FALSE],
          [Base EXCEPT !.pprof_port = 65536], [Base EXCEPT !.pprof_addr = "unresolvable"],
          [Base EXCEPT !.pprof_type = "cpu"], [Base EXCEPT !.pprof_type = "heap"]}

Features ==
    {Base, [Base EXCEPT !.safe_enabled = TRUE], [Base EXCEPT !.paused = TRUE],
     [Base EXCEPT !.rollup_boost = TRUE, !.rollup_boost_next = TRUE]}
    \cup {[Base EXCEPT !.rollup_boost = TRUE, !.limit = l, !.interval_seconds = i] :
            l \in 0 .. 2, i \in 0 .. 2}
    \cup {[Base EXCEPT !.rollup_boost_next = TRUE, !.next_url = u] : u \in BOOLEAN}
    \cup {[Base EXCEPT !.el_enabled = TRUE, !.el_api = v, !.el_min = m] :
            v \in {"net", "admin", "other"}, m \in 0 .. 1}
    \cup {[Base EXCEPT !.el_enabled = TRUE, !.el_url = "bad"]}
    \cup {[Base EXCEPT !.supervisor = v] : v \in {"bad", "good"}}
    \cup {[Base EXCEPT !.ws_url = v, !.ws_port = p] : v \in {"bad", "good"}, p \in {0, 65536}}
    \cup {[Base EXCEPT !.metrics = TRUE, !.metrics_port = p] : p \in {0, 65536}}
    \cup {[Base EXCEPT !.metrics = TRUE, !.metrics_addr = "unresolvable"]}

MCArguments == Alternatives \cup Features

Fine == [sync |-> Answer(SyncStatus(4, 3)), supervisor |-> Answer(Number(0)),
         peers |-> Answer([kind |-> "peers", n |-> 1]), el |-> Answer(Hex(1)),
         rb |-> [status |-> 200, body |-> "Healthy"]]

\* Single faults, some on top of a partially healthy rollup-boost.
Faults(f) ==
    {f} \cup {[f EXCEPT !.sync = r] :
                r \in {NoAnswer, Answer(Number(1)), Answer(SyncStatus(0, 0)),
                       Answer(SyncStatus(1, 0)), Answer(SyncStatus(4, 1))}}
    \cup {[f EXCEPT !.supervisor = r] : r \in {NoAnswer, Refusal("other")}}
    \cup {[f EXCEPT !.peers = r] :
            r \in {Stray([kind |-> "peers", n |-> 1]), Answer([kind |-> "peers", n |-> 0])}}
    \cup {[f EXCEPT !.el = r] : r \in {Answer(Hex(0)), Answer(Array(1)), Answer(Hex(MaxU64 + 1)),
                                       Answer(Absent)}}
    \cup {[f EXCEPT !.rb = [status |-> s, body |-> b]] :
            s \in {200, 206, 404, 503}, b \in {"PartialContent", "ServiceUnavailable", "cut"}}

MCAnswers == Faults(Fine) \cup Faults([Fine EXCEPT !.rb = [status |-> 206, body |-> "cut"]])
=============================================================================
