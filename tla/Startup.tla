------------------------------ MODULE Startup ------------------------------
(***************************************************************************)
(* The life of the op-conductor process (main.rs): flags are validated and *)
(* turned into a configuration, the Raft store is opened, Raft is created  *)
(* and the cluster perhaps initialized, the node is asked whether it has a *)
(* conductor, the servers run until the first of them ends, and            *)
(* finalize_runtime_exit stops the conductor and writes the profile.       *)
(* Starts fail, processes crash between any two of these steps, and the    *)
(* operator starts the process again, perhaps with other flags; the Raft   *)
(* store is all that survives.                                             *)
(***************************************************************************)
EXTENDS RpcClient

CONSTANTS
    Arguments,      \* the command lines explored: a set of argument records
    MaxStarts,      \* bound: how often the process is started
    Attempts        \* attempts of wait_for_conductor_enabled: 60

ASSUME StartupAssumption == MaxStarts \in Nat \ {0} /\ Attempts \in Nat \ {0}

VARIABLES
    proc,           \* the process: program point of main() and its state
    args,           \* Args of the running or last process
    store,          \* raft-store.json: "none", "empty", or with a "cluster"
    founder,        \* history: the start that initialized the cluster, or 0
    starts          \* starts so far

disk == <<store, founder>>

startup_vars == <<proc, args, disk, starts>>

Unset == -1

----------------------------------------------------------------------------
(* The command line, by what the program tells apart.                      *)

Urls == {"none", "bad", "good"}
Addresses == {"empty", "unresolvable", "good"}

\* Where the rollup config comes from, and Raft.  server_id, storage_dir:
\* whether they are non-empty; timeouts in milliseconds.
RaftFlags(a) ==
    /\ a.network \in {"none", "known", "unknown"}
    /\ a.rollup_file \in {"none", "undecodable", "json"}
    /\ {a.server_id, a.storage_dir, a.bootstrap} \subseteq BOOLEAN
    /\ a.consensus_addr \in Addresses /\ a.consensus_port \in Int
    /\ {a.heartbeat, a.lease} \subseteq Nat

\* The RPC, metrics, pprof and flashblocks servers, and --paused.
ServerFlags(a) ==
    /\ {a.rpc_addr, a.metrics_addr, a.pprof_addr} \subseteq Addresses
    /\ {a.rpc_port, a.metrics_port, a.pprof_port, a.ws_port} \subseteq Int
    /\ {a.metrics, a.pprof, a.paused} \subseteq BOOLEAN
    /\ a.pprof_type \in {"none", "cpu", "heap"} /\ a.ws_url \in Urls

\* The health checks; an Option of a number is Unset or a number.
HealthFlags(a) ==
    /\ {a.interval, a.unsafe_interval, a.min_peers} \subseteq Nat \cup {Unset}
    /\ {a.safe_interval, a.el_min, a.limit, a.interval_seconds} \subseteq Nat
    /\ {a.safe_enabled, a.el_enabled, a.rollup_boost, a.rollup_boost_next, a.next_url}
            \subseteq BOOLEAN
    /\ {a.el_url, a.supervisor} \subseteq Urls

ASSUME ArgumentsAssumption ==
    \A a \in Arguments : RaftFlags(a) /\ ServerFlags(a) /\ HealthFlags(a)

----------------------------------------------------------------------------
(* Validation.  A flag is what validation tells apart: URLs are "none",    *)
(* "bad" or "good", addresses "empty", "unresolvable" or "good".           *)

Ports == 0 .. 65535

\* Mutant: one port too many.
PortOkByOne(port) == port \in 0 .. 65536

\* One predicate stands for the three port checks: they differ in wording.
PortOk(port) == port \in Ports

UrlOk(url) == url \in {"none", "good"}

\* The values of the rollup config's fields: "missing" and "junk" fail every
\* check, "zero" the non-zero ones; numbers and hashes are "one", "two"...
Numeric(v) == v \in {"zero", "one", "two"}
NonZero(v) == v \in {"one", "two"}

validate_rollup_config_json(j) ==
    /\ NonZero(j.l1_hash) /\ NonZero(j.l2_hash) /\ j.l1_hash # j.l2_hash
    /\ NonZero(j.system_config) /\ NonZero(j.times)
    /\ Numeric(j.seq_window) /\ j.seq_window = "two"
    /\ NonZero(j.l1_chain_id) /\ NonZero(j.l2_chain_id)
    /\ j.l1_chain_id # j.l2_chain_id
    /\ NonZero(j.addresses)

\* A network name wins over a rollup config; a blank one does not count.
validate_rollup_config_source(a) ==
    \/ a.network = "known"
    \/ /\ a.network = "none"
       /\ a.rollup_file = "json" /\ validate_rollup_config_json(a.rollup_json)

parse_execution_p2p_check_api(api) == api \in {"net", "admin"}

ToleranceOk(a) == (a.limit = 0) <=> (a.interval_seconds = 0)

validate_args(a) ==
    /\ ~(a.rollup_boost /\ a.rollup_boost_next)
    /\ a.rollup_boost_next => a.next_url
    /\ validate_rollup_config_source(a)
    /\ a.consensus_addr # "empty"
    /\ PortOk(a.consensus_port) /\ PortOk(a.rpc_port)
    /\ a.server_id /\ a.storage_dir
    /\ a.interval > 0 /\ a.unsafe_interval # Unset /\ a.min_peers > 0
    /\ a.safe_interval > 0
    /\ a.el_enabled => a.el_min > 0 /\ parse_execution_p2p_check_api(a.el_api)
    /\ ToleranceOk(a)
    /\ a.metrics => PortOk(a.metrics_port)
    /\ a.pprof => PortOk(a.pprof_port)
    /\ a.ws_url # "none" => PortOk(a.ws_port)

\* Answers of admin_conductorEnabled.
EnabledAnswers ==
    {Answer(Bool(TRUE)), Answer(Bool(FALSE)), Answer(Number(1)),
     Refusal("MethodNotFound"), Refusal("other"), NoAnswer, Stray(Bool(TRUE))}

execution_p2p_health_config(a) ==
    a.el_enabled => UrlOk(a.el_url) /\ parse_execution_p2p_check_api(a.el_api)

\* What main() computes from valid flags before it touches anything.
ConfigBuilds(a) ==
    /\ ToleranceOk(a)
    /\ execution_p2p_health_config(a)
    /\ UrlOk(a.supervisor) /\ UrlOk(a.ws_url)
    /\ a.rollup_boost_next /\ ~a.rollup_boost => a.next_url
    /\ a.consensus_addr = "good" /\ a.rpc_addr = "good"

rollup_boost_health_config(a) ==
    IF a.rollup_boost THEN "StatusCode"
    ELSE IF a.rollup_boost_next THEN "Json" ELSE "none"

Config(a) ==
    [unsafe_interval |-> a.unsafe_interval, safe_enabled |-> a.safe_enabled,
     safe_interval |-> a.safe_interval, min_peers |-> a.min_peers,
     el_api |-> IF a.el_enabled THEN a.el_api ELSE "none", el_min |-> a.el_min,
     supervisor |-> a.supervisor # "none",
     rollup_boost |-> rollup_boost_health_config(a),
     limit |-> a.limit, interval |-> a.interval_seconds]

NoConfig == [rollup_boost |-> "none", limit |-> 0, interval |-> 0]

\* The timeouts main() derives: a third of the heartbeat timeout, at least
\* 1 ms, and an election window that the lease timeout opens.
RaftTimeouts(a) ==
    [heartbeat |-> IF a.heartbeat \div 3 > 1 THEN a.heartbeat \div 3 ELSE 1,
     election_min |-> a.heartbeat, election_max |-> a.heartbeat + a.lease]

\* openraft's Config::validate.
RaftConfigOk(t) == t.heartbeat < t.election_min /\ t.election_min < t.election_max

----------------------------------------------------------------------------
(* Start.                                                                  *)

\* Down: no process.  `stop' is the conductor_stop call: "none", "shutting"
\* while it shuts Raft down, "closed" before it stores `stopped'.  `asked'
\* is history: a caller or a signal asked this process to end.
Down(exit) ==
    [pc |-> "down", exit |-> exit, cfg |-> NoConfig, tries |-> 0,
     bootstrapped |-> FALSE, paused |-> FALSE, raft_up |-> FALSE, stop |-> "none",
     stopped |-> FALSE, profiler |-> "off", runtime |-> "none", ended |-> "none", halted |-> FALSE,
     asked |-> FALSE]

\* main() returns: Rust drops everything but what is on disk.
Returns(result) ==
    proc' = [Down(result) EXCEPT !.profiler = proc.profiler, !.runtime = proc.runtime,
                                 !.stopped = proc.stopped]

StartupInit ==
    /\ proc = Down("none")
    /\ args \in Arguments
    /\ store = "none" /\ founder = 0
    /\ starts = 0

Start(a) ==
    /\ proc.pc = "down" /\ starts < MaxStarts
    /\ starts' = starts + 1
    /\ args' = a
    /\ proc' = [Down("none") EXCEPT !.pc = "validate"]
    /\ UNCHANGED disk

Validate ==
    /\ proc.pc = "validate"
    /\ IF validate_args(args) THEN proc' = [proc EXCEPT !.pc = "configure"]
                              ELSE Returns("err")
    /\ UNCHANGED <<args, disk, starts>>

\* Tolerance, health configurations, the consensus address and its bind.
Configure ==
    /\ proc.pc = "configure"
    /\ \/ /\ ConfigBuilds(args)
          /\ proc' = [proc EXCEPT !.pc = "open", !.cfg = Config(args)]
       \/ Returns("err")                    \* a flag, or the port is taken
    /\ UNCHANGED <<args, disk, starts>>

\* MemoryRaftStore::open: reads the file or starts without one, and writes
\* what it has, so that a new file stays behind whatever comes next.
OpenStore ==
    /\ proc.pc = "open"
    /\ LET opened == IF store = "none" THEN "empty" ELSE store IN
       \/ store' = opened /\ proc' = [proc EXCEPT !.pc = "create"]
       \/ store' \in {store, opened} /\ Returns("err")    \* I/O fails
    /\ UNCHANGED <<args, founder, starts>>

\* openraft_config and Raft::new.
CreateRaft ==
    /\ proc.pc = "create"
    /\ \/ /\ RaftConfigOk(RaftTimeouts(args))
          /\ proc' = [proc EXCEPT !.pc = "bootstrap", !.raft_up = TRUE]
       \/ Returns("err")                    \* the timeouts, or openraft
    /\ UNCHANGED <<args, disk, starts>>

\* External: openraft calls a store with a vote or an entry initialized.
is_initialized == store = "cluster"

\* --raft.bootstrap initializes a store that has no cluster yet.
Bootstrap ==
    /\ proc.pc = "bootstrap"
    /\ \/ /\ args.bootstrap /\ ~is_initialized
          /\ proc' = [proc EXCEPT !.pc = "initialize"]
       \/ /\ args.bootstrap => is_initialized
          /\ proc' = [proc EXCEPT !.pc = "enabled", !.tries = Attempts]
       \/ args.bootstrap /\ Returns("err")  \* is_initialized() fails
    /\ UNCHANGED <<args, disk, starts>>

\* initialize: openraft saves the vote and the membership, then answers; it
\* may fail before or after.  Only the answer sets `bootstrapped'.
Initialize ==
    /\ proc.pc = "initialize"
    /\ \/ /\ store' = "cluster" /\ founder' = starts
          /\ \/ proc' = [proc EXCEPT !.pc = "enabled", !.tries = Attempts,
                                     !.bootstrapped = TRUE]
             \/ Returns("err")
       \/ UNCHANGED disk /\ Returns("err")
    /\ UNCHANGED <<args, starts>>

\* wait_for_conductor_enabled: one attempt, answered by r.  A node without
\* the method is taken as it is; a node that says no is not asked again.
ConductorEnabled(r) ==
    /\ proc.pc = "enabled"
    /\ LET e == conductor_enabled(r)
           yes == (e.ok /\ e.value = Bool(TRUE)) \/ is_method_not_found(e.error)
       IN  \/ yes /\ proc' = [proc EXCEPT !.pc = "seed"]
           \/ ~yes /\ (e.ok \/ proc.tries = 1) /\ Returns("err")
           \/ /\ ~yes /\ ~e.ok /\ proc.tries > 1
              /\ proc' = [proc EXCEPT !.tries = @ - 1]
    /\ UNCHANGED <<args, disk, starts>>

\* Mutant: --raft.bootstrap alone pauses.
SeedByFlag ==
    /\ proc.pc = "seed"
    /\ \/ proc' = [proc EXCEPT !.pc = "serve", !.paused = args.paused \/ args.bootstrap]
       \/ Returns("err")
    /\ UNCHANGED <<args, disk, starts>>

\* Conductor::new, then initialize_startup_state, which asks the node.
Seed ==
    /\ proc.pc = "seed"
    /\ \/ proc' = [proc EXCEPT !.pc = "serve",
                               !.paused = args.paused \/ proc.bootstrapped]
       \/ Returns("err")
    /\ UNCHANGED <<args, disk, starts>>

ObservabilityOk(a) ==
    /\ a.metrics => a.metrics_addr = "good" /\ PortOk(a.metrics_port)
    /\ a.pprof => a.pprof_addr = "good" /\ PortOk(a.pprof_port)

start_pprof_file_profiler(a) == IF a.pprof_type = "cpu" THEN "on" ELSE "off"

\* Addresses of the observability servers, the file profiler, record_up.
Serve ==
    /\ proc.pc = "serve"
    /\ \/ /\ ObservabilityOk(args)
          /\ proc' = [proc EXCEPT !.pc = "running",
                                  !.profiler = start_pprof_file_profiler(args)]
       \/ /\ ~ObservabilityOk(args) \/ args.pprof_type = "cpu"
          /\ Returns("err")
    /\ UNCHANGED <<args, disk, starts>>

----------------------------------------------------------------------------
(* Run: the select! of main(), and Conductor::stop called through RPC.     *)

Running == proc.pc = "running"

RpcStop ==
    /\ Running /\ proc.stop = "none" /\ ~proc.stopped
    /\ proc' = [proc EXCEPT !.stop = "shutting", !.asked = TRUE]
    /\ UNCHANGED <<args, disk, starts>>

\* The task of the call outlives the select!.
ShutdownRaft ==
    /\ proc.stop = "shutting"
    /\ \/ proc' = [proc EXCEPT !.stop = "closed", !.raft_up = FALSE]
       \/ proc' = [proc EXCEPT !.stop = "none"]         \* shutdown() fails
    /\ UNCHANGED <<args, disk, starts>>

StoreStopped ==
    /\ proc.stop = "closed"
    /\ proc' = [proc EXCEPT !.stop = "none", !.stopped = TRUE]
    /\ UNCHANGED <<args, disk, starts>>

\* External: a leader adds this server and appends to its log, which only
\* serve_raft_transport_on_listener lets in.
JoinsCluster ==
    /\ Running /\ proc.raft_up /\ store = "empty"
    /\ store' = "cluster"
    /\ UNCHANGED <<proc, args, founder, starts>>

\* External: openraft halts on a storage error.
RaftHalts ==
    /\ Running /\ proc.raft_up /\ proc.stop = "none"
    /\ proc' = [proc EXCEPT !.raft_up = FALSE, !.halted = TRUE]
    /\ UNCHANGED <<args, disk, starts>>

\* One branch of the select! ends, the others are dropped.
Ends(branch, result) ==
    /\ Running
    /\ proc' = [proc EXCEPT !.pc = "finalize", !.runtime = result, !.ended = branch,
                            !.asked = @ \/ branch = "signal"]
    /\ UNCHANGED <<args, disk, starts>>

wait_stopped == proc.stopped

\* The servers that shut down on wait_stopped, and the control loop.
StoppedEnds == wait_stopped /\ Ends("stopped", "ok")

\* A server fails to bind or to serve, or flashblocks gives up.
ServerFails == Ends("server", "err")

\* wait_for_leader_status_change fails: the metrics channel is closed.
MetricsWatchClosed == ~proc.raft_up

\* Mutant: the watch swallows the error and waits for the next change.
LeaderWatchDeaf == MetricsWatchClosed /\ proc.stopped /\ Ends("leader_watch", "ok")

\* Mutant: a closed channel is taken for a stop.
LeaderWatchContent == MetricsWatchClosed /\ Ends("leader_watch", "ok")

\* run_leader_watch.
LeaderWatchEnds ==
    MetricsWatchClosed /\ Ends("leader_watch", IF proc.stopped THEN "ok" ELSE "err")

Signal == Ends("signal", "ok")

\* What becomes of the profile: a written one is no longer running.
finish_pprof_file_profile(writes) ==
    IF proc.profiler = "on" /\ writes THEN "written" ELSE proc.profiler

\* finalize_runtime_exit.  stop() waits for a stop call that holds
\* stop_lock; a clean run that cannot be stopped leaves without a profile.
Finalize ==
    /\ proc.pc = "finalize" /\ proc.stop = "none"
    /\ \E stops, writes \in BOOLEAN :
        LET finishes == stops \/ proc.runtime # "ok"
            profile == finish_pprof_file_profile(finishes /\ writes)
            result == IF proc.runtime = "ok" /\ stops /\ profile # "on"
                      THEN "ok" ELSE "err"
        IN  /\ proc.stopped => stops
            /\ proc' = [Down(result) EXCEPT !.profiler = profile, !.stopped = stops,
                                            !.runtime = proc.runtime, !.asked = proc.asked]
    /\ UNCHANGED <<args, disk, starts>>

Crash ==
    /\ proc.pc # "down"
    /\ proc' = Down("crash")
    /\ UNCHANGED <<args, disk, starts>>

StartupNext ==
    \/ \E a \in Arguments : Start(a)
    \/ Validate \/ Configure \/ OpenStore \/ CreateRaft \/ Bootstrap \/ Initialize
    \/ \E r \in EnabledAnswers : ConductorEnabled(r)
    \/ Seed \/ Serve
    \/ RpcStop \/ ShutdownRaft \/ StoreStopped \/ JoinsCluster \/ RaftHalts
    \/ StoppedEnds \/ ServerFails \/ LeaderWatchEnds \/ Signal
    \/ Finalize \/ Crash
=============================================================================
