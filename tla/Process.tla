------------------------------ MODULE Process ------------------------------
(***************************************************************************)
(* The op-conductor process with the health checks its flags configure:    *)
(* Startup composed with HealthCheck.  The counter of tolerated answers    *)
(* lives in the process; the clock does not.                               *)
(***************************************************************************)
EXTENDS Startup, HealthCheck

CONSTANT Answers    \* what the sources of health may answer to one tick

vars == <<startup_vars, health_vars>>

Init == StartupInit /\ HealthInit

ProcessStep ==
    /\ StartupNext
    /\ UNCHANGED clock
    /\ IF proc.pc = "down" THEN buckets' = << >> /\ tolerated' = << >>
                           ELSE UNCHANGED <<buckets, tolerated>>

Ticking == Running /\ ~proc.stopped /\ proc.stop = "none"

Tick == /\ Ticking
        /\ \E a \in Answers : HealthTick(proc.cfg, a)
        /\ UNCHANGED startup_vars

Later == Running /\ ClockAdvances /\ UNCHANGED startup_vars

Next == ProcessStep \/ Tick \/ Later

Spec == Init /\ [][Next]_vars

----------------------------------------------------------------------------
(* Start and end of the process.                                           *)

\* What validate_args and the configurations look at can be used, if the
\* feature it belongs to is enabled.
Usable(a) ==
    /\ {a.consensus_port, a.rpc_port} \subseteq Ports
    /\ a.consensus_addr = "good" /\ a.rpc_addr = "good" /\ a.server_id /\ a.storage_dir
    /\ a.metrics => a.metrics_port \in Ports
    /\ a.pprof => a.pprof_port \in Ports
    /\ a.ws_url # "none" => a.ws_url = "good" /\ a.ws_port \in Ports
    /\ a.supervisor # "bad"
    /\ a.el_enabled => a.el_min > 0 /\ a.el_url # "bad" /\ a.el_api \in {"net", "admin"}
    /\ a.rollup_boost_next => a.next_url /\ ~a.rollup_boost
    /\ a.limit > 0 <=> a.interval_seconds > 0
    /\ a.interval > 0 /\ a.safe_interval > 0 /\ a.min_peers > 0

\* What openraft_config looks at: an election window that is not empty and
\* starts after a heartbeat.
TimeoutsUsable(a) == a.heartbeat >= 2 /\ a.lease >= 1

\* What is only looked at next to the servers.
AddressesUsable(a) ==
    /\ a.metrics => a.metrics_addr = "good"
    /\ a.pprof => a.pprof_addr = "good"

(***************************************************************************)
(* What an unusable flag can leave behind.  The store file is only written *)
(* by a process whose flags passed validate_args and the configurations;   *)
(* a cluster only gets into it when the timeouts are usable as well; and   *)
(* a process that serves has no unusable flag.  main() is no better than   *)
(* that: bad timeouts are found after the file was created, and a bad      *)
(* --metrics.addr or --pprof.addr after the cluster may have been.         *)
(***************************************************************************)
FlagErrorsInTime ==
    [][/\ store' # store => Usable(args)
       /\ store' # store /\ store' = "cluster" => TimeoutsUsable(args)
       /\ Running' => Usable(args') /\ TimeoutsUsable(args') /\ AddressesUsable(args')]_vars

(***************************************************************************)
(* The process that founded the cluster serves it paused, until the        *)
(* members are in place (src/README.md:88), and no later one does, unless  *)
(* --paused says so: not a restart with --raft.bootstrap still set, and    *)
(* not that of a server that joined.  A founder that fails or crashes      *)
(* before it serves takes the pause with it.                               *)
(***************************************************************************)
PausedByFounder == Running => (proc.paused <=> args.paused \/ founder = starts)

(***************************************************************************)
(* The process reports success only if somebody asked it to end, by        *)
(* conductor_stop or a signal: a Raft that halts, a server that fails or a *)
(* start that gives up never looks like a clean exit to a supervisor.      *)
(***************************************************************************)
SuccessWasAskedFor == proc.exit = "ok" => proc.asked

(***************************************************************************)
(* The tasks of the process go on: a stop call proceeds, run_leader_watch  *)
(* is woken by its closed channel, the servers and the control loop by the *)
(* stop, and finalize_runtime_exit runs to its end.                        *)
(***************************************************************************)
Fairness ==
    /\ WF_startup_vars(ShutdownRaft) /\ WF_startup_vars(StoreStopped)
    /\ WF_startup_vars(LeaderWatchEnds) /\ WF_startup_vars(StoppedEnds)
    /\ WF_startup_vars(Finalize)

FairSpec == Spec /\ Fairness

(***************************************************************************)
(* A process never lingers without Raft: when Raft is shut down by a stop  *)
(* or halts by itself, the process ends, however stop() and the branches   *)
(* of the select! interleave.                                              *)
(***************************************************************************)
EndsWithoutRaft == (Running /\ ~proc.raft_up) ~> proc.pc = "down"

(***************************************************************************)
(* The leader watch ends cleanly when the conductor is stopped.            *)
(***************************************************************************)
LeaderWatchExitsCleanly ==
    (proc.ended = "leader_watch" /\ ~proc.halted) => proc.runtime = "ok"

----------------------------------------------------------------------------
(* Health.                                                                 *)

\* Partial answers let through in the interval of this second.
TolerationsNow ==
    IF args.interval_seconds = 0 THEN 0
    ELSE current_value(tolerated, clock, args.interval_seconds)

\* Every source the flags ask for is fine, in terms of the flags.
AllFine(a) ==
    LET s == sync_status(a.sync)
        p == peer_stats(a.peers)
        e == peer_count(args.el_api, a.el)
        rb == RollupBoostCheck(proc.cfg.rollup_boost, a.rb)
    IN  /\ s.ok /\ clock <= s.value.unsafe + args.unsafe_interval
        /\ args.safe_enabled => clock <= s.value.safe + args.safe_interval
        /\ p.ok /\ p.value.n >= args.min_peers
        /\ args.supervisor # "none" => SupervisorCheck(a.supervisor).ok
        /\ args.el_enabled => e.ok /\ e.value.n >= args.el_min
        /\ args.rollup_boost \/ args.rollup_boost_next =>
              \/ rb = "Healthy"
              \/ rb = "Partial" /\ args.limit > 0 /\ TolerationsNow < args.limit

(***************************************************************************)
(* Whatever the sources answer next, the tick finds the sequencer healthy  *)
(* exactly if every source enabled by a flag is fine, and a connection it  *)
(* reports as down is one that failed: the classes decide whether a new    *)
(* leader may start and whether an old one may wait for recovery.  Partial *)
(* answers pass until as many have passed in this interval as the limit    *)
(* says, although the counter forgets its buckets when they are too many.  *)
(***************************************************************************)
HealthFaithful ==
    Ticking => \A a \in Answers :
        LET h == check_health_at(proc.cfg, buckets, clock, a) IN
        /\ h = "Healthy" <=> AllFine(a)
        /\ h = "SequencerConnectionDown" => ~sync_status(a.sync).ok \/ ~peer_stats(a.peers).ok
        /\ h = "SupervisorConnectionDown" =>
              args.supervisor # "none" /\ ~SupervisorCheck(a.supervisor).ok
        /\ h = "ExecutionP2pConnectionDown" =>
              args.el_enabled /\ ~peer_count(args.el_api, a.el).ok
        /\ h = "RollupBoostPartiallyHealthy" => TolerationsNow >= args.limit
=============================================================================
