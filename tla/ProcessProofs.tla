--------------------------- MODULE ProcessProofs ---------------------------
(***************************************************************************)
(* Theorems about the start, the health checks and the end of the process, *)
(* for every set of command lines and of answers, number of starts, of     *)
(* attempts and of buckets.                                                *)
(***************************************************************************)
EXTENDS Process, TLAPS

\* Program points of main(): up to the servers; with flags that were looked
\* at; with Raft; while and after the servers run.
Starting == {"validate", "configure", "open", "create", "bootstrap", "initialize",
             "enabled", "seed", "serve"}
Serving == {"running", "finalize"}
Built == {"open", "create", "bootstrap", "initialize", "enabled", "seed", "serve"} \cup Serving
WithRaft == {"bootstrap", "initialize", "enabled", "seed", "serve"} \cup Serving

Procs ==
    [pc : {"down"} \cup Starting \cup Serving,
     exit : {"none", "ok", "err", "crash"},
     cfg : {NoConfig} \cup {Config(a) : a \in Arguments},
     tries : Int, bootstrapped : BOOLEAN, paused : BOOLEAN, raft_up : BOOLEAN,
     stop : {"none", "shutting", "closed"}, stopped : BOOLEAN,
     profiler : {"off", "on", "written"}, runtime : {"none", "ok", "err"},
     ended : {"none", "stopped", "server", "leader_watch", "signal"}, halted : BOOLEAN,
     asked : BOOLEAN]

\* The flags a program point has behind it.
FlagsBehind(pc, a) ==
    /\ pc = "configure" => validate_args(a)
    /\ pc \in Built => Usable(a)
    /\ pc \in WithRaft => TimeoutsUsable(a)
    /\ pc \in Serving => AddressesUsable(a)

\* `bootstrapped' tells the founder from all other starts, and what becomes
\* of it.
PauseKnown(p) ==
    /\ p.pc # "down" => (p.bootstrapped <=> founder = starts)
    /\ p.pc \in {"serve"} \cup Serving => (p.paused <=> args.paused \/ founder = starts)

\* A stop call needs a caller, and a clean end a stop or a signal.
AskedFor(p) ==
    /\ p.pc \notin Serving => p.stop = "none"
    /\ p.pc \in Starting => ~p.stopped
    /\ p.pc \in Serving /\ (p.stop # "none" \/ p.stopped) => p.asked
    /\ p.pc = "finalize" /\ p.runtime = "ok" => p.asked
    /\ p.pc # "down" => p.exit = "none"
    /\ p.exit = "ok" => p.asked

(***************************************************************************)
(* What each program point of main() knows.  The bound on founder is what  *)
(* makes a new start a start that has founded nothing.                     *)
(***************************************************************************)
PInv ==
    /\ proc \in Procs /\ args \in Arguments
    /\ store \in {"none", "empty", "cluster"}
    /\ starts \in Nat /\ founder \in 0 .. starts
    /\ FlagsBehind(proc.pc, args)
    /\ PauseKnown(proc)
    /\ AskedFor(proc)

\* A process that is down, or has just been started, knows nothing yet.
LEMMA DownFacts ==
    ASSUME NEW e \in {"none", "err", "crash"}
    PROVE  /\ Down(e) \in Procs
           /\ Down(e).pc = "down" /\ Down(e).exit = e
           /\ Down(e).stop = "none" /\ ~Down(e).bootstrapped /\ ~Down(e).stopped
  BY DEF Down, Procs

\* What validate_args and the building of configurations leave is usable.
LEMMA BuiltIsUsable ==
    ASSUME NEW a \in Arguments, validate_args(a), ConfigBuilds(a)
    PROVE  Usable(a)
  <1>1. a.consensus_port \in Ports /\ a.rpc_port \in Ports
    BY Zenon DEF validate_args, PortOk
  <1>0. a.consensus_addr = "good" /\ a.rpc_addr = "good" /\ a.server_id /\ a.storage_dir
    BY Zenon DEF validate_args, ConfigBuilds
  <1>2. /\ a.metrics => a.metrics_port \in Ports
        /\ a.pprof => a.pprof_port \in Ports
    BY Zenon DEF validate_args, PortOk
  <1>3. a.ws_url # "none" => a.ws_url = "good" /\ a.ws_port \in Ports
    BY Zenon DEF validate_args, PortOk, ConfigBuilds, UrlOk
  <1>4. a.supervisor # "bad"
    BY Zenon DEF ConfigBuilds, UrlOk
  <1>5. a.el_enabled => a.el_min > 0 /\ a.el_url # "bad" /\ a.el_api \in {"net", "admin"}
    BY Zenon DEF validate_args, ConfigBuilds, UrlOk, execution_p2p_health_config,
                 parse_execution_p2p_check_api
  <1>6. a.rollup_boost_next => a.next_url /\ ~a.rollup_boost
    BY Zenon DEF validate_args
  <1>7. a.limit > 0 <=> a.interval_seconds > 0
    <2>1. a.limit \in Nat /\ a.interval_seconds \in Nat
      BY Zenon, ArgumentsAssumption DEF HealthFlags
    <2>2. (a.limit = 0) <=> (a.interval_seconds = 0)
      BY Zenon DEF ConfigBuilds, ToleranceOk
    <2> QED
      BY <2>1, <2>2
  <1>8. a.interval > 0 /\ a.safe_interval > 0 /\ a.min_peers > 0
    BY Zenon DEF validate_args
  <1> QED
    BY Zenon, <1>0, <1>1, <1>2, <1>3, <1>4, <1>5, <1>6, <1>7, <1>8 DEF Usable

\* Timeouts that openraft accepts leave room for a heartbeat.
LEMMA CreatedIsTimed ==
    ASSUME NEW a \in Arguments, RaftConfigOk(RaftTimeouts(a))
    PROVE  TimeoutsUsable(a)
  <1>1. a.heartbeat \in Nat /\ a.lease \in Nat
    BY Zenon, ArgumentsAssumption DEF RaftFlags
  <1> DEFINE beat == IF a.heartbeat \div 3 > 1 THEN a.heartbeat \div 3 ELSE 1
  <1>2. beat \in Int /\ beat >= 1
    BY ONLY SMTT(30), <1>1
  <1>3. beat < a.heartbeat /\ a.heartbeat < a.heartbeat + a.lease
    BY Zenon DEF RaftConfigOk, RaftTimeouts
  <1> HIDE DEF beat
  <1> QED
    BY SMTT(30), <1>1, <1>2, <1>3 DEF TimeoutsUsable

\* A process that has ended without a success is beyond all doubt.
LEMMA EndedKeeps ==
    ASSUME PInv, proc' \in Procs, proc'.pc = "down", proc'.exit # "ok", proc'.stop = "none",
           args' = args, starts' = starts,
           store' \in {"none", "empty", "cluster"}, founder' \in {founder, starts}
    PROVE  PInv'
  <1>1. starts' \in Nat /\ founder' \in 0 .. starts'
    BY SMTT(30) DEF PInv
  <1>2. FlagsBehind(proc'.pc, args')
    BY Zenon DEF FlagsBehind, Built, WithRaft, Serving
  <1>3. PauseKnown(proc)' /\ AskedFor(proc)'
    BY Zenon DEF PauseKnown, AskedFor, Starting, Serving
  <1> QED
    BY Zenon, <1>1, <1>2, <1>3 DEF PInv

\* An error return is such an end.
LEMMA ReturnsKeep ==
    ASSUME PInv, Returns("err"), args' = args, starts' = starts,
           store' \in {"none", "empty", "cluster"}, founder' \in {founder, starts}
    PROVE  PInv'
  <1>1. proc.profiler \in {"off", "on", "written"} /\ proc.runtime \in {"none", "ok", "err"}
        /\ proc.stopped \in BOOLEAN
    BY Zenon DEF PInv, Procs
  <1>2. proc' \in Procs
    BY ZenonT(60), <1>1, DownFacts DEF Returns, Procs
  <1>3. proc'.pc = "down" /\ proc'.exit = "err" /\ proc'.stop = "none"
    BY Zenon DEF Returns, Down
  <1> QED
    BY Zenon, <1>2, <1>3, EndedKeeps

\* An error return that leaves the disk alone.
LEMMA ReturnsQuietly ==
    ASSUME PInv, Returns("err"), UNCHANGED <<args, disk, starts>>
    PROVE  PInv'
  BY Zenon, ReturnsKeep DEF disk, PInv

\* No process knows nothing.
LEMMA InitPInv == Init => PInv
  <1> SUFFICES ASSUME Init PROVE PInv
    OBVIOUS
  <1>1. starts \in Nat /\ founder \in 0 .. starts
    BY SMTT(30) DEF Init, StartupInit
  <1> QED
    BY Zenon, <1>1, DownFacts DEF Init, StartupInit, PInv, FlagsBehind, PauseKnown, AskedFor,
       Starting, Serving, Built, WithRaft

\* The operator starts a process, perhaps with other flags.
LEMMA StartStep == ASSUME PInv, NEW a \in Arguments, Start(a) PROVE PInv'
  <1>1. proc' \in Procs
    BY DownFacts DEF Start, Procs, Starting
  <1>2. /\ proc'.pc = "validate" /\ proc'.exit = "none" /\ proc'.stop = "none"
        /\ ~proc'.bootstrapped /\ ~proc'.stopped
    BY Zenon DEF Start, Down
  <1>3. /\ starts' \in Nat /\ founder' \in 0 .. starts' /\ founder' # starts'
        /\ args' \in Arguments /\ store' = store
    BY SMTT(30) DEF Start, disk, PInv
  <1>4. FlagsBehind(proc'.pc, args')
    BY Zenon, <1>2 DEF FlagsBehind, Built, WithRaft, Serving
  <1>5. PauseKnown(proc)' /\ AskedFor(proc)'
    BY Zenon, <1>2, <1>3 DEF PauseKnown, AskedFor, Serving
  <1> QED
    BY Zenon, <1>1, <1>3, <1>4, <1>5 DEF PInv

\* A step of the start that does not found a cluster: what it has to show is
\* the flags it has behind it, and what it made of `paused'.
LEMMA GoesOn ==
    ASSUME PInv, proc.pc \in Starting, UNCHANGED <<args, founder, starts>>,
           store' \in {"none", "empty", "cluster"},
           proc' \in Procs, proc'.pc \in Starting \cup {"running"}, proc'.exit = proc.exit,
           proc'.stop = proc.stop, proc'.stopped = proc.stopped,
           proc'.bootstrapped = proc.bootstrapped,
           FlagsBehind(proc'.pc, args),
           proc'.pc \in {"serve", "running"} =>
               (proc'.paused <=> args.paused \/ founder = starts)
    PROVE  PInv'
  <1>1. /\ proc.pc # "down" /\ proc'.pc # "down" /\ proc'.pc # "finalize"
        /\ proc.pc \notin Serving
    BY Zenon DEF Starting, Serving
  <1>2. proc.stop = "none" /\ ~proc.stopped /\ proc.exit = "none"
    BY Zenon, <1>1 DEF PInv, AskedFor
  <1>3. AskedFor(proc)'
    BY Zenon, <1>1, <1>2 DEF AskedFor
  <1>4. proc.bootstrapped <=> founder = starts
    BY Zenon, <1>1 DEF PInv, PauseKnown
  <1>5. PauseKnown(proc)'
    BY Zenon, <1>1, <1>4 DEF PauseKnown, Serving
  <1> QED
    BY Zenon, <1>3, <1>5 DEF PInv

\* validate_args lets only valid flags on.
LEMMA ValidateStep == ASSUME PInv, Validate PROVE PInv'
  <1>1. CASE validate_args(args)
    <2>1. proc' = [proc EXCEPT !.pc = "configure"] /\ UNCHANGED <<args, disk, starts>>
      BY Zenon, <1>1 DEF Validate
    <2>2. /\ proc' \in Procs /\ proc'.pc = "configure" /\ proc'.exit = proc.exit
          /\ proc'.stop = proc.stop /\ proc'.stopped = proc.stopped
          /\ proc'.bootstrapped = proc.bootstrapped
      BY ZenonT(60), <2>1 DEF PInv, Procs, Starting
    <2>3. FlagsBehind("configure", args)
      BY Zenon, <1>1 DEF FlagsBehind, Built, WithRaft, Serving
    <2>4. proc.pc \in Starting /\ store' \in {"none", "empty", "cluster"}
      BY Zenon, <2>1 DEF Validate, Starting, disk, PInv
    <2> QED
      BY Zenon, <2>1, <2>2, <2>3, <2>4, GoesOn DEF disk, Starting
  <1>2. CASE ~validate_args(args)
    BY Zenon, <1>2, ReturnsQuietly DEF Validate
  <1> QED
    BY Zenon, <1>1, <1>2

\* What is configured from valid flags is usable.
LEMMA ConfigureStep == ASSUME PInv, Configure PROVE PInv'
  <1>1. CASE ConfigBuilds(args) /\ proc' = [proc EXCEPT !.pc = "open", !.cfg = Config(args)]
    <2>1. Usable(args)
      BY Zenon, <1>1, BuiltIsUsable DEF PInv, FlagsBehind, Configure
    <2>2. /\ proc' \in Procs /\ proc'.pc = "open" /\ proc'.exit = proc.exit
          /\ proc'.stop = proc.stop /\ proc'.stopped = proc.stopped
          /\ proc'.bootstrapped = proc.bootstrapped
      BY ZenonT(60), <1>1 DEF PInv, Procs, Starting
    <2>3. FlagsBehind("open", args)
      BY Zenon, <2>1 DEF FlagsBehind, WithRaft, Serving
    <2>4. /\ proc.pc \in Starting /\ store' \in {"none", "empty", "cluster"}
          /\ UNCHANGED <<args, founder, starts>>
      BY Zenon DEF Configure, Starting, disk, PInv
    <2> QED
      BY Zenon, <2>2, <2>3, <2>4, GoesOn DEF Starting
  <1>2. CASE Returns("err")
    BY Zenon, <1>2, ReturnsQuietly DEF Configure
  <1> QED
    BY Zenon, <1>1, <1>2 DEF Configure

\* MemoryRaftStore::open writes a file, for usable flags.
LEMMA OpenStoreStep == ASSUME PInv, OpenStore PROVE PInv'
  <1>1. /\ proc.pc = "open" /\ UNCHANGED <<args, founder, starts>>
        /\ store' \in {"none", "empty", "cluster"}
    BY Zenon DEF OpenStore, PInv
  <1>2. CASE Returns("err")
    BY Zenon, <1>1, <1>2, ReturnsKeep
  <1>3. CASE proc' = [proc EXCEPT !.pc = "create"]
    <2>1. /\ proc' \in Procs /\ proc'.pc = "create" /\ proc'.exit = proc.exit
          /\ proc'.stop = proc.stop /\ proc'.stopped = proc.stopped
          /\ proc'.bootstrapped = proc.bootstrapped
      BY ZenonT(60), <1>3 DEF PInv, Procs, Starting
    <2>2. FlagsBehind("create", args)
      BY Zenon, <1>1 DEF PInv, FlagsBehind, Built, WithRaft, Serving
    <2> QED
      BY Zenon, <1>1, <2>1, <2>2, GoesOn DEF Starting
  <1> QED
    BY Zenon, <1>2, <1>3 DEF OpenStore

\* Raft is created with usable timeouts.
LEMMA CreateRaftStep == ASSUME PInv, CreateRaft PROVE PInv'
  <1>1. CASE Returns("err")
    BY Zenon, <1>1, ReturnsQuietly DEF CreateRaft
  <1>2. CASE /\ RaftConfigOk(RaftTimeouts(args))
             /\ proc' = [proc EXCEPT !.pc = "bootstrap", !.raft_up = TRUE]
    <2>1. /\ proc' \in Procs /\ proc'.pc = "bootstrap" /\ proc'.exit = proc.exit
          /\ proc'.stop = proc.stop /\ proc'.stopped = proc.stopped
          /\ proc'.bootstrapped = proc.bootstrapped
      BY ZenonT(60), <1>2 DEF PInv, Procs, Starting
    <2>2. TimeoutsUsable(args)
      BY Zenon, <1>2, CreatedIsTimed DEF PInv
    <2>3. FlagsBehind("bootstrap", args)
      BY Zenon, <2>2 DEF CreateRaft, PInv, FlagsBehind, Built, Serving
    <2>4. /\ proc.pc \in Starting /\ store' \in {"none", "empty", "cluster"}
          /\ UNCHANGED <<args, founder, starts>>
      BY Zenon DEF CreateRaft, Starting, disk, PInv
    <2> QED
      BY Zenon, <2>1, <2>3, <2>4, GoesOn DEF Starting
  <1> QED
    BY Zenon, <1>1, <1>2 DEF CreateRaft

\* A step between two program points that both have Raft and no servers.
LEMMA NextPoint ==
    ASSUME PInv, proc.pc \in {"bootstrap", "enabled", "seed"}, UNCHANGED <<args, disk, starts>>,
           NEW to \in {"initialize", "enabled", "seed", "serve"},
           proc' \in Procs, proc'.pc = to, proc'.exit = proc.exit,
           proc'.stop = proc.stop, proc'.stopped = proc.stopped,
           proc'.bootstrapped = proc.bootstrapped,
           to = "serve" => (proc'.paused <=> args.paused \/ proc.bootstrapped)
    PROVE  PInv'
  <1>1. FlagsBehind(to, args)
    BY Zenon DEF PInv, FlagsBehind, Built, WithRaft, Serving
  <1>2. proc.pc \in Starting /\ to \in Starting /\ to # "running" /\ proc.pc # "down"
    BY Zenon DEF Starting
  <1>3. to = "serve" => (proc'.paused <=> args.paused \/ founder = starts)
    BY Zenon, <1>2 DEF PInv, PauseKnown
  <1>4. store' \in {"none", "empty", "cluster"} /\ UNCHANGED <<args, founder, starts>>
    BY Zenon DEF disk, PInv
  <1> QED
    BY Zenon, <1>1, <1>2, <1>3, <1>4, GoesOn

\* The check for a cluster.
LEMMA BootstrapStep == ASSUME PInv, Bootstrap PROVE PInv'
  <1>1. CASE Returns("err")
    BY Zenon, <1>1, ReturnsQuietly DEF Bootstrap
  <1>2. CASE proc' = [proc EXCEPT !.pc = "initialize"]
    <2>1. /\ proc' \in Procs /\ proc'.pc = "initialize" /\ proc'.exit = proc.exit
          /\ proc'.stop = proc.stop /\ proc'.stopped = proc.stopped
          /\ proc'.bootstrapped = proc.bootstrapped
      BY ZenonT(60), <1>2 DEF PInv, Procs, Starting
    <2> QED
      BY Zenon, <2>1, NextPoint DEF Bootstrap
  <1>3. CASE proc' = [proc EXCEPT !.pc = "enabled", !.tries = Attempts]
    <2>1. Attempts \in Int
      BY StartupAssumption
    <2>2. /\ proc' \in Procs /\ proc'.pc = "enabled" /\ proc'.exit = proc.exit
          /\ proc'.stop = proc.stop /\ proc'.stopped = proc.stopped
          /\ proc'.bootstrapped = proc.bootstrapped
      BY ZenonT(60), <1>3, <2>1 DEF PInv, Procs, Starting
    <2> QED
      BY Zenon, <2>2, NextPoint DEF Bootstrap
  <1> QED
    BY Zenon, <1>1, <1>2, <1>3 DEF Bootstrap

\* Whoever initializes the cluster is its founder, and knows it once
\* initialize() has answered.
LEMMA InitializeStep == ASSUME PInv, Initialize PROVE PInv'
  <1>1. CASE Returns("err")
    <2>1. store' \in {"none", "empty", "cluster"} /\ founder' \in {founder, starts}
      BY Zenon DEF Initialize, disk, PInv
    <2> QED
      BY Zenon, <1>1, <2>1, ReturnsKeep DEF Initialize
  <1>2. CASE ~Returns("err")
    <2>1. /\ proc' = [proc EXCEPT !.pc = "enabled", !.tries = Attempts, !.bootstrapped = TRUE]
          /\ store' = "cluster" /\ founder' = starts /\ args' = args /\ starts' = starts
          /\ proc.pc = "initialize"
      BY Zenon, <1>2 DEF Initialize
    <2>2. proc \in Procs /\ Attempts \in Int
      BY StartupAssumption DEF PInv
    <2>3. proc' \in Procs
      BY ZenonT(60), <2>1, <2>2 DEF Procs, Starting
    <2>4. /\ proc'.pc = "enabled" /\ proc'.exit = proc.exit /\ proc'.stop = proc.stop
          /\ proc'.stopped = proc.stopped /\ proc'.bootstrapped
      BY Zenon, <2>1, <2>2 DEF Procs
    <2>5. FlagsBehind("enabled", args)
      BY Zenon, <2>1 DEF PInv, FlagsBehind, Built, WithRaft, Serving
    <2>6. PauseKnown(proc)'
      BY Zenon, <2>1, <2>4 DEF PauseKnown, Serving
    <2>7. AskedFor(proc)'
      BY Zenon, <2>1, <2>4 DEF PInv, AskedFor, Serving, Starting
    <2>8. starts' \in Nat /\ founder' \in 0 .. starts'
      BY SMTT(30), <2>1 DEF PInv
    <2> QED
      BY Zenon, <2>1, <2>3, <2>4, <2>5, <2>6, <2>7, <2>8 DEF PInv
  <1> QED
    BY Zenon, <1>1, <1>2

\* Waiting for the node and seeding go on with Raft or return.
LEMMA NodeStep ==
    ASSUME PInv, (\E r \in EnabledAnswers : ConductorEnabled(r)) \/ Seed
    PROVE  PInv'
  <1>1. ASSUME NEW r \in EnabledAnswers, ConductorEnabled(r) PROVE PInv'
    <2>1. CASE Returns("err")
      BY Zenon, <1>1, <2>1, ReturnsQuietly DEF ConductorEnabled
    <2>2. CASE proc' = [proc EXCEPT !.pc = "seed"]
      <3>1. /\ proc' \in Procs /\ proc'.pc = "seed" /\ proc'.exit = proc.exit
            /\ proc'.stop = proc.stop /\ proc'.stopped = proc.stopped
            /\ proc'.bootstrapped = proc.bootstrapped
        BY ZenonT(60), <2>2 DEF PInv, Procs, Starting
      <3> QED
        BY Zenon, <1>1, <3>1, NextPoint DEF ConductorEnabled
    <2>3. CASE proc' = [proc EXCEPT !.tries = @ - 1]
      <3>1. proc \in Procs /\ proc.pc = "enabled"
        BY Zenon, <1>1 DEF PInv, ConductorEnabled
      <3>2. proc' \in Procs
        BY <2>3, <3>1 DEF Procs
      <3>3. /\ proc'.pc = "enabled" /\ proc'.exit = proc.exit
            /\ proc'.stop = proc.stop /\ proc'.stopped = proc.stopped
            /\ proc'.bootstrapped = proc.bootstrapped
        BY Zenon, <2>3, <3>1 DEF Procs
      <3> QED
        BY Zenon, <1>1, <3>2, <3>3, NextPoint DEF ConductorEnabled
    <2> QED
      BY Zenon, <1>1, <2>1, <2>2, <2>3 DEF ConductorEnabled
  <1>2. CASE Seed
    <2>1. CASE Returns("err")
      BY Zenon, <1>2, <2>1, ReturnsQuietly DEF Seed
    <2>2. CASE proc' = [proc EXCEPT !.pc = "serve", !.paused = args.paused \/ proc.bootstrapped]
      <3>1. (args.paused \/ proc.bootstrapped) \in BOOLEAN
        OBVIOUS
      <3>2. /\ proc' \in Procs /\ proc'.pc = "serve" /\ proc'.exit = proc.exit
            /\ proc'.stop = proc.stop /\ proc'.stopped = proc.stopped
            /\ proc'.bootstrapped = proc.bootstrapped
        BY ZenonT(60), <2>2, <3>1 DEF PInv, Procs, Starting
      <3>3. proc'.paused = (args.paused \/ proc.bootstrapped)
        BY Zenon, <2>2 DEF PInv, Procs
      <3> QED
        BY Zenon, <1>2, <3>2, <3>3, NextPoint DEF Seed
    <2> QED
      BY Zenon, <1>2, <2>1, <2>2 DEF Seed
  <1> QED
    BY Zenon, <1>1, <1>2

\* The servers run with addresses that resolve.
LEMMA ServeStep == ASSUME PInv, Serve PROVE PInv'
  <1>1. CASE Returns("err")
    BY Zenon, <1>1, ReturnsQuietly DEF Serve
  <1>2. CASE ~Returns("err")
    <2>1. /\ ObservabilityOk(args) /\ proc.pc = "serve" /\ UNCHANGED <<args, disk, starts>>
          /\ proc' = [proc EXCEPT !.pc = "running",
                                  !.profiler = start_pprof_file_profiler(args)]
      BY Zenon, <1>2 DEF Serve
    <2>2. start_pprof_file_profiler(args) \in {"off", "on", "written"}
      BY Zenon DEF start_pprof_file_profiler
    <2>3. /\ proc' \in Procs /\ proc'.pc = "running" /\ proc'.exit = proc.exit
          /\ proc'.stop = proc.stop /\ proc'.stopped = proc.stopped
          /\ proc'.bootstrapped = proc.bootstrapped /\ proc'.paused = proc.paused
      BY ZenonT(60), <2>1, <2>2 DEF PInv, Procs, Serving
    <2>4. FlagsBehind("running", args)
      BY Zenon, <2>1 DEF PInv, FlagsBehind, Built, WithRaft, Serving, AddressesUsable,
                         ObservabilityOk
    <2>5. proc'.paused <=> args.paused \/ founder = starts
      BY Zenon, <2>1, <2>3 DEF PInv, PauseKnown
    <2>6. /\ proc.pc \in Starting /\ store' \in {"none", "empty", "cluster"}
          /\ UNCHANGED <<args, founder, starts>>
      BY Zenon, <2>1 DEF Starting, disk, PInv
    <2> QED
      BY Zenon, <2>3, <2>4, <2>5, <2>6, GoesOn
  <1> QED
    BY Zenon, <1>1, <1>2

\* A step while the servers run, or of a stop call that outlives them.
LEMMA ServingGoesOn ==
    ASSUME PInv, proc.pc \in Serving, UNCHANGED <<args, founder, starts>>,
           store' \in {"none", "empty", "cluster"},
           proc' \in Procs, proc'.pc \in Serving, proc'.exit = proc.exit,
           proc'.bootstrapped = proc.bootstrapped, proc'.paused = proc.paused,
           (proc'.stop # "none" \/ proc'.stopped) => proc'.asked,
           proc'.pc = "finalize" /\ proc'.runtime = "ok" => proc'.asked
    PROVE  PInv'
  <1>1. proc.pc # "down" /\ proc'.pc # "down" /\ proc'.pc \notin Starting
    BY Zenon DEF Serving, Starting
  <1>2. FlagsBehind(proc'.pc, args')
    BY Zenon DEF PInv, FlagsBehind, Built, WithRaft, Serving
  <1>3. PauseKnown(proc)'
    BY Zenon, <1>1 DEF PInv, PauseKnown
  <1>4. proc.exit = "none"
    BY Zenon, <1>1 DEF PInv, AskedFor
  <1>5. AskedFor(proc)'
    BY Zenon, <1>1, <1>4 DEF AskedFor
  <1> QED
    BY Zenon, <1>2, <1>3, <1>5 DEF PInv

\* A stop call has a caller; Raft halts or joins without one.
LEMMA StopStep ==
    ASSUME PInv, RpcStop \/ ShutdownRaft \/ StoreStopped \/ JoinsCluster \/ RaftHalts
    PROVE  PInv'
  <1>1. /\ proc.pc \in Serving /\ UNCHANGED <<args, founder, starts>>
        /\ store' \in {"none", "empty", "cluster"}
    BY Zenon DEF PInv, AskedFor, RpcStop, ShutdownRaft, StoreStopped, JoinsCluster, RaftHalts,
                 Running, Serving, disk
  <1>2. /\ (proc.stop # "none" \/ proc.stopped) => proc.asked
        /\ proc.pc = "finalize" /\ proc.runtime = "ok" => proc.asked
        /\ proc \in Procs
    BY Zenon, <1>1 DEF PInv, AskedFor
  <1>3. /\ proc' \in Procs /\ proc'.pc = proc.pc /\ proc'.exit = proc.exit
        /\ proc'.bootstrapped = proc.bootstrapped /\ proc'.paused = proc.paused
        /\ proc'.runtime = proc.runtime
        /\ (proc'.stop # "none" \/ proc'.stopped) => proc'.asked
        /\ proc.asked => proc'.asked
    <2>0. CASE JoinsCluster
      BY Zenon, <1>2, <2>0 DEF JoinsCluster
    <2> USE <1>2 DEF Procs
    <2>1. CASE RpcStop
      BY ZenonT(60), <2>1 DEF RpcStop
    <2>2. CASE ShutdownRaft
      <3>1. CASE proc' = [proc EXCEPT !.stop = "closed", !.raft_up = FALSE]
        BY ZenonT(60), <2>2, <3>1 DEF ShutdownRaft
      <3>2. CASE proc' = [proc EXCEPT !.stop = "none"]
        BY ZenonT(60), <2>2, <3>2 DEF ShutdownRaft
      <3> QED
        BY Zenon, <2>2, <3>1, <3>2 DEF ShutdownRaft
    <2>3. CASE StoreStopped
      BY ZenonT(60), <2>3 DEF StoreStopped
    <2>4. CASE RaftHalts
      BY ZenonT(60), <2>4 DEF RaftHalts
    <2> QED
      BY Zenon, <2>0, <2>1, <2>2, <2>3, <2>4
  <1> QED
    BY Zenon, <1>1, <1>2, <1>3, ServingGoesOn

\* Each branch of the select! leads to finalize_runtime_exit, and to a clean
\* end only on a signal or once the conductor is stopped.
LEMMA EndsStep ==
    ASSUME PInv, StoppedEnds \/ ServerFails \/ LeaderWatchEnds \/ Signal
    PROVE  PInv'
  <1>1. PICK branch \in {"stopped", "server", "leader_watch", "signal"},
             result \in {"ok", "err"} :
                /\ Ends(branch, result)
                /\ result = "ok" => proc.stopped \/ branch = "signal"
    BY Zenon DEF StoppedEnds, ServerFails, LeaderWatchEnds, Signal, wait_stopped
  <1>2. proc \in Procs /\ proc.pc \in Serving /\ UNCHANGED <<args, disk, starts>>
    BY Zenon, <1>1 DEF PInv, Ends, Running, Serving
  <1> DEFINE asked == proc.asked \/ branch = "signal"
  <1>3. proc' = [proc EXCEPT !.pc = "finalize", !.runtime = result, !.ended = branch,
                             !.asked = asked]
    BY Zenon, <1>1 DEF Ends
  <1>4. /\ asked \in BOOLEAN
        /\ (proc.stop # "none" \/ proc.stopped) => asked
        /\ result = "ok" => asked
    BY Zenon, <1>1, <1>2 DEF PInv, AskedFor
  <1> HIDE DEF asked
  <1>5. proc' \in Procs
    <2> DEFINE p == [proc EXCEPT !.pc = "finalize"]
               q == [p EXCEPT !.runtime = result]
               r == [q EXCEPT !.ended = branch]
    <2>1. p \in Procs
      BY ZenonT(60), <1>2 DEF Procs, Serving
    <2> HIDE DEF p
    <2>2. q \in Procs
      BY ZenonT(60), <2>1 DEF Procs
    <2> HIDE DEF q
    <2>3. r \in Procs
      BY <2>2 DEF Procs
    <2> HIDE DEF r
    <2>4. [r EXCEPT !.asked = asked] \in Procs
      BY ZenonT(60), <1>4, <2>3 DEF Procs
    <2>5. proc' = [r EXCEPT !.asked = asked]
      BY Zenon, <1>3 DEF p, q, r
    <2> QED
      BY Zenon, <2>4, <2>5
  <1>6. /\ proc'.pc = "finalize" /\ proc'.exit = proc.exit /\ proc'.runtime = result
        /\ proc'.bootstrapped = proc.bootstrapped /\ proc'.paused = proc.paused
        /\ proc'.stop = proc.stop /\ proc'.stopped = proc.stopped /\ proc'.asked = asked
    BY Zenon, <1>2, <1>3 DEF Procs
  <1>7. store' \in {"none", "empty", "cluster"} /\ UNCHANGED <<args, founder, starts>>
    BY Zenon, <1>2 DEF disk, PInv
  <1> QED
    BY Zenon, <1>2, <1>4, <1>5, <1>6, <1>7, ServingGoesOn DEF Serving

\* finalize_runtime_exit gives the verdict.
LEMMA FinalizeStep == ASSUME PInv, Finalize PROVE PInv'
  <1>1. PICK stops \in BOOLEAN, writes \in BOOLEAN :
            LET finishes == stops \/ proc.runtime # "ok"
                profile == finish_pprof_file_profile(finishes /\ writes)
                result == IF proc.runtime = "ok" /\ stops /\ profile # "on"
                          THEN "ok" ELSE "err"
            IN  /\ proc.stopped => stops
                /\ proc' = [Down(result) EXCEPT !.profiler = profile, !.stopped = stops,
                                                !.runtime = proc.runtime, !.asked = proc.asked]
    BY Zenon DEF Finalize
  <1> DEFINE profile == finish_pprof_file_profile((stops \/ proc.runtime # "ok") /\ writes)
             result == IF proc.runtime = "ok" /\ stops /\ profile # "on" THEN "ok" ELSE "err"
  <1>2. profile \in {"off", "on", "written"}
    BY Zenon DEF finish_pprof_file_profile, PInv, Procs
  <1>3. /\ result \in {"ok", "err"}
        /\ result = "ok" => proc.runtime = "ok"
    OBVIOUS
  <1>4. proc' = [Down(result) EXCEPT !.profiler = profile, !.stopped = stops,
                                     !.runtime = proc.runtime, !.asked = proc.asked]
    BY Zenon, <1>1
  <1> HIDE DEF profile, result
  <1>5. proc' \in Procs
    <2>1. Down(result) \in Procs
      BY <1>3 DEF Down, Procs
    <2>2. proc.runtime \in {"none", "ok", "err"} /\ proc.asked \in BOOLEAN
      BY Zenon DEF PInv, Procs
    <2> QED
      BY ZenonT(60), <1>2, <1>4, <2>1, <2>2 DEF Procs
  <1>6. /\ proc'.pc = "down" /\ proc'.exit = result /\ proc'.stop = "none"
        /\ proc'.asked = proc.asked
    BY Zenon, <1>4 DEF Down
  <1>7. result = "ok" => proc.asked
    BY Zenon, <1>3 DEF PInv, AskedFor, Finalize
  <1>8. AskedFor(proc)' /\ PauseKnown(proc)' /\ FlagsBehind(proc'.pc, args')
    BY Zenon, <1>6, <1>7 DEF AskedFor, PauseKnown, FlagsBehind, Starting, Serving, Built, WithRaft
  <1> QED
    BY Zenon, <1>5, <1>8 DEF PInv, Finalize, disk

\* A crash gives no verdict.
LEMMA CrashStep == ASSUME PInv, Crash PROVE PInv'
  <1>1. /\ proc' \in Procs /\ proc'.pc = "down" /\ proc'.exit # "ok" /\ proc'.stop = "none"
    BY Zenon, DownFacts DEF Crash
  <1>2. /\ args' = args /\ starts' = starts /\ founder' = founder
        /\ store' \in {"none", "empty", "cluster"}
    BY Zenon DEF Crash, disk, PInv
  <1> QED
    BY Zenon, <1>1, <1>2, EndedKeeps

\* Every step of the process keeps PInv.
LEMMA NextPInv == ASSUME PInv, [Next]_vars PROVE PInv'
  <1>1. CASE StartupNext
    BY Zenon, <1>1, StartStep, ValidateStep, ConfigureStep, OpenStoreStep, CreateRaftStep,
       BootstrapStep, InitializeStep, NodeStep, ServeStep, StopStep, EndsStep, FinalizeStep,
       CrashStep DEF StartupNext
  <1>2. CASE UNCHANGED startup_vars
    BY Zenon, <1>2 DEF startup_vars, disk, PInv, PauseKnown
  <1> QED
    BY Zenon, <1>1, <1>2 DEF Next, ProcessStep, Tick, Later, vars

\* PInv is true of every state of the process: each program point of main()
\* has behind it what it relies on.
THEOREM Invariance == Spec => []PInv
  BY InitPInv, NextPInv, PTL DEF Spec

\* The store file is only written, the cluster only created and the servers
\* only run by processes whose flags are usable for it.
THEOREM FlagsCorrect == Spec => FlagErrorsInTime
  <1> DEFINE InTime ==
        /\ store' # store => Usable(args)
        /\ store' # store /\ store' = "cluster" => TimeoutsUsable(args)
        /\ Running' => Usable(args') /\ TimeoutsUsable(args') /\ AddressesUsable(args')
  <1>1. ASSUME PInv, [Next]_vars PROVE InTime
    <2>1. Running' => Usable(args') /\ TimeoutsUsable(args') /\ AddressesUsable(args')
      BY Zenon, <1>1, NextPInv DEF PInv, FlagsBehind, Running, Built, WithRaft, Serving
    <2>2. ASSUME store' # store
          PROVE  OpenStore \/ Initialize \/ JoinsCluster
      <3>1. StartupNext
        BY Zenon, <1>1, <2>2 DEF Next, ProcessStep, Tick, Later, vars, startup_vars, disk
      <3> QED
        BY Zenon, <2>2, <3>1 DEF StartupNext, Start, Validate, Configure, CreateRaft, Bootstrap,
           ConductorEnabled, Seed, Serve, RpcStop, ShutdownRaft, StoreStopped, RaftHalts,
           StoppedEnds, ServerFails, LeaderWatchEnds, Signal, Ends, Finalize, Crash, disk
    <2>3. CASE OpenStore
      <3>1. proc.pc \in Built /\ (store' # store => store' = "empty")
        BY Zenon, <2>3 DEF OpenStore, Built
      <3> QED
        BY Zenon, <1>1, <2>1, <3>1 DEF PInv, FlagsBehind
    <2>4. CASE Initialize \/ JoinsCluster
      <3>1. proc.pc \in Built /\ proc.pc \in WithRaft
        BY Zenon, <2>4 DEF Initialize, JoinsCluster, Running, Built, WithRaft, Serving
      <3> QED
        BY Zenon, <1>1, <2>1, <3>1 DEF PInv, FlagsBehind
    <2> QED
      BY Zenon, <2>1, <2>2, <2>3, <2>4
  <1>2. PInv /\ [Next]_vars => [InTime]_vars
    BY Zenon, <1>1
  <1> QED
    BY <1>2, Invariance, PTL DEF Spec, FlagErrorsInTime

\* The founder of the cluster, and nobody else, serves paused without being
\* told to.
THEOREM PauseOfFounder == Spec => []PausedByFounder
  <1>1. PInv => PausedByFounder
    BY Zenon DEF PInv, PauseKnown, PausedByFounder, Running, Serving
  <1> QED
    BY <1>1, Invariance, PTL

\* No failure of Raft, of a server or of the start is reported as a success.
THEOREM SuccessCorrect == Spec => []SuccessWasAskedFor
  <1>1. PInv => SuccessWasAskedFor
    BY Zenon DEF PInv, AskedFor, SuccessWasAskedFor
  <1> QED
    BY <1>1, Invariance, PTL

----------------------------------------------------------------------------
(* Health.                                                                 *)

\* The counter and the history agree on the interval of this second, and no
\* bucket lies ahead of it.
Counted(I) ==
    LET now == bucket(clock, I) IN
    /\ \A k \in DOMAIN buckets \cup DOMAIN tolerated : k \in Int /\ k <= now
    /\ current_value(tolerated, clock, I) \in Nat
    /\ current_value(buckets, clock, I) = current_value(tolerated, clock, I)

(***************************************************************************)
(* A built configuration is the one of the flags, which were validated,    *)
(* and the counter of a process has counted what the process let through.  *)
(***************************************************************************)
HInv ==
    /\ proc.pc \in Built => validate_args(args) /\ proc.cfg = Config(args)
    /\ clock \in Nat
    /\ proc.pc # "down" /\ args.interval_seconds # 0 => Counted(args.interval_seconds)

\* The flags of the health checks are numbers and known words.
LEMMA FlagTypes ==
    ASSUME NEW a \in Arguments
    PROVE  /\ a.unsafe_interval \in Nat \cup {Unset} /\ a.min_peers \in Nat \cup {Unset}
           /\ a.safe_interval \in Nat /\ a.el_min \in Nat
           /\ a.limit \in Nat /\ a.interval_seconds \in Nat
  BY Zenon, ArgumentsAssumption DEF HealthFlags

\* A later second lies in the same interval or a later one.
LEMMA BucketGrows ==
    ASSUME NEW t \in Nat, NEW I \in Nat \ {0}
    PROVE  /\ bucket(t, I) \in Int /\ bucket(t + 1, I) \in Int
           /\ bucket(t, I) <= bucket(t + 1, I)
  BY DEF bucket

\* In a later interval both counts are zero, in the same one they stay.
LEMMA ClockKeepsCount ==
    ASSUME NEW I \in Nat \ {0}, clock \in Nat, Counted(I), ClockAdvances
    PROVE  Counted(I)'
  <1> DEFINE now == bucket(clock, I)
             next == bucket(clock + 1, I)
  <1>1. now \in Int /\ next \in Int /\ now <= next
    BY Zenon, BucketGrows
  <1>2. clock' = clock + 1 /\ buckets' = buckets /\ tolerated' = tolerated
    BY Zenon DEF ClockAdvances
  <1>3. /\ \A k \in DOMAIN buckets \cup DOMAIN tolerated : k \in Int /\ k <= now
        /\ (IF now \in DOMAIN tolerated THEN tolerated[now] ELSE 0) \in Nat
        /\ (IF now \in DOMAIN buckets THEN buckets[now] ELSE 0)
            = (IF now \in DOMAIN tolerated THEN tolerated[now] ELSE 0)
    BY Zenon DEF Counted, current_value
  <1> HIDE DEF now, next
  <1>4. /\ \A k \in DOMAIN buckets \cup DOMAIN tolerated : k \in Int /\ k <= next
        /\ (IF next \in DOMAIN tolerated THEN tolerated[next] ELSE 0) \in Nat
        /\ (IF next \in DOMAIN buckets THEN buckets[next] ELSE 0)
            = (IF next \in DOMAIN tolerated THEN tolerated[next] ELSE 0)
    BY <1>1, <1>3
  <1> QED
    BY Zenon, <1>2, <1>4 DEF Counted, current_value, next

\* A tolerated answer counts once in the counter and once in the history,
\* also when the counter has too many buckets and forgets the old ones.
LEMMA TickKeepsCount ==
    ASSUME NEW I \in Nat \ {0}, NEW a, proc.cfg.interval = I, clock \in Nat,
           Counted(I), HealthTick(proc.cfg, a)
    PROVE  Counted(I)'
  <1> DEFINE k == bucket(clock, I)
             latest == current_value(buckets, clock, I) + 1
             grown == [i \in DOMAIN buckets \cup {k} |-> IF i = k THEN latest ELSE buckets[i]]
             history == [i \in DOMAIN tolerated \cup {k} |->
                            (IF i \in DOMAIN tolerated THEN tolerated[i] ELSE 0)
                            + (IF i = k THEN 1 ELSE 0)]
  <1>1. CASE UNCHANGED <<buckets, tolerated>>
    BY Zenon, <1>1 DEF HealthTick, Counted
  <1>2. CASE ~UNCHANGED <<buckets, tolerated>>
    <2>1. /\ buckets' = increment(buckets, clock, I) /\ tolerated' = history
          /\ clock' = clock
      BY Zenon, <1>2 DEF HealthTick
    <2>2. buckets' \in {grown, [i \in {k} |-> latest]}
      BY Zenon, <2>1 DEF increment
    <2>3. k \in Int
      BY Zenon, BucketGrows
    <2>4. /\ \A i \in DOMAIN buckets \cup DOMAIN tolerated : i \in Int /\ i <= k
          /\ current_value(tolerated, clock, I) \in Nat
          /\ current_value(buckets, clock, I) = current_value(tolerated, clock, I)
      BY Zenon DEF Counted
    <2>5. history[k] = latest /\ latest \in Nat
      BY <2>4 DEF current_value
    <2> HIDE DEF latest, k
    <2>6. buckets'[k] = latest /\ k \in DOMAIN buckets' /\ DOMAIN buckets' \subseteq DOMAIN buckets \cup {k}
      BY Zenon, <2>2
    <2>7. DOMAIN tolerated' = DOMAIN tolerated \cup {k} /\ tolerated'[k] = latest
      BY Zenon, <2>1, <2>5
    <2>8. \A i \in DOMAIN buckets' \cup DOMAIN tolerated' : i \in Int /\ i <= k
      BY <2>3, <2>4, <2>6, <2>7
    <2>9. bucket(clock', I) = k
      BY Zenon, <2>1 DEF k
    <2>10. current_value(buckets', clock', I) = latest /\ current_value(tolerated', clock', I) = latest
      BY Zenon, <2>6, <2>7, <2>9 DEF current_value
    <2> HIDE DEF history, grown
    <2> QED
      BY Zenon, <2>5, <2>8, <2>9, <2>10 DEF Counted
  <1> QED
    BY Zenon, <1>1, <1>2

\* A configured process keeps its flags and its configuration until it ends;
\* only Start, from no process, takes other flags.
LEMMA ConfigKept ==
    ASSUME PInv, HInv, StartupNext
    PROVE  /\ proc.pc # "down" => args' = args
           /\ proc'.pc \in Built => validate_args(args') /\ proc'.cfg = Config(args')
  <1>0. proc \in Procs /\ (proc.pc = "configure" => validate_args(args))
        /\ (proc.stop # "none" => proc.pc \in Serving)
    BY Zenon DEF PInv, FlagsBehind, AskedFor
  <1>1. ASSUME NEW a \in Arguments, Start(a)
        PROVE  proc.pc = "down" /\ proc'.pc = "validate"
    BY Zenon, <1>1, DownFacts DEF Start, Procs
  <1>2. ASSUME Returns("err") \/ Crash \/ Finalize PROVE proc'.pc = "down"
    <2>1. CASE Returns("err")
      BY Zenon, <2>1 DEF Returns, Down
    <2>2. CASE Crash
      BY Zenon, <2>2 DEF Crash, Down
    <2>3. CASE Finalize
      BY Zenon, <2>3 DEF Finalize, Down
    <2> QED
      BY Zenon, <1>2, <2>1, <2>2, <2>3
  <1>3. ASSUME Validate, ~Returns("err")
        PROVE  proc'.pc = "configure" /\ args' = args
    BY Zenon, <1>0, <1>3 DEF Validate, Procs
  <1>4. ASSUME Configure, ~Returns("err")
        PROVE  args' = args /\ proc'.cfg = Config(args) /\ validate_args(args)
    BY Zenon, <1>0, <1>4 DEF Configure, Procs
  <1>5. ASSUME ~Returns("err"),
               \/ OpenStore \/ CreateRaft \/ Bootstrap \/ Initialize
               \/ (\E r \in EnabledAnswers : ConductorEnabled(r)) \/ Seed \/ Serve
               \/ RpcStop \/ ShutdownRaft \/ StoreStopped \/ JoinsCluster \/ RaftHalts
               \/ StoppedEnds \/ ServerFails \/ LeaderWatchEnds \/ Signal
        PROVE  proc.pc \in Built /\ args' = args /\ proc'.cfg = proc.cfg
    <2>1. CASE OpenStore \/ CreateRaft
      BY Zenon, <1>0, <1>5, <2>1 DEF OpenStore, CreateRaft, Built, Procs
    <2>6. CASE Bootstrap \/ Initialize
      BY Zenon, <1>0, <1>5, <2>6 DEF Bootstrap, Initialize, Built, Procs
    <2>2. CASE \E r \in EnabledAnswers : ConductorEnabled(r)
      BY Zenon, <1>0, <1>5, <2>2 DEF ConductorEnabled, Built, Procs
    <2>3. CASE Seed \/ Serve
      BY Zenon, <1>0, <1>5, <2>3 DEF Seed, Serve, Built, Procs
    <2>4. CASE RpcStop \/ ShutdownRaft \/ StoreStopped \/ JoinsCluster \/ RaftHalts
      <3>1. proc.pc \in Serving /\ args' = args
        BY Zenon, <1>0, <2>4 DEF RpcStop, ShutdownRaft, StoreStopped, JoinsCluster, RaftHalts,
                                 Running, Serving
      <3>2. proc'.cfg = proc.cfg
        BY Zenon, <1>0, <2>4 DEF RpcStop, ShutdownRaft, StoreStopped, JoinsCluster, RaftHalts,
                                 Procs
      <3> QED
        BY Zenon, <3>1, <3>2 DEF Built
    <2>5. CASE StoppedEnds \/ ServerFails \/ LeaderWatchEnds \/ Signal
      BY Zenon, <1>0, <2>5 DEF StoppedEnds, ServerFails, LeaderWatchEnds, Signal, Ends,
                               Running, Built, Serving, Procs
    <2> QED
      BY Zenon, <1>5, <2>1, <2>2, <2>3, <2>4, <2>5, <2>6
  <1>6. \/ \E a \in Arguments : Start(a)
        \/ args' = args
    BY Zenon DEF StartupNext, Validate, Configure, OpenStore, CreateRaft, Bootstrap, Initialize,
       ConductorEnabled, Seed, Serve, RpcStop, ShutdownRaft, StoreStopped, JoinsCluster, RaftHalts, StoppedEnds, ServerFails,
       LeaderWatchEnds, Signal, Ends, Finalize, Crash
  <1>7. proc.pc # "down" => args' = args
    BY Zenon, <1>1, <1>6
  <1>8. proc'.pc \in Built => validate_args(args') /\ proc'.cfg = Config(args')
    <2>1. ASSUME args' = args, proc.pc \in Built, proc'.cfg = proc.cfg
          PROVE  validate_args(args') /\ proc'.cfg = Config(args')
      BY Zenon, <2>1 DEF HInv
    <2>2. ASSUME args' = args, proc'.cfg = Config(args), validate_args(args)
          PROVE  validate_args(args') /\ proc'.cfg = Config(args')
      BY Zenon, <2>2
    <2>3. {"down", "validate", "configure"} \cap Built = {}
      BY Zenon DEF Built, Serving
    <2>4. ASSUME proc'.pc \in {"down", "validate", "configure"} PROVE proc'.pc \notin Built
      BY Zenon, <2>3, <2>4
    <2> QED
      BY Zenon, <1>1, <1>2, <1>3, <1>4, <1>5, <2>1, <2>2, <2>4 DEF StartupNext
  <1> QED
    BY Zenon, <1>7, <1>8

\* No process has counted nothing.
LEMMA InitHInv == Init => HInv
  BY DEF Init, StartupInit, HealthInit, HInv, Down, Built, Serving

\* The first second of a process: nothing is counted.
LEMMA NothingCounted ==
    ASSUME NEW I \in Nat \ {0}, clock' \in Nat, buckets' = << >>, tolerated' = << >>
    PROVE  Counted(I)'
  BY DEF Counted, current_value

\* Every step of the process keeps HInv.
LEMMA NextHInv == ASSUME PInv, HInv, [Next]_vars PROVE HInv'
  <1>0. proc \in Procs /\ args \in Arguments
    BY Zenon DEF PInv
  <1>1. CASE UNCHANGED vars
    BY Zenon, <1>1 DEF vars, startup_vars, health_vars, HInv, Counted
  <1>2. CASE ProcessStep
    <2>1. StartupNext /\ clock' = clock
      BY Zenon, <1>2 DEF ProcessStep
    <2>2. clock' \in Nat
      BY Zenon, <2>1 DEF HInv
    <2>3. args' \in Arguments
      BY Zenon, NextPInv DEF PInv
    <2>4. ASSUME args'.interval_seconds # 0, proc'.pc # "down"
          PROVE  Counted(args.interval_seconds)'
      <3>1. PICK I \in Nat : I = args'.interval_seconds
        BY Zenon, <2>3, FlagTypes
      <3>2. CASE proc.pc = "down"
        <4>1. Counted(I)'
          BY Zenon, <1>2, <2>2, <2>4, <3>1, <3>2, NothingCounted DEF ProcessStep
        <4> QED
          BY Zenon, <4>1, <3>1 DEF Counted
      <3>3. CASE proc.pc # "down"
        <4>1. args' = args /\ buckets' = buckets /\ tolerated' = tolerated /\ clock' = clock
          BY Zenon, <1>2, <2>1, <3>3, ConfigKept DEF ProcessStep
        <4> QED
          BY Zenon, <2>4, <3>3, <4>1 DEF HInv, Counted
      <3> QED
        BY Zenon, <3>2, <3>3
    <2> QED
      BY Zenon, <2>1, <2>2, <2>4, ConfigKept DEF HInv
  <1>3. CASE Tick \/ Later
    <2>1. /\ proc' = proc /\ args' = args /\ proc.pc = "running"
          /\ clock' \in Nat
      BY <1>3 DEF Tick, Later, Ticking, Running, HealthTick, ClockAdvances, startup_vars, HInv
    <2>2. validate_args(args) /\ proc.cfg = Config(args)
      BY Zenon, <2>1 DEF HInv, Built, Serving
    <2>3. ASSUME args.interval_seconds # 0
          PROVE  Counted(args.interval_seconds)'
      <3>1. PICK I \in Nat : I = args.interval_seconds
        BY Zenon, <1>0, FlagTypes
      <3>2. I \in Nat \ {0} /\ Counted(I) /\ clock \in Nat
        BY Zenon, <2>1, <2>3, <3>1 DEF HInv
      <3>3. proc.cfg.interval = I
        BY <2>2, <3>1 DEF Config
      <3>4. Counted(I)'
        BY Zenon, <1>3, <3>2, <3>3, TickKeepsCount, ClockKeepsCount DEF Tick, Later
      <3> QED
        BY Zenon, <2>1, <3>1, <3>4 DEF Counted
    <2> QED
      BY Zenon, <2>1, <2>2, <2>3 DEF HInv
  <1> QED
    BY Zenon, <1>1, <1>2, <1>3 DEF Next

\* What a decoded answer holds.
LEMMA SyncDecoded ==
    ASSUME NEW r, sync_status(r).ok
    PROVE  sync_status(r).value.unsafe \in Nat /\ sync_status(r).value.safe \in Nat
  <1>1. sync_status(r).value = r.result /\ IsSyncStatus(r.result)
    BY Zenon DEF sync_status, call, Ok, Err
  <1> QED
    BY <1>1, U64Assumption DEF IsSyncStatus

\* Peer stats hold a number of peers.
LEMMA PeersDecoded ==
    ASSUME NEW r, peer_stats(r).ok
    PROVE  peer_stats(r).value.n \in Nat
  <1>1. peer_stats(r).value = r.result /\ IsPeerStats(r.result)
    BY Zenon DEF peer_stats, call, Ok, Err
  <1> QED
    BY <1>1, U64Assumption DEF IsPeerStats

\* A peer count is a number, from a quantity or from an array's length.
LEMMA CountDecoded ==
    ASSUME NEW r, NEW api, peer_count(api, r).ok
    PROVE  peer_count(api, r).value.n \in Nat
  <1>1. /\ peer_count(api, r).value = r.result
        /\ IsQuantity(r.result) \/ IsArray(r.result)
    BY Zenon DEF peer_count, call, Ok, Err
  <1> QED
    BY <1>1, U64Assumption DEF IsQuantity, IsArray

\* A tick is healthy exactly if every check passes, and its verdict is
\* otherwise that of the first check which does not.
LEMMA VerdictOf ==
    ASSUME NEW c, NEW b, NEW t, NEW a
    PROVE  LET h == check_health_at(c, b, t, a)
               s == sync_status(a.sync)
               p == peer_stats(a.peers)
           IN  /\ h = "Healthy" <=>
                     /\ s.ok /\ check_supervisor(c, a.supervisor) = Pass
                     /\ check_sync_status(c, t, s.value) = Pass
                     /\ p.ok /\ check_peer_stats(c, p.value) = Pass
                     /\ check_execution_p2p(c, a.el) = Pass
                     /\ check_rollup_boost(c, b, t, a.rb) = Pass
               /\ h = "SequencerConnectionDown" => ~s.ok \/ ~p.ok
               /\ h = "SupervisorConnectionDown" => check_supervisor(c, a.supervisor) # Pass
               /\ h = "ExecutionP2pConnectionDown" => check_execution_p2p(c, a.el) = h
               /\ h = "RollupBoostPartiallyHealthy" => check_rollup_boost(c, b, t, a.rb) = h
  <1> DEFINE h == check_health_at(c, b, t, a)
             s == sync_status(a.sync)
             p == peer_stats(a.peers)
             sup == check_supervisor(c, a.supervisor)
             syn == check_sync_status(c, t, s.value)
             pee == check_peer_stats(c, p.value)
             el == check_execution_p2p(c, a.el)
             rb == check_rollup_boost(c, b, t, a.rb)
             before == ChecksBefore(c, t, a)
  <1>1. sup \in {Pass, "SupervisorConnectionDown"}
    BY Zenon DEF check_supervisor
  <1>2. syn \in {Pass, "Unhealthy"} /\ pee \in {Pass, "Unhealthy"}
    BY Zenon DEF check_sync_status, check_peer_stats
  <1>3. el \in {Pass, "ExecutionP2pConnectionDown", "Unhealthy"}
    BY Zenon DEF check_execution_p2p
  <1>4. rb \in {Pass, "RollupBoostPartiallyHealthy", "Unhealthy", "RollupBoostConnectionDown"}
    BY Zenon DEF check_rollup_boost
  <1>5. before = IF ~s.ok THEN "SequencerConnectionDown"
                 ELSE IF sup # Pass THEN sup
                 ELSE IF syn # Pass THEN syn
                 ELSE IF ~p.ok THEN "SequencerConnectionDown"
                 ELSE IF pee # Pass THEN pee
                 ELSE el
    BY Zenon DEF ChecksBefore
  <1>6. h = IF before # Pass THEN before ELSE IF rb # Pass THEN rb ELSE "Healthy"
    BY Zenon DEF check_health_at
  <1> HIDE DEF h, s, p, sup, syn, pee, el, rb, before
  <1>7. /\ h = "Healthy" <=> s.ok /\ sup = Pass /\ syn = Pass /\ p.ok /\ pee = Pass
                             /\ el = Pass /\ rb = Pass
        /\ h = "SequencerConnectionDown" => ~s.ok \/ ~p.ok
        /\ h = "SupervisorConnectionDown" => sup # Pass
        /\ h = "ExecutionP2pConnectionDown" => el = h
        /\ h = "RollupBoostPartiallyHealthy" => rb = h
    BY Zenon, <1>1, <1>2, <1>3, <1>4, <1>5, <1>6 DEF Pass
  <1> QED
    BY Zenon, <1>7 DEF h, s, p, sup, syn, pee, el, rb

\* The checks of a configuration, in terms of the flags it was built from.
LEMMA SyncCheck ==
    ASSUME NEW a \in Arguments, validate_args(a), NEW t \in Nat, NEW r, sync_status(r).ok
    PROVE  check_sync_status(Config(a), t, sync_status(r).value) = Pass <=>
              /\ t <= sync_status(r).value.unsafe + a.unsafe_interval
              /\ a.safe_enabled => t <= sync_status(r).value.safe + a.safe_interval
  <1> DEFINE u == sync_status(r).value.unsafe
             s == sync_status(r).value.safe
             c == Config(a)
  <1>1. u \in Nat /\ s \in Nat
    BY Zenon, SyncDecoded
  <1>2. a.unsafe_interval \in Nat /\ a.safe_interval \in Nat
    BY Zenon, FlagTypes DEF validate_args
  <1>3. /\ c.unsafe_interval = a.unsafe_interval /\ c.safe_interval = a.safe_interval
        /\ c.safe_enabled = a.safe_enabled
    BY Zenon DEF Config
  <1>4. check_sync_status(c, t, sync_status(r).value) = Pass <=>
            ~ \/ saturating_time_diff(t, u) > a.unsafe_interval
              \/ a.safe_enabled /\ saturating_time_diff(t, s) > a.safe_interval
    BY Zenon, <1>3 DEF check_sync_status, Pass
  <1> HIDE DEF u, s, c
  <1>5. saturating_time_diff(t, u) > a.unsafe_interval <=> ~(t <= u + a.unsafe_interval)
    BY <1>1, <1>2 DEF saturating_time_diff
  <1>6. saturating_time_diff(t, s) > a.safe_interval <=> ~(t <= s + a.safe_interval)
    BY <1>1, <1>2 DEF saturating_time_diff
  <1> QED
    BY Zenon, <1>4, <1>5, <1>6 DEF u, s, c

\* check_peer_stats passes from min_peers on.
LEMMA PeersCheck ==
    ASSUME NEW a \in Arguments, NEW r, peer_stats(r).ok
    PROVE  check_peer_stats(Config(a), peer_stats(r).value) = Pass <=>
              peer_stats(r).value.n >= a.min_peers
  <1>1. peer_stats(r).value.n \in Nat /\ a.min_peers \in Int
    BY PeersDecoded, FlagTypes DEF Unset
  <1>2. Config(a).min_peers = a.min_peers
    BY Zenon DEF Config
  <1> QED
    BY <1>1, <1>2 DEF check_peer_stats, Pass

\* check_supervisor passes unless there is a supervisor that fails.
LEMMA SupervisorChecked ==
    ASSUME NEW a, NEW r
    PROVE  check_supervisor(Config(a), r) = Pass <=>
              (a.supervisor # "none" => SupervisorCheck(r).ok)
  BY Zenon DEF check_supervisor, Pass, Config

\* check_execution_p2p passes unless it is enabled and fails or finds too few,
\* and tells the two apart.
LEMMA ExecutionCheck ==
    ASSUME NEW a \in Arguments, Usable(a), NEW r
    PROVE  LET x == check_execution_p2p(Config(a), r)
               e == peer_count(a.el_api, r)
           IN  /\ x = Pass <=> (a.el_enabled => e.ok /\ e.value.n >= a.el_min)
               /\ x = "ExecutionP2pConnectionDown" => a.el_enabled /\ ~e.ok
  <1> DEFINE e == peer_count(a.el_api, r)
             x == check_execution_p2p(Config(a), r)
  <1>1. /\ Config(a).el_api = IF a.el_enabled THEN a.el_api ELSE "none"
        /\ Config(a).el_min = a.el_min
    BY Zenon DEF Config
  <1>2. CASE ~a.el_enabled
    <2>1. x = Pass
      BY Zenon, <1>1, <1>2 DEF check_execution_p2p
    <2> QED
      BY Zenon, <1>2, <2>1 DEF Pass
  <1>3. CASE a.el_enabled
    <2>1. Config(a).el_api = a.el_api /\ a.el_api # "none"
      BY Zenon, <1>1, <1>3 DEF Usable
    <2>2. x = IF ~e.ok THEN "ExecutionP2pConnectionDown"
              ELSE IF e.value.n < a.el_min THEN "Unhealthy" ELSE Pass
      BY Zenon, <1>1, <2>1 DEF check_execution_p2p
    <2>3. e.ok => e.value.n \in Nat
      BY Zenon, CountDecoded
    <2>4. a.el_min \in Nat
      BY Zenon, FlagTypes
    <2> HIDE DEF e, x
    <2>5. /\ x = Pass <=> e.ok /\ e.value.n >= a.el_min
          /\ x = "ExecutionP2pConnectionDown" => ~e.ok
      BY <2>2, <2>3, <2>4 DEF Pass
    <2> QED
      BY Zenon, <1>3, <2>5 DEF e, x
  <1> QED
    BY Zenon, <1>2, <1>3

\* check_rollup_boost lets a partial answer through below the limit only.
LEMMA RollupBoostChecked ==
    ASSUME NEW a \in Arguments, Usable(a), NEW b, NEW t, NEW h,
           NEW n \in Nat, a.limit # 0 => n = current_value(b, t, a.interval_seconds)
    PROVE  LET x == check_rollup_boost(Config(a), b, t, h)
               rb == RollupBoostCheck(Config(a).rollup_boost, h)
           IN  /\ x = Pass <=> (a.rollup_boost \/ a.rollup_boost_next =>
                                  \/ rb = "Healthy"
                                  \/ rb = "Partial" /\ a.limit > 0 /\ n < a.limit)
               /\ x = "RollupBoostPartiallyHealthy" => n >= a.limit
  <1> DEFINE c == Config(a)
             x == check_rollup_boost(c, b, t, h)
             rb == RollupBoostCheck(c.rollup_boost, h)
  <1>1. c.limit = a.limit /\ c.interval = a.interval_seconds
    BY Zenon DEF Config
  <1>2. c.rollup_boost = "none" <=> ~(a.rollup_boost \/ a.rollup_boost_next)
    BY Zenon DEF Config, rollup_boost_health_config
  <1>3. a.limit \in Nat /\ a.interval_seconds \in Nat
        /\ (a.limit > 0 <=> a.interval_seconds > 0)
    BY Zenon, FlagTypes DEF Usable
  <1>4. Tolerates(c, b, t) <=> a.limit > 0 /\ n < a.limit
    <2>1. Tolerates(c, b, t) <=> /\ a.limit # 0 /\ a.interval_seconds # 0
                                 /\ current_value(b, t, a.interval_seconds) < a.limit
      BY Zenon, <1>1 DEF Tolerates
    <2> QED
      BY <1>3, <2>1
  <1>5. x = IF c.rollup_boost = "none" THEN Pass
            ELSE CASE rb = "Healthy" -> Pass
                   [] rb = "Partial" ->
                        IF Tolerates(c, b, t) THEN Pass ELSE "RollupBoostPartiallyHealthy"
                   [] rb = "Unhealthy" -> "Unhealthy"
                   [] OTHER -> "RollupBoostConnectionDown"
    BY Zenon DEF check_rollup_boost
  <1> HIDE DEF c, x, rb
  <1>6. /\ x = Pass <=> (c.rollup_boost # "none" =>
                            rb = "Healthy" \/ (rb = "Partial" /\ Tolerates(c, b, t)))
        /\ x = "RollupBoostPartiallyHealthy" => ~Tolerates(c, b, t)
    BY Zenon, <1>5 DEF Pass
  <1>7. /\ x = Pass <=> (a.rollup_boost \/ a.rollup_boost_next =>
                            \/ rb = "Healthy"
                            \/ rb = "Partial" /\ a.limit > 0 /\ n < a.limit)
        /\ x = "RollupBoostPartiallyHealthy" => ~(a.limit > 0 /\ n < a.limit)
    BY Zenon, <1>2, <1>4, <1>6
  <1>8. ~(a.limit > 0 /\ n < a.limit) => n >= a.limit
    BY <1>3
  <1> QED
    BY Zenon, <1>7, <1>8 DEF c, x, rb

\* Every tick's verdict is what the flags ask for, whatever the sources of
\* health answer and however many partial answers were let through before.
THEOREM HealthCorrect == Spec => []HealthFaithful
  <1>1. PInv /\ HInv => HealthFaithful
    <2> SUFFICES ASSUME PInv, HInv, Ticking, NEW a \in Answers
                 PROVE  LET h == check_health_at(proc.cfg, buckets, clock, a) IN
                        /\ h = "Healthy" <=> AllFine(a)
                        /\ h = "SequencerConnectionDown" =>
                              ~sync_status(a.sync).ok \/ ~peer_stats(a.peers).ok
                        /\ h = "SupervisorConnectionDown" =>
                              args.supervisor # "none" /\ ~SupervisorCheck(a.supervisor).ok
                        /\ h = "ExecutionP2pConnectionDown" =>
                              args.el_enabled /\ ~peer_count(args.el_api, a.el).ok
                        /\ h = "RollupBoostPartiallyHealthy" => TolerationsNow >= args.limit
      BY Zenon DEF HealthFaithful
    <2> DEFINE s == sync_status(a.sync)
               p == peer_stats(a.peers)
               n == TolerationsNow
    <2>1. proc.pc = "running" /\ args \in Arguments /\ Usable(args) /\ clock \in Nat
      BY Zenon DEF Ticking, Running, PInv, FlagsBehind, HInv, Built, Serving
    <2>2. proc.cfg = Config(args) /\ validate_args(args)
      BY Zenon, <2>1 DEF HInv, Built, Serving
    <2>3. /\ n \in Nat
          /\ args.limit # 0 => n = current_value(buckets, clock, args.interval_seconds)
      <3>1. args.limit \in Nat /\ args.interval_seconds \in Nat
            /\ (args.limit > 0 <=> args.interval_seconds > 0)
        BY Zenon, <2>1, FlagTypes DEF Usable
      <3>2. args.limit # 0 => args.interval_seconds # 0
        BY <3>1
      <3>3. args.interval_seconds # 0 => Counted(args.interval_seconds)
        BY Zenon, <2>1 DEF HInv
      <3> QED
        BY Zenon, <3>2, <3>3 DEF TolerationsNow, Counted
    <2>4. s.ok => (check_sync_status(proc.cfg, clock, s.value) = Pass <=>
                     /\ clock <= s.value.unsafe + args.unsafe_interval
                     /\ args.safe_enabled => clock <= s.value.safe + args.safe_interval)
      BY Zenon, <2>1, <2>2, SyncCheck
    <2>5. p.ok => (check_peer_stats(proc.cfg, p.value) = Pass <=>
                     p.value.n >= args.min_peers)
      BY Zenon, <2>1, <2>2, PeersCheck
    <2>6. check_supervisor(proc.cfg, a.supervisor) = Pass <=>
            (args.supervisor # "none" => SupervisorCheck(a.supervisor).ok)
      BY Zenon, <2>2, SupervisorChecked
    <2>7. /\ check_execution_p2p(proc.cfg, a.el) = Pass <=>
                (args.el_enabled => /\ peer_count(args.el_api, a.el).ok
                                    /\ peer_count(args.el_api, a.el).value.n >= args.el_min)
          /\ check_execution_p2p(proc.cfg, a.el) = "ExecutionP2pConnectionDown" =>
                args.el_enabled /\ ~peer_count(args.el_api, a.el).ok
      BY Zenon, <2>1, <2>2, ExecutionCheck
    <2>8. /\ check_rollup_boost(proc.cfg, buckets, clock, a.rb) = Pass <=>
                (args.rollup_boost \/ args.rollup_boost_next =>
                    \/ RollupBoostCheck(proc.cfg.rollup_boost, a.rb) = "Healthy"
                    \/ /\ RollupBoostCheck(proc.cfg.rollup_boost, a.rb) = "Partial"
                       /\ args.limit > 0 /\ n < args.limit)
          /\ check_rollup_boost(proc.cfg, buckets, clock, a.rb) = "RollupBoostPartiallyHealthy"
                => n >= args.limit
      <3> HIDE DEF n
      <3> QED
        BY SMTT(30), <2>1, <2>2, <2>3, RollupBoostChecked
    <2>9. check_health_at(proc.cfg, buckets, clock, a) = "Healthy" <=> AllFine(a)
      BY Zenon, <2>4, <2>5, <2>6, <2>7, <2>8, VerdictOf DEF AllFine
    <2> QED
      BY Zenon, <2>6, <2>7, <2>8, <2>9, VerdictOf
  <1>2. Init => HInv
    BY Zenon, InitHInv
  <1>3. PInv /\ HInv /\ [Next]_vars => HInv'
    BY Zenon, NextHInv
  <1> QED
    BY <1>1, <1>2, <1>3, Invariance, PTL DEF Spec

=============================================================================
