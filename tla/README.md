# A TLA+ verification of conductor-rs

conductor-rs runs beside an OP Stack sequencer node. Several conductors form a
Raft cluster; the one that leads keeps its node sequencing, the others keep
theirs stopped, and every unsafe payload is committed through Raft so that a new
leader starts from the same unsafe head. This directory holds the TLA+ modules
for that program, the TLC configurations that check them, and TLAPS proofs.

## The system

| part | state | operations |
|---|---|---|
| conductor state machine, `conductor.rs` | `paused`, `stopping`, `stopped`, `action_lock`, `stop_lock`, `healthy`, `seq_active`, `previous` | `pause`, `resume`, `stop`, `tick`, `action`, start and stop of the sequencer, transfer of leadership |
| control loop and runtime, `main.rs` | `action_pending`, the action watch channel, the leadership last seen | `run_control_loop`, `run_leader_watch`, `finalize_runtime_exit` |
| sequencer controller, `sequencer.rs` | none | start by hash, parameterless, or auto; stop; post payload |
| JSON-RPC clients, `rpc/client.rs` | none | calls that answer, fail or time out |
| Raft consensus, `raft_consensus.rs`, `consensus.rs` | openraft's, behind a facade | commit, latest payload, transfer, membership, shutdown, snapshot loop |
| Raft store, `raft_consensus.rs` | six fields behind six locks, one JSON file | log storage, apply, snapshots, `persist_to_disk`, `open` |
| health checks, `health.rs`, `conductor.rs` | `TimeBoundedCounter` | sync status, peers, supervisor, execution p2p, rollup-boost |
| process, `main.rs` | the Raft store on disk is all that survives it | flag validation, configuration, start, stop, exit |
| Raft transport, `raft_consensus.rs` | registered peers | HTTP and in-memory carriers of Raft messages |
| RPC server, `rpc/server.rs` | `leader_override` | batches, admin calls, proxy to the node for a leader |
| flashblocks, `flashblocks.rs` | hub, subscribers | upstream reader, downstream writers |
| local stand-ins, `consensus.rs`, `store.rs` | members, version, latest payload, one file | membership, `commit`, `persist`, `open` |
| metrics, `metrics.rs` | counters and histograms | recorders, `render_prometheus` |
| pprof, `pprof.rs` | the file profiler | start, write at exit; endpoints |

How they meet: the leader watch and the health ticks wake the control loop; the
control loop runs one action at a time under `action_lock`; admin calls come from
other tasks and meet it at the two mutexes and three flags; an action talks to
the node and to Raft in several remote calls, between which both change; Raft
reads and writes its store from three tasks at once.

What is hard about it: a pause or stop that races an action in flight; calls
dropped half way; commands that time out and are executed later; decisions on
samples that are stale when they are used; a start that spans up to five remote
calls while heads move; wake-ups that must not be lost; a file put together from
fields read at different moments; crashes between any two of these steps.

What must hold: a paused or stopped conductor does not touch its node; the node
is only started on the committed unsafe head; an acknowledged vote, entry or
payload is never lost; the node ends up in the state leadership and health ask
for; calls return and wake-ups are not lost.

## Modules

| module | models |
|---|---|
| `UnsafeChain` | blocks, numbers and ancestry: what the node's chain answers |
| `Conductor` | one conductor process, its node and Raft as it sees them |
| `ControlGate` | abstract: the gate that `pause`, `resume` and `stop` promise an operator |
| `ConductorProofs` | the inductive invariant of `Conductor` and the theorems about it |
| `MCConductor`, `MCConductorHeads` | instances of `Conductor`: on one block, and on a forked chain |
| `UnsafeHead` | abstract: the register the consensus layer promises |
| `RaftStore` | `MemoryRaftStore`, its three callers and its file |
| `RaftStoreProofs` | `RaftStore`: what the file holds, and that it can be resumed from |
| `RaftStoreFaithful` | `RaftStore`: state machines and snapshots against the committed log |
| `RaftStoreRegister` | `RaftStore`: acknowledged heads, the refinement of `UnsafeHead`, types |
| `MCRaftStore` | instance of `RaftStore` |
| `RpcClient` | how a JSON-RPC response becomes a value or an error class |
| `HealthCheck` | one health tick, and `TimeBoundedCounter` |
| `Startup` | the life of the process, over crashes and restarts |
| `Process` | `Startup` composed with `HealthCheck` |
| `ProcessProofs` | the theorems about `Process` |
| `MCProcess` | instance of `Process`: command lines and answers |
| `Metrics` | the metrics of the RPC server and their rendering |
| `RpcServer` | the JSON-RPC server over `RpcClient` and `Metrics` |
| `Flashblocks` | the flashblocks relay |
| `ServiceProofs` | the theorems about `Metrics`, `RpcServer` and `Flashblocks` |
| `MCServices` | instance of `RpcServer` and `Flashblocks` |
| `RaftCluster` | membership calls and transfers of leadership of `RaftConsensus` |
| `LocalNode` | `LocalConsensus` and `FilePayloadStore` |
| `LocalNodeProofs` | the theorems about `LocalNode` |
| `RaftTransport` | the two carriers of Raft messages |
| `ClusterProofs` | the theorems about `RaftCluster` and `RaftTransport` |
| `MCCluster` | instance of `RaftCluster`, `LocalNode` and `RaftTransport` |

`MCServices` and `MCCluster` hold components that do not meet: a variable `part`,
fixed in the initial state, says which one runs, so that one run explores each of
them and never their product.

Definitions whose comment starts with "Mutant" are plausible
bugs, kept to show that the property they break depends on the code.

### Conductor

The fields of `struct Conductor` are variables of the same name. `ctl` is the
program point of the control loop, `act` the locals of the action in flight,
`adm` the program point of every admin call and of the main task. A step ends
where the code awaits a remote call or a contended lock, or between two atomics
that another thread can come between, so one action of the model is the code
between two such points:

| code | actions |
|---|---|
| `run_control_loop` | `ActionQueued`, `ActionRetry`, `Tick` (the branches of `select!`), `LoopExits`, `BackToSelect` |
| `tick` | `RefreshAnswer`, `RefreshStore`, `CheckHealth` |
| `action`, `action_locked` | `ActionSkipped`, `ActionBegins`, `ActionDecides` with `Decision`, `Return` |
| `stop_sequencer`, `stop_and_transfer_leader` | `StopSequencer`, `AfterStop`, `TransferLeader` |
| `start_sequencer` and the start modes | `StartPayload`, `StartHead`, `StartRepair`, `StartAncestor`, `StartHash`, `StartCheck`, `StartBare` |
| `pause`, `resume`, `stop` | `Pause`; `ResumeAnswer`, `ResumeStore`, `ResumeUnpause`; `StopBegins`, `StopLocks`, `StopShutdown` |
| disconnecting callers, end of the runtime, new process | `CallDropped`, `RuntimeExit`, `Restart` |

The node and openraft are external and appear as `Environment`: leadership and
health change, payloads are applied, the node advances, reorgs or is toggled by
others, and a command that timed out is executed late. Every remote call may
fail (`CallFails`). The leader watch is level-triggered, as a receiver of
openraft's metrics channel is. A transfer of leadership is one step that
succeeds or fails; with a single voter the code returns without a transfer, so
`UnhealthyLeaderHandsOver` speaks of clusters of two voters or more.

`ControlGate` is the promise to an operator, for the life of one process: actions
drive the node only through an open gate; `pause` and the shutdown of Raft wait
for the action in flight; `stop` shuts the gate for good, even when the shutdown
fails. `RefinesControlGate` maps `driving` to the control loop being at a point
under `action_lock`, `closing` to a call being at its shutdown of Raft, and the
flags to themselves. A `Restart` begins a new behaviour of the gate.

### RaftStore and UnsafeHead

`mem` is the fields in memory, `disk` the file, `img[t]` the image task `t` is
putting together. openraft's core calls the log storage, its state machine worker
`apply` and `install_snapshot`, and a third task `build_snapshot`. Each
changes its fields, one lock after the other, and then persists: `PersistLocks`,
one `ReadField` per field in the order of the code, `PersistReplaces` for the
rename and the answer, or `PersistFails`. `Reopen` is a crash at any point and
the next `open`. `acked` records what callers were told, `chosen` what the
cluster has committed.

openraft's side of the contract is stated in the guards: one call of the core at
a time; only uncommitted entries are truncated; `apply` gets flushed entries up
to a saved commit index; only newer snapshots are installed; only applied entries
that a stored snapshot covers are purged, or, at start, a log that ends before the
applied entry. An entry is the payload it commits, 0 for one without payload;
`BlockNumber` gives a payload its number, so that two leaders may commit
different payloads of one height. `apply` goes through a batch entry by entry
(`HeadAfter`, with `Newer` for one entry); the reference is `HeadOf`: among the
committed payloads of the highest number the first one, whatever the batches
were. The crash
is one of the process: the file system keeps a rename that has returned.

`UnsafeHead` is the promise: the head moves forwards while the process runs, and
a restart forgets nothing that was acknowledged. `RefinesUnsafeHead` maps its
head to the state machine's, its acknowledgements to `acked.head`, its restarts
to `crashes`.

### RpcClient, HealthCheck, Startup and Process

`proc` is the program point of `main()` with its locals. `store` is what a later
start depends on: whether there is a Raft store file, and a cluster in it. The
histories `founder` (the start that initialized the cluster) and `proc.asked`
(whether a caller or a signal asked the process to end) are only read by
properties. A crash is possible between any two steps.

| code | actions |
|---|---|
| `validate_args`, the configuration builders | `Validate`, `Configure` |
| `RaftConsensus::new_http` | `OpenStore`, which leaves a file behind; `CreateRaft`, which rejects unusable timeouts; `Bootstrap`, which asks whether the store is initialized; `Initialize`, which may save the cluster and still fail |
| `wait_for_conductor_enabled` | `ConductorEnabled`, one attempt |
| `Conductor::new`, `initialize_startup_state` | `Seed` |
| the servers and the profiler | `Serve` |
| `Conductor::stop` called through RPC | `RpcStop`, `ShutdownRaft`, `StoreStopped` |
| the branches of `select!` | `StoppedEnds`, `ServerFails`, `LeaderWatchEnds`, `Signal` |
| `finalize_runtime_exit` | `Finalize` |
| a leader that adds this server, a storage error inside openraft, a crash, the operator | `JoinsCluster`, `RaftHalts`, `Crash`, `Start` |

Flags are what the code tells apart: URLs and addresses are classes, ports and
intervals are numbers with their limits, the rollup config is its checked fields.

A tick of `HealthCheck` takes one answer per source and runs the cascade of
`check_health_at` in its order: decoding, sync status, peers, supervisor,
execution p2p, rollup-boost, with the tolerance of partial answers. `tolerated`
counts what was let through, beside the code's own `buckets`, which are cleared
when they are too many.

### RpcServer and Metrics

`conn[k]` is the body a caller has sent, the request being handled and the
answers so far. `Receive` decodes a body; `Undecodable`, `DispatchRefused`,
`DispatchConductor` and `DispatchProxy` are the ways one request goes;
`BackendAnswered` is the end of a proxied call's await, and `LooksAtOverride` and
`LooksAtConsensus` are the two reads of `Conductor::leader` that follow it; the
history `led` says whether the conductor has led since the answer. `Reply` sends, `Disconnect` drops the caller's task at an
await. A conductor operation is its outcome here and has its steps in
`Conductor`. Every request that ends is recorded (`Metrics`), and
`render_prometheus` is what a scrape would read.

### Flashblocks

`up` is `run_upstream_listener`, `sub[c]` the task of a subscriber with its
bounded channel, `hub` and `gauge` the registered clients and the metric.
`Read` and `Relay` are separate steps: leadership may change in between. A client
whose channel is full is dropped from the hub by `broadcast` and unregisters
later by itself.

### RaftCluster

This server sees openraft's configuration and leadership through metrics that lag
(`MetricsUpdate`). A membership call checks version and address on them
(`check_version`, `check_member_addr_open`) and then proposes (`change_membership`)
against the configuration in effect. A transfer goes round robin over the voters
(`RoundRobinAsks`), sorted by id (`Sorted`), and then to the default target chosen
from the replication metrics (`transfer_leader`), by the loop of
`default_transfer_target`.

### LocalNode

`LocalApply` and `LocalBump` are two steps because `LocalConsensus` releases the
members lock before it counts the version. `membership()` is `LocalReadMembers`
and `LocalReadVersion`; its read guard lives to the end of the expression, so that
no member changes in between (`MembersUnread`), but versions are counted. `FileOp` is one of the four file
operations of `persist`; `CommitDropped` leaves its operation running (`LooseOp`);
`LocalRestart` is a crash and `open`.

### RaftTransport

An RPC is sent by one carrier, handled by the peer, and returned, or lost on the
way (`Lost`). The HTTP body is modelled as it is on the wire: `()` and an absent
result are both `null`. An address is its scheme, its host and the number of
slashes after it, which is what `raft_url` tells apart.

## What is checked

| run | properties | shows |
|---|---|---|
| `conductor_live` | `TypeOK`, `PauseQuiesces`, `ShutdownQuiesces`, `LocksOwned`, `Converges`, `UnhealthyLeaderHandsOver` | no action outlives a pause that returned or runs into a Raft shutdown; no path leaks or steals a lock; once trouble ends, the node's sequencer ends up as leadership and health ask, and `seq_active` agrees with it; an unhealthy leader hands over, or waits in the one case the code allows |
| `conductor_calls` | `RefinesControlGate`, `CallsReturn`, `LeadershipActedUpon` | no action begins while paused or after `stop`, whatever becomes of the shutdown; `pause`, `resume` and `stop` return; the channel and the retry timer alone carry every lasting leadership change to an action |
| `start_auto` | `StartHashDescends`, `StartsOnCommittedHead` | on a forked chain, the node is set going only on a descendant of the committed head; mode auto and a node that takes no hash (the theorems below cover the other modes) |
| `start_reorgs` | `Converges` | the same convergence when the node reorgs between the calls of a start |
| `raft_store` | `TypeOK`, `AckedDurable`, `FileResumable`, `StateMachineFaithful`, `RefinesUnsafeHead` | the file always holds what was acknowledged and can be resumed from |
| `raft_store_snapshots` | `HolesInSnapshot`, `AckedDurable` | with snapshots being built beside the other two tasks, what is purged stays available in the snapshot |
| `process` | `FlagErrorsInTime`, `PausedByFounder`, `SuccessWasAskedFor`, `EndsWithoutRaft`, `HealthFaithful` | how far a bad flag lets a process get: the store file is only written under flags that passed validation and configuration, a cluster only created with usable timeouts, and no process serves with a bad flag (bad timeouts are found after the file was created, a bad `--metrics.addr` or `--pprof.addr` after the cluster may have been); the process that founded the cluster serves it paused and no later one does unless `--paused` is set; success is reported only by a process that was asked to end; a process without Raft ends; a tick says healthy exactly if every source enabled by a flag is fine, with as many tolerated partial answers per interval as the limit says |
| `services` | `AnswersMatchRequests`, `ProxiedWhileLeading`, `EveryRequestRecorded`, `ScrapesAddUp`, `UnbrokenStreams`, `BroadcastsInOrder`, `GaugeFollowsHub`, `SilentClientsLeave` | every request but a notification gets one answer, in order; a proxied result is handed out only if the conductor led, or was made to, at some moment after the backend had answered; what ran to its end is recorded once; requests and metrics agree; a subscriber gets an unbroken stretch of the broadcasts; a silent one is let go |
| `cluster` | `AcknowledgedMeansGone`, `RoundRobinOrder`, `DefaultTargetFurthest`, `VersionTrailsMembers`, `AckedOnDisk`, `AnswersCarried`, `LocalHeadNeverGoesBack` | an acknowledged removal leaves no member, although it acts on stale metrics; the round robin asks each other voter once, in order; the default target is the furthest voter; the version a reader of the local membership gets never leads the members it gets; an acknowledged payload is in the file, and a reader never sees an older one than before, over restarts too; a sender calls success only what the peer's Raft answered, and an RPC that reached its peer and lost nothing brings the answer back, except the success of a transfer over HTTP |

Three runs end in a violation and record where the text and the code disagree:

- `start_unenforced`: a node that takes the hash without enforcing it may be
  started before it has imported the repair payload; the README of the
  repository says the node is repaired before it is started.
- `start_ancestor_race`: the ahead head and its ancestor are read in two calls;
  a reorg in between makes `start_sequencer` ask for a head that does not descend
  from the replicated one, which the comment in the code rules out.
- `stop_race`: `stop()` shuts Raft down, which closes its metrics channel
  (`conductor.rs:331`), before it stores `stopped` (`conductor.rs:332`). The
  leader watch (`main.rs:1331`) may wake in between, read `stopped` as false and
  end the process with an error; the test
  `leader_watch_exits_cleanly_after_conductor_stop` (`main.rs:2503`) expects a
  clean end and only looks after `stop()` has returned.

### Bounds

`MaxTrouble` bounds failures, admin calls, leadership and health changes and
reorgs together. Two or three of them are enough for each race the code guards
against: a call, a failure or change that meets it, and one more after it.
One caller and the main task are the two contenders for `stop_lock`; with the
control loop they are the three for `action_lock`. The forked chain has six
blocks: two heights above the fork on one side and three on the other, so the
node can be behind, level with, ahead of and beside the committed head, within
and beyond `RepairDepth = 1`.

For the store, two log indexes allow a batch of two, a truncation of one and an
installed snapshot ahead of the log; an entry without payload after one with a
payload, or the same number twice, is what must not move the head. Snapshot
building is off in `raft_store` (`Threshold = 0`) and on, with three indexes and
entries without payload, in `raft_store_snapshots`. `raft_store` has one vote and
one crash; `BuildOverlapsInstall` matters only where snapshots are built.

The process is started twice (`MaxStarts`), enough for a start after a crash or
a failed one with other flags, or for a founder and its successor; the node is asked twice (`Attempts`). The command
lines differ from a working one in one flag or in the flags of one feature, with
the values at each limit (ports -1, 0, 65535 and 65536; intervals 0, 1 and unset),
and the answers to a tick have one fault, with and without a partially healthy
rollup-boost. Five seconds and two buckets (`MaxTime`, `MaxBuckets`) cross every
interval boundary and overflow the counter. `MaxU64 = 7` stands for the largest
quantity.

The RPC server has two callers with one body each, of up to three requests, and
two leadership changes; the second caller sends the bodies that change what the
first one meets. `MaxU64 = 255` keeps the signed limit of block numbers apart from
the unsigned one. Two histogram bounds tell a bucket, the one above and the
overflow apart. The relay has two subscribers with room for one message each, two
messages and two flaps (leadership changes or lost connections): a subscriber can
be full, dropped and unregistered while the other one is served.

`MCCluster` has three servers, this one in the middle so that the round robin
wraps; two membership calls about one server, or one beside a transfer; three
configurations and one leadership change. Two callers share `LocalConsensus` and
its file, with two payload numbers. The transport has two senders and six
spellings of the peer's address.

Deadlock checking is off: a stopped conductor, a store out of entries and a
process out of starts rest.

### Fairness

Control steps and admin calls are weakly fair: every remote call has a timeout
and tokio runs ready tasks. `Tick` is strongly fair: `select!` polls its branches
in random order, so a due tick is taken in the end. The node goes on importing
what it has been given. `CallsReturn` adds strong fairness for a call that waits
for `action_lock`, because tokio's mutex is granted first come, first served.
`LeadershipActedUpon` uses no tick at all: only the leader watch and the channel
and retry branches are fair. Both state their fairness as a premise, so that one
run checks them on the specification without fairness.

`EndsWithoutRaft` takes that the tasks of the process are polled: a stop call
proceeds, the leader watch is woken by its closed channel, servers and control
loop by the stop, and `finalize_runtime_exit` runs. `SilentClientsLeave` takes
that timers fire and that a task that is to unregister does so (`FbFairness`); a
later ping resets the deadline of an earlier one, but comes after it
(`DOWNSTREAM_PONG_TIMEOUT` is 10 s, `DOWNSTREAM_PING_INTERVAL` 15 s);
nothing is assumed of subscribers, rollup-boost or the upstream task.

## What is proved

Every invariant that a passing run checks, but `HolesInSnapshot`, is also a
theorem, for every value of the constants that the named assumptions allow; so are
the action properties `FlagErrorsInTime`, `StartsOnCommittedHead` and `LocalHeadNeverGoesBack` and the
refinements `RefinesUnsafeHead` and `RefinesControlGate`.

`ConductorProofs` proves, for every set of callers, block tree, start mode, kind
of node and amount of trouble, from the assumptions named in `UnsafeChain`
(numbers and ancestry form a tree) and `Conductor`:

- `TypeCorrect`, `PauseCorrect`, `ShutdownCorrect`, `LocksCorrect`: the four
  invariants of `conductor_live`;
- `GateRefined`: `RefinesControlGate`;
- `StartHashCorrect`: `StartHashDescends`, for nodes that do not reorg;
- `StartCorrect`: `StartsOnCommittedHead`, for nodes that do not reorg and that
  enforce a hash if they take one.

The inductive invariant is `IInv`. `PauseQuiesces` is not inductive alone: that
no action is in flight when `pause` returns follows from who holds `action_lock`,
so `LocksOwned` comes with it. That the main task takes no lock before the control
loop has ended is `MainIdle`; without it the end of the runtime would release a
lock of its own. `StartLocals` says which locals an action has at which step.
The step proof goes operator by operator: `CtlStep` collects what a step of the
control loop may change, frame lemmas (`DrivingStep`, `IdleStep`, `OutsideStep`)
show once that such a step keeps `IInv`, and each action is shown to be one.
`GateRefined` needs one fact beside `IInv`, `StopRaised`: a `stop` that waits for
`action_lock` or shuts Raft down has raised `stopping` and still finds the
conductor not stopped, because it has `stop_lock` to itself. Each action is then
shown to be one step of the gate (`GateBegins`, `GatePause`, `GateCloses`...), to
leave it alone (`GateLoop`), or to begin a new life (`GateRestart`).
`StartKnows` is another invariant: at each step of a start, what the
conductor has learnt about the node's head is still true, because a node that
does not reorg only moves to descendants.

`ProcessProofs` proves, for every set of command lines of the shape
`ArgumentsAssumption` gives, every set of answers, any number of starts, attempts
and buckets:

- `FlagsCorrect`, `PauseOfFounder`, `SuccessCorrect`: `FlagErrorsInTime`,
  `PausedByFounder` and `SuccessWasAskedFor`;
- `HealthCorrect`: `HealthFaithful`.

`PInv` says what each program point of `main()` has behind it. None of the three is
inductive. `FlagsBehind`: `configure` must know that `validate_args` passed, so
that `BuiltIsUsable` can conclude from both checks together, and every later point
must remember that and what it has found out itself. `PauseKnown`: `bootstrapped`
is set in exactly the start that `founder` names, although that start may fail
with the cluster saved. `AskedFor`: a clean end of the `select!` has a stop or a
signal behind it, and a conductor is stopped only by a call. `HInv` adds that the configuration is the one of the
flags and that the counter agrees with the history on the interval of this second
(`Counted`). That needs one fact more, that no bucket lies ahead of the clock: in
a new interval both counts are then zero, whatever the counter has forgotten.
Given `HInv`, each check is shown to be what the flags say of its source
(`SyncCheck`, `ExecutionCheck`, `RollupBoostChecked`...), and `VerdictOf` that the
cascade is healthy exactly if all of them pass. An answer that decodes holds
numbers, which is all that is used of the answers.

The three modules about `RaftStore` build on each other, for logs, votes,
payloads and crashes without a bound:

- `RaftStoreProofs`: `Durable`, that the file satisfies `Holds`, and `Resumable`,
  `FileResumable`;
- `RaftStoreFaithful`: `FaithfulCorrect`, `StateMachineFaithful`;
- `RaftStoreRegister`: `AckedDurableCorrect`, `RegisterRefined` and `TypeCorrect`,
  that is `AckedDurable`, `RefinesUnsafeHead` and `TypeOK`.

A file is the image a task has read, so `SInv` speaks of images half read
(`HasRead`). The fields read so far hold what is acknowledged, because nobody
acknowledges without `persist_lock`; the fields the task's own operation changed
are still those in memory, because only one task changes each. `purge` gives up
entries before it removes them, which is the third conjunct of `SInv`.

`LInv` says that an image is sound from the last applied entry on (`Sound`): no gap
in the log above it, the log reaches the commit index, and up to there it is what
the cluster has chosen. An image is read field by field, so the bound is
`acked.applied` while it is being read: the log is read before the state machine,
which may only have moved on since (`SoundWeakens`). In the file the bound is its
own state machine's.

`FInv` is about all state machines of the store at once, in memory, file, images
and clones: each is the one of the entries chosen up to its index. The step that
matters is `apply`, a loop over a batch; `HeadAfter` is shown to lead from a head
of `n` entries to one of `k` by taking the least index at which it would not.

`HInv` (in `RaftStoreRegister`) says that the file, and an image once the state
machine is read, covers the acknowledged head: heads of longer prefixes of one
log never have lower numbers. With it every step maps to a step of `UnsafeHead`
or leaves it alone; a `Reopen` maps to its `Recover`. `TInv` has the ranges that
are left for `TypeOK`.

`ServiceProofs` proves for any callers, bodies, requests, bounds and subscribers:

- `AnswersCorrect`, `ProxyCorrect`, `RecordedCorrect`, `ScrapesCorrect`:
  `AnswersMatchRequests`, `ProxiedWhileLeading`, `EveryRequestRecorded` and
  `ScrapesAddUp`;
- `UnbrokenCorrect`, `OrderCorrect`, `GaugeCorrect`: `UnbrokenStreams`,
  `BroadcastsInOrder` and `GaugeFollowsHub`.

`RpcInv` says for a body half worked off that the request in hand is the one after
those in the trail and that the answers so far are those of the trail
(`Matches`), so that one more request adds one answer at the right place or none.
`LedInv` is what makes a proxied result safe to hand on: while it is in hand, a
conductor that leads now is one that has led since the answer, whoever changed the
leadership or the override.
Its counters part, `CountersInv`, holds between any two records: buckets are
cumulative and below the count, responses of a method add up to its requests.
Sums over maps are shown to grow by one with a bumped key (`TotalBump`). `FbInv`
says that what a subscriber got and has buffered is the broadcasts from its
registration on (`Streams`), all of them while it is in the hub, and that
everything on the wire is later than everything broadcast (`FbOrder`).

`ClusterProofs` proves for any number of servers, callers and senders:

- `AcknowledgedCorrect`, `RoundRobinCorrect`, `DefaultTargetCorrect`:
  `AcknowledgedMeansGone`, `RoundRobinOrder` and `DefaultTargetFurthest`, with
  `ClusterInv`;
- `CarriedCorrect`: `AnswersCarried`, with `TransportAll`.

The round robin is arithmetic: the list is sorted by id (`SortedIs`), this server
is at some place in it (`PlaceOf`), and the place asked at offset `o`, taken modulo
the length, has its turn before the one at a greater offset (`TurnGrows`,
`RoundsInOrder`). `ClusterInv` carries along that those asked so far are the voters
at the first offsets. The loop over servers that picks the default target is shown
to keep the furthest one seen so far (`FurthestTurn`).

`LocalNodeProofs` proves `AckedOnDiskCorrect`, `AckedOnDisk` for every number of
callers and payloads, `LocalHeadCorrect`, `LocalHeadNeverGoesBack`, and
`VersionCorrect`, `VersionTrailsMembers`. `Orderly` says
that the writer is alone, how far its temporary file is, and that only a writer
about to publish is behind the file; `VInv` that every change is counted by the
version or by one call about to count it, and that a reader between its two reads
has all of them.

Loops and recursive functions are reasoned about by least counterexamples
(`LeastOf` in `ClusterProofs`, `WFMin` of the library, and `LeastSubset`
for sums over sets): the set of indexes at which a claim fails would have a
smallest one, and the step before it shows that it is none. The library's
induction theorems, which take the claim as a parameter, are not used.

Only model-checked, because the prover has no fairness: `Converges`,
`UnhealthyLeaderHandsOver`, `CallsReturn`, `LeadershipActedUpon`,
`EndsWithoutRaft` and `SilentClientsLeave`. `HolesInSnapshot` is only
model-checked too, in a run without crashes and without installs during a build:
it fails with either (see the limits below), so that a theorem would have to
assume more than the code guarantees. The three runs that end in a
violation are counterexamples of TLC.

## Not modelled

External: openraft, the node and its execution client, axum, the file system.
They appear by how the code uses them; their messages and replies are as free as
the code's handling of them is.

Left out: logging and its setup; warnings about unknown environment variables;
the pprof endpoints, which render and change nothing; recorders that only add to
a counter nothing reads; `rpc_modules` and `healthz`, which answer constants; the
graceful shutdown of the library's `FlashblocksRuntime`, which `main.rs` does not
use; block encodings and hashing, which are identities of blocks and payloads.

Not composed: several conductors over one Raft. How many nodes sequence at a time
depends on openraft's leases and on nodes that go on sequencing while their
conductor is down, neither of which this code decides; `Conductor` takes
leadership as given by Raft.

Known limits of what is checked, met by hazards in `PROJECT.json`:

- a file written while `purge` is between its two locks has a log that starts
  above its purge point; the unapplied part is complete (`FileResumable`), how
  openraft starts from such a file is not modelled;
- with `BuildOverlapsInstall = TRUE`, `build_snapshot` may replace an installed
  snapshot by an older one, and a crash inside `install_snapshot` may leave a new
  state machine with an old snapshot; `HolesInSnapshot` is claimed without both;
- the version of a membership call is compared before the change is proposed, and
  openraft takes no expected version: two calls with one version may both succeed;
- a process that bootstraps and then fails before it serves loses the initial
  pause: the next one finds the store initialized and starts unpaused
  (`main.rs:576`); `PausedByFounder` says exactly that;
- a bad `--metrics.addr` or `--pprof.addr` is found after the cluster may have been
  created (`main.rs:594`), unusable Raft timeouts after the store file was
  (`raft_consensus.rs:612`); `FlagErrorsInTime` claims no more;
- a proxied call dropped by a disconnect at its await has reached the backend and
  is not recorded; `EveryRequestRecorded` is about requests that ran to their end;
- `AckedOnDisk` and `LocalHeadNeverGoesBack` take that no commit is dropped while
  it writes: the orphaned file operation may meet the next commit's temporary file
  (`store.rs:97`);
- the `()` of a transfer is `null` over HTTP and is read as an empty response, so
  that a transfer that succeeded at the peer is reported as failed; `AnswersCarried`
  says so for this method and carries the answers of all others;
- a follower keeps its upstream connection without reading it; what has piled up
  is broadcast when it leads again, late but in order (`BroadcastsInOrder`).
