----------------------------- MODULE Conductor -----------------------------
(***************************************************************************)
(* One conductor process beside its sequencer node: the state machine of   *)
(* conductor.rs, the control loop and leader watch of main.rs, the admin   *)
(* calls of the JSON-RPC server, and the start modes of sequencer.rs.      *)
(*                                                                         *)
(* A step ends where the code awaits a remote call or a contended lock, or *)
(* between two atomics another thread can come between.  The node and the  *)
(* Raft library are external: they answer, fail, answer late, or change    *)
(* on their own.                                                           *)
(***************************************************************************)
EXTENDS UnsafeChain

CONSTANTS
    Callers,          \* concurrent admin calls (tasks of the RPC server)
    Main,             \* the main task, which runs stop() when the runtime ends
    Control,          \* the control-loop task
    Free,             \* owner of a lock nobody holds
    NoBlock,          \* no unsafe payload was committed yet
    RepairDepth,      \* unsafe_repair_depth
    StartMode,        \* SequencerStartMode
    NodeTakesHash,    \* the node accepts admin_startSequencer(hash)
    NodeEnforcesHash, \* ... and refuses a hash that is not its unsafe head
    NodeHealths,      \* the health classes the node goes through
    Reorgs,           \* the node may leave its chain for another one
    MaxTrouble        \* bound on failures, calls and outside changes, together

Health == {"Healthy", "Unhealthy", "SequencerConnectionDown",
           "SupervisorConnectionDown", "ExecutionP2pConnectionDown",
           "RollupBoostConnectionDown", "RollupBoostPartiallyHealthy"}

ASSUME ConductorAssumption ==
    /\ Main \notin Callers /\ Control \notin Callers \cup {Main}
    /\ Free \notin Callers \cup {Main, Control}
    /\ NoBlock \notin Blocks
    /\ RepairDepth \in Nat
    /\ StartMode \in {"HashParam", "Parameterless", "Auto"}
    /\ NodeTakesHash \in BOOLEAN /\ NodeEnforcesHash \in BOOLEAN
    /\ NodeHealths \subseteq Health
    /\ Reorgs \in BOOLEAN
    /\ MaxTrouble \in Nat

VARIABLES
    \* fields of struct Conductor
    paused, stopping, stopped, action_lock, stop_lock,
    healthy, seq_active, previous,
    \* control loop: where it is, locals of the action in flight, select! state
    ctl, act, action_pending,
    \* unseen value in the action watch channel; leadership the watcher saw last
    notified, watch_seen,
    \* admin calls in flight
    adm,
    \* the node: sequencing?, unsafe head, health, timed-out commands that the
    \* node may still execute
    node_active, node_head, node_health, late_stop, late_start,
    \* Raft: is this server leader, latest unsafe payload applied here
    raft_leader, cons_head,
    \* how much trouble there was so far
    trouble

flags  == <<paused, stopping, stopped>>
locks  == <<action_lock, stop_lock>>
belief == <<healthy, seq_active, previous>>
loop   == <<ctl, act, action_pending>>
signal == <<notified, watch_seen>>
late   == <<late_stop, late_start>>
node   == <<node_active, node_head, node_health, late>>
raft   == <<raft_leader, cons_head>>
vars   == <<flags, locks, belief, loop, signal, adm, node, raft, trouble>>

Tasks == Callers \cup {Main}

\* Program points of the control loop; it holds action_lock in Driving.
Driving == {"status", "stop", "transfer", "startPayload", "startHead",
            "startRepair", "startAncestor", "startHash", "startCheck", "startBare"}
CtlPC == {"select", "refresh", "store", "health", "acquire", "exited"} \cup Driving
AdmPC == {"idle", "pause", "resume", "resumeStore", "resumeUnpause",
          "stop", "stopLocking", "stopShutdown"}

State == [leader : BOOLEAN, healthy : BOOLEAN, active : BOOLEAN]

is_healthy(h) == h = "Healthy"
prevents_new_leader_start(h) == h = "SequencerConnectionDown"
prevents_health_recovery_wait(h) ==
    h \in {"SequencerConnectionDown", "RollupBoostPartiallyHealthy"}

\* Locals of the control loop between actions.
NoAct == [origin |-> "retry", sample |-> FALSE, health |-> "Healthy",
          status |-> [leader |-> FALSE, healthy |-> TRUE, active |-> FALSE],
          stopped_ok |-> TRUE, target |-> NoBlock, hash |-> NoBlock]

Act == [origin : {"retry", "tick"}, sample : BOOLEAN, health : Health,
        status : State, stopped_ok : BOOLEAN,
        target : Blocks \cup {NoBlock}, hash : Blocks \cup {NoBlock}]

(***************************************************************************)
(* The one type invariant of this module.  A start command that is still   *)
(* on its way to the node always names a block (late_start).               *)
(***************************************************************************)
TypeOK ==
    /\ paused \in BOOLEAN /\ stopping \in BOOLEAN /\ stopped \in BOOLEAN
    /\ action_lock \in Callers \cup {Main, Control, Free}
    /\ stop_lock \in Callers \cup {Main, Free}
    /\ healthy \in Health /\ seq_active \in BOOLEAN /\ previous \in State
    /\ ctl \in CtlPC /\ act \in Act /\ action_pending \in BOOLEAN
    /\ notified \in BOOLEAN /\ watch_seen \in BOOLEAN
    /\ adm \in [Tasks -> [pc : AdmPC, sample : BOOLEAN]]
    /\ node_active \in BOOLEAN /\ node_head \in Blocks
    /\ node_health \in NodeHealths
    /\ late_stop \in BOOLEAN /\ late_start \in SUBSET Blocks
    /\ raft_leader \in BOOLEAN /\ cons_head \in Blocks \cup {NoBlock}
    /\ trouble \in 0 .. MaxTrouble

----------------------------------------------------------------------------
(* Conductor::new followed by initialize_startup_state: seq_active and     *)
(* `previous' are read from the node and from Raft, health starts Healthy. *)
Init ==
    /\ paused \in BOOLEAN /\ stopping = FALSE /\ stopped = FALSE
    /\ action_lock = Free /\ stop_lock = Free
    /\ node_active \in BOOLEAN /\ node_head \in Blocks
    /\ node_health \in NodeHealths
    /\ late_stop = FALSE /\ late_start = {}
    /\ raft_leader \in BOOLEAN /\ cons_head \in Blocks \cup {NoBlock}
    /\ healthy = "Healthy" /\ seq_active = node_active
    /\ previous = [leader |-> raft_leader, healthy |-> TRUE, active |-> node_active]
    /\ ctl = "select" /\ act = NoAct /\ action_pending = TRUE
    /\ notified = FALSE /\ watch_seen = raft_leader
    /\ adm = [t \in Tasks |-> [pc |-> "idle", sample |-> FALSE]]
    /\ trouble = 0

\* The environment misbehaves MaxTrouble times at most.
Trouble == trouble < MaxTrouble /\ trouble' = trouble + 1

\* A call to the node fails: trouble, unless the node is unreachable anyway.
CallFails == IF node_health = "SequencerConnectionDown" THEN UNCHANGED trouble
                                                       ELSE Trouble

----------------------------------------------------------------------------
(* run_control_loop: the three branches of its select!.                    *)

\* Only once stopped: the stop() that the main task then calls has no effect.
LoopExits == /\ ctl' = "exited"
             /\ UNCHANGED <<act, action_pending>>

\* Mutant of ActionQueued: a change that arrives is noted but not acted on.
ActionQueuedLost ==
    /\ ctl = "select" /\ notified
    /\ notified' = FALSE
    /\ \/ stopped /\ LoopExits
       \/ ~stopped /\ UNCHANGED loop
    /\ UNCHANGED <<flags, locks, belief, watch_seen, adm, node, raft, trouble>>

\* action_rx.changed()
ActionQueued ==
    /\ ctl = "select" /\ notified
    /\ notified' = FALSE
    /\ \/ stopped /\ LoopExits
       \/ ~stopped /\ action_pending' = TRUE /\ UNCHANGED <<ctl, act>>
    /\ UNCHANGED <<flags, locks, belief, watch_seen, adm, node, raft, trouble>>

\* action_retry: run_control_action_once
ActionRetry ==
    /\ ctl = "select" /\ action_pending
    /\ \/ stopped /\ LoopExits
       \/ /\ ~stopped
          /\ ctl' = "acquire" /\ act' = [NoAct EXCEPT !.origin = "retry"]
          /\ UNCHANGED action_pending
    /\ UNCHANGED <<flags, locks, belief, signal, adm, node, raft, trouble>>

\* ticker.tick(): Conductor::tick, which does nothing once stop() has begun
Tick ==
    /\ ctl = "select"
    /\ \/ stopped /\ LoopExits
       \/ /\ ~stopped /\ ~stopping
          /\ ctl' = "refresh" /\ act' = [NoAct EXCEPT !.origin = "tick"]
          /\ UNCHANGED action_pending
    /\ UNCHANGED <<flags, locks, belief, signal, adm, node, raft, trouble>>

\* refresh_sequencer_active: the node answers, or the call fails
RefreshAnswer ==
    /\ ctl = "refresh"
    /\ \/ /\ ctl' = "store" /\ act' = [act EXCEPT !.sample = node_active]
          /\ UNCHANGED <<healthy, trouble>>
       \/ /\ CallFails
          /\ ctl' = "acquire" /\ healthy' = "SequencerConnectionDown"
          /\ UNCHANGED act
    /\ UNCHANGED <<flags, locks, seq_active, previous, action_pending, signal,
                   adm, node, raft>>

\* Mutant of RefreshStore: only an active sequencer is noticed.
RefreshStoreSticky ==
    /\ ctl = "store"
    /\ seq_active' = (seq_active \/ act.sample)
    /\ ctl' = "health" /\ act' = [act EXCEPT !.sample = FALSE]
    /\ UNCHANGED <<flags, locks, healthy, previous, action_pending, signal,
                   adm, node, raft, trouble>>

\* ... and the answer is stored
RefreshStore ==
    /\ ctl = "store"
    /\ seq_active' = act.sample
    /\ ctl' = "health" /\ act' = [act EXCEPT !.sample = FALSE]
    /\ UNCHANGED <<flags, locks, healthy, previous, action_pending, signal,
                   adm, node, raft, trouble>>

\* check_health_at, then the store of update_health
CheckHealth ==
    /\ ctl = "health"
    /\ \/ healthy' = node_health /\ UNCHANGED trouble
       \/ CallFails /\ healthy' = "SequencerConnectionDown"
    /\ ctl' = "acquire"
    /\ UNCHANGED <<flags, locks, seq_active, previous, act, action_pending,
                   signal, adm, node, raft>>

----------------------------------------------------------------------------
(* action and action_locked.                                               *)

\* The loop's bookkeeping for an action or tick that returned Ok iff `ok'.
BackToSelect(ok) ==
    /\ ctl' = "select" /\ act' = NoAct
    /\ action_pending' = (~ok \/ (act.origin = "tick" /\ action_pending))

\* The end of action_locked: `previous' only moves when the action succeeded.
Return(ok, status) ==
    /\ previous' = IF ok THEN status ELSE previous
    /\ action_lock' = Free
    /\ BackToSelect(ok)

\* Paused or stopping: return Ok, without touching `previous'.
ActionSkipped ==
    /\ ctl = "acquire" /\ action_lock = Free
    /\ paused \/ stopping \/ stopped
    /\ BackToSelect(TRUE)
    /\ UNCHANGED <<flags, locks, belief, signal, adm, node, raft, trouble>>

\* Mutant of ActionBegins: only `paused' is re-read under action_lock.
ActionBeginsUnguarded ==
    /\ ctl = "acquire" /\ action_lock = Free
    /\ ~paused
    /\ action_lock' = Control
    /\ ctl' = "status"
    /\ act' = [act EXCEPT !.health = healthy,
                          !.status = [leader |-> raft_leader,
                                      healthy |-> is_healthy(healthy),
                                      active |-> FALSE]]
    /\ UNCHANGED <<flags, stop_lock, belief, action_pending, signal, adm, node,
                   raft, trouble>>

\* Take action_lock, pass the guard, read health and leadership.
ActionBegins ==
    /\ ctl = "acquire" /\ action_lock = Free
    /\ ~(paused \/ stopping \/ stopped)
    /\ action_lock' = Control
    /\ ctl' = "status"
    /\ act' = [act EXCEPT !.health = healthy,
                          !.status = [leader |-> raft_leader,
                                      healthy |-> is_healthy(healthy),
                                      active |-> FALSE]]
    /\ UNCHANGED <<flags, stop_lock, belief, action_pending, signal, adm, node,
                   raft, trouble>>

\* Mutant of should_wait_for_health_recovery: every kind of trouble is waited out.
should_wait_always(h) ==
    previous.leader /\ ~previous.healthy /\ ~previous.active

should_wait_for_health_recovery(h) ==
    /\ previous.leader /\ ~previous.healthy /\ ~previous.active
    /\ ~prevents_health_recovery_wait(h)

\* The match on (leader, healthy, active).
Decision(s, h) ==
    CASE ~s.leader /\ s.active -> "stop"
      [] s.leader /\ s.healthy /\ ~s.active -> "startPayload"
      [] s.leader /\ ~s.healthy /\ ~s.active ->
            IF ~previous.leader /\ ~previous.active /\ ~prevents_new_leader_start(h)
            THEN "startPayload" ELSE "transfer"
      [] s.leader /\ ~s.healthy /\ s.active ->
            IF should_wait_for_health_recovery(h) THEN "wait" ELSE "stop"
      [] OTHER -> "none"

\* Read seq_active and dispatch.
ActionDecides ==
    /\ ctl = "status"
    /\ LET s == [act.status EXCEPT !.active = seq_active]
           d == Decision(s, act.health)
       IN  \/ d = "none" /\ Return(TRUE, s)
           \/ d = "wait" /\ Return(FALSE, s)
           \/ /\ d \in Driving
              /\ ctl' = d /\ act' = [act EXCEPT !.status = s]
              /\ UNCHANGED <<previous, action_lock, action_pending>>
    /\ UNCHANGED <<flags, stop_lock, healthy, seq_active, signal, adm, node,
                   raft, trouble>>

\* stop_sequencer returned: a leader goes on to hand over (stop_and_transfer_
\* leader), a follower is done.
AfterStop(ok) ==
    IF act.status.leader
    THEN /\ ctl' = "transfer" /\ act' = [act EXCEPT !.stopped_ok = ok]
         /\ UNCHANGED <<previous, action_lock, action_pending>>
    ELSE Return(ok, act.status)

\* stop_sequencer: "already stopped" counts as stopped.  A call that fails may
\* still reach the node later.
StopSequencer ==
    /\ ctl = "stop"
    /\ \/ /\ node_active' = FALSE /\ seq_active' = FALSE
          /\ AfterStop(TRUE) /\ UNCHANGED <<late_stop, trouble>>
       \/ /\ CallFails /\ late_stop' \in {late_stop, TRUE}
          /\ AfterStop(FALSE) /\ UNCHANGED <<node_active, seq_active>>
    /\ UNCHANGED <<flags, stop_lock, healthy, signal, adm, node_head,
                   node_health, late_start, raft>>

\* transfer_leader_internal.  Ok means that Raft took the request: leadership
\* may stay.  The action succeeds when the stop before it did, too.
TransferLeader ==
    /\ ctl = "transfer"
    /\ \/ ~raft_leader /\ Return(act.stopped_ok, act.status)
          /\ UNCHANGED <<raft_leader, trouble>>
       \/ /\ raft_leader /\ raft_leader' = FALSE
          /\ Return(act.stopped_ok, act.status) /\ UNCHANGED trouble
       \/ /\ raft_leader /\ Trouble /\ UNCHANGED raft_leader
          /\ \E ok \in {FALSE, act.stopped_ok} : Return(ok, act.status)
    /\ UNCHANGED <<flags, stop_lock, healthy, seq_active, signal, adm, node, cons_head>>

----------------------------------------------------------------------------
(* start_sequencer: read the committed head, compare the node with it,     *)
(* repair or accept the node, start it.  Every read is a remote call, and  *)
(* what was read may be stale by the next one.                             *)

\* Mutant of StartGoesOn: the hash to start from is not carried along.
StartGoesOnHashless(pc, target, hash) ==
    /\ ctl' = pc /\ act' = [act EXCEPT !.target = target]
    /\ UNCHANGED <<previous, action_lock, action_pending>>

StartGoesOn(pc, target, hash) ==
    /\ ctl' = pc /\ act' = [act EXCEPT !.target = target, !.hash = hash]
    /\ UNCHANGED <<previous, action_lock, action_pending>>

\* An error ends the action, except that a new leader that is unhealthy hands
\* over instead.
StartFails ==
    IF act.status.healthy THEN Return(FALSE, act.status)
                          ELSE StartGoesOn("transfer", NoBlock, NoBlock)

StartUnchanged == UNCHANGED <<flags, stop_lock, healthy, signal, adm,
                              node_health, late_stop, raft>>

\* consensus.latest_unsafe_payload, NoUnsafeHead when there is none
StartPayload ==
    /\ ctl = "startPayload"
    /\ \/ cons_head # NoBlock /\ StartGoesOn("startHead", cons_head, NoBlock)
          /\ UNCHANGED trouble
       \/ cons_head = NoBlock /\ StartFails /\ UNCHANGED trouble
       \/ Trouble /\ StartFails
    /\ UNCHANGED <<seq_active, node_active, node_head, late_start>> /\ StartUnchanged

\* Mutant of StartCall: the parameterless start without the check before it.
StartCallUnchecked == "startBare"

\* Which call of sequencer.rs starts the node.
StartCall == IF StartMode = "Parameterless" THEN "startCheck" ELSE "startHash"

\* sequencer.latest_unsafe_block and the comparison with the committed head
StartHead ==
    LET t == act.target
        n == node_head
        behind == Number[t] > Number[n] /\ Number[t] - Number[n] <= RepairDepth
        ahead == Number[n] > Number[t]
    IN  /\ ctl = "startHead"
        /\ \/ /\ \/ n = t /\ StartGoesOn(StartCall, t, t)
                 \/ n # t /\ behind /\ StartGoesOn("startRepair", t, t)
                 \/ n # t /\ ahead /\ StartGoesOn("startAncestor", t, n)
                 \/ n # t /\ ~behind /\ ~ahead /\ StartFails
              /\ UNCHANGED trouble
           \/ CallFails /\ StartFails
        /\ UNCHANGED <<seq_active, node_active, node_head, late_start>>
        /\ StartUnchanged

\* The node can move its head to b.
NodeCanAdopt(b) == Reorgs \/ node_head \in Chain[b]

\* post_unsafe_payload: the node takes the payload and imports it now or later
StartRepair ==
    /\ ctl = "startRepair"
    /\ \/ /\ node_head' \in {node_head} \cup {b \in {act.target} : NodeCanAdopt(b)}
          /\ StartGoesOn(StartCall, act.target, act.hash) /\ UNCHANGED trouble
       \/ CallFails /\ StartFails /\ UNCHANGED node_head
    /\ UNCHANGED <<seq_active, node_active, late_start>> /\ StartUnchanged

\* Mutant of StartAncestor: any ahead head is trusted.
StartAncestorTrusting ==
    /\ ctl = "startAncestor"
    /\ StartGoesOn(StartCall, act.target, act.hash)
    /\ UNCHANGED <<seq_active, node_active, node_head, late_start, trouble>>
    /\ StartUnchanged

\* block_by_number(consensus_number): does the node's chain still hold the
\* committed head?
StartAncestor ==
    /\ ctl = "startAncestor"
    /\ LET n == Number[act.target]
           held == n <= Number[node_head] /\ BlockByNumber(node_head, n) = act.target
       IN  \/ held /\ StartGoesOn(StartCall, act.target, act.hash) /\ UNCHANGED trouble
           \/ ~held /\ StartFails /\ UNCHANGED trouble
           \/ CallFails /\ StartFails
    /\ UNCHANGED <<seq_active, node_active, node_head, late_start>> /\ StartUnchanged

\* The node's answer to a start command, given whether it lets it through.
\* "already started" counts as started.
NodeStarts(accepts) ==
    /\ \/ /\ node_active \/ accepts
          /\ node_active' = TRUE /\ seq_active' = TRUE
          /\ Return(TRUE, act.status) /\ UNCHANGED <<late_start, trouble>>
       \/ /\ ~node_active /\ ~accepts
          /\ StartFails /\ UNCHANGED <<node_active, seq_active, late_start, trouble>>
       \/ /\ CallFails /\ late_start' \in {late_start, late_start \cup {act.hash}}
          /\ StartFails /\ UNCHANGED <<node_active, seq_active>>
    /\ UNCHANGED node_head /\ StartUnchanged

\* start_sequencer_with_hash; "invalid params" is retried without the
\* parameter in mode Auto.
StartHash ==
    /\ ctl = "startHash"
    /\ \/ NodeTakesHash /\ NodeStarts(NodeEnforcesHash => node_head = act.hash)
       \/ /\ ~NodeTakesHash
          /\ IF StartMode = "Auto" THEN StartGoesOn("startCheck", act.target, act.hash)
                                   ELSE StartFails
          /\ UNCHANGED <<seq_active, node_active, node_head, late_start, trouble>>
          /\ StartUnchanged

\* start_parameterless_after_check: assert_latest_unsafe ...
StartCheck ==
    /\ ctl = "startCheck"
    /\ \/ node_head = act.hash /\ StartGoesOn("startBare", act.target, act.hash)
          /\ UNCHANGED trouble
       \/ node_head # act.hash /\ StartFails /\ UNCHANGED trouble
       \/ CallFails /\ StartFails
    /\ UNCHANGED <<seq_active, node_active, node_head, late_start>> /\ StartUnchanged

\* ... then start_sequencer_parameterless
StartBare == ctl = "startBare" /\ NodeStarts(TRUE)

StartSequencer == \/ StartPayload \/ StartHead \/ StartRepair \/ StartAncestor
                  \/ StartHash \/ StartCheck \/ StartBare

----------------------------------------------------------------------------
(* pause, resume and stop, called by the RPC server's tasks; stop also by  *)
(* the main task once the runtime has ended.                               *)

AdmMoves(t, pc) == adm' = [adm EXCEPT ![t] = [pc |-> pc, sample |-> FALSE]]

\* A call arrives.  pause and resume answer Err(Stopped) right away when the
\* conductor is stopped.
Call(t) ==
    /\ t \in Callers /\ Trouble /\ adm[t].pc = "idle"
    /\ \E pc \in {"pause", "resume", "stop"} :
        (stopped => pc = "stop") /\ AdmMoves(t, pc)
    /\ UNCHANGED <<flags, locks, belief, loop, signal, node, raft>>

\* Mutant of Pause: it does not wait for action_lock.
PauseAtOnce(t) ==
    /\ adm[t].pc = "pause"
    /\ paused' = TRUE
    /\ AdmMoves(t, "idle")
    /\ UNCHANGED <<stopping, stopped, locks, belief, loop, signal, node, raft, trouble>>

\* pause waits for the action in flight
Pause(t) ==
    /\ adm[t].pc = "pause" /\ action_lock = Free
    /\ paused' = TRUE
    /\ AdmMoves(t, "idle")
    /\ UNCHANGED <<stopping, stopped, locks, belief, loop, signal, node, raft, trouble>>

\* resume: the node is asked without a lock held ...
ResumeAnswer(t) ==
    /\ adm[t].pc = "resume"
    /\ \/ /\ adm' = [adm EXCEPT ![t] = [pc |-> "resumeStore", sample |-> node_active]]
          /\ UNCHANGED trouble
       \/ CallFails /\ AdmMoves(t, "idle")
    /\ UNCHANGED <<flags, locks, belief, loop, signal, node, raft>>

\* ... its answer is stored ...
ResumeStore(t) ==
    /\ adm[t].pc = "resumeStore"
    /\ seq_active' = adm[t].sample
    /\ AdmMoves(t, "resumeUnpause")
    /\ UNCHANGED <<flags, locks, healthy, previous, loop, signal, node, raft, trouble>>

\* ... and the control loop is let go and woken
ResumeUnpause(t) ==
    /\ adm[t].pc = "resumeUnpause"
    /\ paused' = FALSE /\ notified' = TRUE
    /\ AdmMoves(t, "idle")
    /\ UNCHANGED <<stopping, stopped, locks, belief, loop, watch_seen, node, raft, trouble>>

\* stop: under stop_lock, raise `stopping' ...
StopBegins(t) ==
    /\ adm[t].pc = "stop" /\ stop_lock = Free
    /\ \/ stopped /\ AdmMoves(t, "idle") /\ UNCHANGED <<stopping, stop_lock>>
       \/ /\ ~stopped /\ stopping' = TRUE /\ stop_lock' = t
          /\ AdmMoves(t, "stopLocking")
    /\ UNCHANGED <<paused, stopped, action_lock, belief, loop, signal, node, raft, trouble>>

\* ... wait for the action in flight ...
StopLocks(t) ==
    /\ adm[t].pc = "stopLocking" /\ action_lock = Free
    /\ action_lock' = t
    /\ AdmMoves(t, "stopShutdown")
    /\ UNCHANGED <<flags, stop_lock, belief, loop, signal, node, raft, trouble>>

\* Mutant of StopShutdown: an error leaves stop_lock taken.
StopShutdownStuck(t) ==
    /\ adm[t].pc = "stopShutdown"
    /\ \/ stopped' = TRUE /\ raft_leader' = FALSE /\ stop_lock' = Free /\ UNCHANGED trouble
       \/ Trouble /\ UNCHANGED <<stopped, raft_leader, stop_lock>>
    /\ action_lock' = Free
    /\ AdmMoves(t, "idle")
    /\ UNCHANGED <<paused, stopping, belief, loop, signal, node, cons_head>>

\* Mutant of StopShutdown: an error lowers `stopping' again.
StopShutdownReopens(t) ==
    /\ adm[t].pc = "stopShutdown"
    /\ \/ /\ stopped' = TRUE /\ raft_leader' = FALSE /\ UNCHANGED <<stopping, trouble>>
       \/ Trouble /\ stopping' = FALSE /\ UNCHANGED <<stopped, raft_leader>>
    /\ action_lock' = Free /\ stop_lock' = Free
    /\ AdmMoves(t, "idle")
    /\ UNCHANGED <<paused, belief, loop, signal, node, cons_head>>

\* ... and shut Raft down.  An error leaves `stopping' raised.
StopShutdown(t) ==
    /\ adm[t].pc = "stopShutdown"
    /\ \/ stopped' = TRUE /\ raft_leader' = FALSE /\ UNCHANGED trouble
       \/ Trouble /\ UNCHANGED <<stopped, raft_leader>>
    /\ action_lock' = Free /\ stop_lock' = Free
    /\ AdmMoves(t, "idle")
    /\ UNCHANGED <<paused, stopping, belief, loop, signal, node, cons_head>>

\* The caller disconnects while its call waits: the server drops the call and
\* with it the locks it holds.
CallDropped(t) ==
    /\ t \in Callers /\ Trouble
    /\ adm[t].pc \in {"pause", "resume", "stop", "stopLocking", "stopShutdown"}
    /\ AdmMoves(t, "idle")
    /\ action_lock' = IF action_lock = t THEN Free ELSE action_lock
    /\ stop_lock' = IF stop_lock = t THEN Free ELSE stop_lock
    /\ UNCHANGED <<flags, belief, loop, signal, node, raft>>

Admin(t) == \/ Pause(t) \/ ResumeAnswer(t) \/ ResumeStore(t) \/ ResumeUnpause(t)
            \/ StopBegins(t) \/ StopLocks(t) \/ StopShutdown(t)

----------------------------------------------------------------------------
(* The leader watch, the end of the runtime, a crash.                      *)

\* run_leader_watch
LeaderWatch ==
    /\ ctl # "exited" /\ ~stopped /\ raft_leader # watch_seen
    /\ watch_seen' = raft_leader /\ notified' = TRUE
    /\ UNCHANGED <<flags, locks, belief, loop, adm, node, raft, trouble>>

\* A branch of main's select! ends (a signal, a server, stop()): the control
\* loop is dropped wherever it waits, and the main task calls stop().
RuntimeExit ==
    /\ ctl # "exited"
    /\ IF stopped THEN UNCHANGED trouble ELSE Trouble
    /\ ctl' = "exited" /\ act' = NoAct
    /\ action_lock' = IF action_lock = Control THEN Free ELSE action_lock
    /\ AdmMoves(Main, "stop")
    /\ UNCHANGED <<flags, stop_lock, belief, action_pending, signal, node, raft>>

\* The process dies, or exits, and is started again.
Restart ==
    /\ Trouble
    /\ paused' \in BOOLEAN /\ stopping' = FALSE /\ stopped' = FALSE
    /\ action_lock' = Free /\ stop_lock' = Free
    /\ healthy' = "Healthy" /\ seq_active' = node_active
    /\ raft_leader' = FALSE
    /\ previous' = [leader |-> FALSE, healthy |-> TRUE, active |-> node_active]
    /\ ctl' = "select" /\ act' = NoAct /\ action_pending' = TRUE
    /\ notified' = FALSE /\ watch_seen' = FALSE
    /\ adm' = [t \in Tasks |-> [pc |-> "idle", sample |-> FALSE]]
    /\ UNCHANGED <<node, cons_head>>

----------------------------------------------------------------------------
(* What happens around the conductor (external).                           *)

EnvUnchanged == UNCHANGED <<flags, locks, belief, loop, signal, adm>>

\* An election, or a transfer that another server asked for.
LeadershipChanges ==
    /\ Trouble /\ ~stopped
    /\ raft_leader' = ~raft_leader
    /\ UNCHANGED <<node, cons_head>> /\ EnvUnchanged

\* A payload committed by whichever server leads is applied here: apply keeps
\* the one with the higher number.
PayloadApplied(b) ==
    /\ Trouble
    /\ cons_head # NoBlock => Number[b] > Number[cons_head]
    /\ cons_head' = b
    /\ UNCHANGED <<node, raft_leader>> /\ EnvUnchanged

\* An operator or a restart of the node starts or stops the sequencer.
NodeToggled ==
    /\ Trouble
    /\ node_active' = ~node_active
    /\ UNCHANGED <<node_head, node_health, late, raft>> /\ EnvUnchanged

NodeHealthChanges(h) ==
    /\ Trouble
    /\ node_health' = h
    /\ UNCHANGED <<node_active, node_head, late, raft>> /\ EnvUnchanged

\* The node builds or imports a block.
NodeAdvances(b) ==
    /\ b \in Children(node_head)
    /\ node_head' = b
    /\ UNCHANGED <<node_active, node_health, late, raft, trouble>> /\ EnvUnchanged

NodeReorgs(b) ==
    /\ Reorgs /\ Trouble
    /\ node_head' = b
    /\ UNCHANGED <<node_active, node_health, late, raft>> /\ EnvUnchanged

\* A command the conductor gave up on is executed after all.
LateStop ==
    /\ late_stop
    /\ late_stop' = FALSE /\ node_active' = FALSE
    /\ UNCHANGED <<node_head, node_health, late_start, raft, trouble>> /\ EnvUnchanged

LateStart(b) ==
    /\ b \in late_start
    /\ late_start' = late_start \ {b}
    /\ node_active' = (\/ node_active
                       \/ StartMode = "Parameterless" \/ ~NodeTakesHash
                       \/ NodeEnforcesHash => node_head = b)
    /\ UNCHANGED <<node_head, node_health, late_stop, raft, trouble>> /\ EnvUnchanged

Environment ==
    \/ LeadershipChanges \/ NodeToggled \/ LateStop
    \/ \E h \in NodeHealths : NodeHealthChanges(h)
    \/ \E b \in Blocks : PayloadApplied(b) \/ NodeAdvances(b) \/ NodeReorgs(b)
                         \/ LateStart(b)

Next ==
    \/ ActionQueued \/ ActionRetry \/ Tick
    \/ RefreshAnswer \/ RefreshStore \/ CheckHealth
    \/ ActionSkipped \/ ActionBegins \/ ActionDecides
    \/ StopSequencer \/ TransferLeader \/ StartSequencer
    \/ \E t \in Tasks : Admin(t) \/ Call(t) \/ CallDropped(t)
    \/ LeaderWatch \/ RuntimeExit \/ Restart
    \/ Environment

Spec == Init /\ [][Next]_vars

----------------------------------------------------------------------------
(* Safety.                                                                 *)

(***************************************************************************)
(* Once pause() has returned, no sequencer command and no leadership       *)
(* transfer of this conductor is in flight or starts: pause() waits for    *)
(* action_lock, and action_locked re-reads `paused' under it.              *)
(***************************************************************************)
PauseQuiesces == paused => ctl \notin Driving

(***************************************************************************)
(* Raft is shut down under an idle control loop only: stop() takes         *)
(* action_lock before consensus.shutdown(), and from then on the guard of  *)
(* action_locked keeps every later action out.                             *)
(***************************************************************************)
ShutdownQuiesces ==
    (stopped \/ \E t \in Tasks : adm[t].pc = "stopShutdown") => ctl \notin Driving

(***************************************************************************)
(* The two mutexes are held by the task whose program point says so: no    *)
(* early return, error path, dropped call or dropped control loop leaves   *)
(* action_lock or stop_lock behind, and none releases another task's.      *)
(***************************************************************************)
LocksOwned ==
    /\ ctl \in Driving <=> action_lock = Control
    /\ \A t \in Tasks :
        /\ adm[t].pc = "stopShutdown" <=> action_lock = t
        /\ adm[t].pc \in {"stopLocking", "stopShutdown"} <=> stop_lock = t

\* The gate that an operator sees: an action is in flight, and Raft is being
\* shut down, where the program points say so.
Gate == INSTANCE ControlGate
            WITH driving <- ctl \in Driving,
                 closing <- \E t \in Tasks : adm[t].pc = "stopShutdown"

(***************************************************************************)
(* pause, resume, stop and action_locked together implement the gate of    *)
(* ControlGate, in every life of the process: no action begins while       *)
(* paused, nor ever again once stop() has raised `stopping', even when the *)
(* shutdown then fails or its caller leaves; pause() and the shutdown wait *)
(* for the action in flight; one stop() at a time shuts down, and nothing  *)
(* else stops the conductor.                                               *)
(***************************************************************************)
RefinesControlGate ==
    Gate!Init /\ [][(Restart /\ Gate!Init') \/ [Gate!Next]_Gate!vars]_vars

(***************************************************************************)
(* start_sequencer only ever asks for a head that is the committed unsafe  *)
(* head it read, or descends from it, provided that the node does not      *)
(* leave its chain between two calls.                                      *)
(***************************************************************************)
StartHashDescends ==
    ctl \in {"startHash", "startCheck", "startBare"} => Descends(act.hash, act.target)

(***************************************************************************)
(* A node that the conductor's start command sets going builds on the      *)
(* committed unsafe head the conductor read.                               *)
(***************************************************************************)
StartsOnCommittedHead ==
    [][ (ctl \in {"startHash", "startBare"} /\ ctl' = "select"
         /\ ~node_active /\ node_active')
        => Descends(node_head, act.target) ]_vars

----------------------------------------------------------------------------
(* Liveness.                                                               *)

ControlSteps == \/ RefreshAnswer \/ RefreshStore \/ CheckHealth
                \/ ActionSkipped \/ ActionBegins \/ ActionDecides
                \/ StopSequencer \/ TransferLeader \/ StartSequencer

(***************************************************************************)
(* Remote calls return (they time out), a started call or control step     *)
(* goes on, and the node goes on importing blocks.  select! polls its      *)
(* branches in random order, so a tick that is due is taken some time      *)
(* even when the other branches are ready again and again.                 *)
(***************************************************************************)
Fairness ==
    /\ WF_vars(ControlSteps) /\ SF_vars(Tick)
    /\ \A t \in Tasks : WF_vars(Admin(t))
    /\ WF_vars(\E b \in Blocks : NodeAdvances(b))

FairSpec == Spec /\ Fairness

\* The conductor is not in charge of the node.
Off == paused \/ stopping \/ ctl = "exited"

\* There is a committed head, and the node is on a chain with it and close
\* enough to be repaired.
Startable ==
    /\ cons_head # NoBlock
    /\ \/ Descends(node_head, cons_head)
       \/ /\ Descends(cons_head, node_head)
          /\ Number[cons_head] - Number[node_head] <= RepairDepth

\* The node's state is what leadership and health ask for, and is known.
InSync ==
    /\ seq_active = node_active
    /\ IF raft_leader THEN is_healthy(node_health) /\ Startable => node_active
                      ELSE ~node_active

(***************************************************************************)
(* When the trouble is over and the node can be reached, the conductor     *)
(* brings the node in line for good: a follower's sequencer ends up        *)
(* stopped, a healthy leader's ends up started, whatever stale answers,    *)
(* failed calls and late commands came before.                             *)
(***************************************************************************)
Converges ==
    <>[](Off \/ node_health = "SequencerConnectionDown" \/ InSync)

(***************************************************************************)
(* An unhealthy leader does not sit on the leadership: in the end it has   *)
(* handed over, or it is sequencing and waits for its own recovery after   *)
(* having started as an unhealthy new leader, which an unreachable node or *)
(* a partially healthy rollup-boost never justifies.                       *)
(***************************************************************************)
UnhealthyLeaderHandsOver ==
    <>[](\/ Off \/ ~raft_leader \/ is_healthy(node_health)
         \/ /\ ~prevents_health_recovery_wait(node_health)
            /\ node_active
            /\ previous = [leader |-> TRUE, healthy |-> FALSE, active |-> FALSE])

(***************************************************************************)
(* tokio's mutexes are granted in the order of the requests: a call that   *)
(* waits for action_lock gets it although the control loop keeps coming    *)
(* back for it.                                                            *)
(***************************************************************************)
LockFairness ==
    /\ WF_vars(ControlSteps) /\ \A t \in Tasks : WF_vars(Admin(t))
    /\ \A t \in Callers : SF_vars(Pause(t) \/ StopLocks(t))

(***************************************************************************)
(* pause, resume and stop return: stop() takes stop_lock before            *)
(* action_lock, actions never wait for stop_lock, and failed or dropped    *)
(* calls release what they hold.                                           *)
(***************************************************************************)
CallsReturn ==
    LockFairness => \A t \in Callers : adm[t].pc # "idle" ~> adm[t].pc = "idle"

(***************************************************************************)
(* The watch channel and the retry timer alone, without a single tick.     *)
(***************************************************************************)
WakeFairness ==
    /\ WF_vars(ControlSteps) /\ WF_vars(LeaderWatch)
    /\ SF_vars(ActionQueued) /\ SF_vars(ActionRetry)

(***************************************************************************)
(* No leadership change is lost between run_leader_watch, queue_action     *)
(* and the control loop: unless it is reverted first, an action that sees  *)
(* the new leadership runs.                                                *)
(***************************************************************************)
LeadershipActedUpon ==
    WakeFairness =>
        \A b \in BOOLEAN :
            (raft_leader = b /\ watch_seen # b)
                ~> (Off \/ raft_leader # b \/ (ctl = "status" /\ act.status.leader = b))
============================================================================
