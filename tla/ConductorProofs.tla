-------------------------- MODULE ConductorProofs --------------------------
(***************************************************************************)
(* Theorems about Conductor for every block tree, every set of callers,    *)
(* every start mode and every amount of trouble.                           *)
(***************************************************************************)
EXTENDS Conductor, TLAPS

\* Program points at which the committed head, and the hash to start from,
\* have been read.
HasTarget == {"startHead", "startRepair", "startAncestor",
              "startHash", "startCheck", "startBare"}
HasHash == HasTarget \ {"startHead"}

(***************************************************************************)
(* What the locals of start_sequencer hold: without it the type of a       *)
(* timed-out start command is not inductive.                               *)
(***************************************************************************)
StartLocals ==
    /\ ctl \in HasTarget => act.target \in Blocks
    /\ ctl \in HasHash => act.hash \in Blocks

\* The main task calls stop() only after it has dropped the control loop.
MainIdle == ctl # "exited" => adm[Main].pc = "idle"

(***************************************************************************)
(* The inductive invariant.  PauseQuiesces and ShutdownQuiesces are not    *)
(* inductive alone: what keeps an action out is the owner of action_lock.  *)
(***************************************************************************)
IInv == /\ TypeOK /\ LocksOwned /\ StartLocals /\ MainIdle
        /\ PauseQuiesces /\ ShutdownQuiesces

\* What every step of an action in flight leaves behind in the control loop.
CtlStep ==
    /\ previous' \in State /\ ctl' \in CtlPC /\ act' \in Act
    /\ action_pending' \in BOOLEAN
    /\ action_lock' = IF ctl' \in Driving THEN Control ELSE Free
    /\ StartLocals'

----------------------------------------------------------------------------
(* Types of the pieces that actions are made of.                           *)

\* The locals of an idle control loop are well typed, whichever branch of
\* select! sets them.
LEMMA NoActType ==
    /\ NoAct \in Act
    /\ \A o \in {"retry", "tick"} : [NoAct EXCEPT !.origin = o] \in Act
  <1>1. NoAct \in Act
    BY Zenon DEF NoAct, Act, State, Health
  <1> QED
    BY Zenon, <1>1 DEF Act

\* A failing call costs trouble at most once, and never beyond the bound.
LEMMA TroubleType ==
    ASSUME TypeOK, UNCHANGED trouble \/ Trouble \/ CallFails
    PROVE  trouble' \in 0 .. MaxTrouble
  BY ConductorAssumption DEF TypeOK, Trouble, CallFails

\* The end of action_locked, successful or not, leaves an idle control loop
\* and releases action_lock.
LEMMA ReturnStep ==
    ASSUME TypeOK, NEW ok \in BOOLEAN, NEW s \in State, Return(ok, s)
    PROVE  CtlStep
  <1>1. previous' \in State
    BY Zenon DEF Return, TypeOK
  <1>2. action_pending' \in BOOLEAN
    BY Zenon DEF Return, BackToSelect, TypeOK
  <1>3. ctl' = "select" /\ act' \in Act /\ action_lock' = Free
    BY Zenon, NoActType DEF Return, BackToSelect
  <1> QED
    BY Zenon, <1>1, <1>2, <1>3 DEF CtlStep, CtlPC, Driving, StartLocals, HasTarget, HasHash

\* Going on inside start_sequencer keeps action_lock and well-typed locals.
LEMMA GoesOnStep ==
    ASSUME TypeOK, action_lock = Control, NEW pc \in Driving,
           NEW t \in Blocks \cup {NoBlock}, NEW h \in Blocks \cup {NoBlock},
           pc \in HasTarget => t \in Blocks, pc \in HasHash => h \in Blocks,
           StartGoesOn(pc, t, h)
    PROVE  CtlStep
  <1>1. act' \in Act /\ act'.target = t /\ act'.hash = h
    BY ZenonT(60) DEF StartGoesOn, TypeOK, Act
  <1>2. ctl' = pc /\ action_lock' = Control
    BY Zenon DEF StartGoesOn
  <1>3. previous' \in State /\ action_pending' \in BOOLEAN
    BY Zenon DEF StartGoesOn, TypeOK
  <1> QED
    BY Zenon, <1>1, <1>2, <1>3 DEF CtlStep, CtlPC, StartLocals

\* A start that fails returns or goes on to hand over.
LEMMA FailsStep ==
    ASSUME TypeOK, action_lock = Control, StartFails
    PROVE  CtlStep
  <1>1. act.status \in State
    BY Zenon DEF TypeOK, Act
  <1>2. CASE Return(FALSE, act.status)
    BY ZenonT(60), <1>1, <1>2, ReturnStep
  <1>3. CASE StartGoesOn("transfer", NoBlock, NoBlock)
    BY Zenon, <1>3, GoesOnStep DEF Driving, HasTarget, HasHash
  <1> QED
    BY ZenonT(60), <1>2, <1>3 DEF StartFails

----------------------------------------------------------------------------
(* Steps of an action in flight.                                           *)

\* Whatever an action in flight does, the invariant only depends on what it
\* leaves in the control loop: it holds action_lock, so no pause() or stop()
\* got past it.
LEMMA DrivingStep ==
    ASSUME IInv, ctl \in Driving, CtlStep,
           UNCHANGED <<flags, stop_lock, healthy, signal, adm, node_health, cons_head>>,
           seq_active' \in BOOLEAN, node_active' \in BOOLEAN, node_head' \in Blocks,
           late_stop' \in BOOLEAN, late_start' \in SUBSET Blocks,
           raft_leader' \in BOOLEAN, trouble' \in 0 .. MaxTrouble
    PROVE  IInv'
  <1>1. action_lock' \in {Control, Free} /\ (ctl' \in Driving <=> action_lock' = Control)
    BY Zenon, ConductorAssumption DEF CtlStep
  <1>2. TypeOK'
    BY Zenon, <1>1 DEF CtlStep, IInv, TypeOK, flags, signal
  <1>3. LocksOwned'
    BY Zenon, <1>1, ConductorAssumption DEF IInv, LocksOwned, Tasks
  <1>4. PauseQuiesces' /\ ShutdownQuiesces' /\ MainIdle'
    BY Zenon DEF IInv, PauseQuiesces, ShutdownQuiesces, MainIdle, flags, Driving
  <1> QED
    BY Zenon, <1>2, <1>3, <1>4 DEF CtlStep, IInv

\* action_locked's dispatch on (leader, healthy, active).
LEMMA DecidesStep == IInv /\ ActionDecides => IInv'
  <1> SUFFICES ASSUME IInv, ActionDecides PROVE IInv'
    OBVIOUS
  <1> DEFINE s == [act.status EXCEPT !.active = seq_active]
             d == Decision(s, act.health)
  <1>1. ctl \in Driving /\ action_lock = Control
    BY Zenon DEF ActionDecides, IInv, LocksOwned, Driving
  <1>2. s \in State
    BY Zenon DEF IInv, TypeOK, Act, State
  <1>3. CtlStep
    <2>1. CASE d = "none" /\ Return(TRUE, s)
      BY ZenonT(60), <2>1, <1>2, ReturnStep DEF IInv
    <2>2. CASE d = "wait" /\ Return(FALSE, s)
      BY ZenonT(60), <2>2, <1>2, ReturnStep DEF IInv
    <2>3. CASE /\ d \in Driving /\ ctl' = d /\ act' = [act EXCEPT !.status = s]
               /\ UNCHANGED <<previous, action_lock, action_pending>>
      <3>1. act' \in Act
        BY Zenon, <2>3, <1>2 DEF IInv, TypeOK, Act
      <3>2. ctl' \notin HasTarget
        BY Zenon, <2>3 DEF Decision, HasTarget
      <3>3. previous' \in State /\ action_pending' \in BOOLEAN
        BY Zenon, <2>3 DEF IInv, TypeOK
      <3> QED
        BY Zenon, <2>3, <3>1, <3>2, <3>3, <1>1 DEF CtlStep, StartLocals, HasHash, CtlPC
    <2> QED
      BY ZenonT(60), <2>1, <2>2, <2>3 DEF ActionDecides
  <1>4. UNCHANGED <<flags, stop_lock, healthy, seq_active, signal, adm, node, raft, trouble>>
    BY Zenon DEF ActionDecides
  <1> QED
    BY Zenon, <1>1, <1>3, <1>4, DrivingStep DEF IInv, TypeOK, node, late, raft

\* stop_sequencer, and what stop_and_transfer_leader does after it.
LEMMA StopStep == IInv /\ StopSequencer => IInv'
  <1> SUFFICES ASSUME IInv, StopSequencer PROVE IInv'
    OBVIOUS
  <1>1. ctl \in Driving /\ action_lock = Control /\ act.status \in State
    BY Zenon DEF StopSequencer, IInv, LocksOwned, Driving, TypeOK, Act
  <1>2. ASSUME NEW ok \in BOOLEAN, AfterStop(ok) PROVE CtlStep
    <2>1. CASE Return(ok, act.status)
      BY Zenon, <2>1, <1>1, ReturnStep DEF IInv
    <2>2. CASE /\ ctl' = "transfer" /\ act' = [act EXCEPT !.stopped_ok = ok]
               /\ UNCHANGED <<previous, action_lock, action_pending>>
      <3>1. act' \in Act
        BY Zenon, <2>2 DEF IInv, TypeOK, Act
      <3>2. previous' \in State /\ action_pending' \in BOOLEAN
        BY Zenon, <2>2 DEF IInv, TypeOK
      <3> QED
        BY Zenon, <2>2, <3>1, <3>2, <1>1
        DEF CtlStep, StartLocals, HasTarget, HasHash, CtlPC, Driving
    <2> QED
      BY Zenon, <1>2, <2>1, <2>2 DEF AfterStop
  <1>3. CtlStep
    BY ZenonT(60), <1>2 DEF StopSequencer
  <1>4. trouble' \in 0 .. MaxTrouble
    BY ZenonT(60), TroubleType DEF StopSequencer, IInv
  <1>5. node_active' \in BOOLEAN /\ seq_active' \in BOOLEAN
    BY ZenonT(60) DEF StopSequencer, IInv, TypeOK
  <1>6. late_stop' \in BOOLEAN
    BY ZenonT(60) DEF StopSequencer, IInv, TypeOK
  <1>7. UNCHANGED <<flags, stop_lock, healthy, signal, adm, node_head, node_health,
                    late_start, raft>>
    BY Zenon DEF StopSequencer
  <1> QED
    BY Zenon, <1>1, <1>3, <1>4, <1>5, <1>6, <1>7, DrivingStep DEF IInv, TypeOK, raft

\* transfer_leader_internal.
LEMMA TransferStep == IInv /\ TransferLeader => IInv'
  <1> SUFFICES ASSUME IInv, TransferLeader PROVE IInv'
    OBVIOUS
  <1>1. ctl \in Driving /\ act.status \in State /\ act.stopped_ok \in BOOLEAN
    BY Zenon DEF TransferLeader, IInv, Driving, TypeOK, Act
  <1>2. CtlStep
    <2>1. \E ok \in BOOLEAN : Return(ok, act.status)
      BY ZenonT(60), <1>1 DEF TransferLeader
    <2> QED
      BY Zenon, <1>1, <2>1, ReturnStep DEF IInv
  <1>3. trouble' \in 0 .. MaxTrouble
    BY ZenonT(60), TroubleType DEF TransferLeader, IInv
  <1>4. raft_leader' \in BOOLEAN
    BY ZenonT(60) DEF TransferLeader, IInv, TypeOK
  <1>5. UNCHANGED <<flags, stop_lock, healthy, seq_active, signal, adm, node, cons_head>>
    BY Zenon DEF TransferLeader
  <1> QED
    BY Zenon, <1>1, <1>2, <1>3, <1>4, <1>5, DrivingStep DEF IInv, TypeOK, node, late

\* start_sequencer: the committed head.
LEMMA PayloadStep == IInv /\ StartPayload => IInv'
  <1> SUFFICES ASSUME IInv, StartPayload PROVE IInv'
    OBVIOUS
  <1>1. ctl \in Driving /\ action_lock = Control
    BY Zenon DEF StartPayload, IInv, LocksOwned, Driving
  <1>2. CtlStep
    <2>1. CASE StartFails
      BY Zenon, <2>1, <1>1, FailsStep DEF IInv
    <2>2. CASE cons_head # NoBlock /\ StartGoesOn("startHead", cons_head, NoBlock)
      <3>1. cons_head \in Blocks
        BY Zenon, <2>2 DEF IInv, TypeOK
      <3> QED
        BY Zenon, <2>2, <3>1, <1>1, GoesOnStep DEF IInv, Driving, HasTarget, HasHash
    <2> QED
      BY Zenon, <2>1, <2>2 DEF StartPayload
  <1>3. trouble' \in 0 .. MaxTrouble
    BY Zenon, TroubleType DEF StartPayload, IInv
  <1>4. UNCHANGED <<seq_active, node_active, node_head, late_start>> /\ StartUnchanged
    BY Zenon DEF StartPayload
  <1> QED
    BY Zenon, <1>1, <1>2, <1>3, <1>4, DrivingStep DEF IInv, TypeOK, StartUnchanged, raft

\* start_sequencer: the comparison with the node's head.
LEMMA HeadStep == IInv /\ StartHead => IInv'
  <1> SUFFICES ASSUME IInv, StartHead PROVE IInv'
    OBVIOUS
  <1>1. ctl \in Driving /\ action_lock = Control
    BY Zenon DEF StartHead, IInv, LocksOwned, Driving
  <1>2. act.target \in Blocks /\ node_head \in Blocks
    BY Zenon DEF StartHead, IInv, StartLocals, HasTarget, TypeOK
  <1>3. CtlStep
    <2>1. CASE StartFails
      BY Zenon, <2>1, <1>1, FailsStep DEF IInv
    <2>2. CASE \E pc \in {StartCall, "startRepair", "startAncestor"},
                 h \in {act.target, node_head} : StartGoesOn(pc, act.target, h)
      BY Zenon, <2>2, <1>1, <1>2, GoesOnStep DEF IInv, Driving, StartCall
    <2> QED
      BY Zenon, <2>1, <2>2 DEF StartHead
  <1>4. trouble' \in 0 .. MaxTrouble
    BY Zenon, TroubleType DEF StartHead, IInv
  <1>5. UNCHANGED <<seq_active, node_active, node_head, late_start>> /\ StartUnchanged
    BY Zenon DEF StartHead
  <1> QED
    BY Zenon, <1>1, <1>3, <1>4, <1>5, DrivingStep DEF IInv, TypeOK, StartUnchanged, raft

\* start_sequencer: the repair payload.
LEMMA RepairStep == IInv /\ StartRepair => IInv'
  <1> SUFFICES ASSUME IInv, StartRepair PROVE IInv'
    OBVIOUS
  <1>1. ctl \in Driving /\ action_lock = Control
    BY Zenon DEF StartRepair, IInv, LocksOwned, Driving
  <1>2. act.target \in Blocks /\ act.hash \in Blocks
    BY Zenon DEF StartRepair, IInv, StartLocals, HasTarget, HasHash
  <1>3. CtlStep
    <2>1. CASE StartFails
      BY Zenon, <2>1, <1>1, FailsStep DEF IInv
    <2>2. CASE StartGoesOn(StartCall, act.target, act.hash)
      BY Zenon, <2>2, <1>1, <1>2, GoesOnStep DEF IInv, Driving, StartCall
    <2> QED
      BY Zenon, <2>1, <2>2 DEF StartRepair
  <1>4. trouble' \in 0 .. MaxTrouble
    BY Zenon, TroubleType DEF StartRepair, IInv
  <1>5. node_head' \in Blocks
    BY Zenon, <1>2 DEF StartRepair, IInv, TypeOK
  <1>6. UNCHANGED <<seq_active, node_active, late_start>> /\ StartUnchanged
    BY Zenon DEF StartRepair
  <1> QED
    BY Zenon, <1>1, <1>3, <1>4, <1>5, <1>6, DrivingStep DEF IInv, TypeOK, StartUnchanged, raft

\* start_sequencer: is the committed head still on the node's chain?
LEMMA AncestorStep == IInv /\ StartAncestor => IInv'
  <1> SUFFICES ASSUME IInv, StartAncestor PROVE IInv'
    OBVIOUS
  <1>1. ctl \in Driving /\ action_lock = Control
    BY Zenon DEF StartAncestor, IInv, LocksOwned, Driving
  <1>2. act.target \in Blocks /\ act.hash \in Blocks
    BY Zenon DEF StartAncestor, IInv, StartLocals, HasTarget, HasHash
  <1>3. CtlStep
    <2>1. CASE StartFails
      BY Zenon, <2>1, <1>1, FailsStep DEF IInv
    <2>2. CASE StartGoesOn(StartCall, act.target, act.hash)
      BY Zenon, <2>2, <1>1, <1>2, GoesOnStep DEF IInv, Driving, StartCall
    <2> QED
      BY Zenon, <2>1, <2>2 DEF StartAncestor
  <1>4. trouble' \in 0 .. MaxTrouble
    BY Zenon, TroubleType DEF StartAncestor, IInv
  <1>5. UNCHANGED <<seq_active, node_active, node_head, late_start>> /\ StartUnchanged
    BY Zenon DEF StartAncestor
  <1> QED
    BY Zenon, <1>1, <1>3, <1>4, <1>5, DrivingStep DEF IInv, TypeOK, StartUnchanged, raft

\* A start command, whatever the node makes of it.
LEMMA NodeStartsStep ==
    ASSUME IInv, ctl \in {"startHash", "startBare"}, NEW accepts \in BOOLEAN,
           NodeStarts(accepts)
    PROVE  IInv'
  <1>1. ctl \in Driving /\ action_lock = Control /\ act.status \in State
    BY Zenon DEF IInv, LocksOwned, Driving, TypeOK, Act
  <1>2. act.hash \in Blocks
    BY Zenon DEF IInv, StartLocals, HasTarget, HasHash
  <1>3. CtlStep
    BY ZenonT(60), <1>1, FailsStep, ReturnStep DEF IInv, NodeStarts
  <1>4. trouble' \in 0 .. MaxTrouble
    BY ZenonT(60), TroubleType DEF NodeStarts, IInv
  <1>5. node_active' \in BOOLEAN /\ seq_active' \in BOOLEAN
    BY ZenonT(60) DEF NodeStarts, IInv, TypeOK
  <1>6. late_start' \in SUBSET Blocks
    BY ZenonT(60), <1>2 DEF NodeStarts, IInv, TypeOK
  <1>7. UNCHANGED node_head /\ StartUnchanged
    BY Zenon DEF NodeStarts
  <1> QED
    BY Zenon, <1>1, <1>3, <1>4, <1>5, <1>6, <1>7, DrivingStep
    DEF IInv, TypeOK, StartUnchanged, raft

\* sequencer.rs: the three ways to start.
LEMMA StartCallStep == IInv /\ (StartHash \/ StartCheck \/ StartBare) => IInv'
  <1>1. ASSUME IInv, StartBare PROVE IInv'
    BY ZenonT(60), <1>1, NodeStartsStep DEF StartBare
  <1>2. ASSUME IInv, StartHash, NodeTakesHash PROVE IInv'
    <2>1. (NodeEnforcesHash => node_head = act.hash) \in BOOLEAN
      OBVIOUS
    <2> QED
      BY ZenonT(60), <1>2, <2>1, NodeStartsStep DEF StartHash
  <1>3. ASSUME IInv, ctl \in {"startHash", "startCheck"},
               \/ \E pc \in {"startCheck", "startBare"} : StartGoesOn(pc, act.target, act.hash)
               \/ StartFails,
               trouble' \in 0 .. MaxTrouble,
               UNCHANGED <<seq_active, node_active, node_head, late_start>>,
               StartUnchanged
        PROVE  IInv'
    <2>1. ctl \in Driving /\ action_lock = Control
      BY Zenon, <1>3 DEF IInv, LocksOwned, Driving
    <2>2. act.target \in Blocks /\ act.hash \in Blocks
      BY Zenon, <1>3 DEF IInv, StartLocals, HasTarget, HasHash
    <2>3. CASE StartFails
      BY Zenon, <2>3, <2>1, <1>3, FailsStep, DrivingStep DEF IInv, TypeOK, StartUnchanged, raft
    <2>4. ASSUME NEW pc \in {"startCheck", "startBare"},
                 StartGoesOn(pc, act.target, act.hash)
          PROVE  IInv'
      <3>1. CtlStep
        BY Zenon, <2>4, <2>1, <2>2, <1>3, GoesOnStep DEF IInv, Driving
      <3> QED
        BY Zenon, <3>1, <2>1, <1>3, DrivingStep DEF IInv, TypeOK, StartUnchanged, raft
    <2> QED
      BY Zenon, <1>3, <2>3, <2>4
  <1>4. ASSUME IInv, StartHash, ~NodeTakesHash PROVE IInv'
    <2>1. trouble' \in 0 .. MaxTrouble
      BY Zenon, <1>4, TroubleType DEF StartHash, IInv
    <2> QED
      BY Zenon, <1>4, <2>1, <1>3 DEF StartHash
  <1>5. ASSUME IInv, StartCheck PROVE IInv'
    <2>1. trouble' \in 0 .. MaxTrouble
      BY Zenon, <1>5, TroubleType DEF StartCheck, IInv
    <2> QED
      BY Zenon, <1>5, <2>1, <1>3 DEF StartCheck
  <1> QED
    BY Zenon, <1>1, <1>2, <1>4, <1>5

----------------------------------------------------------------------------
(* Steps of the control loop between actions.                              *)

\* Outside an action the control loop moves without touching the locks.
LEMMA IdleStep ==
    ASSUME IInv, ctl \notin Driving, ctl' \in CtlPC \ Driving, act' \in Act,
           action_pending' \in BOOLEAN, notified' \in BOOLEAN, healthy' \in Health,
           seq_active' \in BOOLEAN, trouble' \in 0 .. MaxTrouble,
           ctl # "exited", UNCHANGED <<flags, locks, previous, watch_seen, adm, node, raft>>
    PROVE  IInv'
  <1>1. TypeOK'
    BY SMTT(60) DEF IInv, TypeOK, flags, locks, node, late, raft
  <1>2. LocksOwned'
    BY Zenon DEF IInv, LocksOwned, locks
  <1>3. StartLocals'
    BY Zenon DEF StartLocals, HasTarget, HasHash, Driving
  <1>4. PauseQuiesces' /\ ShutdownQuiesces'
    BY Zenon DEF PauseQuiesces, ShutdownQuiesces
  <1> QED
    BY Zenon, <1>1, <1>2, <1>3, <1>4 DEF IInv, MainIdle

\* The three branches of run_control_loop's select!.
LEMMA SelectStep == IInv /\ (ActionQueued \/ ActionRetry \/ Tick) => IInv'
  <1> SUFFICES ASSUME IInv, ActionQueued \/ ActionRetry \/ Tick PROVE IInv'
    OBVIOUS
  <1>1. ctl \notin Driving /\ ctl # "exited" /\ ctl' \in CtlPC \ Driving
    BY Zenon DEF ActionQueued, ActionRetry, Tick, LoopExits, Driving, CtlPC
  <1>2. act' \in Act
    BY Zenon, NoActType DEF ActionQueued, ActionRetry, Tick, LoopExits, IInv, TypeOK
  <1>3. action_pending' \in BOOLEAN
    BY ZenonT(60) DEF ActionQueued, ActionRetry, Tick, LoopExits, IInv, TypeOK
  <1>4. notified' \in BOOLEAN
    BY ZenonT(60) DEF ActionQueued, ActionRetry, Tick, signal, IInv, TypeOK
  <1>5. UNCHANGED <<flags, locks, belief, watch_seen, adm, node, raft, trouble>>
    BY Zenon DEF ActionQueued, ActionRetry, Tick, signal
  <1> QED
    BY Zenon, <1>1, <1>2, <1>3, <1>4, <1>5, IdleStep DEF belief, IInv, TypeOK

\* Conductor::tick up to its action: what is refreshed and stored.
LEMMA RefreshStep == IInv /\ (RefreshAnswer \/ RefreshStore \/ CheckHealth) => IInv'
  <1> SUFFICES ASSUME IInv, RefreshAnswer \/ RefreshStore \/ CheckHealth PROVE IInv'
    OBVIOUS
  <1>1. ctl \notin Driving /\ ctl # "exited" /\ ctl' \in CtlPC \ Driving
    BY Zenon DEF RefreshAnswer, RefreshStore, CheckHealth, Driving, CtlPC
  <1>2. act' \in Act
    <2>1. \A b \in BOOLEAN : [act EXCEPT !.sample = b] \in Act
      BY Zenon DEF IInv, TypeOK, Act
    <2> QED
      BY ZenonT(60), <2>1 DEF RefreshAnswer, RefreshStore, CheckHealth, IInv, TypeOK
  <1>3. seq_active' \in BOOLEAN
    <2>1. act.sample \in BOOLEAN
      BY Zenon DEF IInv, TypeOK, Act
    <2> QED
      BY Zenon, <2>1 DEF RefreshAnswer, RefreshStore, CheckHealth, IInv, TypeOK
  <1>4. healthy' \in Health
    BY Zenon, ConductorAssumption
    DEF RefreshAnswer, RefreshStore, CheckHealth, IInv, TypeOK, Health
  <1>5. trouble' \in 0 .. MaxTrouble
    BY Zenon, TroubleType DEF RefreshAnswer, RefreshStore, CheckHealth, IInv
  <1>6. UNCHANGED <<flags, locks, previous, action_pending, signal, adm, node, raft>>
    BY Zenon DEF RefreshAnswer, RefreshStore, CheckHealth
  <1> QED
    BY Zenon, <1>1, <1>2, <1>3, <1>4, <1>5, <1>6, IdleStep DEF signal, IInv, TypeOK

\* action() on a paused or stopping conductor.
LEMMA SkippedStep == IInv /\ ActionSkipped => IInv'
  <1> SUFFICES ASSUME IInv, ActionSkipped PROVE IInv'
    OBVIOUS
  <1>1. ctl \notin Driving /\ ctl # "exited" /\ ctl' \in CtlPC \ Driving /\ act' \in Act
    BY Zenon, NoActType DEF ActionSkipped, BackToSelect, Driving, CtlPC
  <1>2. action_pending' \in BOOLEAN
    BY Zenon DEF ActionSkipped, BackToSelect, IInv, TypeOK
  <1>3. UNCHANGED <<flags, locks, belief, signal, adm, node, raft, trouble>>
    BY Zenon DEF ActionSkipped
  <1> QED
    BY Zenon, <1>1, <1>2, <1>3, IdleStep DEF belief, signal, IInv, TypeOK

\* action() gets action_lock and passes the guard of action_locked: nobody
\* can have paused, or be shutting Raft down.
LEMMA BeginsStep == IInv /\ ActionBegins => IInv'
  <1> SUFFICES ASSUME IInv, ActionBegins PROVE IInv'
    OBVIOUS
  <1>1. act' \in Act
    BY ZenonT(60) DEF IInv, TypeOK, ActionBegins, Act, State, is_healthy
  <1>2. TypeOK'
    BY <1>1 DEF IInv, TypeOK, ActionBegins, flags, belief, signal, node, late, raft,
                CtlPC, Driving
  <1>3. LocksOwned'
    BY Zenon, ConductorAssumption DEF IInv, LocksOwned, ActionBegins, Driving, Tasks
  <1>4. StartLocals'
    BY Zenon DEF ActionBegins, StartLocals, HasTarget, HasHash
  <1>5. PauseQuiesces' /\ ShutdownQuiesces'
    BY Zenon, ConductorAssumption
    DEF IInv, LocksOwned, ActionBegins, PauseQuiesces, ShutdownQuiesces, flags, Tasks
  <1> QED
    BY Zenon, <1>2, <1>3, <1>4, <1>5 DEF IInv, MainIdle, ActionBegins


-----------------------------------------------------------------------------
(* The admin calls, the shutdown, the raft and the node preserve the       *)
(* invariant.                                                              *)

\* A step of one admin call leaves the others alone.
LEMMA AdmType ==
    ASSUME TypeOK, NEW t \in Tasks, NEW pc \in AdmPC, AdmMoves(t, pc)
    PROVE  /\ adm' \in [Tasks -> [pc : AdmPC, sample : BOOLEAN]]
           /\ adm'[t].pc = pc
           /\ \A u \in Tasks \ {t} : adm'[u] = adm[u]
  BY Zenon DEF TypeOK, AdmMoves

\* A step that leaves the control loop where it is preserves the invariant if
\* the locks still agree with the calls.
LEMMA OutsideStep ==
    ASSUME IInv, UNCHANGED <<loop, previous, healthy>>,
           paused' \in BOOLEAN, stopping' \in BOOLEAN, stopped' \in BOOLEAN,
           seq_active' \in BOOLEAN, notified' \in BOOLEAN, watch_seen' \in BOOLEAN,
           action_lock' \in Callers \cup {Main, Control, Free},
           stop_lock' \in Callers \cup {Main, Free},
           adm' \in [Tasks -> [pc : AdmPC, sample : BOOLEAN]],
           node_active' \in BOOLEAN, node_head' \in Blocks, node_health' \in NodeHealths,
           late_stop' \in BOOLEAN, late_start' \in SUBSET Blocks,
           raft_leader' \in BOOLEAN, cons_head' \in Blocks \cup {NoBlock},
           trouble' \in 0 .. MaxTrouble,
           LocksOwned', MainIdle', PauseQuiesces', ShutdownQuiesces'
    PROVE  IInv'
  <1>1. TypeOK'
    BY Zenon DEF IInv, TypeOK, loop
  <1>2. StartLocals'
    BY Zenon DEF IInv, StartLocals, loop
  <1> QED
    BY Zenon, <1>1, <1>2 DEF IInv

\* The same for a step of an admin call, which leaves the node alone.
LEMMA CallerStep ==
    ASSUME IInv, UNCHANGED <<loop, previous, healthy, watch_seen, node, cons_head>>,
           paused' \in BOOLEAN, stopping' \in BOOLEAN, stopped' \in BOOLEAN,
           seq_active' \in BOOLEAN, notified' \in BOOLEAN, raft_leader' \in BOOLEAN,
           action_lock' \in Callers \cup {Main, Control, Free},
           stop_lock' \in Callers \cup {Main, Free},
           adm' \in [Tasks -> [pc : AdmPC, sample : BOOLEAN]],
           trouble' \in 0 .. MaxTrouble,
           LocksOwned', MainIdle', PauseQuiesces', ShutdownQuiesces'
    PROVE  IInv'
  <1>1. watch_seen' \in BOOLEAN /\ node_active' \in BOOLEAN /\ late_stop' \in BOOLEAN
    BY Zenon DEF IInv, TypeOK, node, late
  <1>2. /\ node_head' \in Blocks /\ node_health' \in NodeHealths
        /\ late_start' \in SUBSET Blocks /\ cons_head' \in Blocks \cup {NoBlock}
    BY Zenon DEF IInv, TypeOK, node, late
  <1> QED
    BY Zenon, <1>1, <1>2, OutsideStep

\* pause() gets action_lock, so no action is in flight.
LEMMA PauseStep == ASSUME IInv, NEW t \in Tasks, Pause(t) PROVE IInv'
  <1>1. /\ adm' \in [Tasks -> [pc : AdmPC, sample : BOOLEAN]] /\ adm'[t].pc = "idle"
        /\ \A u \in Tasks \ {t} : adm'[u] = adm[u]
    BY Zenon, AdmType DEF Pause, IInv, AdmPC
  <1>2. ctl \notin Driving
    BY Zenon, ConductorAssumption DEF IInv, LocksOwned, Pause
  <1>3. LocksOwned'
    BY Zenon, <1>1 DEF IInv, LocksOwned, Pause, locks, loop
  <1>4. PauseQuiesces' /\ ShutdownQuiesces' /\ MainIdle'
    BY Zenon, <1>1, <1>2 DEF IInv, PauseQuiesces, ShutdownQuiesces, MainIdle, Pause, loop, Tasks
  <1>5. paused' = TRUE
        /\ UNCHANGED <<stopping, stopped, locks, belief, loop, signal, node, raft, trouble>>
    BY Zenon DEF Pause
  <1>6. UNCHANGED <<loop, previous, healthy, watch_seen, node, cons_head>>
    BY Zenon, <1>5 DEF belief, signal, raft
  <1>7. /\ paused' \in BOOLEAN /\ stopping' \in BOOLEAN /\ stopped' \in BOOLEAN
        /\ seq_active' \in BOOLEAN /\ notified' \in BOOLEAN /\ raft_leader' \in BOOLEAN
    BY Zenon, <1>5 DEF IInv, TypeOK, belief, signal, raft
  <1>8. /\ action_lock' \in Callers \cup {Main, Control, Free}
        /\ stop_lock' \in Callers \cup {Main, Free}
        /\ trouble' \in 0 .. MaxTrouble
    BY Zenon, <1>5 DEF IInv, TypeOK, locks
  <1> QED
    BY ZenonT(60), <1>1, <1>3, <1>4, <1>6, <1>7, <1>8, CallerStep

\* resume() holds no lock.
LEMMA ResumeStep ==
    ASSUME IInv, NEW t \in Tasks, ResumeAnswer(t) \/ ResumeStore(t) \/ ResumeUnpause(t)
    PROVE  IInv'
  <1>1. /\ adm' \in [Tasks -> [pc : AdmPC, sample : BOOLEAN]]
        /\ \A u \in Tasks \ {t} : adm'[u] = adm[u]
        /\ adm'[t].pc \notin {"stopLocking", "stopShutdown"}
        /\ adm[t].pc \notin {"idle", "stopLocking", "stopShutdown"}
    <2>1. PICK pc \in {"idle", "resumeStore", "resumeUnpause"}, s \in BOOLEAN :
              adm' = [adm EXCEPT ![t] = [pc |-> pc, sample |-> s]]
      BY ZenonT(60) DEF ResumeAnswer, ResumeStore, ResumeUnpause, AdmMoves, IInv, TypeOK
    <2>2. adm[t].pc \in {"resume", "resumeStore", "resumeUnpause"}
      BY Zenon DEF ResumeAnswer, ResumeStore, ResumeUnpause
    <2> QED
      BY Zenon, <2>1, <2>2 DEF IInv, TypeOK, AdmPC
  <1>2. UNCHANGED <<stopping, stopped, locks, loop, healthy, previous, watch_seen, node, raft>>
    BY Zenon DEF ResumeAnswer, ResumeStore, ResumeUnpause, flags, belief, signal
  <1>3. LocksOwned'
    BY ZenonT(60), <1>1, <1>2 DEF IInv, LocksOwned, locks, loop
  <1>4. PauseQuiesces' /\ ShutdownQuiesces' /\ MainIdle'
    <2>1. paused' => paused
      BY ZenonT(60) DEF ResumeAnswer, ResumeStore, ResumeUnpause, flags
    <2>2. PauseQuiesces'
      BY Zenon, <2>1, <1>2 DEF IInv, PauseQuiesces, loop
    <2>3. ShutdownQuiesces'
      BY ZenonT(60), <1>1, <1>2 DEF IInv, ShutdownQuiesces, loop
    <2>4. MainIdle'
      BY ZenonT(60), <1>1, <1>2 DEF IInv, MainIdle, loop, Tasks
    <2> QED
      BY Zenon, <2>2, <2>3, <2>4
  <1>5. trouble' \in 0 .. MaxTrouble
    BY Zenon, TroubleType DEF ResumeAnswer, ResumeStore, ResumeUnpause, IInv
  <1>6. paused' \in BOOLEAN /\ notified' \in BOOLEAN
    BY ZenonT(60) DEF ResumeAnswer, ResumeStore, ResumeUnpause, IInv, TypeOK, flags, signal
  <1>7. seq_active' \in BOOLEAN
    <2>1. adm[t].sample \in BOOLEAN
      BY Zenon DEF IInv, TypeOK
    <2> QED
      BY Zenon, <2>1 DEF ResumeAnswer, ResumeStore, ResumeUnpause, IInv, TypeOK, belief
  <1>8. UNCHANGED <<loop, previous, healthy, watch_seen, node, cons_head>>
    BY Zenon, <1>2 DEF raft
  <1>9. stopping' \in BOOLEAN /\ stopped' \in BOOLEAN /\ raft_leader' \in BOOLEAN
    BY Zenon, <1>2 DEF IInv, TypeOK, raft
  <1>10. /\ action_lock' \in Callers \cup {Main, Control, Free}
        /\ stop_lock' \in Callers \cup {Main, Free}
    BY Zenon, <1>2 DEF IInv, TypeOK, locks
  <1> QED
    BY ZenonT(60), <1>1, <1>3, <1>4, <1>5, <1>6, <1>7, <1>8, <1>9, <1>10, CallerStep

\* stop() takes stop_lock.
LEMMA StopBeginsStep == ASSUME IInv, NEW t \in Tasks, StopBegins(t) PROVE IInv'
  <1>1. PICK pc \in {"idle", "stopLocking"} :
            /\ AdmMoves(t, pc)
            /\ pc = "idle" => UNCHANGED <<stopping, stop_lock>>
            /\ pc = "stopLocking" => stopping' = TRUE /\ stop_lock' = t
    <2>1. CASE AdmMoves(t, "idle") /\ UNCHANGED <<stopping, stop_lock>>
      BY ZenonT(60), <2>1
    <2>2. CASE AdmMoves(t, "stopLocking") /\ stopping' = TRUE /\ stop_lock' = t
      BY ZenonT(60), <2>2
    <2> QED
      BY Zenon, <2>1, <2>2 DEF StopBegins
  <1>2. /\ adm' \in [Tasks -> [pc : AdmPC, sample : BOOLEAN]] /\ adm'[t].pc = pc
        /\ \A u \in Tasks \ {t} : adm'[u] = adm[u]
    BY Zenon, <1>1, AdmType DEF IInv, AdmPC
  <1>3. adm[t].pc = "stop" /\ stop_lock = Free
        /\ UNCHANGED <<paused, stopped, action_lock, belief, loop, signal, node, raft, trouble>>
    BY Zenon DEF StopBegins
  <1>4. LocksOwned'
    <2>1. (ctl \in Driving <=> action_lock = Control)'
      BY ZenonT(60), <1>3 DEF IInv, LocksOwned, loop
    <2>2. t # Free
      BY ZenonT(60), ConductorAssumption DEF Tasks
    <2>3. ASSUME NEW u \in Tasks
          PROVE  /\ adm'[u].pc = "stopShutdown" <=> action_lock' = u
                 /\ adm'[u].pc \in {"stopLocking", "stopShutdown"} <=> stop_lock' = u
      <3>1. /\ adm[u].pc = "stopShutdown" <=> action_lock = u
            /\ adm[u].pc \in {"stopLocking", "stopShutdown"} <=> stop_lock = u
        BY ZenonT(60), <2>3 DEF IInv, LocksOwned
      <3>2. u # Free
        BY ZenonT(60), <2>3, ConductorAssumption DEF Tasks
      <3>3. CASE u = t
        BY ZenonT(60), <1>1, <1>2, <1>3, <2>2, <3>1, <3>3
      <3>4. CASE u # t
        BY ZenonT(60), <1>1, <1>2, <1>3, <2>3, <3>1, <3>2, <3>4
      <3> QED
        BY Zenon, <3>3, <3>4
    <2> QED
      BY ZenonT(60), <2>1, <2>3 DEF LocksOwned
  <1>5. PauseQuiesces' /\ ShutdownQuiesces' /\ MainIdle'
    BY ZenonT(60), <1>1, <1>2, <1>3 DEF IInv, PauseQuiesces, ShutdownQuiesces, MainIdle, loop, Tasks
  <1>6. stopping' \in BOOLEAN /\ stop_lock' \in Callers \cup {Main, Free}
    BY ZenonT(60), <1>1 DEF IInv, TypeOK, Tasks
  <1>7. UNCHANGED <<loop, previous, healthy, watch_seen, node, cons_head>>
    BY ZenonT(60), <1>3 DEF belief, signal, raft
  <1>8. /\ paused' \in BOOLEAN /\ stopped' \in BOOLEAN /\ seq_active' \in BOOLEAN
        /\ notified' \in BOOLEAN /\ raft_leader' \in BOOLEAN
    BY Zenon, <1>3 DEF IInv, TypeOK, belief, signal, raft
  <1>9. action_lock' \in Callers \cup {Main, Control, Free} /\ trouble' \in 0 .. MaxTrouble
    BY Zenon, <1>3 DEF IInv, TypeOK
  <1> QED
    BY ZenonT(60), <1>2, <1>4, <1>5, <1>6, <1>7, <1>8, <1>9, CallerStep

\* stop() gets action_lock, so no action is in flight.
LEMMA StopLocksStep == ASSUME IInv, NEW t \in Tasks, StopLocks(t) PROVE IInv'
  <1>1. /\ adm' \in [Tasks -> [pc : AdmPC, sample : BOOLEAN]] /\ adm'[t].pc = "stopShutdown"
        /\ \A u \in Tasks \ {t} : adm'[u] = adm[u]
    BY Zenon, AdmType DEF StopLocks, IInv, AdmPC
  <1>2. ctl \notin Driving
    BY Zenon, ConductorAssumption DEF IInv, LocksOwned, StopLocks
  <1>3. adm[t].pc = "stopLocking" /\ action_lock = Free /\ action_lock' = t
        /\ UNCHANGED <<flags, stop_lock, belief, loop, signal, node, raft, trouble>>
    BY ZenonT(60) DEF StopLocks
  <1>4. LocksOwned'
    BY ZenonT(60), <1>1, <1>2, <1>3, ConductorAssumption DEF IInv, LocksOwned, loop, Tasks
  <1>5. PauseQuiesces' /\ ShutdownQuiesces' /\ MainIdle'
    BY ZenonT(60), <1>1, <1>2, <1>3 DEF IInv, PauseQuiesces, ShutdownQuiesces, MainIdle, loop, Tasks
  <1>6. action_lock' \in Callers \cup {Main, Control, Free}
    BY ZenonT(60), <1>3 DEF Tasks
  <1>7. UNCHANGED <<loop, previous, healthy, watch_seen, node, cons_head>>
    BY Zenon, <1>3 DEF belief, signal, raft
  <1>8. /\ paused' \in BOOLEAN /\ stopping' \in BOOLEAN /\ stopped' \in BOOLEAN
        /\ seq_active' \in BOOLEAN /\ notified' \in BOOLEAN /\ raft_leader' \in BOOLEAN
    BY Zenon, <1>3 DEF IInv, TypeOK, flags, belief, signal, raft
  <1>9. stop_lock' \in Callers \cup {Main, Free} /\ trouble' \in 0 .. MaxTrouble
    BY Zenon, <1>3 DEF IInv, TypeOK
  <1> QED
    BY ZenonT(60), <1>1, <1>4, <1>5, <1>6, <1>7, <1>8, <1>9, CallerStep

\* stop() returns, with Raft shut down or with an error.
LEMMA StopShutdownStep == ASSUME IInv, NEW t \in Tasks, StopShutdown(t) PROVE IInv'
  <1>1. /\ adm' \in [Tasks -> [pc : AdmPC, sample : BOOLEAN]] /\ adm'[t].pc = "idle"
        /\ \A u \in Tasks \ {t} : adm'[u] = adm[u]
    BY Zenon, AdmType DEF StopShutdown, IInv, AdmPC
  <1>2. /\ action_lock = t /\ stop_lock = t /\ action_lock' = Free /\ stop_lock' = Free
        /\ UNCHANGED <<paused, stopping, belief, loop, signal, node, cons_head>>
    BY ZenonT(60) DEF StopShutdown, IInv, LocksOwned
  <1>3. ctl \notin Driving
    BY Zenon, <1>2, ConductorAssumption DEF IInv, LocksOwned, Tasks
  <1>4. LocksOwned'
    <2>1. (ctl \in Driving <=> action_lock = Control)'
      BY ZenonT(60), <1>2, <1>3, ConductorAssumption DEF loop
    <2>2. ASSUME NEW u \in Tasks
          PROVE  /\ adm'[u].pc = "stopShutdown" <=> action_lock' = u
                 /\ adm'[u].pc \in {"stopLocking", "stopShutdown"} <=> stop_lock' = u
      <3>1. /\ adm[u].pc = "stopShutdown" <=> action_lock = u
            /\ adm[u].pc \in {"stopLocking", "stopShutdown"} <=> stop_lock = u
        BY ZenonT(60), <2>2 DEF IInv, LocksOwned
      <3>2. u # Free
        BY ZenonT(60), <2>2, ConductorAssumption DEF Tasks
      <3>3. CASE u = t
        BY ZenonT(60), <1>1, <1>2, <3>2, <3>3
      <3>4. CASE u # t
        BY ZenonT(60), <1>1, <1>2, <2>2, <3>1, <3>2, <3>4
      <3> QED
        BY Zenon, <3>3, <3>4
    <2> QED
      BY ZenonT(60), <2>1, <2>2 DEF LocksOwned
  <1>5. PauseQuiesces' /\ ShutdownQuiesces' /\ MainIdle'
    BY ZenonT(60), <1>1, <1>2, <1>3 DEF IInv, PauseQuiesces, ShutdownQuiesces, MainIdle, loop, Tasks
  <1>6. stopped' \in BOOLEAN /\ raft_leader' \in BOOLEAN
    BY ZenonT(60) DEF StopShutdown, IInv, TypeOK
  <1>7. trouble' \in 0 .. MaxTrouble
    BY Zenon, TroubleType DEF StopShutdown, IInv
  <1>8. UNCHANGED <<loop, previous, healthy, watch_seen, node, cons_head>>
    BY Zenon, <1>2 DEF belief, signal
  <1>9. /\ paused' \in BOOLEAN /\ stopping' \in BOOLEAN
        /\ seq_active' \in BOOLEAN /\ notified' \in BOOLEAN
    BY Zenon, <1>2 DEF IInv, TypeOK, belief, signal
  <1>10. /\ action_lock' \in Callers \cup {Main, Control, Free}
        /\ stop_lock' \in Callers \cup {Main, Free}
    BY Zenon, <1>2
  <1> QED
    BY ZenonT(60), <1>1, <1>4, <1>5, <1>6, <1>7, <1>8, <1>9, <1>10, CallerStep

\* A call arrives, or is dropped with the locks it holds.
LEMMA CallStep == ASSUME IInv, NEW t \in Tasks, Call(t) \/ CallDropped(t) PROVE IInv'
  <1>1. PICK pc \in {"idle", "pause", "resume", "stop"} : AdmMoves(t, pc)
    BY Zenon DEF Call, CallDropped
  <1>2. /\ adm' \in [Tasks -> [pc : AdmPC, sample : BOOLEAN]] /\ adm'[t].pc = pc
        /\ \A u \in Tasks \ {t} : adm'[u] = adm[u]
    BY ZenonT(60), <1>1, AdmType DEF IInv, AdmPC
  <1>3. /\ action_lock' = IF action_lock = t THEN Free ELSE action_lock
        /\ stop_lock' = IF stop_lock = t THEN Free ELSE stop_lock
        /\ UNCHANGED <<flags, belief, loop, signal, node, raft>>
    BY ZenonT(60) DEF Call, CallDropped, locks, IInv, LocksOwned
  <1>4. LocksOwned'
    BY ZenonT(60), <1>2, <1>3, ConductorAssumption DEF IInv, LocksOwned, loop, Tasks
  <1>5. PauseQuiesces' /\ ShutdownQuiesces'
    BY ZenonT(60), <1>2, <1>3 DEF IInv, PauseQuiesces, ShutdownQuiesces, loop, flags
  <1>8. MainIdle'
    BY Zenon, <1>2, <1>3, ConductorAssumption DEF IInv, MainIdle, Call, CallDropped, loop, Tasks
  <1>6. /\ action_lock' \in Callers \cup {Main, Control, Free}
        /\ stop_lock' \in Callers \cup {Main, Free}
    BY Zenon, <1>3 DEF IInv, TypeOK
  <1>7. trouble' \in 0 .. MaxTrouble
    BY Zenon, TroubleType DEF Call, CallDropped, IInv
  <1>9. UNCHANGED <<loop, previous, healthy, watch_seen, node, cons_head>>
    BY Zenon, <1>3 DEF belief, signal, raft
  <1>10. /\ paused' \in BOOLEAN /\ stopping' \in BOOLEAN /\ stopped' \in BOOLEAN
         /\ seq_active' \in BOOLEAN /\ notified' \in BOOLEAN /\ raft_leader' \in BOOLEAN
    BY Zenon, <1>3 DEF IInv, TypeOK, flags, belief, signal, raft
  <1> QED
    BY Zenon, <1>2, <1>4, <1>5, <1>6, <1>7, <1>8, <1>9, <1>10, CallerStep

\* run_leader_watch, and everything that happens around the conductor.
LEMMA AroundStep == IInv /\ (LeaderWatch \/ Environment) => IInv'
  <1> SUFFICES ASSUME IInv, LeaderWatch \/ Environment PROVE IInv'
    OBVIOUS
  <1> USE DEF LeaderWatch, Environment, LeadershipChanges, NodeToggled, LateStop,
              NodeHealthChanges, PayloadApplied, NodeAdvances, NodeReorgs, LateStart
  <1>1. UNCHANGED <<flags, locks, belief, loop, adm>>
    BY ZenonT(60) DEF EnvUnchanged
  <1>2. notified' \in BOOLEAN /\ watch_seen' \in BOOLEAN
    BY ZenonT(60) DEF EnvUnchanged, signal, IInv, TypeOK
  <1>3. trouble' \in 0 .. MaxTrouble
    BY ZenonT(60), TroubleType DEF IInv
  <1>4. node_active' \in BOOLEAN
    BY ZenonT(60) DEF node, IInv, TypeOK
  <1>5. node_head' \in Blocks /\ node_health' \in NodeHealths
    BY ZenonT(60) DEF node, IInv, TypeOK
  <1>6. late_stop' \in BOOLEAN
    BY ZenonT(60) DEF node, late, IInv, TypeOK
  <1>7. late_start' \in SUBSET Blocks
    BY ZenonT(60) DEF node, late, IInv, TypeOK
  <1>8. raft_leader' \in BOOLEAN
    BY ZenonT(60) DEF raft, IInv, TypeOK
  <1>9. cons_head' \in Blocks \cup {NoBlock}
    BY ZenonT(60) DEF raft, IInv, TypeOK
  <1>10. LocksOwned' /\ MainIdle' /\ PauseQuiesces' /\ ShutdownQuiesces'
    BY ZenonT(60), <1>1
    DEF IInv, LocksOwned, MainIdle, PauseQuiesces, ShutdownQuiesces, flags, locks, loop
  <1> HIDE DEF LeaderWatch, Environment
  <1> QED
    BY ZenonT(60), <1>1, <1>2, <1>3, <1>4, <1>5, <1>6, <1>7, <1>8, <1>9, <1>10, OutsideStep
    DEF IInv, TypeOK, flags, locks, belief

\* The runtime ends: an action in flight is dropped with its lock.
LEMMA ExitStep == IInv /\ RuntimeExit => IInv'
  <1> SUFFICES ASSUME IInv, RuntimeExit PROVE IInv'
    OBVIOUS
  <1>1. /\ adm' \in [Tasks -> [pc : AdmPC, sample : BOOLEAN]] /\ adm'[Main].pc = "stop"
        /\ \A u \in Tasks \ {Main} : adm'[u] = adm[u]
    BY Zenon, AdmType DEF RuntimeExit, IInv, AdmPC, Tasks
  <1>2. adm[Main].pc \notin {"stopLocking", "stopShutdown"}
    BY Zenon DEF RuntimeExit, IInv, MainIdle
  <1>3. /\ ctl' = "exited" /\ act' \in Act
        /\ action_lock' = IF action_lock = Control THEN Free ELSE action_lock
        /\ UNCHANGED <<flags, stop_lock, belief, action_pending, signal, node, raft>>
    BY Zenon, NoActType DEF RuntimeExit
  <1>4. trouble' \in 0 .. MaxTrouble
    BY Zenon, TroubleType DEF RuntimeExit, IInv
  <1>5. action_lock' \in Callers \cup {Main, Control, Free}
    BY Zenon, <1>3 DEF IInv, TypeOK
  <1>6. TypeOK'
    BY <1>1, <1>3, <1>4, <1>5
    DEF IInv, TypeOK, CtlPC, flags, belief, signal, node, late, raft
  <1>7. LocksOwned'
    BY ZenonT(60), <1>1, <1>2, <1>3, ConductorAssumption DEF IInv, LocksOwned, Driving, Tasks
  <1>8. StartLocals' /\ PauseQuiesces' /\ ShutdownQuiesces' /\ MainIdle'
    BY Zenon, <1>3 DEF StartLocals, HasTarget, HasHash, PauseQuiesces, ShutdownQuiesces, MainIdle,
                Driving
  <1> QED
    BY Zenon, <1>6, <1>7, <1>8 DEF IInv

\* A new process starts from scratch.
LEMMA RestartStep == IInv /\ Restart => IInv'
  <1> SUFFICES ASSUME IInv, Restart PROVE IInv'
    OBVIOUS
  <1>1. previous' \in State /\ act' \in Act
    BY Zenon, NoActType DEF Restart, IInv, TypeOK, State
  <1>2. adm' \in [Tasks -> [pc : AdmPC, sample : BOOLEAN]]
    BY Zenon DEF Restart, AdmPC
  <1>3. trouble' \in 0 .. MaxTrouble
    BY Zenon, TroubleType DEF Restart, IInv
  <1>4. TypeOK'
    BY ZenonT(60), <1>1, <1>2, <1>3 DEF Restart, IInv, TypeOK, CtlPC, Health, node, late
  <1>5. LocksOwned'
    BY Zenon, ConductorAssumption DEF Restart, LocksOwned, Driving, Tasks
  <1>6. StartLocals' /\ PauseQuiesces' /\ ShutdownQuiesces'
    BY Zenon DEF Restart, StartLocals, HasTarget, HasHash, PauseQuiesces, ShutdownQuiesces, Driving
  <1>7. MainIdle'
    BY Zenon DEF Restart, MainIdle, Tasks
  <1> QED
    BY Zenon, <1>4, <1>5, <1>6, <1>7 DEF IInv

-----------------------------------------------------------------------------
(* The invariant and what it implies.                                      *)

\* The invariant holds when the process has started.
LEMMA InitIInv == Init => IInv
  <1> SUFFICES ASSUME Init PROVE IInv
    OBVIOUS
  <1>1. TypeOK
    <2>1. previous \in State
      BY Zenon DEF Init, State
    <2>2. adm \in [Tasks -> [pc : AdmPC, sample : BOOLEAN]]
      BY Zenon DEF Init, AdmPC
    <2>3. trouble \in 0 .. MaxTrouble
      BY SMTT(30), ConductorAssumption DEF Init
    <2> QED
      BY ZenonT(60), NoActType, <2>1, <2>2, <2>3 DEF Init, TypeOK, CtlPC, Health
  <1>2. LocksOwned
    BY Zenon, ConductorAssumption DEF Init, LocksOwned, Driving, Tasks
  <1>3. StartLocals /\ PauseQuiesces /\ ShutdownQuiesces
    BY Zenon DEF Init, StartLocals, HasTarget, HasHash, PauseQuiesces, ShutdownQuiesces, Driving
  <1>4. MainIdle
    BY Zenon DEF Init, MainIdle, Tasks
  <1> QED
    BY Zenon, <1>1, <1>2, <1>3, <1>4 DEF IInv

\* Every step of the control loop, of a call, of the process or of the
\* environment preserves the invariant.
LEMMA NextIInv == IInv /\ [Next]_vars => IInv'
  <1> SUFFICES ASSUME IInv, [Next]_vars PROVE IInv'
    OBVIOUS
  <1>1. CASE ActionQueued \/ ActionRetry \/ Tick
    BY Zenon, <1>1, SelectStep
  <1>2. CASE RefreshAnswer \/ RefreshStore \/ CheckHealth
    BY Zenon, <1>2, RefreshStep
  <1>3. CASE ActionSkipped \/ ActionBegins \/ ActionDecides
    BY Zenon, <1>3, SkippedStep, BeginsStep, DecidesStep
  <1>4. CASE StopSequencer \/ TransferLeader
    BY Zenon, <1>4, StopStep, TransferStep
  <1>5. CASE StartSequencer
    BY Zenon, <1>5, PayloadStep, HeadStep, RepairStep, AncestorStep, StartCallStep
    DEF StartSequencer
  <1>6. ASSUME NEW t \in Tasks, Admin(t) \/ Call(t) \/ CallDropped(t) PROVE IInv'
    BY Zenon, <1>6, PauseStep, ResumeStep, StopBeginsStep, StopLocksStep, StopShutdownStep, CallStep
    DEF Admin
  <1>7. CASE LeaderWatch \/ Environment
    BY Zenon, <1>7, AroundStep
  <1>8. CASE RuntimeExit \/ Restart
    BY Zenon, <1>8, ExitStep, RestartStep
  <1>9. CASE UNCHANGED vars
    <2> USE <1>9 DEF vars, flags, locks, belief, loop, signal, late, node, raft
    <2>1. TypeOK'
      BY DEF IInv, TypeOK
    <2>2. LocksOwned' /\ StartLocals' /\ MainIdle'
      BY ZenonT(60) DEF IInv, LocksOwned, StartLocals, MainIdle
    <2>3. PauseQuiesces' /\ ShutdownQuiesces'
      BY Zenon DEF IInv, PauseQuiesces, ShutdownQuiesces
    <2> QED
      BY Zenon, <2>1, <2>2, <2>3 DEF IInv
  <1> QED
    BY Zenon, <1>1, <1>2, <1>3, <1>4, <1>5, <1>6, <1>7, <1>8, <1>9 DEF Next

\* The inductive invariant holds in every reachable state.
THEOREM Invariance == Spec => []IInv
  BY InitIInv, NextIInv, PTL DEF Spec

\* Every variable of the conductor keeps its type, whatever the node answers
\* and whenever calls fail or are dropped.
THEOREM TypeCorrect == Spec => []TypeOK
  <1>1. IInv => TypeOK
    BY Zenon DEF IInv
  <1> QED
    BY <1>1, Invariance, PTL

\* pause() returns only when no action is in flight, and none starts until
\* resume().
THEOREM PauseCorrect == Spec => []PauseQuiesces
  <1>1. IInv => PauseQuiesces
    BY Zenon DEF IInv
  <1> QED
    BY <1>1, Invariance, PTL

\* stop() shuts Raft down under an idle control loop only.
THEOREM ShutdownCorrect == Spec => []ShutdownQuiesces
  <1>1. IInv => ShutdownQuiesces
    BY Zenon DEF IInv
  <1> QED
    BY <1>1, Invariance, PTL

\* action_lock and stop_lock are held by the task whose program point says
\* so, across errors, dropped calls and a dropped control loop.
THEOREM LocksCorrect == Spec => []LocksOwned
  <1>1. IInv => LocksOwned
    BY Zenon DEF IInv
  <1> QED
    BY <1>1, Invariance, PTL

-----------------------------------------------------------------------------
(* What start_sequencer starts, on a node that does not leave its chain.   *)

(***************************************************************************)
(* What start_sequencer knows between its remote calls, on a node that     *)
(* does not leave its chain: StartHashDescends alone is not inductive,     *)
(* because the number comparison and the ancestor check are two calls.     *)
(***************************************************************************)
StartKnows ==
    /\ ctl = "startRepair" => act.hash = act.target
    /\ ctl = "startAncestor" => /\ Descends(node_head, act.hash)
                                /\ Number[act.hash] > Number[act.target]
    /\ ctl = "startBare" => Descends(node_head, act.hash)
    /\ StartHashDescends

\* A node that advances keeps every ancestor.
LEMMA DescendsTransitive ==
    ASSUME NEW a \in Blocks, NEW b \in Blocks, NEW c \in Blocks,
           Descends(c, b), Descends(b, a)
    PROVE  Descends(c, a)
  BY SMTT(60), ChainAssumption DEF Descends

\* A block below another one of the same chain is its ancestor.
LEMMA DescendsByNumber ==
    ASSUME NEW a \in Blocks, NEW b \in Blocks, NEW c \in Blocks,
           Descends(c, a), Descends(c, b), Number[a] <= Number[b]
    PROVE  Descends(b, a)
  BY ChainAssumption DEF Descends

\* block_by_number answers with a block of the node's chain.
LEMMA BlockByNumberHeld ==
    ASSUME NEW b \in Blocks, NEW n \in 0 .. Number[b]
    PROVE  BlockByNumber(b, n) \in Chain[b]
  <1>1. \E c \in Chain[b] : Number[c] = n
    BY Zenon, ChainAssumption
  <1> QED
    BY Zenon, <1>1 DEF BlockByNumber

\* Errors, and steps that are not in start_sequencer, leave nothing to know.
LEMMA KnowsNothing ==
    ctl' \notin {"startRepair", "startAncestor", "startHash", "startCheck", "startBare"}
        => StartKnows'
  BY Zenon DEF StartKnows, StartHashDescends

\* A failing start goes back to select! or hands over.
LEMMA FailsKnows == StartFails => StartKnows'
  BY Zenon, KnowsNothing DEF StartFails, StartGoesOn, Return, BackToSelect

\* The steps of start_sequencer keep what it knows, from the number
\* comparison to the start command.
LEMMA StartKnowsStep ==
    ASSUME IInv, StartKnows, StartSequencer PROVE StartKnows'
  <1>1. CASE StartPayload
    BY Zenon, <1>1, FailsKnows, KnowsNothing DEF StartPayload, StartGoesOn
  <1>2. CASE StartHead
    <2>1. act.target \in Blocks /\ node_head \in Blocks
      BY ZenonT(60), <1>2 DEF StartHead, IInv, StartLocals, HasTarget, TypeOK
    <2>2. CASE StartFails
      BY Zenon, <2>2, FailsKnows
    <2>3. CASE ~StartFails
      <3>1. UNCHANGED node_head
        BY ZenonT(60), <1>2 DEF StartHead
      <3>2. PICK pc \in {StartCall, "startRepair", "startAncestor"},
                 h \in {act.target, node_head} :
                /\ StartGoesOn(pc, act.target, h)
                /\ pc # "startAncestor" => h = act.target
                /\ pc = "startAncestor" => /\ h = node_head
                                           /\ Number[node_head] > Number[act.target]
        BY Zenon, <1>2, <2>3 DEF StartHead, StartCall
      <3>3. ctl' = pc /\ act'.target = act.target /\ act'.hash = h
        BY Zenon, <3>2 DEF StartGoesOn, IInv, TypeOK, Act
      <3>4. Descends(h, h) /\ pc # "startBare"
        BY <2>1, <3>2, ChainAssumption DEF Descends, StartCall
      <3> QED
        BY ZenonT(60), <3>1, <3>2, <3>3, <3>4 DEF StartKnows, StartHashDescends
    <2> QED
      BY Zenon, <2>2, <2>3
  <1>3. CASE StartRepair
    <2>1. CASE StartFails
      BY Zenon, <2>1, FailsKnows
    <2>2. CASE StartGoesOn(StartCall, act.target, act.hash)
      <3>1. act.target \in Blocks /\ act \in Act /\ act.hash = act.target
        BY ZenonT(60), <1>3 DEF StartRepair, IInv, StartLocals, HasTarget, TypeOK, StartKnows
      <3> QED
        BY Zenon, <2>2, <3>1, ChainAssumption
        DEF StartGoesOn, StartCall, StartKnows, StartHashDescends, Descends, Act
    <2> QED
      BY Zenon, <1>3, <2>1, <2>2 DEF StartRepair
  <1>4. CASE StartAncestor
    <2>1. CASE StartFails
      BY Zenon, <2>1, FailsKnows
    <2>2. CASE ~StartFails
      <3>1. /\ act.target \in Blocks /\ act.hash \in Blocks /\ node_head \in Blocks
            /\ act \in Act /\ Descends(node_head, act.hash)
            /\ Number[act.hash] > Number[act.target]
        BY ZenonT(60), <1>4 DEF StartAncestor, IInv, StartLocals, HasTarget, HasHash, TypeOK, StartKnows
      <3>2. /\ Number[act.target] <= Number[node_head]
            /\ BlockByNumber(node_head, Number[act.target]) = act.target
            /\ StartGoesOn(StartCall, act.target, act.hash)
        BY ZenonT(60), <1>4, <2>2 DEF StartAncestor
      <3>3. Number[act.target] \in 0 .. Number[node_head] /\ Number[act.hash] \in Nat
        <4>1. /\ Number[act.target] \in Nat /\ Number[node_head] \in Nat
              /\ Number[act.hash] \in Nat
          BY ZenonT(60), <3>1, ChainAssumption
        <4> QED
          BY ONLY SMTT(30), <3>2, <4>1
      <3>4. Descends(node_head, act.target)
        BY ZenonT(60), <3>1, <3>2, <3>3, BlockByNumberHeld DEF Descends
      <3>5. Descends(act.hash, act.target)
        <4>1. Number[act.target] <= Number[act.hash]
          BY ONLY SMTT(30), <3>1, <3>3
        <4> QED
          BY ZenonT(60), <3>1, <3>4, <4>1, DescendsByNumber
      <3>6. ctl' \in {"startHash", "startCheck"} /\ act'.hash = act.hash
            /\ act'.target = act.target
        BY Zenon, <3>1, <3>2 DEF StartGoesOn, StartCall, Act
      <3> QED
        BY ZenonT(60), <3>5, <3>6 DEF StartKnows, StartHashDescends
    <2> QED
      BY Zenon, <2>1, <2>2
  <1>5. CASE StartHash
    <2>1. CASE StartFails \/ Return(TRUE, act.status)
      BY Zenon, <2>1, FailsKnows, KnowsNothing DEF Return, BackToSelect
    <2>2. CASE StartGoesOn("startCheck", act.target, act.hash)
      BY Zenon, <1>5, <2>2 DEF StartHash, StartGoesOn, StartKnows, StartHashDescends, IInv, TypeOK, Act
    <2> QED
      BY ZenonT(60), <1>5, <2>1, <2>2 DEF StartHash, NodeStarts
  <1>6. CASE StartCheck
    <2>1. CASE StartFails
      BY Zenon, <2>1, FailsKnows
    <2>2. CASE node_head = act.hash /\ StartGoesOn("startBare", act.target, act.hash)
      BY Zenon, <1>6, <2>2, ChainAssumption
      DEF StartCheck, StartGoesOn, StartKnows, StartHashDescends, Descends, IInv, TypeOK, Act
    <2> QED
      BY Zenon, <1>6, <2>1, <2>2 DEF StartCheck
  <1>7. CASE StartBare
    BY Zenon, <1>7, FailsKnows, KnowsNothing DEF StartBare, NodeStarts, Return, BackToSelect
  <1> QED
    BY Zenon, <1>1, <1>2, <1>3, <1>4, <1>5, <1>6, <1>7 DEF StartSequencer

\* Every other step either leaves start_sequencer, or leaves its locals alone
\* while the node at most advances.
LEMMA OtherKnowsStep ==
    ASSUME Reorgs = FALSE, IInv, StartKnows, [Next]_vars, ~StartSequencer
    PROVE  StartKnows'
  <1>1. CASE UNCHANGED <<ctl, act, node_head>>
    BY Zenon, <1>1 DEF StartKnows, StartHashDescends
  <1>2. CASE \E b \in Blocks : NodeAdvances(b)
    <2>1. PICK b \in Blocks : NodeAdvances(b)
      BY Zenon, <1>2
    <2>2. UNCHANGED <<ctl, act>> /\ node_head' = b /\ Descends(b, node_head)
      BY Zenon, <2>1 DEF NodeAdvances, EnvUnchanged, loop, Children, Descends
    <2>3. node_head \in Blocks /\ (ctl \in {"startAncestor", "startBare"} => act.hash \in Blocks)
      BY Zenon DEF IInv, TypeOK, StartLocals, HasTarget, HasHash
    <2>4. ctl \in {"startAncestor", "startBare"} /\ Descends(node_head, act.hash)
              => Descends(b, act.hash)
      BY Zenon, <2>2, <2>3, DescendsTransitive
    <2> QED
      BY Zenon, <2>2, <2>4 DEF StartKnows, StartHashDescends
  <1>3. CASE ActionQueued \/ ActionRetry \/ Tick
    BY Zenon, <1>3, KnowsNothing DEF ActionQueued, ActionRetry, Tick, LoopExits
  <1>4. CASE RefreshAnswer \/ RefreshStore \/ CheckHealth \/ ActionSkipped \/ ActionBegins
    BY Zenon, <1>4, KnowsNothing
    DEF RefreshAnswer, RefreshStore, CheckHealth, ActionSkipped, ActionBegins, BackToSelect
  <1>5. CASE ActionDecides
    BY Zenon, <1>5, KnowsNothing DEF ActionDecides, Decision, Return, BackToSelect
  <1>6. CASE StopSequencer \/ TransferLeader
    BY ZenonT(60), <1>6, KnowsNothing DEF StopSequencer, AfterStop, TransferLeader, Return, BackToSelect
  <1>7. CASE RuntimeExit \/ Restart
    BY Zenon, <1>7, KnowsNothing DEF RuntimeExit, Restart
  <1>8. CASE \E t \in Tasks : Admin(t) \/ Call(t) \/ CallDropped(t)
    <2>1. UNCHANGED <<loop, node>>
      BY ZenonT(60), <1>8 DEF Admin, Pause, ResumeAnswer, ResumeStore, ResumeUnpause, StopBegins,
                  StopLocks, StopShutdown, Call, CallDropped
    <2> QED
      BY Zenon, <2>1, <1>1 DEF loop, node
  <1>9. CASE LeaderWatch \/ Environment
    <2>1. \/ UNCHANGED <<loop, node_head>>
          \/ \E b \in Blocks : NodeAdvances(b)
      BY ZenonT(60), <1>9 DEF LeaderWatch, Environment, LeadershipChanges, NodeToggled, LateStop,
                  NodeHealthChanges, PayloadApplied, NodeReorgs, LateStart, EnvUnchanged, node
    <2> QED
      BY Zenon, <2>1, <1>1, <1>2 DEF loop
  <1>10. CASE UNCHANGED vars
    BY Zenon, <1>10, <1>1 DEF vars, loop, node
  <1> QED
    BY Zenon, <1>3, <1>4, <1>5, <1>6, <1>7, <1>8, <1>9, <1>10 DEF Next

\* What start_sequencer knows is invariant on a node that does not reorg.
LEMMA KnowsInvariance == ASSUME Reorgs = FALSE PROVE Spec => [](IInv /\ StartKnows)
  <1>1. Init => StartKnows
    BY ZenonT(60) DEF Init, StartKnows, StartHashDescends
  <1>2. IInv /\ StartKnows /\ [Next]_vars => StartKnows'
    BY ZenonT(60), StartKnowsStep, OtherKnowsStep
  <1> QED
    BY <1>1, <1>2, InitIInv, NextIInv, PTL DEF Spec

\* start_sequencer only asks for heads that descend from the committed unsafe
\* head it read.
THEOREM StartHashCorrect == ASSUME Reorgs = FALSE PROVE Spec => []StartHashDescends
  <1>1. IInv /\ StartKnows => StartHashDescends
    BY Zenon DEF StartKnows
  <1> QED
    BY <1>1, KnowsInvariance, PTL

\* Only a start command sets the node going while start_sequencer ends.
LEMMA WhoStarts ==
    ASSUME [Next]_vars, ctl \in {"startHash", "startBare"}, ctl' = "select",
           ~node_active, node_active'
    PROVE  StartHash \/ StartBare
  <1>1. CASE \/ ActionQueued \/ ActionRetry \/ Tick \/ RefreshAnswer \/ RefreshStore
             \/ CheckHealth \/ ActionSkipped \/ ActionBegins \/ ActionDecides
             \/ StopSequencer \/ TransferLeader
    BY ZenonT(60), <1>1 DEF ActionQueued, ActionRetry, Tick, RefreshAnswer, RefreshStore,
                CheckHealth, ActionSkipped, ActionBegins, ActionDecides, StopSequencer,
                TransferLeader
  <1>2. CASE StartSequencer
    BY ZenonT(60), <1>2 DEF StartSequencer, StartPayload, StartHead, StartRepair, StartAncestor, StartCheck
  <1>3. CASE \E t \in Tasks : Admin(t) \/ Call(t) \/ CallDropped(t)
    BY ZenonT(60), <1>3 DEF Admin, Pause, ResumeAnswer, ResumeStore, ResumeUnpause, StopBegins,
                StopLocks, StopShutdown, Call, CallDropped, loop
  <1>4. CASE RuntimeExit \/ Restart
    BY ZenonT(60), <1>4 DEF RuntimeExit, Restart, node
  <1>5. CASE LeaderWatch \/ Environment
    BY ZenonT(60), <1>5 DEF LeaderWatch, Environment, LeadershipChanges, NodeToggled, LateStop,
                NodeHealthChanges, PayloadApplied, NodeAdvances, NodeReorgs, LateStart,
                EnvUnchanged, loop
  <1> QED
    BY Zenon, <1>1, <1>2, <1>3, <1>4, <1>5 DEF Next, vars, loop

\* A node that enforces the hash it takes, or is started without one after
\* the check, is set going on a head that descends from the committed one.
THEOREM StartCorrect ==
    ASSUME Reorgs = FALSE, NodeTakesHash => NodeEnforcesHash
    PROVE  Spec => StartsOnCommittedHead
  <1>1. ASSUME IInv, StartKnows, [Next]_vars,
               ctl \in {"startHash", "startBare"}, ctl' = "select",
               ~node_active, node_active'
        PROVE  Descends(node_head, act.target)
    <2>1. act.target \in Blocks /\ act.hash \in Blocks /\ node_head \in Blocks
      BY ZenonT(60), <1>1 DEF IInv, StartLocals, HasTarget, HasHash, TypeOK
    <2>2. Descends(act.hash, act.target)
      BY ZenonT(60), <1>1 DEF StartKnows, StartHashDescends
    <2>3. CASE ctl = "startHash"
      <3>1. StartHash
        BY Zenon, <1>1, <2>3, WhoStarts DEF StartBare
      <3>2. node_head = act.hash
        BY ZenonT(60), <1>1, <3>1, <2>3 DEF StartHash, NodeStarts
      <3> QED
        BY Zenon, <3>2, <2>2
    <2>4. CASE ctl = "startBare"
      BY ZenonT(60), <1>1, <2>1, <2>2, <2>4, DescendsTransitive DEF StartKnows
    <2> QED
      BY Zenon, <1>1, <2>3, <2>4
  <1>2. IInv /\ StartKnows /\ [Next]_vars =>
            [(ctl \in {"startHash", "startBare"} /\ ctl' = "select"
              /\ ~node_active /\ node_active') => Descends(node_head, act.target)]_vars
    BY Zenon, <1>1
  <1> QED
    BY <1>2, KnowsInvariance, PTL DEF Spec, StartsOnCommittedHead

----------------------------------------------------------------------------
(* The gate of ControlGate.                                                *)

\* A stop() that got past its first test has raised `stopping', and finds
\* the conductor not stopped yet: it has stop_lock to itself.
StopRaised ==
    \A t \in Tasks : adm[t].pc \in {"stopLocking", "stopShutdown"} => stopping /\ ~stopped

\* A step that changes no flag and no call lets an action in flight end, or
\* changes nothing that the gate shows.
LEMMA GateLoop ==
    ASSUME UNCHANGED <<flags, adm>>, ctl \in Driving \/ ctl' \notin Driving
    PROVE  StopRaised => StopRaised' /\ [Gate!Next]_Gate!vars
  <1>1. StopRaised => StopRaised'
    BY Zenon DEF StopRaised, flags
  <1>2. UNCHANGED <<paused, stopping, stopped, \E t \in Tasks : adm[t].pc = "stopShutdown">>
    BY Zenon DEF flags
  <1>3. CASE ctl \in Driving /\ ctl' \notin Driving
    <2>1. (ctl \in Driving)' = FALSE
      BY ONLY SMTT(30), <1>3
    <2>2. Gate!End
      BY Zenon, <1>2, <1>3, <2>1 DEF Gate!End
    <2> QED
      BY Zenon, <1>1, <2>2 DEF Gate!Next
  <1>4. CASE (ctl \in Driving) <=> (ctl' \in Driving)
    <2>1. UNCHANGED (ctl \in Driving)
      BY ONLY SMTT(30), <1>4
    <2> QED
      BY Zenon, <1>1, <1>2, <2>1 DEF Gate!vars
  <1> QED
    BY Zenon, <1>3, <1>4

\* A free action_lock: nothing drives the node, nobody shuts Raft down.
LEMMA GateFree ==
    ASSUME IInv, action_lock = Free
    PROVE  ctl \notin Driving /\ \A t \in Tasks : adm[t].pc # "stopShutdown"
  <1>1. Free # Control /\ \A t \in Tasks : t # Free
    BY Zenon, ConductorAssumption DEF Tasks
  <1> QED
    BY Zenon, <1>1 DEF IInv, LocksOwned

\* A call moves: the others stay where they are.
LEMMA GateMoves ==
    ASSUME IInv, StopRaised, NEW t \in Tasks, UNCHANGED ctl,
           NEW pc \in AdmPC, NEW s \in BOOLEAN,
           adm' = [adm EXCEPT ![t] = [pc |-> pc, sample |-> s]],
           adm[t].pc # "stopShutdown", pc \notin {"stopLocking", "stopShutdown"}
    PROVE  /\ UNCHANGED <<ctl \in Driving, \E u \in Tasks : adm[u].pc = "stopShutdown">>
           /\ UNCHANGED <<stopping, stopped>> => StopRaised'
  <1>1. adm'[t].pc = pc /\ \A u \in Tasks \ {t} : adm'[u] = adm[u]
    BY Zenon DEF IInv, TypeOK
  <1>2. \A u \in Tasks : adm'[u].pc = "stopShutdown" <=> adm[u].pc = "stopShutdown"
    BY Zenon, <1>1
  <1>3. ASSUME NEW u \in Tasks, UNCHANGED <<stopping, stopped>>,
               adm'[u].pc \in {"stopLocking", "stopShutdown"}
        PROVE  stopping' /\ ~stopped'
    <2>1. u # t
      BY Zenon, <1>1, <1>3
    <2>2. adm'[u] = adm[u]
      BY Zenon, <1>1, <2>1
    <2> QED
      BY Zenon, <1>3, <2>2 DEF StopRaised
  <1> QED
    BY Zenon, <1>2, <1>3 DEF StopRaised

\* pause() closes the gate behind the action in flight.
LEMMA GatePause ==
    ASSUME IInv, StopRaised, NEW t \in Tasks, Pause(t)
    PROVE  StopRaised' /\ [Gate!Next]_Gate!vars
  <1>1. /\ UNCHANGED <<ctl \in Driving, \E u \in Tasks : adm[u].pc = "stopShutdown">>
        /\ UNCHANGED <<stopping, stopped>> => StopRaised'
    BY Zenon, GateMoves DEF Pause, AdmMoves, AdmPC, loop
  <1>2. UNCHANGED <<stopping, stopped>> /\ paused' = TRUE /\ action_lock = Free
    BY Zenon DEF Pause
  <1>3. Gate!Pause
    BY Zenon, <1>1, <1>2, GateFree DEF Gate!Pause
  <1> QED
    BY Zenon, <1>1, <1>2, <1>3 DEF Gate!Next

\* resume() opens it.
LEMMA GateResume ==
    ASSUME IInv, StopRaised, NEW t \in Tasks,
           ResumeAnswer(t) \/ ResumeStore(t) \/ ResumeUnpause(t)
    PROVE  StopRaised' /\ [Gate!Next]_Gate!vars
  <1>1. PICK pc \in {"idle", "resumeStore", "resumeUnpause"}, s \in BOOLEAN :
            adm' = [adm EXCEPT ![t] = [pc |-> pc, sample |-> s]]
    BY ZenonT(60) DEF ResumeAnswer, ResumeStore, ResumeUnpause, AdmMoves, IInv, TypeOK
  <1>2. /\ UNCHANGED <<ctl, stopping, stopped>>
        /\ adm[t].pc # "stopShutdown" /\ (UNCHANGED paused \/ paused' = FALSE)
    BY Zenon DEF ResumeAnswer, ResumeStore, ResumeUnpause, flags, loop
  <1>3. StopRaised' /\ UNCHANGED <<ctl \in Driving, \E u \in Tasks : adm[u].pc = "stopShutdown">>
    BY Zenon, <1>1, <1>2, GateMoves DEF AdmPC
  <1>4. CASE UNCHANGED paused
    BY Zenon, <1>2, <1>3, <1>4 DEF Gate!vars
  <1>5. CASE paused' = FALSE
    <2>1. Gate!Resume
      BY Zenon, <1>2, <1>3, <1>5 DEF Gate!Resume
    <2> QED
      BY Zenon, <1>3, <2>1 DEF Gate!Next
  <1> QED
    BY Zenon, <1>2, <1>4, <1>5

\* A call arrives.
LEMMA GateCall ==
    ASSUME IInv, StopRaised, NEW t \in Tasks, Call(t)
    PROVE  StopRaised' /\ [Gate!Next]_Gate!vars
  <1>1. PICK pc \in {"pause", "resume", "stop"} : AdmMoves(t, pc)
    BY Zenon DEF Call
  <1>2. UNCHANGED <<ctl, paused, stopping, stopped>> /\ adm[t].pc # "stopShutdown"
    BY Zenon DEF Call, flags, loop
  <1>3. StopRaised' /\ UNCHANGED <<ctl \in Driving, \E u \in Tasks : adm[u].pc = "stopShutdown">>
    BY Zenon, <1>1, <1>2, GateMoves DEF AdmMoves, AdmPC
  <1> QED
    BY Zenon, <1>2, <1>3 DEF Gate!vars

\* stop() shuts the gate, unless the conductor is stopped already.
LEMMA GateStopBegins ==
    ASSUME IInv, StopRaised, NEW t \in Tasks, StopBegins(t)
    PROVE  StopRaised' /\ [Gate!Next]_Gate!vars
  <1>1. /\ adm[t].pc = "stop" /\ stop_lock = Free
        /\ UNCHANGED <<paused, stopped, ctl>>
    BY Zenon DEF StopBegins, loop
  <1>2. CASE stopped /\ AdmMoves(t, "idle") /\ UNCHANGED stopping
    <2>1. StopRaised' /\ UNCHANGED <<ctl \in Driving, \E u \in Tasks : adm[u].pc = "stopShutdown">>
      BY Zenon, <1>1, <1>2, GateMoves DEF AdmMoves, AdmPC
    <2> QED
      BY Zenon, <1>1, <1>2, <2>1 DEF Gate!vars
  <1>3. CASE ~stopped /\ AdmMoves(t, "stopLocking") /\ stopping' = TRUE
    <2>1. adm'[t].pc = "stopLocking" /\ \A u \in Tasks \ {t} : adm'[u] = adm[u]
      BY Zenon, <1>3, AdmType DEF IInv, AdmPC
    <2>2. \A u \in Tasks : u # Free
      BY Zenon, ConductorAssumption DEF Tasks
    <2>3. \A u \in Tasks : adm[u].pc # "stopShutdown"
      BY Zenon, <1>1, <2>2 DEF IInv, LocksOwned
    <2>4. \A u \in Tasks : adm'[u].pc # "stopShutdown"
      BY Zenon, <2>1, <2>3
    <2>5. Gate!Shut
      BY Zenon, <1>1, <1>3, <2>3, <2>4 DEF Gate!Shut
    <2>6. StopRaised'
      BY Zenon, <1>1, <1>3 DEF StopRaised
    <2> QED
      BY Zenon, <2>5, <2>6 DEF Gate!Next
  <1> QED
    BY Zenon, <1>2, <1>3 DEF StopBegins

\* With action_lock, stop() begins to shut Raft down.
LEMMA GateStopLocks ==
    ASSUME IInv, StopRaised, NEW t \in Tasks, StopLocks(t)
    PROVE  StopRaised' /\ [Gate!Next]_Gate!vars
  <1>1. /\ adm[t].pc = "stopLocking" /\ action_lock = Free
        /\ UNCHANGED <<paused, stopping, stopped, ctl>>
    BY Zenon DEF StopLocks, flags, loop
  <1>2. adm'[t].pc = "stopShutdown" /\ \A u \in Tasks \ {t} : adm'[u] = adm[u]
    BY Zenon, AdmType DEF StopLocks, IInv, AdmPC
  <1>3. stopping /\ ~stopped
    BY Zenon, <1>1 DEF StopRaised
  <1>4. StopRaised'
    BY Zenon, <1>1, <1>3 DEF StopRaised
  <1>5. Gate!Close
    BY Zenon, <1>1, <1>2, <1>3, GateFree DEF Gate!Close
  <1> QED
    BY Zenon, <1>4, <1>5 DEF Gate!Next

\* The call that shuts Raft down is the only one, and ends.
LEMMA GateCloses ==
    ASSUME IInv, StopRaised, NEW t \in Tasks, adm[t].pc = "stopShutdown",
           AdmMoves(t, "idle"), UNCHANGED <<paused, stopping, ctl>>,
           stopped' \in BOOLEAN
    PROVE  StopRaised' /\ [Gate!Next]_Gate!vars
  <1>1. adm'[t].pc = "idle" /\ \A u \in Tasks \ {t} : adm'[u] = adm[u]
    BY Zenon, AdmType DEF IInv, AdmPC
  <1>2. action_lock = t /\ stop_lock = t
    BY Zenon DEF IInv, LocksOwned
  <1>3. \A u \in Tasks \ {t} : adm[u].pc \notin {"stopLocking", "stopShutdown"}
    BY Zenon, <1>2 DEF IInv, LocksOwned
  <1>4. \A u \in Tasks : adm'[u].pc \notin {"stopLocking", "stopShutdown"}
    BY Zenon, <1>1, <1>3
  <1>5. Gate!Closed
    BY Zenon, <1>4 DEF Gate!Closed
  <1> QED
    BY Zenon, <1>4, <1>5 DEF StopRaised, Gate!Next

\* Shut down, or not: the gate stays shut.
LEMMA GateStopShutdown ==
    ASSUME IInv, StopRaised, NEW t \in Tasks, StopShutdown(t)
    PROVE  StopRaised' /\ [Gate!Next]_Gate!vars
  <1>1. /\ adm[t].pc = "stopShutdown" /\ AdmMoves(t, "idle")
        /\ UNCHANGED <<paused, stopping, ctl>> /\ (stopped' = TRUE \/ UNCHANGED stopped)
    BY Zenon DEF StopShutdown, loop
  <1>2. stopped' \in BOOLEAN
    BY Zenon, <1>1 DEF IInv, TypeOK
  <1> QED
    BY Zenon, <1>1, <1>2, GateCloses

\* A caller that leaves takes its locks along, not the flags.
LEMMA GateDropped ==
    ASSUME IInv, StopRaised, NEW t \in Tasks, CallDropped(t)
    PROVE  StopRaised' /\ [Gate!Next]_Gate!vars
  <1>1. AdmMoves(t, "idle") /\ UNCHANGED <<paused, stopping, stopped, ctl>>
    BY Zenon DEF CallDropped, flags, loop
  <1>2. CASE adm[t].pc = "stopShutdown"
    <2>1. stopped' \in BOOLEAN
      BY Zenon, <1>1 DEF IInv, TypeOK
    <2> QED
      BY Zenon, <1>1, <1>2, <2>1, GateCloses
  <1>3. CASE adm[t].pc # "stopShutdown"
    <2>1. StopRaised' /\ UNCHANGED <<ctl \in Driving, \E u \in Tasks : adm[u].pc = "stopShutdown">>
      BY Zenon, <1>1, <1>3, GateMoves DEF AdmMoves, AdmPC
    <2> QED
      BY Zenon, <1>1, <2>1 DEF Gate!vars
  <1> QED
    BY Zenon, <1>2, <1>3

\* The end of the runtime drops the action in flight; the main task's stop()
\* has not begun.
LEMMA GateExit ==
    ASSUME IInv, StopRaised, RuntimeExit
    PROVE  StopRaised' /\ [Gate!Next]_Gate!vars
  <1>1. /\ adm[Main].pc = "idle" /\ AdmMoves(Main, "stop") /\ ctl' = "exited"
        /\ UNCHANGED <<paused, stopping, stopped>>
    BY Zenon DEF RuntimeExit, IInv, MainIdle, flags
  <1>2. adm'[Main].pc = "stop" /\ \A u \in Tasks \ {Main} : adm'[u] = adm[u]
    BY Zenon, <1>1, AdmType DEF IInv, AdmPC, Tasks
  <1>3. \A u \in Tasks : adm'[u].pc = "stopShutdown" <=> adm[u].pc = "stopShutdown"
    BY Zenon, <1>1, <1>2
  <1>4. UNCHANGED (\E u \in Tasks : adm[u].pc = "stopShutdown")
    BY Zenon, <1>3
  <1>5. StopRaised'
    BY Zenon, <1>1, <1>2 DEF StopRaised
  <1>6. ctl' \notin Driving
    BY Zenon, <1>1 DEF Driving
  <1>7. CASE ctl \in Driving
    <2>1. (ctl \in Driving)' = FALSE
      BY ONLY SMTT(30), <1>6
    <2>2. Gate!End
      BY Zenon, <1>1, <1>4, <1>7, <2>1 DEF Gate!End
    <2> QED
      BY Zenon, <1>5, <2>2 DEF Gate!Next
  <1>8. CASE ctl \notin Driving
    <2>1. UNCHANGED (ctl \in Driving)
      BY ONLY SMTT(30), <1>6, <1>8
    <2> QED
      BY Zenon, <1>1, <1>4, <1>5, <2>1 DEF Gate!vars
  <1> QED
    BY Zenon, <1>7, <1>8

\* A new process has an open or a paused gate.
LEMMA GateRestart ==
    ASSUME IInv, Restart
    PROVE  StopRaised' /\ Gate!Init'
  <1>1. \A u \in Tasks : adm'[u].pc = "idle"
    BY Zenon DEF Restart
  <1>2. ctl' \notin Driving
    BY Zenon DEF Restart, Driving
  <1>3. paused' \in BOOLEAN /\ stopping' = FALSE /\ stopped' = FALSE
    BY Zenon DEF Restart
  <1>4. ~ \E u \in Tasks : adm'[u].pc = "stopShutdown"
    BY Zenon, <1>1
  <1>5. (ctl \in Driving)' = FALSE
    BY ONLY SMTT(30), <1>2
  <1>6. (\E u \in Tasks : adm[u].pc = "stopShutdown")' = FALSE
    BY ONLY SMTT(30), <1>4
  <1>7. Gate!Init'
    BY Zenon, <1>3, <1>5, <1>6 DEF Gate!Init
  <1> QED
    BY Zenon, <1>1, <1>7 DEF StopRaised

\* Take action_lock and pass the guard: the one way through the gate.
LEMMA GateBegins ==
    ASSUME IInv, StopRaised, ActionBegins
    PROVE  StopRaised' /\ [Gate!Next]_Gate!vars
  <1>1. /\ action_lock = Free /\ ~(paused \/ stopping \/ stopped) /\ ctl' = "status"
        /\ UNCHANGED <<paused, stopping, stopped, adm>>
    BY Zenon DEF ActionBegins, flags
  <1>2. ctl' \in Driving
    BY Zenon, <1>1 DEF Driving
  <1>3. StopRaised'
    BY Zenon, <1>1 DEF StopRaised
  <1>4. Gate!Begin
    BY Zenon, <1>1, <1>2, GateFree DEF Gate!Begin
  <1> QED
    BY Zenon, <1>3, <1>4 DEF Gate!Next

\* Every step of the conductor is a step of the gate, none, or a new process.
LEMMA GateStep ==
    ASSUME IInv, StopRaised, [Next]_vars
    PROVE  StopRaised' /\ ((Restart /\ Gate!Init') \/ [Gate!Next]_Gate!vars)
  <1>1. CASE ActionQueued \/ ActionRetry \/ Tick
    BY ZenonT(60), <1>1, GateLoop DEF ActionQueued, ActionRetry, Tick, LoopExits, loop, Driving
  <1>2. CASE RefreshAnswer \/ RefreshStore \/ CheckHealth \/ ActionSkipped
    BY ZenonT(60), <1>2, GateLoop DEF RefreshAnswer, RefreshStore, CheckHealth, ActionSkipped,
                                      BackToSelect, Driving
  <1>3. CASE ActionDecides \/ StopSequencer \/ TransferLeader \/ StartSequencer
    <2>1. ctl \in Driving
      BY Zenon, <1>3 DEF ActionDecides, StopSequencer, TransferLeader, StartSequencer,
                         StartPayload, StartHead, StartRepair, StartAncestor, StartHash,
                         StartCheck, StartBare, Driving
    <2>2. UNCHANGED <<flags, adm>>
      BY ZenonT(60), <1>3 DEF ActionDecides, StopSequencer, TransferLeader, StartSequencer,
                         StartPayload, StartHead, StartRepair, StartAncestor, StartHash,
                         StartCheck, StartBare, NodeStarts, StartUnchanged
    <2> QED
      BY Zenon, <2>1, <2>2, GateLoop
  <1>4. CASE ActionBegins
    BY Zenon, <1>4, GateBegins
  <1>5. CASE \E t \in Tasks : Admin(t) \/ Call(t) \/ CallDropped(t)
    BY ZenonT(60), <1>5, GatePause, GateResume, GateStopBegins, GateStopLocks, GateStopShutdown,
       GateCall, GateDropped DEF Admin
  <1>6. CASE LeaderWatch \/ Environment
    <2>1. UNCHANGED <<flags, adm, ctl>>
      BY ZenonT(60), <1>6 DEF LeaderWatch, Environment, LeadershipChanges, NodeToggled, LateStop,
                  NodeHealthChanges, PayloadApplied, NodeAdvances, NodeReorgs, LateStart,
                  EnvUnchanged, loop
    <2> QED
      BY Zenon, <2>1, GateLoop
  <1>7. CASE RuntimeExit \/ Restart
    BY Zenon, <1>7, GateExit, GateRestart
  <1>8. CASE UNCHANGED vars
    BY Zenon, <1>8, GateLoop DEF vars, loop
  <1> QED
    BY Zenon, <1>1, <1>2, <1>3, <1>4, <1>5, <1>6, <1>7, <1>8 DEF Next

\* pause, resume, stop and action_locked implement the gate: no action begins
\* while paused or, whatever becomes of the shutdown, after stop().
THEOREM GateRefined == Spec => RefinesControlGate
  <1>1. Init => \A t \in Tasks : adm[t].pc = "idle"
    <2>1. Init => adm = [t \in Tasks |-> [pc |-> "idle", sample |-> FALSE]]
      BY Zenon DEF Init
    <2> QED
      BY SMTT(30), <2>1
  <1>2. Init => StopRaised
    BY Zenon, <1>1 DEF StopRaised
  <1>3. Init => Gate!Init
    BY SMTT(30), <1>1 DEF Init, Gate!Init, Driving
  <1> QED
    BY <1>2, <1>3, GateStep, InitIInv, NextIInv, PTL DEF Spec, RefinesControlGate

=============================================================================
