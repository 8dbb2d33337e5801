---------------------------- MODULE HealthCheck ----------------------------
(***************************************************************************)
(* The health of the sequencer as one tick of the conductor finds it:      *)
(* check_health_at and its checks (conductor.rs), the clients they ask     *)
(* (health.rs), and the counter that lets a bounded number of partially    *)
(* healthy rollup-boost answers pass per interval.                         *)
(***************************************************************************)
EXTENDS RpcClient, FiniteSets

CONSTANTS
    MaxBuckets,     \* buckets the counter keeps before it clears: 1000
    MaxTime         \* bound: the last second of the explored history

ASSUME HealthAssumption == MaxBuckets \in Nat \ {0} /\ MaxTime \in Nat

VARIABLES
    clock,          \* current_unix_time()
    buckets,        \* TimeBoundedCounter::buckets
    tolerated       \* history: partial answers let through, per interval

health_vars == <<clock, buckets, tolerated>>

----------------------------------------------------------------------------
(* The clients.  An HTTP health answer is a status and a body.             *)

IsSyncStatus(v) == v.kind = "sync" /\ {v.unsafe, v.safe} \subseteq 0 .. MaxU64
IsPeerStats(v) == v.kind = "peers" /\ v.n \in 0 .. MaxU64

\* optimism_syncStatus with the times of the unsafe and the safe head.
SyncStatus(u, s) == [kind |-> "sync", n |-> 0, unsafe |-> u, safe |-> s]

sync_status(r) == call(r, IsSyncStatus(r.result))
peer_stats(r) == call(r, IsPeerStats(r.result))
SupervisorCheck(r) == call(r, TRUE)

peer_count(api, r) ==
    IF api = "net" THEN call(r, IsQuantity(r.result)) ELSE call(r, IsArray(r.result))

check_status_code(h) ==
    CASE h.status = 200 -> "Healthy"
      [] h.status = 206 -> "Partial"
      [] h.status = 503 -> "Unhealthy"
      [] OTHER -> "Err"

\* The body is cut at MAX_HEALTH_RESPONSE_BYTES; what then does not decode
\* is an error like an unknown word.
check_json(h) ==
    IF h.status # 200 THEN "Err"
    ELSE CASE h.body = "Healthy" -> "Healthy"
           [] h.body = "PartialContent" -> "Partial"
           [] h.body = "ServiceUnavailable" -> "Unhealthy"
           [] OTHER -> "Err"

RollupBoostCheck(kind, h) ==
    IF kind = "StatusCode" THEN check_status_code(h) ELSE check_json(h)

----------------------------------------------------------------------------
(* TimeBoundedCounter.                                                     *)

bucket(t, interval) == t \div interval

current_value(b, t, interval) ==
    IF bucket(t, interval) \in DOMAIN b THEN b[bucket(t, interval)] ELSE 0

\* Mutant: the clear forgets the interval it is in, too.
increment_cleared(b, t, interval) ==
    LET k == bucket(t, interval)
        grown == [i \in DOMAIN b \cup {k} |->
                    IF i = k THEN current_value(b, t, interval) + 1 ELSE b[i]]
    IN  IF Cardinality(DOMAIN grown) > MaxBuckets THEN << >> ELSE grown

increment(b, t, interval) ==
    LET k == bucket(t, interval)
        latest == current_value(b, t, interval) + 1
        grown == [i \in DOMAIN b \cup {k} |-> IF i = k THEN latest ELSE b[i]]
    IN  IF Cardinality(DOMAIN grown) > MaxBuckets
        THEN [i \in {k} |-> latest]
        ELSE grown

Tolerates(c, b, t) ==
    /\ c.limit # 0 /\ c.interval # 0
    /\ current_value(b, t, c.interval) < c.limit

----------------------------------------------------------------------------
(* check_health_at: the checks in their order.  A check that finds nothing *)
(* wrong, or that is not configured, passes to the next one.               *)

Pass == "Pass"

saturating_time_diff(t, then) == IF t > then THEN t - then ELSE 0

check_supervisor(c, r) ==
    IF c.supervisor /\ ~SupervisorCheck(r).ok THEN "SupervisorConnectionDown" ELSE Pass

check_sync_status(c, t, s) ==
    IF \/ saturating_time_diff(t, s.unsafe) > c.unsafe_interval
       \/ c.safe_enabled /\ saturating_time_diff(t, s.safe) > c.safe_interval
    THEN "Unhealthy" ELSE Pass

check_peer_stats(c, p) == IF p.n < c.min_peers THEN "Unhealthy" ELSE Pass

check_execution_p2p(c, r) ==
    LET p == peer_count(c.el_api, r) IN
    IF c.el_api = "none" THEN Pass
    ELSE IF ~p.ok THEN "ExecutionP2pConnectionDown"
    ELSE IF p.value.n < c.el_min THEN "Unhealthy"
    ELSE Pass

check_rollup_boost(c, b, t, h) ==
    IF c.rollup_boost = "none" THEN Pass
    ELSE CASE RollupBoostCheck(c.rollup_boost, h) = "Healthy" -> Pass
           [] RollupBoostCheck(c.rollup_boost, h) = "Partial" ->
                IF Tolerates(c, b, t) THEN Pass ELSE "RollupBoostPartiallyHealthy"
           [] RollupBoostCheck(c.rollup_boost, h) = "Unhealthy" -> "Unhealthy"
           [] OTHER -> "RollupBoostConnectionDown"

\* The checks before rollup-boost: Pass when that one is to be asked.
ChecksBefore(c, t, a) ==
    LET s == sync_status(a.sync)
        p == peer_stats(a.peers)
    IN  IF ~s.ok THEN "SequencerConnectionDown"
        ELSE IF check_supervisor(c, a.supervisor) # Pass
             THEN check_supervisor(c, a.supervisor)
        ELSE IF check_sync_status(c, t, s.value) # Pass
             THEN check_sync_status(c, t, s.value)
        ELSE IF ~p.ok THEN "SequencerConnectionDown"
        ELSE IF check_peer_stats(c, p.value) # Pass
             THEN check_peer_stats(c, p.value)
        ELSE check_execution_p2p(c, a.el)

check_health_at(c, b, t, a) ==
    LET before == ChecksBefore(c, t, a)
        last == check_rollup_boost(c, b, t, a.rb)
    IN  IF before # Pass THEN before
        ELSE IF last # Pass THEN last
        ELSE "Healthy"

\* This tick asks rollup-boost and gets a partially healthy answer.
AsksPartial(c, t, a) ==
    /\ ChecksBefore(c, t, a) = Pass
    /\ c.rollup_boost # "none"
    /\ RollupBoostCheck(c.rollup_boost, a.rb) = "Partial"

----------------------------------------------------------------------------

HealthInit ==
    /\ clock = 0
    /\ buckets = << >>
    /\ tolerated = << >>

\* One tick's health check; the counter moves when an answer is tolerated.
HealthTick(c, a) ==
    /\ IF AsksPartial(c, clock, a) /\ Tolerates(c, buckets, clock)
       THEN LET k == bucket(clock, c.interval) IN
            /\ buckets' = increment(buckets, clock, c.interval)
            /\ tolerated' = [i \in DOMAIN tolerated \cup {k} |->
                                (IF i \in DOMAIN tolerated THEN tolerated[i] ELSE 0)
                                + (IF i = k THEN 1 ELSE 0)]
       ELSE UNCHANGED <<buckets, tolerated>>
    /\ UNCHANGED clock

\* Time passes; the clock does not step back over an interval.
ClockAdvances ==
    /\ clock < MaxTime
    /\ clock' = clock + 1
    /\ UNCHANGED <<buckets, tolerated>>

=============================================================================
