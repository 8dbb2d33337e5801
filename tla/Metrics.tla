------------------------------ MODULE Metrics ------------------------------
(***************************************************************************)
(* The RPC counters and the duration histogram of metrics.rs.  They sit    *)
(* behind one mutex: a recorder, and a scrape, is one step.  A duration is *)
(* the number of the bucket bound it falls under; past the last bound, it  *)
(* is in no bucket.                                                        *)
(***************************************************************************)
EXTENDS Naturals, Sequences, FiniteSets, FiniteSetsExt

CONSTANT Bounds     \* the number of bucket bounds

ASSUME MetricsAssumption == Bounds \in Nat \ {0}

VARIABLE counters

\* Maps from a label, or a pair of them, to a count; a histogram is a count
\* for every bound.  A label is there once something was recorded for it.
NoCounters ==
    [requests |-> << >>, responses |-> << >>, buckets |-> << >>, count |-> << >>,
     notifications |-> << >>]

Durations == 1 .. Bounds + 1

\* entry(key).or_insert(default) of a map.
Entry(map, key, default) ==
    [k \in DOMAIN map \cup {key} |-> IF k \in DOMAIN map THEN map[k] ELSE default]

Bump(map, key) == [Entry(map, key, 0) EXCEPT ![key] = @ + 1]

\* Mutant: a duration is counted only under the bound it falls under first.
Observed_first(buckets, d) == [i \in 1 .. Bounds |-> buckets[i] + (IF i = d THEN 1 ELSE 0)]

\* seconds <= bucket: counted under every bound it does not exceed.
Observed(buckets, d) == [i \in 1 .. Bounds |-> buckets[i] + (IF d <= i THEN 1 ELSE 0)]

\* The histogram of a method, all zeros before its first request.
Observe(map, m, d) ==
    [Entry(map, m, [i \in 1 .. Bounds |-> 0]) EXCEPT ![m] = Observed(@, d)]

record_rpc_server_notification(m) ==
    counters' = [counters EXCEPT !.notifications = Bump(@, m)]

record_rpc_server_request(m, d, code) ==
    counters' = [counters EXCEPT
        !.requests = Bump(@, m),
        !.responses = Bump(@, <<m, code>>),
        !.buckets = Observe(@, m, d),
        !.count = Bump(@, m)]

Total(f) == MapThenSumSet(LAMBDA x : f[x], DOMAIN f)

\* What a scrape shows of a method: the bucket lines with +Inf at their end,
\* the histogram's count, the requests, and the responses over all labels.
render_prometheus(m) ==
    [le |-> Append(counters.buckets[m], counters.count[m]),
     count |-> counters.count[m],
     requests |-> counters.requests[m],
     responses |-> MapThenSumSet(LAMBDA p : counters.responses[p],
                                 {p \in DOMAIN counters.responses : p[1] = m})]

(***************************************************************************)
(* Whatever moment a scrape meets, each method's histogram is one: bucket  *)
(* lines never decrease towards +Inf, and requests, responses and the      *)
(* histogram's count agree.                                                *)
(***************************************************************************)
ScrapesAddUp ==
    \A m \in DOMAIN counters.requests :
        LET page == render_prometheus(m) IN
        /\ \A i \in 1 .. Bounds : page.le[i] <= page.le[i + 1]
        /\ page.count = page.requests /\ page.count = page.responses
=============================================================================
