--------------------------- MODULE ServiceProofs ---------------------------
(***************************************************************************)
(* Theorems about the JSON-RPC server, its metrics and the flashblocks     *)
(* stream, for every set of callers, bodies, backend answers, subscribers, *)
(* channel sizes and bucket bounds.                                        *)
(***************************************************************************)
EXTENDS RpcServer, Flashblocks, FiniteSetTheorems, SequenceTheorems,
        WellFoundedInduction, TLAPS

-----------------------------------------------------------------------------
(* Sums over finite sets: the library's fold takes the elements in an      *)
(* order CHOOSE fixes; the result does not depend on it.                   *)

\* g sums f over every subset of S.
Sums(f, S, g) == g = [s \in SUBSET S |->
    IF s = {} THEN 0 ELSE LET x == CHOOSE x \in s : TRUE IN f[x] + g[s \ {x}]]

SumOf(f, S) == MapThenSumSet(LAMBDA x : f[x], S)

\* SumOf by the equations its recursion solves.
LEMMA SumIs ==
  ASSUME NEW f, NEW S
  PROVE  SumOf(f, S) = (CHOOSE g : Sums(f, S, g))[S]
  BY Zenon DEF SumOf, MapThenSumSet, MapThenFoldSet, Sums

\* Among subsets of a finite set one has no smaller one beside it.
LEMMA LeastSubset ==
  ASSUME NEW S, IsFiniteSet(S), NEW B, \A T \in B : T \subseteq S, B # {}
  PROVE  \E T \in B : \A U \in B : U \subseteq T => U = T
  <1> DEFINE R == StrictSubsetOrdering(S)
  <1>1. FiniteSubsetsOf(S) = SUBSET S
    BY Zenon, FS_FiniteSubsetsOfFinite
  <1>2. IsWellFoundedOn(R, SUBSET S)
    BY Zenon, <1>1, FS_StrictSubsetOrderingWellFounded
  <1>3. PICK T \in B : \A U \in B : ~ (<<U, T>> \in R)
    <2>1. B \subseteq SUBSET S
      OBVIOUS
    <2> HIDE DEF R
    <2> QED
      BY Zenon, <1>2, <2>1, WFMin
  <1> QED
    BY Zenon, <1>3 DEF StrictSubsetOrdering

\* Two solutions agree where the functions summed do.
LEMMA SumAgrees ==
  ASSUME NEW f, NEW h, NEW S, NEW V, NEW g, NEW k, IsFiniteSet(S), Sums(f, S, g), Sums(h, V, k),
         NEW T \in SUBSET S, T \subseteq V, \A x \in T : f[x] = h[x]
  PROVE  g[T] = k[T]
  <1> DEFINE B == {U \in SUBSET T : g[U] # k[U]}
  <1> SUFFICES ASSUME B # {} PROVE FALSE
    OBVIOUS
  <1>1. IsFiniteSet(T)
    BY Zenon, FS_Subset
  <1>2. PICK U \in B : \A W \in B : W \subseteq U => W = U
    <2>1. \A U \in B : U \subseteq T
      OBVIOUS
    <2> HIDE DEF B
    <2> QED
      BY SMT, <1>1, <2>1, LeastSubset
  <1> DEFINE c == CHOOSE x \in U : TRUE
  <1>3. U # {}
    BY ZenonT(60), <1>2 DEF Sums
  <1>4. c \in U
    BY Zenon, <1>3
  <1>5. g[U \ {c}] = k[U \ {c}]
    BY Zenon, <1>2, <1>4
  <1>6. g[U] = f[c] + g[U \ {c}] /\ k[U] = h[c] + k[U \ {c}]
    BY Zenon, <1>2, <1>3 DEF Sums
  <1> QED
    BY Zenon, <1>2, <1>4, <1>5, <1>6

\* The equations have a solution.
LEMMA SumExists ==
  ASSUME NEW f, NEW S, IsFiniteSet(S)
  PROVE  Sums(f, S, CHOOSE g : Sums(f, S, g))
  <1> DEFINE B == {T \in SUBSET S : ~\E g : Sums(f, T, g)}
  <1> SUFFICES ASSUME B # {} PROVE FALSE
    OBVIOUS
  <1>1. PICK T \in B : \A W \in B : W \subseteq T => W = T
    <2>1. \A T \in B : T \subseteq S
      OBVIOUS
    <2> HIDE DEF B
    <2> QED
      BY SMT, <2>1, LeastSubset
  <1> DEFINE own(u) == CHOOSE g : Sums(f, u, g)
             c(u) == CHOOSE x \in u : TRUE
             G == [s \in SUBSET T |-> IF s = {} THEN 0 ELSE f[c(s)] + own(s \ {c(s)})[s \ {c(s)}]]
  <1>2. ASSUME NEW u \in SUBSET T, u # T PROVE Sums(f, u, own(u))
    BY Zenon, <1>1, <1>2
  <1>3. ASSUME NEW s \in SUBSET T, s # {} PROVE G[s] = f[c(s)] + G[s \ {c(s)}]
    <2> DEFINE u == s \ {c(s)}
    <2>1. c(s) \in s
      BY Zenon, <1>3
    <2>2. u \in SUBSET T /\ u # T /\ IsFiniteSet(u)
      BY Zenon, <2>1, FS_Subset
    <2>3. Sums(f, u, own(u))
      BY Zenon, <1>2, <2>2
    <2>4. own(u)[u] = G[u]
      <3>1. CASE u = {}
        BY Zenon, <2>3, <3>1 DEF Sums
      <3>2. CASE u # {}
        <4> DEFINE v == u \ {c(u)}
        <4>1. c(u) \in u
          BY Zenon, <3>2
        <4>2. v \in SUBSET T /\ v # T /\ v \in SUBSET u
          BY Zenon, <2>2, <4>1
        <4>3. Sums(f, v, own(v))
          BY Zenon, <1>2, <4>2
        <4>4. own(u)[v] = own(v)[v]
          <5> HIDE DEF v, u, own
          <5> QED
            BY <2>2, <2>3, <4>2, <4>3, SumAgrees
        <4>5. own(u)[u] = f[c(u)] + own(u)[v]
          BY Zenon, <2>3, <3>2 DEF Sums
        <4> QED
          BY <2>2, <3>2, <4>4, <4>5
      <3> QED
        BY Zenon, <3>1, <3>2
    <2>5. G[s] = f[c(s)] + own(u)[u]
      BY Zenon, <1>3
    <2> QED
      BY Zenon, <2>4, <2>5
  <1>4. Sums(f, T, G)
    <2> DEFINE E(s) == IF s = {} THEN 0 ELSE f[c(s)] + G[s \ {c(s)}]
    <2>1. \A s \in SUBSET T : G[s] = E(s)
      <3>1. G[{}] = E({})
        OBVIOUS
      <3> HIDE DEF G, c
      <3>2. ASSUME NEW s \in SUBSET T, s # {} PROVE G[s] = E(s)
        BY Zenon, <1>3, <3>2
      <3> HIDE DEF E
      <3> QED
        BY Zenon, <3>1, <3>2
    <2>2. G = [s \in SUBSET T |-> G[s]]
      OBVIOUS
    <2> HIDE DEF G
    <2>3. [s \in SUBSET T |-> G[s]] = [s \in SUBSET T |-> E(s)]
      BY Zenon, <2>1
    <2> QED
      BY Zenon, <2>2, <2>3 DEF Sums
  <1> QED
    BY Zenon, <1>1, <1>4

\* The sum of f over T does not depend on the element taken first.
LEMMA SumTakes ==
  ASSUME NEW f, NEW S, NEW g, IsFiniteSet(S), \A x \in S : f[x] \in Nat, Sums(f, S, g)
  PROVE  \A T \in SUBSET S : g[T] \in Nat /\ \A x \in T : g[T] = f[x] + g[T \ {x}]
  <1> DEFINE P(T) == g[T] \in Nat /\ \A x \in T : g[T] = f[x] + g[T \ {x}]
             B == {T \in SUBSET S : ~P(T)}
  <1> SUFFICES ASSUME B # {} PROVE FALSE
    OBVIOUS
  <1>1. PICK T \in B : \A W \in B : W \subseteq T => W = T
    <2>1. \A T \in B : T \subseteq S
      OBVIOUS
    <2> HIDE DEF B
    <2> QED
      BY SMT, <2>1, LeastSubset
  <1> DEFINE c == CHOOSE x \in T : TRUE
  <1>2. \A W \in SUBSET T : W # T => P(W)
    BY Zenon, <1>1
  <1>3. T # {}
    <2>1. g[{}] = 0
      BY Zenon DEF Sums
    <2>2. P({})
      BY SMTT(30), <2>1
    <2> QED
      BY Zenon, <1>1, <2>2
  <1>4. c \in T /\ g[T] = f[c] + g[T \ {c}]
    BY Zenon, <1>1, <1>3 DEF Sums
  <1>5. g[T \ {c}] \in Nat /\ f[c] \in Nat
    BY Zenon, <1>1, <1>2, <1>4
  <1>6. ASSUME NEW x \in T PROVE g[T] = f[x] + g[T \ {x}]
    <2>1. CASE x = c
      BY Zenon, <1>4, <2>1
    <2>2. CASE x # c
      <3> DEFINE W == (T \ {c}) \ {x}
      <3>1. g[T \ {c}] = f[x] + g[W]
        BY ZenonT(60), <1>2, <1>4, <2>2
      <3>2. (T \ {x}) \ {c} = W
        OBVIOUS
      <3>3. g[T \ {x}] = f[c] + g[W]
        BY SMTT(30), <1>2, <1>4, <2>2, <3>2
      <3>4. g[W] \in Nat /\ f[x] \in Nat /\ f[c] \in Nat
        BY Zenon, <1>1, <1>2, <1>4
      <3> HIDE DEF W, c
      <3> QED
        BY SMTT(30), <1>4, <3>1, <3>3, <3>4
    <2> QED
      BY Zenon, <2>1, <2>2
  <1>7. g[T] \in Nat
    <2> HIDE DEF c
    <2> QED
      BY <1>4, <1>5
  <1> QED
    BY Zenon, <1>1, <1>6, <1>7

\* Sums over finite sets, one element at a time.
LEMMA SumStep ==
  ASSUME NEW f, NEW h, NEW S, NEW x \in S, IsFiniteSet(S),
         \A y \in S : f[y] \in Nat, \A y \in S \ {x} : h[y] = f[y]
  PROVE  SumOf(h, S \ {x}) \in Nat /\ SumOf(f, S) = f[x] + SumOf(h, S \ {x})
  <1> DEFINE g == CHOOSE g : Sums(f, S, g)
             k == CHOOSE k : Sums(h, S \ {x}, k)
  <1>1. IsFiniteSet(S \ {x})
    BY Zenon, FS_RemoveElement
  <1>2. Sums(f, S, g) /\ Sums(h, S \ {x}, k)
    BY Zenon, <1>1, SumExists
  <1>3. SumOf(f, S) = g[S] /\ SumOf(h, S \ {x}) = k[S \ {x}]
    BY Zenon, SumIs
  <1> HIDE DEF g, k
  <1>4. g[S \ {x}] = k[S \ {x}]
    BY <1>2, SumAgrees
  <1>5. g[S] = f[x] + g[S \ {x}] /\ g[S \ {x}] \in Nat
    <2>1. \A T \in SUBSET S : g[T] \in Nat /\ \A y \in T : g[T] = f[y] + g[T \ {y}]
      BY <1>2, SumTakes
    <2> QED
      BY Zenon, <2>1
  <1> QED
    BY Zenon, <1>3, <1>4, <1>5

\* Nothing sums to zero.
LEMMA SumEmpty == ASSUME NEW f PROVE SumOf(f, {}) = 0
  <1>1. Sums(f, {}, CHOOSE g : Sums(f, {}, g))
    BY Zenon, SumExists, FS_EmptySet
  <1> QED
    BY Zenon, <1>1, SumIs DEF Sums

\* Equal summands have equal sums.
LEMMA SumSame ==
  ASSUME NEW f, NEW h, NEW S, IsFiniteSet(S), \A y \in S : h[y] = f[y]
  PROVE  SumOf(h, S) = SumOf(f, S)
  <1> DEFINE g == CHOOSE g : Sums(f, S, g)
             k == CHOOSE k : Sums(h, S, k)
  <1>1. Sums(f, S, g) /\ Sums(h, S, k)
    BY Zenon, SumExists
  <1>2. SumOf(f, S) = g[S] /\ SumOf(h, S) = k[S]
    BY Zenon, SumIs
  <1> HIDE DEF g, k
  <1> QED
    BY <1>1, <1>2, SumAgrees

-----------------------------------------------------------------------------
(* Metrics.                                                                *)

\* A map of counters.
Counts(map) == IsFiniteSet(DOMAIN map) /\ map \in [DOMAIN map -> Nat]

\* The labels of the responses to method m.
Of(map, m) == {p \in DOMAIN map : p[1] = m}

(***************************************************************************)
(* What makes a scrape add up: one key set for the maps of a method, no    *)
(* responses without them, and a histogram below its count.                *)
(***************************************************************************)
Adding(requests, responses, buckets) ==
    /\ Counts(requests) /\ Counts(responses)
    /\ buckets \in [DOMAIN requests -> [1 .. Bounds -> Nat]]
    /\ \A m \in DOMAIN requests : \A i, j \in 1 .. Bounds :
           /\ i <= j => buckets[m][i] <= buckets[m][j]
           /\ buckets[m][i] <= requests[m]
    /\ \A p \in DOMAIN responses : p[1] \in DOMAIN requests
    /\ \A m \in DOMAIN requests : requests[m] = SumOf(responses, Of(responses, m))

CountersInv(c) ==
    /\ c = [requests |-> c.requests, responses |-> c.responses, buckets |-> c.buckets,
            count |-> c.count, notifications |-> c.notifications]
    /\ Adding(c.requests, c.responses, c.buckets)
    /\ c.count = c.requests /\ Counts(c.notifications)

\* `or_default() += 1' on one key: the other counts stay.
LEMMA BumpIs ==
  ASSUME NEW map, NEW key, Counts(map)
  PROVE  /\ Counts(Bump(map, key))
         /\ DOMAIN Bump(map, key) = DOMAIN map \cup {key}
         /\ Bump(map, key)[key] = 1 + (IF key \in DOMAIN map THEN map[key] ELSE 0)
         /\ \A y \in DOMAIN map : y # key => Bump(map, key)[y] = map[y]
  <1>1. IsFiniteSet(DOMAIN map \cup {key})
    BY Zenon, FS_AddElement DEF Counts
  <1>2. DOMAIN Bump(map, key) = DOMAIN map \cup {key}
    BY Zenon DEF Bump, Entry
  <1>3. Bump(map, key)[key] = 1 + (IF key \in DOMAIN map THEN map[key] ELSE 0)
    BY DEF Bump, Entry, Counts
  <1>4. \A y \in DOMAIN map : y # key => Bump(map, key)[y] = map[y]
    BY Zenon DEF Bump, Entry
  <1>5. Bump(map, key) \in [DOMAIN map \cup {key} -> Nat]
    BY DEF Bump, Entry, Counts
  <1> QED
    BY Zenon, <1>1, <1>2, <1>3, <1>4, <1>5 DEF Counts

\* A bump adds one to the sum over any labels that tell whether it is new.
LEMMA SumBump ==
  ASSUME NEW map, NEW key, Counts(map), NEW D \in SUBSET DOMAIN map,
         key \in DOMAIN map => key \in D
  PROVE  SumOf(map, D) \in Nat /\ SumOf(Bump(map, key), D \cup {key}) = SumOf(map, D) + 1
  <1> DEFINE E == D \cup {key}
             f == Bump(map, key)
  <1>1. IsFiniteSet(D) /\ IsFiniteSet(E)
    BY Zenon, FS_Subset, FS_AddElement DEF Counts
  <1>2. /\ \A y \in E : f[y] \in Nat
        /\ \A y \in E \ {key} : map[y] = f[y]
        /\ f[key] = 1 + (IF key \in DOMAIN map THEN map[key] ELSE 0)
    BY ZenonT(60), BumpIs DEF Counts
  <1> SUFFICES SumOf(map, D) \in Nat /\ SumOf(f, E) = SumOf(map, D) + 1
    OBVIOUS
  <1> HIDE DEF f
  <1>3. SumOf(map, E \ {key}) \in Nat /\ SumOf(f, E) = f[key] + SumOf(map, E \ {key})
    <2>1. key \in E
      OBVIOUS
    <2>2. IsFiniteSet(E) /\ (\A y \in E : f[y] \in Nat) /\ (\A y \in E \ {key} : map[y] = f[y])
      BY Zenon, <1>1, <1>2
    <2> HIDE DEF E
    <2> QED
      BY SMTT(30), SMT, <2>1, <2>2, SumStep
  <1>4. CASE key \notin D
    <2>1. E \ {key} = D
      BY Zenon, <1>4
    <2> QED
      BY <1>2, <1>3, <1>4, <2>1
  <1>5. CASE key \in D
    <2>1. \A y \in D : map[y] \in Nat
      BY Zenon DEF Counts
    <2>2. SumOf(map, D \ {key}) \in Nat /\ SumOf(map, D) = map[key] + SumOf(map, D \ {key})
      BY SMTT(30), <1>1, <1>5, <2>1, SumStep
    <2>3. E \ {key} = D \ {key} /\ map[key] \in Nat /\ key \in DOMAIN map
      BY Zenon, <1>5, <2>1
    <2> QED
      BY SMTT(30), <1>2, <1>3, <2>2, <2>3
  <1> QED
    BY Zenon, <1>4, <1>5

\* A bumped map counts one more.
LEMMA TotalBump ==
  ASSUME NEW map, NEW key, Counts(map)
  PROVE  Total(map) \in Nat /\ Total(Bump(map, key)) = Total(map) + 1
  <1>1. SumOf(map, DOMAIN map) \in Nat
        /\ SumOf(Bump(map, key), DOMAIN map \cup {key}) = SumOf(map, DOMAIN map) + 1
    BY Zenon, SumBump
  <1>2. DOMAIN Bump(map, key) = DOMAIN map \cup {key}
    BY Zenon, BumpIs
  <1>3. Total(map) = SumOf(map, DOMAIN map)
        /\ Total(Bump(map, key)) = SumOf(Bump(map, key), DOMAIN Bump(map, key))
    BY Zenon DEF Total, SumOf
  <1> QED
    BY Zenon, <1>1, <1>2, <1>3

\* A new registry has nothing to add up.
LEMMA InitCounters == CountersInv(NoCounters)
  <1>1. Counts(<< >>) /\ DOMAIN << >> = {}
    BY FS_EmptySet DEF Counts
  <1>2. Adding(<< >>, << >>, << >>)
    BY <1>1 DEF Adding
  <1> QED
    BY Zenon, <1>1, <1>2 DEF CountersInv, NoCounters

\* A recorded notification leaves the requests' metrics consistent.
LEMMA NotificationCounted ==
  ASSUME CountersInv(counters), NEW m, record_rpc_server_notification(m)
  PROVE  /\ CountersInv(counters') /\ counters'.count = counters.count
         /\ counters'.notifications = Bump(counters.notifications, m)
  <1>1. Counts(Bump(counters.notifications, m))
    BY Zenon, BumpIs DEF CountersInv
  <1>2. counters' = [requests |-> counters.requests, responses |-> counters.responses,
                     buckets |-> counters.buckets, count |-> counters.count,
                     notifications |-> Bump(counters.notifications, m)]
    BY Zenon DEF record_rpc_server_notification, CountersInv
  <1> QED
    BY Zenon, <1>1, <1>2 DEF CountersInv

\* An observed duration keeps the buckets cumulative and below the count.
LEMMA ObservedBelow ==
  ASSUME NEW b \in [1 .. Bounds -> Nat], NEW n \in Nat, NEW d \in Durations,
         \A i, j \in 1 .. Bounds : (i <= j => b[i] <= b[j]) /\ b[i] <= n
  PROVE  /\ Observed(b, d) \in [1 .. Bounds -> Nat]
         /\ \A i, j \in 1 .. Bounds :
                (i <= j => Observed(b, d)[i] <= Observed(b, d)[j]) /\ Observed(b, d)[i] <= n + 1
  BY SMTT(30), MetricsAssumption DEF Observed, Durations

\* A request moves its method's requests, responses and histogram together.
LEMMA RequestAdds ==
  ASSUME NEW rq, NEW rs, NEW bk, Adding(rq, rs, bk), NEW m, NEW d \in Durations, NEW code
  PROVE  Adding(Bump(rq, m), Bump(rs, <<m, code>>), Observe(bk, m, d))
  <1> DEFINE key == <<m, code>>
             zero == [i \in 1 .. Bounds |-> 0]
             old == IF m \in DOMAIN rq THEN bk[m] ELSE zero
             n == IF m \in DOMAIN rq THEN rq[m] ELSE 0
             rq2 == Bump(rq, m)
             rs2 == Bump(rs, key)
             bk2 == Observe(bk, m, d)
  <1> SUFFICES Adding(rq2, rs2, bk2)
    OBVIOUS
  <1>1. Counts(rq) /\ Counts(rs)
    BY Zenon DEF Adding
  <1>2. /\ Counts(rq2) /\ DOMAIN rq2 = DOMAIN rq \cup {m} /\ rq2[m] = 1 + n
        /\ \A y \in DOMAIN rq : y # m => rq2[y] = rq[y]
    BY Zenon, <1>1, BumpIs
  <1>3. /\ Counts(rs2) /\ DOMAIN rs2 = DOMAIN rs \cup {key}
        /\ \A p \in DOMAIN rs : p # key => rs2[p] = rs[p]
    BY Zenon, <1>1, BumpIs
  <1>4. key[1] = m
    OBVIOUS
  <1>5. n \in Nat
    BY Zenon, <1>1 DEF Counts
  <1>6. /\ old \in [1 .. Bounds -> Nat]
        /\ \A i, j \in 1 .. Bounds : (i <= j => old[i] <= old[j]) /\ old[i] <= n
    BY SMTT(30), MetricsAssumption DEF Adding
  <1>7. /\ bk2 = [y \in DOMAIN rq \cup {m} |-> bk2[y]]
        /\ bk2[m] = Observed(old, d)
        /\ \A y \in DOMAIN rq : y # m => bk2[y] = bk[y]
    BY Zenon DEF Observe, Entry, Adding
  <1> HIDE DEF old, bk2
  <1>8. /\ bk2[m] \in [1 .. Bounds -> Nat]
        /\ \A i, j \in 1 .. Bounds :
               (i <= j => bk2[m][i] <= bk2[m][j]) /\ bk2[m][i] <= n + 1
    <2> HIDE DEF n
    <2> QED
      BY ZenonT(60), <1>5, <1>6, <1>7, ObservedBelow
  <1>9. n + 1 = rq2[m]
    BY <1>2, <1>5
  <1>10. SumOf(rs, Of(rs, m)) = n
    <2>1. CASE m \in DOMAIN rq
      BY Zenon, <2>1 DEF Adding
    <2>2. CASE m \notin DOMAIN rq
      <3>1. Of(rs, m) = {}
        BY Zenon, <2>2 DEF Adding, Of
      <3> QED
        BY Zenon, <2>2, <3>1, SumEmpty
    <2> QED
      BY Zenon, <2>1, <2>2
  <1> HIDE DEF n, rq2, rs2, key
  <1>11. SumOf(rs2, Of(rs2, m)) = n + 1
    <2>1. Of(rs2, m) = Of(rs, m) \cup {key}
      BY Zenon, <1>3, <1>4 DEF Of
    <2>2. /\ Of(rs, m) \in SUBSET DOMAIN rs
          /\ key \in DOMAIN rs => key \in Of(rs, m)
      BY Zenon, <1>4 DEF Of
    <2>3. SumOf(Bump(rs, key), Of(rs, m) \cup {key}) = SumOf(rs, Of(rs, m)) + 1
      BY ZenonT(60), <1>1, <2>2, SumBump
    <2> QED
      BY Zenon, <1>10, <2>1, <2>3 DEF rs2
  <1>12. ASSUME NEW y \in DOMAIN rq, y # m
         PROVE  rq2[y] = SumOf(rs2, Of(rs2, y))
    <2>1. Of(rs2, y) = Of(rs, y)
      BY Zenon, <1>3, <1>4, <1>12 DEF Of
    <2>2. \A p \in Of(rs, y) : rs2[p] = rs[p]
      BY Zenon, <1>3, <1>4, <1>12 DEF Of
    <2>3. IsFiniteSet(Of(rs, y))
      BY Zenon, <1>1, FS_Subset DEF Counts, Of
    <2>4. SumOf(rs2, Of(rs, y)) = SumOf(rs, Of(rs, y))
      BY Zenon, <2>2, <2>3, SumSame
    <2> QED
      BY Zenon, <1>2, <1>12, <2>1, <2>4 DEF Adding
  <1>13. \A y \in DOMAIN rq2 : rq2[y] = SumOf(rs2, Of(rs2, y))
    BY Zenon, <1>2, <1>9, <1>11, <1>12
  <1>14. \A y \in DOMAIN rq2 : \A i, j \in 1 .. Bounds :
             (i <= j => bk2[y][i] <= bk2[y][j]) /\ bk2[y][i] <= rq2[y]
    BY ZenonT(60), <1>2, <1>7, <1>8, <1>9 DEF Adding
  <1>15. bk2 \in [DOMAIN rq2 -> [1 .. Bounds -> Nat]]
    BY Zenon, <1>2, <1>7, <1>8 DEF Adding
  <1>16. \A p \in DOMAIN rs2 : p[1] \in DOMAIN rq2
    BY Zenon, <1>2, <1>3, <1>4 DEF Adding
  <1> QED
    BY Zenon, <1>2, <1>3, <1>13, <1>14, <1>15, <1>16 DEF Adding

\* A recorded request leaves the metrics consistent.
LEMMA RequestCounted ==
  ASSUME CountersInv(counters), NEW m, NEW d \in Durations, NEW code,
         record_rpc_server_request(m, d, code)
  PROVE  /\ CountersInv(counters') /\ counters'.count = Bump(counters.count, m)
         /\ counters'.notifications = counters.notifications
  <1> DEFINE rq == Bump(counters.requests, m)
             rs == Bump(counters.responses, <<m, code>>)
             bk == Observe(counters.buckets, m, d)
  <1>1. Adding(rq, rs, bk)
    BY Zenon, RequestAdds DEF CountersInv
  <1>2. rq = Bump(counters.count, m)
    BY Zenon DEF CountersInv
  <1>3. counters' = [requests |-> rq, responses |-> rs, buckets |-> bk,
                     count |-> Bump(counters.count, m), notifications |-> counters.notifications]
    <2>1. counters' = [counters EXCEPT !.requests = rq, !.responses = rs, !.buckets = bk,
                                       !.count = Bump(counters.count, m)]
      BY Zenon DEF record_rpc_server_request
    <2>2. counters = [requests |-> counters.requests, responses |-> counters.responses,
                      buckets |-> counters.buckets, count |-> counters.count,
                      notifications |-> counters.notifications]
      BY Zenon DEF CountersInv
    <2> HIDE DEF rq, rs, bk
    <2> QED
      BY Zenon, <2>1, <2>2
  <1> HIDE DEF rq, rs, bk
  <1> QED
    BY Zenon, <1>1, <1>2, <1>3 DEF CountersInv

\* What a scrape reads of counters that satisfy CountersInv adds up.
LEMMA Adds == CountersInv(counters) => ScrapesAddUp
  <1> SUFFICES ASSUME CountersInv(counters), NEW m \in DOMAIN counters.requests
               PROVE  LET page == render_prometheus(m) IN
                      /\ \A i \in 1 .. Bounds : page.le[i] <= page.le[i + 1]
                      /\ page.count = page.requests /\ page.count = page.responses
    BY Zenon DEF ScrapesAddUp
  <1> DEFINE b == counters.buckets[m]
             n == counters.count[m]
  <1>1. b \in [1 .. Bounds -> Nat] /\ n \in Nat /\ Bounds \in Nat
    BY Zenon, MetricsAssumption DEF CountersInv, Adding, Counts
  <1>2. \A i, j \in 1 .. Bounds : (i <= j => b[i] <= b[j]) /\ b[i] <= n
    BY Zenon DEF CountersInv, Adding
  <1>3. n = counters.requests[m]
        /\ n = MapThenSumSet(LAMBDA p : counters.responses[p],
                             {p \in DOMAIN counters.responses : p[1] = m})
    BY Zenon DEF CountersInv, Adding, SumOf, Of
  <1> HIDE DEF b, n
  <1>4. b \in Seq(Nat) /\ Len(b) = Bounds
    BY <1>1
  <1>5. \A i \in 1 .. Bounds : Append(b, n)[i] = b[i]
    BY <1>1, <1>4
  <1>6. Append(b, n)[Bounds + 1] = n
    BY <1>1, <1>4
  <1>7. \A i \in 1 .. Bounds : Append(b, n)[i] <= Append(b, n)[i + 1]
    BY <1>1, <1>2, <1>5, <1>6
  <1> QED
    BY ZenonT(60), <1>3, <1>7 DEF render_prometheus, b, n

-----------------------------------------------------------------------------
(* The JSON-RPC server.                                                    *)

Bodied == [kind : {"batch", "single", "no json"}, requests : Seq(Requests)]
Codes == {"ok", "internal", "invalid_request", "method_not_found", "invalid_params", "parse"}
Replies == [id : STRING \cup {"none"}, code : Codes]
Marks == [code : Codes, called : BOOLEAN, led : BOOLEAN]
AtWork == {"next", "proxy", "answered", "looking"}
Pcs == AtWork \cup {"idle", "reply"}
Conns == [pc : Pcs, body : Bodied, at : Nat, out : Seq(Replies), trail : Seq(Marks)]

\* The first n requests of a body are answered.
Matches(requests, n, out) ==
    /\ Len(out) = Cardinality(Asked(requests, n))
    /\ \A i \in Asked(requests, n) : out[Cardinality(Asked(requests, i))].id = requests[i].id

Led(requests, trail) ==
    \A i \in DOMAIN trail : (LeaderOnly(requests[i].method) /\ trail[i].code = "ok") => trail[i].led

(***************************************************************************)
(* A body is worked off in order: the request in hand is the one after     *)
(* those the trail knows of, and those are answered.                       *)
(***************************************************************************)
ConnInv(c) ==
    /\ c \in Conns
    /\ c.pc \in AtWork =>
           c.at = Len(c.trail) + 1 /\ c.at \in 1 .. Len(c.body.requests)
    /\ (c.pc \in AtWork \/ c.trail # << >>) =>
           Matches(c.body.requests, Len(c.trail), c.out)
    /\ Led(c.body.requests, c.trail)

RpcInv ==
    /\ conn = [k \in Callers |-> conn[k]] /\ \A k \in Callers : ConnInv(conn[k])
    /\ consensus_leader \in BOOLEAN /\ leader_override \in BOOLEAN
    /\ CountersInv(counters) /\ handled \in Nat /\ EveryRequestRecorded

(***************************************************************************)
(* The history of a result in hand is up to date: a conductor that leads   *)
(* now has led since the backend's answer.                                 *)
(***************************************************************************)
LedInv ==
    /\ led \in [Callers -> BOOLEAN]
    /\ \A k \in Callers : (conn[k].pc \in {"answered", "looking"} /\ leader) => led[k]

\* What a connection is once its request is over.
After(c, code, called, leading) ==
    LET r == c.body.requests[c.at]
        last == c.at = Len(c.body.requests)
    IN  [c EXCEPT !.trail = Append(@, [code |-> code, called |-> called, led |-> leading]),
                  !.out = IF is_notification(r) THEN @ ELSE Append(@, Response_value(r.id, code)),
                  !.pc = IF last THEN "reply" ELSE "next",
                  !.at = IF last THEN @ ELSE @ + 1]

\* The requests to be answered, up to a place, are finitely many.
LEMMA AskedSets ==
  ASSUME NEW requests, NEW n \in Nat
  PROVE  /\ IsFiniteSet(Asked(requests, n)) /\ Cardinality(Asked(requests, n)) \in Nat
         /\ \A i \in Asked(requests, n) :
                Cardinality(Asked(requests, i)) \in 1 .. Cardinality(Asked(requests, n))
  <1>1. ASSUME NEW i \in Nat
        PROVE  IsFiniteSet(Asked(requests, i)) /\ Cardinality(Asked(requests, i)) \in Nat
    <2>1. IsFiniteSet(1 .. i) /\ Asked(requests, i) \in SUBSET (1 .. i)
      BY FS_Interval DEF Asked
    <2> QED
      BY Zenon, <2>1, FS_Subset, FS_CardinalityType
  <1>2. ASSUME NEW i \in Asked(requests, n)
        PROVE  Cardinality(Asked(requests, i)) \in 1 .. Cardinality(Asked(requests, n))
    <2>1. i \in Nat /\ i \in Asked(requests, i) /\ Asked(requests, i) \in SUBSET Asked(requests, n)
      BY <1>2 DEF Asked
    <2>2. Cardinality(Asked(requests, i)) <= Cardinality(Asked(requests, n))
      BY Zenon, <1>1, <2>1, FS_Subset
    <2>3. Cardinality(Asked(requests, i)) # 0
      BY Zenon, <1>1, <2>1, FS_EmptySet
    <2> QED
      BY SMTT(30), <1>1, <2>1, <2>2, <2>3
  <1> QED
    BY Zenon, <1>1, <1>2

\* A notification is passed over.
LEMMA MatchesPassed ==
  ASSUME NEW requests, NEW n \in Nat, NEW out, Matches(requests, n, out),
         requests[n + 1].id = "none", requests[n + 1].decodes
  PROVE  Matches(requests, n + 1, out)
  <1>1. Asked(requests, n + 1) = Asked(requests, n)
    BY SMTT(30) DEF Asked
  <1> QED
    BY Zenon, <1>1 DEF Matches

\* An answer appended for a request that asks for one is at its place.
LEMMA MatchesAnswered ==
  ASSUME NEW requests, NEW n \in Nat, NEW out \in Seq(Replies), NEW a \in Replies,
         Matches(requests, n, out), a.id = requests[n + 1].id,
         requests[n + 1].id # "none" \/ ~requests[n + 1].decodes
  PROVE  Matches(requests, n + 1, Append(out, a))
  <1> DEFINE old == Asked(requests, n)
             new == Asked(requests, n + 1)
  <1>1. IsFiniteSet(old) /\ Cardinality(old) \in Nat /\ Len(out) = Cardinality(old)
        /\ \A i \in old : Cardinality(Asked(requests, i)) \in 1 .. Len(out)
    BY Zenon, AskedSets DEF Matches
  <1>2. new = old \cup {n + 1} /\ n + 1 \notin old
    BY DEF Asked
  <1>3. Cardinality(new) = Cardinality(old) + 1
    BY <1>1, <1>2, FS_AddElement
  <1>4. Len(Append(out, a)) = Len(out) + 1 /\ Append(out, a)[Len(out) + 1] = a
        /\ \A i \in 1 .. Len(out) : Append(out, a)[i] = out[i]
    BY SMTT(30)
  <1>5. ASSUME NEW i \in new
        PROVE  Append(out, a)[Cardinality(Asked(requests, i))].id = requests[i].id
    <2>1. CASE i = n + 1
      BY Zenon, <1>1, <1>3, <1>4, <2>1
    <2>2. CASE i \in old
      BY Zenon, <1>1, <1>4, <2>2 DEF Matches
    <2> QED
      BY ZenonT(60), <1>2, <1>5, <2>1, <2>2
  <1> QED
    BY Zenon, <1>1, <1>3, <1>4, <1>5 DEF Matches

\* A request that ends leaves its connection in order.
LEMMA AfterInv ==
  ASSUME NEW c, ConnInv(c), c.pc \in AtWork,
         NEW code \in Codes, NEW called \in BOOLEAN, NEW leading \in BOOLEAN,
         (LeaderOnly(c.body.requests[c.at].method) /\ code = "ok") => leading
  PROVE  ConnInv(After(c, code, called, leading))
  <1> DEFINE rq == c.body.requests
             n == Len(c.trail)
             r == rq[c.at]
             t == [code |-> code, called |-> called, led |-> leading]
             a == Response_value(r.id, code)
             e == After(c, code, called, leading)
  <1>1. /\ c \in Conns /\ n \in Nat /\ c.at = n + 1 /\ c.at \in 1 .. Len(rq)
        /\ rq \in Seq(Requests) /\ Len(rq) \in Nat
        /\ c.out \in Seq(Replies)
        /\ c.trail \in Seq(Marks)
    <2>1. c \in Conns
      BY Zenon DEF ConnInv
    <2>2. c.body \in Bodied /\ c.out \in Seq(Replies) /\ c.trail \in Seq(Marks)
      BY Zenon, <2>1 DEF Conns
    <2>3. rq \in Seq(Requests)
      BY ZenonT(60), <2>2 DEF Bodied
    <2>4. c.at = n + 1 /\ c.at \in 1 .. Len(rq)
      BY Zenon DEF ConnInv
    <2> QED
      BY SMTT(30), <2>1, <2>2, <2>3, <2>4
  <1>2. r \in Requests
    BY SMTT(30), <1>1
  <1>3. a \in Replies /\ a.id = r.id
    BY Zenon, <1>2 DEF Response_value, Requests, Replies
  <1>4. t \in Marks
    BY Zenon DEF Marks
  <1> HIDE DEF t, a
  <1>5. /\ Append(c.trail, t) \in Seq(Marks)
        /\ Len(Append(c.trail, t)) = n + 1 /\ Append(c.trail, t)[n + 1] = t
        /\ \A i \in 1 .. n : Append(c.trail, t)[i] = c.trail[i]
        /\ DOMAIN c.trail = 1 .. n /\ DOMAIN Append(c.trail, t) = 1 .. n + 1
    BY SMTT(30), <1>1, <1>4
  <1> DEFINE out2 == IF is_notification(r) THEN c.out ELSE Append(c.out, a)
             pc2 == IF c.at = Len(rq) THEN "reply" ELSE "next"
             at2 == IF c.at = Len(rq) THEN c.at ELSE c.at + 1
  <1>6. /\ e.pc = pc2 /\ e.body = c.body /\ e.at = at2 /\ e.out = out2
        /\ e.trail = Append(c.trail, t)
        /\ (/\ pc2 \in Pcs /\ at2 \in Nat /\ out2 \in Seq(Replies)
            /\ Append(c.trail, t) \in Seq(Marks)) => e \in Conns
    <2>1. e = [c EXCEPT !.trail = Append(c.trail, t), !.out = out2, !.pc = pc2,
                        !.at = at2]
      BY Zenon DEF After, t, a
    <2> DEFINE tr2 == Append(c.trail, t)
    <2> HIDE DEF e, out2, pc2, at2, tr2
    <2>2. /\ e.pc = pc2 /\ e.body = c.body /\ e.at = at2 /\ e.out = out2
          /\ e.trail = tr2
      BY Zenon, <1>1, <2>1 DEF Conns, tr2
    <2>3. ASSUME pc2 \in Pcs, at2 \in Nat, out2 \in Seq(Replies), tr2 \in Seq(Marks)
          PROVE  e \in Conns
      BY ZenonT(60), <1>1, <2>1, <2>3 DEF Conns, tr2
    <2> QED
      BY Zenon, <2>2, <2>3 DEF tr2
  <1>7. Matches(rq, n + 1, e.out)
    <2>1. Matches(rq, n, c.out)
      BY Zenon DEF ConnInv
    <2>2. r = rq[n + 1]
      BY Zenon, <1>1
    <2> HIDE DEF rq, n, a, e, r
    <2>3. CASE is_notification(r)
      BY Zenon, <1>1, <1>6, <2>1, <2>2, <2>3, MatchesPassed DEF is_notification
    <2>4. CASE ~is_notification(r)
      BY Zenon, <1>1, <1>3, <1>6, <2>1, <2>2, <2>4, MatchesAnswered DEF is_notification
    <2> QED
      BY Zenon, <2>3, <2>4
  <1>8. Led(rq, e.trail)
    <2>1. LeaderOnly(rq[n + 1].method) /\ t.code = "ok" => t.led
      BY ZenonT(60), <1>1 DEF t
    <2> HIDE DEF e
    <2> QED
      BY SMTT(30), <1>5, <1>6, <2>1 DEF ConnInv, Led
  <1> HIDE DEF e, r
  <1>9. Append(c.out, a) \in Seq(Replies)
    BY <1>1, <1>3
  <1>10. e \in Conns
    <2>1. pc2 \in Pcs /\ at2 \in Nat
      BY SMTT(30), <1>1 DEF Pcs, AtWork
    <2>2. out2 \in Seq(Replies)
      BY Zenon, <1>1, <1>9
    <2> QED
      BY Zenon, <1>5, <1>6, <2>1, <2>2
  <1>11. /\ Len(e.trail) = n + 1
         /\ e.pc = "next" => e.at = n + 2 /\ e.at \in 1 .. Len(rq)
         /\ e.pc \in {"next", "reply"}
    BY SMTT(30), <1>1, <1>5, <1>6
  <1> QED
    BY Zenon, <1>6, <1>7, <1>8, <1>10, <1>11 DEF ConnInv, AtWork, e

\* A connection without a body is in order.
LEMMA IdleInv == ConnInv(Idle)
  <1>1. << >> \in Seq(Requests) /\ << >> \in Seq(Replies) /\ << >> \in Seq(Marks)
    BY SMTT(30)
  <1>2. Idle \in Conns
    BY Zenon, <1>1 DEF Idle, NoJson, Conns, Bodied, Pcs
  <1> QED
    BY SMTT(30), <1>2 DEF ConnInv, Idle, Led, AtWork

\* A server that has just started has no connections at work.
LEMMA InitRpcInv == RpcInit => RpcInv
  <1> SUFFICES ASSUME RpcInit PROVE RpcInv
    OBVIOUS
  <1>1. Total(<< >>) = 0
    <2>1. DOMAIN << >> = {}
      OBVIOUS
    <2>2. Total(<< >>) = SumOf(<< >>, DOMAIN << >>)
      BY Zenon DEF Total, SumOf
    <2> QED
      BY Zenon, <2>1, <2>2, SumEmpty
  <1>2. EveryRequestRecorded
    BY <1>1 DEF RpcInit, EveryRequestRecorded, NoCounters
  <1> QED
    BY ZenonT(60), <1>2, IdleInv, InitCounters DEF RpcInit, RpcInv

\* Only the connection of the step changes.
LEMMA OneConn ==
  ASSUME RpcInv, NEW k \in Callers, NEW e, ConnInv(e), conn' = [conn EXCEPT ![k] = e]
  PROVE  conn' = [j \in Callers |-> conn'[j]] /\ \A j \in Callers : ConnInv(conn'[j])
  BY Zenon DEF RpcInv

\* Ending one caller's request keeps all connections in order.
LEMMA CompletesStep ==
  ASSUME RpcInv, NEW k \in Callers, LedInv, conn[k].pc \in AtWork,
         NEW code \in Codes, NEW called \in BOOLEAN, Completes(k, code, called),
         (LeaderOnly(Now(k).method) /\ code = "ok") => led[k]
  PROVE  conn' = [j \in Callers |-> conn'[j]] /\ \A j \in Callers : ConnInv(conn'[j])
  <1>1. led[k] \in BOOLEAN
    BY Zenon DEF LedInv
  <1>2. ConnInv(conn[k]) /\ conn[k] \in Conns
    BY Zenon DEF RpcInv, ConnInv
  <1>3. conn' = [conn EXCEPT ![k] = After(conn[k], code, called, led[k])]
    BY Zenon DEF Completes, After, Now
  <1>4. ConnInv(After(conn[k], code, called, led[k]))
    BY Zenon, <1>1, <1>2, AfterInv DEF Now
  <1> QED
    BY ZenonT(60), <1>3, <1>4, OneConn

\* Every request that ends is recorded once.
LEMMA RecordedStep ==
  ASSUME RpcInv, NEW r, NEW code, Recorded(r, code)
  PROVE  CountersInv(counters') /\ handled' \in Nat /\ EveryRequestRecorded'
  <1>1. /\ CountersInv(counters) /\ handled \in Nat /\ handled' = handled + 1
        /\ handled = Total(counters.count) + Total(counters.notifications)
    BY Zenon DEF RpcInv, Recorded, EveryRequestRecorded
  <1>2. Counts(counters.count) /\ Counts(counters.notifications)
    BY Zenon, <1>1 DEF CountersInv, Adding
  <1>3. /\ Total(counters.count) \in Nat /\ Total(counters.notifications) \in Nat
        /\ Total(Bump(counters.count, r.method)) = Total(counters.count) + 1
        /\ Total(Bump(counters.notifications, r.method)) = Total(counters.notifications) + 1
    BY Zenon, <1>2, TotalBump
  <1>4. CASE is_notification(r)
    <2>1. record_rpc_server_notification(r.method)
      BY Zenon, <1>4 DEF Recorded
    <2> QED
      BY SMTT(30), <1>1, <1>3, <2>1, NotificationCounted DEF EveryRequestRecorded
  <1>5. CASE ~is_notification(r)
    <2>1. PICK d \in Durations : record_rpc_server_request(r.method, d, code)
      BY Zenon, <1>5 DEF Recorded
    <2> QED
      BY SMTT(30), <1>1, <1>3, <2>1, RequestCounted DEF EveryRequestRecorded
  <1> QED
    BY Zenon, <1>4, <1>5

\* Each step of a connection keeps RpcInv.
LEMMA RpcStep ==
  ASSUME RpcInv, LedInv, NEW k \in Callers,
         \/ Receive(k) \/ Undecodable(k) \/ DispatchRefused(k) \/ DispatchConductor(k)
         \/ DispatchProxy(k) \/ BackendAnswered(k) \/ LooksAtOverride(k)
         \/ LooksAtConsensus(k) \/ Reply(k) \/ Disconnect(k)
  PROVE  RpcInv'
  <1>1. ConnInv(conn[k]) /\ conn[k] \in Conns
    BY Zenon DEF RpcInv, ConnInv
  <1>2. ASSUME UNCHANGED <<counters, handled>>
        PROVE  CountersInv(counters') /\ handled' \in Nat /\ EveryRequestRecorded'
    BY Zenon, <1>2 DEF RpcInv, EveryRequestRecorded
  <1>3. CASE Receive(k)
    <2>1. PICK body \in Bodies[k] :
              LET only(code) == [Idle EXCEPT !.pc = "reply", !.body = body,
                                             !.out = <<Response_value("none", code)>>]
              IN  conn' = [conn EXCEPT ![k] =
                      CASE body.kind = "no json" -> only("parse")
                        [] body.kind = "batch" /\ body.requests = << >> -> only("invalid_request")
                        [] OTHER -> [Idle EXCEPT !.pc = "next", !.body = body, !.at = 1]]
      BY ZenonT(60), <1>3 DEF Receive
    <2> DEFINE only(code) == [pc |-> "reply", body |-> body, at |-> 0,
                              out |-> <<Response_value("none", code)>>,
                              trail |-> << >>]
               first == [pc |-> "next", body |-> body, at |-> 1, out |-> << >>,
                         trail |-> << >>]
    <2>2. body \in Bodied /\ (body.kind = "single" => Len(body.requests) = 1)
          /\ body.requests \in Seq(Requests)
      BY Zenon, RpcAssumption DEF Bodied
    <2>3. \/ conn' = [conn EXCEPT ![k] = only("parse")]
          \/ conn' = [conn EXCEPT ![k] = only("invalid_request")]
          \/ conn' = [conn EXCEPT ![k] = first]
             /\ body.kind # "no json" /\ ~(body.kind = "batch" /\ body.requests = << >>)
      BY ZenonT(60), <2>1 DEF Idle
    <2>4. << >> \in Seq(Replies) /\ << >> \in Seq(Marks)
      BY SMTT(30)
    <2>5. ASSUME NEW code \in Codes PROVE ConnInv(only(code))
      <3>1. Response_value("none", code) \in Replies
        BY Zenon DEF Response_value, Replies
      <3>2. <<Response_value("none", code)>> \in Seq(Replies)
        BY SMTT(30), <3>1
      <3>3. only(code) \in Conns
        BY ZenonT(60), <2>2, <2>4, <3>2 DEF Conns, Pcs
      <3> QED
        BY SMTT(30), <3>3 DEF ConnInv, Led, AtWork
    <2>6. ASSUME body.kind # "no json", ~(body.kind = "batch" /\ body.requests = << >>)
          PROVE  ConnInv(first)
      <3>1. Len(body.requests) \in Nat /\ Len(body.requests) # 0
        <4>1. body.kind \in {"batch", "single", "no json"}
          BY ZenonT(60), <2>2 DEF Bodied
        <4>2. Len(body.requests) = 0 => body.requests = << >>
          BY Zenon, <2>2, EmptySeq
        <4>3. body.kind = "batch" \/ body.kind = "single"
          BY ZenonT(60), <2>6, <4>1
        <4>4. body.requests # << >> \/ Len(body.requests) = 1
          BY Zenon, <2>2, <2>6, <4>3
        <4>5. Len(body.requests) \in Nat /\ 1 # 0
          BY SMTT(30), <2>2
        <4> QED
          BY Zenon, <4>2, <4>4, <4>5
      <3>2. first \in Conns
        <4>1. 1 \in Nat
          BY Zenon
        <4> QED
          BY ZenonT(60), <2>2, <2>4, <4>1 DEF Conns, Pcs, AtWork
      <3>3. Asked(body.requests, 0) = {} /\ Cardinality({}) = 0
        BY SMTT(30), FS_EmptySet DEF Asked
      <3>4. Matches(body.requests, 0, << >>)
        BY ZenonT(60), <3>3 DEF Matches
      <3> QED
        BY SMTT(30), <3>1, <3>2, <3>4 DEF ConnInv, Led
    <2> HIDE DEF only, first
    <2>7. conn' = [j \in Callers |-> conn'[j]] /\ \A j \in Callers : ConnInv(conn'[j])
      <3>1. "parse" \in Codes /\ "invalid_request" \in Codes
        BY Zenon DEF Codes
      <3> QED
        BY Zenon, <2>3, <2>5, <2>6, <3>1, OneConn
    <2> QED
      BY ZenonT(60), <1>2, <1>3, <2>7 DEF Receive, RpcInv
  <1>4. CASE Undecodable(k)
    <2>1. conn' = [j \in Callers |-> conn'[j]] /\ \A j \in Callers : ConnInv(conn'[j])
      <3>1. "invalid_request" \in Codes /\ "invalid_request" # "ok"
        BY Zenon DEF Codes
      <3> QED
        BY ZenonT(60), <1>4, <3>1, CompletesStep DEF Undecodable, AtWork
    <2> QED
      BY Zenon, <1>2, <1>4, <2>1 DEF Undecodable, RpcInv
  <1>5. CASE DispatchRefused(k)
    <2>1. Refused(Now(k)) \in Codes /\ Refused(Now(k)) # "ok"
      BY Zenon, <1>5 DEF DispatchRefused, Refused, Codes
    <2>2. conn' = [j \in Callers |-> conn'[j]] /\ \A j \in Callers : ConnInv(conn'[j])
      BY Zenon, <1>5, <2>1, CompletesStep DEF DispatchRefused, AtWork
    <2> QED
      BY Zenon, <1>5, <2>2, RecordedStep DEF DispatchRefused, RpcInv
  <1>6. CASE DispatchConductor(k)
    <2>1. PICK code \in {"ok", "internal"} : Completes(k, code, TRUE) /\ Recorded(Now(k), code)
      BY ZenonT(60), <1>6 DEF DispatchConductor
    <2>2. conn[k].pc = "next" /\ ~LeaderOnly(Now(k).method)
      BY Zenon, <1>6 DEF DispatchConductor, Sound, LeaderOnly
    <2>3. conn' = [j \in Callers |-> conn'[j]] /\ \A j \in Callers : ConnInv(conn'[j])
      BY Zenon, <2>1, <2>2, CompletesStep DEF Codes, AtWork
    <2>4. leader_override' \in BOOLEAN /\ UNCHANGED consensus_leader
      BY Zenon, <1>6 DEF DispatchConductor, RpcInv
    <2>5. CountersInv(counters') /\ handled' \in Nat /\ EveryRequestRecorded'
      BY Zenon, <2>1, RecordedStep
    <2> QED
      BY Zenon, <2>3, <2>4, <2>5 DEF RpcInv
  <1>7. ASSUME NEW pc \in AtWork, conn[k].pc \in AtWork, conn' = [conn EXCEPT ![k].pc = pc]
        PROVE  conn' = [j \in Callers |-> conn'[j]] /\ \A j \in Callers : ConnInv(conn'[j])
    <2> DEFINE e == [conn[k] EXCEPT !.pc = pc]
    <2>1. conn' = [conn EXCEPT ![k] = e]
      BY Zenon, <1>1, <1>7 DEF Conns
    <2>2. pc \in Pcs
      BY Zenon, <1>7 DEF Pcs
    <2>3. ConnInv(e)
      BY Zenon, <1>1, <1>7, <2>2 DEF ConnInv, Conns
    <2> HIDE DEF e
    <2> QED
      BY Zenon, <2>1, <2>3, OneConn
  <1>8. ASSUME NEW code \in Codes, conn[k].pc \in AtWork, ProxyEnds(k, code),
               (LeaderOnly(Now(k).method) /\ code = "ok") => led[k],
               UNCHANGED <<consensus_leader, leader_override>>
        PROVE  RpcInv'
    <2>1. conn' = [j \in Callers |-> conn'[j]] /\ \A j \in Callers : ConnInv(conn'[j])
      BY Zenon, <1>8, CompletesStep DEF ProxyEnds
    <2>2. CountersInv(counters') /\ handled' \in Nat /\ EveryRequestRecorded'
      BY Zenon, <1>8, RecordedStep DEF ProxyEnds
    <2> QED
      BY Zenon, <1>8, <2>1, <2>2 DEF RpcInv
  <1>9. ASSUME NEW pc \in AtWork, conn[k].pc \in AtWork, ProxyGoesOn(k, pc),
               UNCHANGED <<consensus_leader, leader_override>>
        PROVE  RpcInv'
    BY Zenon, <1>2, <1>7, <1>9 DEF ProxyGoesOn, RpcInv
  <1>10. CASE DispatchProxy(k)
    <2>1. conn[k].pc \in AtWork /\ "proxy" \in AtWork
      BY Zenon, <1>10 DEF DispatchProxy, Sound, AtWork
    <2>2. ProxyGoesOn(k, "proxy") /\ UNCHANGED <<consensus_leader, leader_override>>
      BY Zenon, <1>10 DEF DispatchProxy, ProxyGoesOn
    <2> QED
      BY Zenon, <1>9, <2>1, <2>2
  <1>11. CASE BackendAnswered(k)
    <2>1. PICK r \in BackendAnswers :
              \/ ProxyEnds(k, proxy_error(call(r, TRUE).error))
              \/ ~LeaderOnly(Now(k).method) /\ ProxyEnds(k, "ok")
              \/ ProxyGoesOn(k, "answered")
      BY Zenon, <1>11 DEF BackendAnswered
    <2> DEFINE code == proxy_error(call(r, TRUE).error)
    <2>2. code \in Codes \ {"ok"} /\ "ok" \in Codes
      BY Zenon DEF proxy_error, Codes
    <2>3. /\ conn[k].pc \in AtWork /\ "answered" \in AtWork
          /\ UNCHANGED <<consensus_leader, leader_override>>
      BY Zenon, <1>11 DEF BackendAnswered, AtWork
    <2> HIDE DEF code
    <2>4. \/ ProxyEnds(k, code)
          \/ ~LeaderOnly(Now(k).method) /\ ProxyEnds(k, "ok")
          \/ ProxyGoesOn(k, "answered")
      BY Zenon, <2>1 DEF code
    <2> QED
      BY Zenon, <1>8, <1>9, <2>2, <2>3, <2>4
  <1>12. CASE LooksAtOverride(k)
    <2>1. /\ conn[k].pc \in AtWork /\ "looking" \in AtWork /\ "ok" \in Codes
          /\ UNCHANGED <<consensus_leader, leader_override>>
      BY Zenon, <1>12 DEF LooksAtOverride, AtWork, Codes
    <2>2. leader_override => led[k]
      BY Zenon, <1>12 DEF LooksAtOverride, LedInv, leader
    <2>3. (leader_override /\ ProxyEnds(k, "ok")) \/ ProxyGoesOn(k, "looking")
      BY Zenon, <1>12 DEF LooksAtOverride
    <2> QED
      BY Zenon, <1>8, <1>9, <2>1, <2>2, <2>3
  <1>13. CASE LooksAtConsensus(k)
    <2> DEFINE code == IF consensus_leader THEN "ok" ELSE "internal"
    <2>1. /\ conn[k].pc \in AtWork /\ code \in Codes
          /\ UNCHANGED <<consensus_leader, leader_override>> /\ ProxyEnds(k, code)
      BY Zenon, <1>13 DEF LooksAtConsensus, AtWork, Codes
    <2>2. code = "ok" => led[k]
      BY Zenon, <1>13 DEF LooksAtConsensus, LedInv, leader
    <2> HIDE DEF code
    <2> QED
      BY Zenon, <1>8, <2>1, <2>2
  <1>14. CASE Reply(k) \/ Disconnect(k)
    <2>1. conn' = [j \in Callers |-> conn'[j]] /\ \A j \in Callers : ConnInv(conn'[j])
      BY Zenon, <1>14, OneConn, IdleInv DEF Reply, Disconnect
    <2> QED
      BY Zenon, <1>2, <1>14, <2>1 DEF Reply, Disconnect, RpcInv
  <1> QED
    BY Zenon, <1>3, <1>4, <1>5, <1>6, <1>10, <1>11, <1>12, <1>13, <1>14

\* The history follows the leadership, whoever changes it.
LEMMA LedStep ==
  ASSUME LedInv, [RpcNext]_rpc_vars
  PROVE  LedInv'
  <1>1. CASE RpcNext
    <2>1. led' = [k \in Callers |-> conn'[k].pc \in {"answered", "looking"}
                                       /\ (led[k] \/ leader')]
      BY Zenon, <1>1 DEF RpcNext, LedSince
    <2> QED
      BY Zenon, <2>1 DEF LedInv
  <1>2. CASE UNCHANGED rpc_vars
    BY Zenon, <1>2 DEF rpc_vars, LedInv, leader
  <1> QED
    BY Zenon, <1>1, <1>2

\* RpcInv and LedInv hold of every state of the server.
THEOREM RpcInvariance == RpcSpec => [](RpcInv /\ LedInv)
  <1>1. ASSUME RpcInv, LedInv, [RpcNext]_rpc_vars PROVE RpcInv'
    <2>1. CASE LeaderChanges
      <3>1. consensus_leader' \in BOOLEAN
        BY Zenon, <2>1, <1>1 DEF LeaderChanges, RpcInv
      <3> QED
        BY Zenon, <1>1, <2>1, <3>1 DEF LeaderChanges, RpcInv, EveryRequestRecorded
    <2>2. CASE UNCHANGED rpc_vars
      BY Zenon, <1>1, <2>2 DEF rpc_vars, RpcInv, EveryRequestRecorded
    <2> QED
      BY Zenon, <1>1, <2>1, <2>2, RpcStep DEF RpcNext
  <1>2. RpcInit => LedInv
    <2>1. Idle.pc \notin {"answered", "looking"}
      BY ZenonT(60) DEF Idle
    <2> QED
      BY ZenonT(60), <2>1 DEF RpcInit, LedInv
  <1> QED
    BY <1>1, <1>2, InitRpcInv, LedStep, PTL DEF RpcSpec

\* The answers of a body are those of its requests that are no notifications,
\* in its order.
THEOREM AnswersCorrect == RpcSpec => []AnswersMatchRequests
  <1>1. RpcInv => AnswersMatchRequests
    BY Zenon DEF RpcInv, ConnInv, Matches, AnswersMatchRequests
  <1> QED
    BY <1>1, RpcInvariance, PTL

\* A backend's result is handed on only if the conductor led at some moment
\* after the backend had answered.
THEOREM ProxyCorrect == RpcSpec => []ProxiedWhileLeading
  <1>1. RpcInv => ProxiedWhileLeading
    BY Zenon DEF RpcInv, ConnInv, Led, ProxiedWhileLeading
  <1> QED
    BY <1>1, RpcInvariance, PTL

\* Every request that ran to its end is in exactly one counter.
THEOREM RecordedCorrect == RpcSpec => []EveryRequestRecorded
  <1>1. RpcInv => EveryRequestRecorded
    BY Zenon DEF RpcInv
  <1> QED
    BY <1>1, RpcInvariance, PTL

\* Whenever a scrape comes, histograms, requests and responses agree.
THEOREM ScrapesCorrect == RpcSpec => []ScrapesAddUp
  <1>1. RpcInv => ScrapesAddUp
    BY Zenon, Adds DEF RpcInv
  <1> QED
    BY <1>1, RpcInvariance, PTL

-----------------------------------------------------------------------------
(* The flashblocks stream.                                                 *)

Subs == [pc : {"new", "open", "closing", "closed"}, chan : Seq(Nat), got : Seq(Nat),
         awaiting_pong : BOOLEAN, since : Nat, alive : BOOLEAN]
Ups == [pc : {"initial", "failed", "poll", "dial", "read", "got"}, conn : BOOLEAN,
        wire : Seq(Nat), tries : Int]

FbTypes ==
    /\ up \in Ups /\ sub \in [Clients -> Subs] /\ hub \in SUBSET Clients
    /\ sent \in Nat /\ cast \in Seq(Nat)

Increasing(s) == \A i, j \in DOMAIN s : i < j => s[i] < s[j]

(* What is on the wire is newer than what was broadcast, and no newer than *)
(* what was sent; only a message in hand is relayed.                       *)
FbOrder ==
    /\ Increasing(cast) /\ Increasing(up.wire)
    /\ \A i \in DOMAIN cast : cast[i] <= sent
    /\ \A j \in DOMAIN up.wire : up.wire[j] <= sent
    /\ \A i \in DOMAIN cast : \A j \in DOMAIN up.wire : cast[i] < up.wire[j]
    /\ up.pc = "got" => up.wire # << >>

\* A subscriber's socket and channel hold the broadcasts since it registered,
\* all of them while it is in the hub.
Streams(s, broadcasts, in) ==
    /\ s.since + Len(s.got) + Len(s.chan) <= Len(broadcasts)
    /\ \A i \in 1 .. Len(s.got) : s.got[i] = broadcasts[s.since + i]
    /\ \A i \in 1 .. Len(s.chan) : s.chan[i] = broadcasts[s.since + Len(s.got) + i]
    /\ in => s.since + Len(s.got) + Len(s.chan) = Len(broadcasts)
    /\ s.pc \in {"new", "closed"} => s.got = << >> /\ s.chan = << >> /\ s.since = 0 /\ ~in

FbInv ==
    /\ FbTypes /\ FbOrder
    /\ gauge = Cardinality(hub)
    /\ \A c \in Clients : Streams(sub[c], cast, c \in hub)

\* A relay that has just started has broadcast nothing.
LEMMA InitFbInv == FbInit => FbInv
  <1> SUFFICES ASSUME FbInit PROVE FbInv
    OBVIOUS
  <1>1. NewSub \in Subs /\ Streams(NewSub, << >>, FALSE)
    BY SMTT(30) DEF NewSub, Subs, Streams
  <1>2. FbTypes
    BY SMTT(30), <1>1, FlashblocksAssumption DEF FbInit, FbTypes, Ups
  <1>3. FbOrder
    BY DEF FbInit, FbOrder, Increasing
  <1>4. \A c \in Clients : Streams(sub[c], cast, c \in hub)
    <2>1. \A c \in Clients : sub[c] = NewSub /\ (c \in hub) = FALSE
      BY SMTT(30) DEF FbInit
    <2> QED
      BY Zenon, <1>1, <2>1 DEF FbInit
  <1>5. gauge = Cardinality(hub)
    <2>1. Cardinality({}) = 0
      BY Zenon, FS_EmptySet
    <2> QED
      BY Zenon, <2>1 DEF FbInit
  <1> QED
    BY Zenon, <1>2, <1>3, <1>4, <1>5 DEF FbInv

\* The upstream task apart from relaying, rollup-boost and the leadership
\* leave the subscribers alone.
LEMMA UpstreamStep ==
    ASSUME FbInv, UNCHANGED <<hub, gauge, sub, cast>>, FbOrder', up' \in Ups, sent' \in Nat
    PROVE  FbInv'
  BY Zenon DEF FbInv, FbTypes

\* Dialling, reading and leadership broadcast nothing.
LEMMA ConnectionStep ==
    ASSUME FbInv, InitialDial \/ Poll \/ Dial \/ Read \/ ReadFails \/ LeadershipFlips
    PROVE  FbInv'
  <1>1. UNCHANGED <<hub, gauge, sub, cast, sent>>
    BY Zenon DEF InitialDial, Poll, Dial, Read, ReadFails, LeadershipFlips
  <1>2. up' \in Ups /\ up'.wire \in {up.wire, << >>} /\ (up'.pc = "got" => up'.wire # << >>)
    <2>1. up \in Ups /\ (up.pc = "got" => up.wire # << >>)
      BY Zenon DEF FbInv, FbTypes, FbOrder
    <2>2. CASE Read \/ LeadershipFlips
      BY Zenon, <2>1, <2>2 DEF Ups, Read, LeadershipFlips
    <2>3. CASE InitialDial \/ Poll \/ Dial \/ ReadFails
      <3>1. << >> \in Seq(Nat)
        OBVIOUS
      <3>2. CASE InitialDial
        <4>1. CASE up' = Connected
          BY Zenon, <2>1, <4>1 DEF Ups, Connected
        <4>2. CASE up' = [up EXCEPT !.tries = @ - 1]
          BY SMTT(30), <2>1, <4>2 DEF Ups
        <4>3. CASE up' = [up EXCEPT !.pc = "failed"]
          BY Zenon, <2>1, <4>3 DEF Ups
        <4> QED
          BY Zenon, <3>2, <4>1, <4>2, <4>3 DEF InitialDial
      <3>3. CASE Poll
        BY Zenon, <2>1, <3>3 DEF Ups, Poll
      <3>4. CASE Dial \/ ReadFails
        <4>1. up' = Connected \/ up' = Disconnected
          BY Zenon, <3>4 DEF Dial, ReadFails
        <4> QED
          BY ZenonT(60), <2>1, <3>1, <4>1 DEF Ups, Connected, Disconnected
      <3> QED
        BY Zenon, <2>3, <3>2, <3>3, <3>4
    <2> QED
      BY Zenon, <2>2, <2>3
  <1>3. FbOrder'
    <2>1. CASE up'.wire = up.wire
      BY Zenon, <1>1, <1>2, <2>1 DEF FbInv, FbOrder, Increasing
    <2>2. CASE up'.wire = << >>
      BY SMTT(30), <1>1, <1>2, <2>2 DEF FbInv, FbOrder, Increasing
    <2> QED
      BY Zenon, <1>2, <2>1, <2>2
  <1>4. sent' \in Nat
    BY Zenon, <1>1 DEF FbInv, FbTypes
  <1> QED
    BY Zenon, <1>1, <1>2, <1>3, <1>4, UpstreamStep

\* rollup-boost numbers its messages upwards.
LEMMA SendStep == ASSUME FbInv, RollupBoostSends PROVE FbInv'
  <1>1. UNCHANGED <<hub, gauge, sub, cast>> /\ sent' = sent + 1 /\ sent \in Nat
    BY Zenon DEF RollupBoostSends, FbInv, FbTypes
  <1>2. up \in Ups /\ up.wire \in Seq(Nat) /\ cast \in Seq(Nat)
    BY Zenon DEF FbInv, FbTypes, Ups
  <1>3. up' = up \/ up' = [up EXCEPT !.wire = Append(up.wire, sent + 1)]
    BY Zenon, <1>1, <1>2 DEF RollupBoostSends, Ups
  <1>4. up' \in Ups
    <2>1. Append(up.wire, sent + 1) \in Seq(Nat)
      BY <1>1, <1>2
    <2> QED
      BY ZenonT(60), <1>2, <1>3, <2>1 DEF Ups
  <1>5. FbOrder'
    <2>1. CASE up' = up
      <3>1. \A i \in DOMAIN cast : cast[i] <= sent + 1
        BY SMTT(30), <1>1, <1>2 DEF FbInv, FbOrder
      <3>2. \A i \in DOMAIN up.wire : up.wire[i] <= sent + 1
        BY SMTT(30), <1>1, <1>2 DEF FbInv, FbOrder
      <3> QED
        BY Zenon, <1>1, <2>1, <3>1, <3>2 DEF FbInv, FbOrder
    <2>2. CASE up' = [up EXCEPT !.wire = Append(up.wire, sent + 1)]
      <3> DEFINE w == Append(up.wire, sent + 1)
      <3>1. /\ up'.wire = w /\ up'.pc = up.pc /\ w \in Seq(Nat) /\ w # << >>
            /\ Len(w) = Len(up.wire) + 1 /\ DOMAIN w = 1 .. Len(up.wire) + 1
            /\ DOMAIN up.wire = 1 .. Len(up.wire) /\ Len(up.wire) \in Nat
            /\ \A i \in 1 .. Len(up.wire) : w[i] = up.wire[i] /\ up.wire[i] \in Nat
            /\ w[Len(up.wire) + 1] = sent + 1
        BY SMTT(30), <1>1, <1>2, <2>2 DEF Ups
      <3> HIDE DEF w
      <3>2. \A i \in DOMAIN cast : cast[i] \in Nat /\ cast[i] < sent + 1 /\ cast[i] <= sent + 1
        BY SMTT(30), <1>1, <1>2 DEF FbInv, FbOrder
      <3>3. \A i \in 1 .. Len(up.wire) : up.wire[i] < sent + 1 /\ up.wire[i] <= sent + 1
        <4> SUFFICES ASSUME NEW i \in 1 .. Len(up.wire) PROVE up.wire[i] < sent + 1 /\ up.wire[i] <= sent + 1
          BY Zenon
        <4>1. up.wire[i] \in Nat /\ up.wire[i] <= sent
          BY ZenonT(60), <3>1 DEF FbInv, FbOrder
        <4> QED
          BY SMTT(30), <1>1, <4>1
      <3>4. Increasing(w)
        <4> SUFFICES ASSUME NEW i \in DOMAIN w, NEW j \in DOMAIN w, i < j PROVE w[i] < w[j]
          BY Zenon DEF Increasing
        <4>1. i \in 1 .. Len(up.wire)
          BY <3>1
        <4>2. CASE j \in 1 .. Len(up.wire)
          BY Zenon, <3>1, <4>1, <4>2 DEF FbInv, FbOrder, Increasing
        <4>3. CASE j = Len(up.wire) + 1
          BY Zenon, <3>1, <3>3, <4>1, <4>3
        <4> QED
          BY SMTT(30), <3>1, <4>2, <4>3
      <3>5. \A j \in DOMAIN w : w[j] <= sent + 1
        BY SMTT(30), <1>1, <3>1, <3>3
      <3>6. ASSUME NEW i \in DOMAIN cast, NEW j \in DOMAIN w PROVE cast[i] < w[j]
        <4>1. CASE j \in 1 .. Len(up.wire)
          BY Zenon, <3>1, <4>1 DEF FbInv, FbOrder
        <4>2. CASE j = Len(up.wire) + 1
          BY Zenon, <3>1, <3>2, <4>2
        <4> QED
          BY SMTT(30), <3>1, <4>1, <4>2
      <3> QED
        BY Zenon, <1>1, <3>1, <3>2, <3>4, <3>5, <3>6 DEF FbInv, FbOrder
    <2> QED
      BY Zenon, <1>3, <2>1, <2>2
  <1>6. sent' \in Nat
    BY <1>1
  <1> QED
    BY Zenon, <1>1, <1>4, <1>5, <1>6, UpstreamStep


\* Places in what a subscriber holds are places in the broadcasts.
LEMMA Within ==
    ASSUME NEW a \in Nat, NEW n \in Nat, NEW k \in Nat, NEW l \in Nat, a + n + k <= l
    PROVE  /\ \A i \in 1 .. n : a + i \in 1 .. l
           /\ \A i \in 1 .. k : a + n + i \in 1 .. l
  BY SMTT(30)

\* One more broadcast leaves what a subscriber has as it is.
LEMMA LongerCast ==
    ASSUME NEW s \in Subs, NEW b \in Seq(Nat), NEW m \in Nat, NEW in \in BOOLEAN, Streams(s, b, in)
    PROVE  LET b2 == Append(b, m)
           IN  /\ \A i \in 1 .. Len(s.got) : s.got[i] = b2[s.since + i]
               /\ \A i \in 1 .. Len(s.chan) : s.chan[i] = b2[s.since + Len(s.got) + i]
  <1> DEFINE b2 == Append(b, m)
             n == Len(s.got)
             k == Len(s.chan)
             d == s.since
  <1>1. d \in Nat /\ n \in Nat /\ k \in Nat /\ Len(b) \in Nat
    BY DEF Subs
  <1>2. \A i \in 1 .. Len(b) : b2[i] = b[i]
    OBVIOUS
  <1>3. /\ d + n + k <= Len(b)
        /\ \A i \in 1 .. n : s.got[i] = b[d + i]
        /\ \A i \in 1 .. k : s.chan[i] = b[d + n + i]
    BY Zenon DEF Streams
  <1> HIDE DEF b2, n, k, d
  <1>4. /\ \A i \in 1 .. n : d + i \in 1 .. Len(b)
        /\ \A i \in 1 .. k : d + n + i \in 1 .. Len(b)
    BY Zenon, <1>1, <1>3, Within
  <1>5. /\ \A i \in 1 .. n : s.got[i] = b2[d + i]
        /\ \A i \in 1 .. k : s.chan[i] = b2[d + n + i]
    BY Zenon, <1>2, <1>3, <1>4
  <1> QED
    BY Zenon, <1>5 DEF b2, n, k, d

\* One more broadcast for a client that is dropped, or was before.
LEMMA DroppedStream ==
    ASSUME NEW s \in Subs, NEW b \in Seq(Nat), NEW m \in Nat, NEW in \in BOOLEAN, Streams(s, b, in)
    PROVE  Streams(s, Append(b, m), FALSE)
  <1>1. s.since + Len(s.got) + Len(s.chan) <= Len(Append(b, m))
    <2>1. Len(Append(b, m)) = Len(b) + 1 /\ Len(b) \in Nat
      OBVIOUS
    <2>2. s.since \in Nat /\ Len(s.got) \in Nat /\ Len(s.chan) \in Nat
      BY DEF Subs
    <2>3. s.since + Len(s.got) + Len(s.chan) <= Len(b)
      BY Zenon DEF Streams
    <2> QED
      BY SMTT(30), <2>1, <2>2, <2>3
  <1>2. s.pc \in {"new", "closed"} => s.got = << >> /\ s.chan = << >> /\ s.since = 0
    BY Zenon DEF Streams
  <1>3. /\ \A i \in 1 .. Len(s.got) : s.got[i] = Append(b, m)[s.since + i]
        /\ \A i \in 1 .. Len(s.chan) : s.chan[i] = Append(b, m)[s.since + Len(s.got) + i]
    BY Zenon, LongerCast
  <1> QED
    BY Zenon, <1>1, <1>2, <1>3 DEF Streams

\* One more broadcast for one that is served.
LEMMA ServedStream ==
    ASSUME NEW s \in Subs, NEW b \in Seq(Nat), NEW m \in Nat, Streams(s, b, TRUE)
    PROVE  Streams([s EXCEPT !.chan = Append(@, m)], Append(b, m), TRUE)
  <1> DEFINE s2 == [s EXCEPT !.chan = Append(s.chan, m)]
             b2 == Append(b, m)
             n == Len(s.got)
             k == Len(s.chan)
             d == s.since
  <1>1. d \in Nat /\ n \in Nat /\ k \in Nat /\ Len(b) \in Nat
    BY DEF Subs
  <1>2. /\ s2.got = s.got /\ s2.since = d /\ s2.pc = s.pc
        /\ s2.chan = Append(s.chan, m)
    BY Zenon DEF Subs
  <1>3. Len(s2.chan) = k + 1 /\ Len(b2) = Len(b) + 1
    BY <1>2 DEF Subs
  <1>4. s2.chan[k + 1] = m /\ \A i \in 1 .. k : s2.chan[i] = s.chan[i]
    BY <1>2 DEF Subs
  <1>5. b2[Len(b) + 1] = m
    OBVIOUS
  <1>6. d + n + k = Len(b) /\ s.pc \notin {"new", "closed"}
    BY Zenon DEF Streams
  <1>7. /\ \A i \in 1 .. n : s.got[i] = b2[d + i]
        /\ \A i \in 1 .. k : s.chan[i] = b2[d + n + i]
    BY Zenon, LongerCast
  <1>8. Len(s.got) = n
    OBVIOUS
  <1> HIDE DEF s2, b2, n, k, d
  <1>9. d + n + (k + 1) = Len(b) + 1
    BY <1>1, <1>6
  <1>10. \A i \in 1 .. k + 1 : s2.chan[i] = b2[d + n + i]
    <2> SUFFICES ASSUME NEW i \in 1 .. k + 1 PROVE s2.chan[i] = b2[d + n + i]
      OBVIOUS
    <2>1. i = k + 1 \/ i \in 1 .. k
      BY SMTT(30), <1>1
    <2> QED
      BY Zenon, <1>4, <1>5, <1>7, <1>9, <2>1
  <1>11. d + n + (k + 1) <= Len(b2)
    BY <1>1, <1>3, <1>9
  <1>12. Streams(s2, b2, TRUE)
    BY Zenon, <1>2, <1>3, <1>6, <1>7, <1>8, <1>9, <1>10, <1>11 DEF Streams
  <1> QED
    BY Zenon, <1>12 DEF s2, b2

\* A relayed message is later than all broadcast ones, and goes to every
\* subscriber that stays in the hub.
LEMMA RelayStep == ASSUME FbInv, Relay PROVE FbInv'
  <1> DEFINE m == Head(up.wire)
  <1>1. /\ up \in Ups /\ up.wire \in Seq(Nat) /\ up.wire # << >> /\ cast \in Seq(Nat)
        /\ sub \in [Clients -> Subs] /\ hub \in SUBSET Clients /\ sent \in Nat
    BY Zenon DEF FbInv, FbTypes, FbOrder, Relay, Ups
  <1>2. up' = [up EXCEPT !.pc = "poll", !.wire = Tail(up.wire)] /\ sent' = sent
    BY Zenon, <1>1 DEF Relay
  <1>3. /\ Tail(up.wire) \in Seq(Nat) /\ Len(Tail(up.wire)) = Len(up.wire) - 1
        /\ Len(up.wire) \in Nat \ {0} /\ m = up.wire[1] /\ m \in Nat
        /\ \A i \in 1 .. Len(up.wire) - 1 : Tail(up.wire)[i] = up.wire[i + 1]
    BY <1>1
  <1>4. up' \in Ups /\ up'.wire = Tail(up.wire) /\ up'.pc = "poll"
    BY Zenon, <1>1, <1>2, <1>3 DEF Ups
  <1>5. /\ DOMAIN up'.wire = 1 .. Len(up.wire) - 1 /\ DOMAIN up.wire = 1 .. Len(up.wire)
        /\ \A i \in DOMAIN up'.wire : i + 1 \in DOMAIN up.wire /\ up'.wire[i] = up.wire[i + 1]
    BY <1>1, <1>3, <1>4
  <1> HIDE DEF m
  <1>6. Increasing(up.wire)' /\ \A j \in DOMAIN up'.wire : up'.wire[j] <= sent
    <2>1. ASSUME NEW i \in DOMAIN up'.wire, NEW j \in DOMAIN up'.wire, i < j
          PROVE  up'.wire[i] < up'.wire[j]
      <3>1. i + 1 < j + 1 /\ i + 1 \in DOMAIN up.wire /\ j + 1 \in DOMAIN up.wire
        BY SMTT(30), <1>3, <1>5, <2>1
      <3>2. up.wire[i + 1] < up.wire[j + 1]
        BY Zenon, <3>1 DEF FbInv, FbOrder, Increasing
      <3> QED
        BY Zenon, <1>5, <3>2
    <2> QED
      BY Zenon, <1>5, <2>1 DEF FbInv, FbOrder, Increasing
  <1>7. CASE ~leads
    <2>1. UNCHANGED <<sub, hub, gauge, cast>>
      BY Zenon, <1>7 DEF Relay
    <2>2. FbOrder'
      BY SMTT(30), <1>2, <1>4, <1>5, <1>6, <2>1 DEF FbInv, FbOrder, Increasing
    <2> QED
      BY Zenon, <1>1, <1>2, <1>4, <2>1, <2>2, UpstreamStep
  <1>8. CASE leads
    <2> DEFINE served == {c \in hub : Fits(c)}
    <2>1. /\ cast' = Append(cast, m) /\ hub' = served /\ gauge' = Cardinality(served)
          /\ sub' = [c \in Clients |-> IF c \in served THEN [sub[c] EXCEPT !.chan = Append(@, m)]
                                       ELSE sub[c]]
      BY Zenon, <1>8 DEF Relay, broadcast, m
    <2>2. /\ cast' \in Seq(Nat) /\ Len(cast') = Len(cast) + 1 /\ Len(cast) \in Nat
          /\ DOMAIN cast' = 1 .. Len(cast) + 1 /\ DOMAIN cast = 1 .. Len(cast)
          /\ \A i \in DOMAIN cast : cast'[i] = cast[i] /\ cast[i] \in Nat
          /\ cast'[Len(cast) + 1] = m
      BY SMTT(30), <1>1, <1>3, <2>1
    <2>3. FbTypes'
      <3>1. \A c \in Clients : [sub[c] EXCEPT !.chan = Append(@, m)] \in Subs
        <4> SUFFICES ASSUME NEW c \in Clients PROVE [sub[c] EXCEPT !.chan = Append(@, m)] \in Subs
          OBVIOUS
        <4>1. sub[c] \in Subs /\ Append(sub[c].chan, m) \in Seq(Nat)
          BY <1>1, <1>3 DEF Subs
        <4> QED
          BY Zenon, <4>1 DEF Subs
      <3>2. sub' \in [Clients -> Subs]
        BY Zenon, <1>1, <2>1, <3>1
      <3> QED
        BY Zenon, <1>1, <1>2, <1>4, <2>1, <2>2, <3>2 DEF FbTypes
    <2>4. FbOrder'
      <3>1. 1 \in DOMAIN up.wire /\ m <= sent /\ \A i \in DOMAIN cast : cast[i] < m
        BY SMTT(30), <1>3, <1>5 DEF FbInv, FbOrder
      <3>2. Increasing(cast)'
        <4> SUFFICES ASSUME NEW i \in DOMAIN cast', NEW j \in DOMAIN cast', i < j
                     PROVE  cast'[i] < cast'[j]
          BY Zenon DEF Increasing
        <4>1. i \in DOMAIN cast
          BY SMTT(30), <2>2
        <4>2. CASE j \in DOMAIN cast
          BY Zenon, <2>2, <4>1, <4>2 DEF FbInv, FbOrder, Increasing
        <4>3. CASE j = Len(cast) + 1
          BY Zenon, <2>2, <3>1, <4>1, <4>3
        <4> QED
          BY SMTT(30), <2>2, <4>2, <4>3
      <3>3. \A i \in DOMAIN cast' : cast'[i] <= sent
        BY SMTT(30), <2>2, <3>1 DEF FbInv, FbOrder
      <3>4. ASSUME NEW i \in DOMAIN cast', NEW j \in DOMAIN up'.wire PROVE cast'[i] < up'.wire[j]
        <4>1. j + 1 \in DOMAIN up.wire /\ up'.wire[j] = up.wire[j + 1] /\ 1 < j + 1
          BY SMTT(30), <1>3, <1>5
        <4>2. CASE i \in DOMAIN cast
          BY Zenon, <2>2, <4>1, <4>2 DEF FbInv, FbOrder
        <4>3. CASE i = Len(cast) + 1
          <5>1. up.wire[1] < up.wire[j + 1]
            BY Zenon, <3>1, <4>1 DEF FbInv, FbOrder, Increasing
          <5> QED
            BY Zenon, <1>3, <2>2, <4>1, <4>3, <5>1
        <4> QED
          BY SMTT(30), <2>2, <4>2, <4>3
      <3> QED
        BY Zenon, <1>2, <1>4, <1>6, <3>2, <3>3, <3>4 DEF FbOrder
    <2>5. ASSUME NEW c \in Clients PROVE Streams(sub'[c], cast', c \in hub')
      <3>1. sub[c] \in Subs /\ Streams(sub[c], cast, c \in hub) /\ (c \in hub) \in BOOLEAN
        BY SMTT(30), <1>1 DEF FbInv
      <3>2. CASE c \in served
        <4>1. (c \in hub) = TRUE /\ (c \in hub') = TRUE
          BY Zenon, <2>1, <3>2
        <4>2. sub'[c] = [sub[c] EXCEPT !.chan = Append(@, m)]
          BY Zenon, <2>1, <3>2
        <4> QED
          BY Zenon, <1>1, <1>3, <2>1, <3>1, <4>1, <4>2, ServedStream
      <3>3. CASE c \notin served
        <4>1. (c \in hub') = FALSE /\ sub'[c] = sub[c]
          BY SMTT(30), <2>1, <3>3
        <4>2. Streams(sub[c], Append(cast, m), FALSE)
          BY ZenonT(60), <1>1, <1>3, <3>1, DroppedStream
        <4> QED
          BY Zenon, <2>1, <4>1, <4>2
      <3> QED
        BY Zenon, <3>2, <3>3
    <2> QED
      BY Zenon, <2>1, <2>3, <2>4, <2>5 DEF FbInv
  <1> QED
    BY Zenon, <1>7, <1>8

\* The task of one subscriber moves on.
LEMMA SubscriberStep ==
    ASSUME FbInv, NEW c \in Clients, NEW s \in Subs, sub' = [sub EXCEPT ![c] = s],
           UNCHANGED <<up, sent, cast>>, hub' \in SUBSET Clients, gauge' = Cardinality(hub'),
           \A d \in Clients \ {c} : (d \in hub') = (d \in hub),
           Streams(s, cast, c \in hub')
    PROVE  FbInv'
  <1>1. sub' \in [Clients -> Subs] /\ sub'[c] = s /\ \A d \in Clients \ {c} : sub'[d] = sub[d]
    BY Zenon DEF FbInv, FbTypes
  <1>2. FbTypes'
    BY Zenon, <1>1 DEF FbInv, FbTypes
  <1>3. FbOrder'
    BY Zenon DEF FbInv, FbOrder, Increasing
  <1>4. ASSUME NEW d \in Clients PROVE Streams(sub'[d], cast', d \in hub')
    BY Zenon, <1>1 DEF FbInv
  <1> QED
    BY Zenon, <1>2, <1>3, <1>4 DEF FbInv

\* A message goes from the channel to the socket.
LEMMA WrittenStream ==
    ASSUME NEW s \in Subs, NEW b \in Seq(Nat), NEW in \in BOOLEAN, Streams(s, b, in),
           s.chan # << >>, s.pc = "open"
    PROVE  LET s2 == [s EXCEPT !.chan = Tail(@), !.got = Append(@, Head(s.chan))]
           IN  s2 \in Subs /\ Streams(s2, b, in)
  <1> DEFINE s2 == [s EXCEPT !.chan = Tail(s.chan), !.got = Append(s.got, Head(s.chan))]
             n == Len(s.got)
             k == Len(s.chan)
             d == s.since
  <1>1. d \in Nat /\ n \in Nat /\ k \in Nat /\ k > 0
    BY SMTT(30) DEF Subs
  <1>2. /\ Head(s.chan) = s.chan[1] /\ Head(s.chan) \in Nat
        /\ Tail(s.chan) \in Seq(Nat) /\ Append(s.got, Head(s.chan)) \in Seq(Nat)
    BY DEF Subs
  <1>3. /\ s2 \in Subs /\ s2.since = d /\ s2.pc = "open"
        /\ s2.got = Append(s.got, Head(s.chan)) /\ s2.chan = Tail(s.chan)
    BY ZenonT(60), <1>2 DEF Subs
  <1>4. Len(s2.got) = n + 1 /\ Len(s2.chan) = k - 1
    BY <1>3 DEF Subs
  <1>5. /\ \A i \in 1 .. n : s2.got[i] = s.got[i]
        /\ s2.got[n + 1] = s.chan[1]
    BY <1>2, <1>3 DEF Subs
  <1>6. \A i \in 1 .. k - 1 : s2.chan[i] = s.chan[i + 1]
    BY <1>3 DEF Subs
  <1>7. /\ d + n + k <= Len(b)
        /\ \A i \in 1 .. n : s.got[i] = b[d + i]
        /\ \A i \in 1 .. k : s.chan[i] = b[d + n + i]
        /\ in => d + n + k = Len(b)
    BY Zenon DEF Streams
  <1> HIDE DEF s2, n, k, d
  <1>8. \A i \in 1 .. n + 1 : s2.got[i] = b[d + i]
    <2> SUFFICES ASSUME NEW i \in 1 .. n + 1 PROVE s2.got[i] = b[d + i]
      OBVIOUS
    <2>1. CASE i \in 1 .. n
      BY Zenon, <1>5, <1>7, <2>1
    <2>2. CASE i = n + 1
      <3>1. 1 \in 1 .. k /\ d + n + 1 = d + i
        BY SMTT(30), <1>1, <2>2
      <3> QED
        BY Zenon, <1>5, <1>7, <2>2, <3>1
    <2> QED
      BY SMTT(30), <1>1, <2>1, <2>2
  <1>9. \A i \in 1 .. k - 1 : s2.chan[i] = b[d + (n + 1) + i]
    <2> SUFFICES ASSUME NEW i \in 1 .. k - 1 PROVE s2.chan[i] = b[d + (n + 1) + i]
      BY Zenon
    <2>1. i + 1 \in 1 .. k /\ d + n + (i + 1) = d + (n + 1) + i
      BY SMTT(30), <1>1
    <2> QED
      BY Zenon, <1>6, <1>7, <2>1
  <1>10. d + (n + 1) + (k - 1) = d + n + k
    BY SMTT(30), <1>1
  <1>11. s2.pc \notin {"new", "closed"}
    BY Zenon, <1>3
  <1>12. Streams(s2, b, in)
    BY Zenon, <1>3, <1>4, <1>7, <1>8, <1>9, <1>10, <1>11 DEF Streams
  <1> QED
    BY Zenon, <1>3, <1>12 DEF s2

\* The flags of a subscriber's task are no part of its stream.
LEMMA SameStream ==
    ASSUME NEW s \in Subs, NEW s2, NEW b, NEW in, Streams(s, b, in), s.pc = "open",
           s2.got = s.got, s2.chan = s.chan, s2.since = s.since, s2.pc \in {"open", "closing"}
    PROVE  Streams(s2, b, in)
  <1>1. s2.pc \notin {"new", "closed"}
    BY Zenon
  <1> QED
    BY Zenon, <1>1 DEF Streams

\* A subscriber's task moves messages from its channel to its socket, in order,
\* and leaves the hub by itself.
LEMMA DownstreamStep == ASSUME FbInv, NEW c \in Clients, Downstream(c) \/ ClientDies(c) PROVE FbInv'
  <1>1. /\ sub \in [Clients -> Subs] /\ sub[c] \in Subs /\ hub \in SUBSET Clients
        /\ cast \in Seq(Nat) /\ gauge = Cardinality(hub)
        /\ Streams(sub[c], cast, c \in hub) /\ (c \in hub) \in BOOLEAN
    BY SMTT(30) DEF FbInv, FbTypes
  <1>2. ASSUME NEW s \in Subs, SubStep(c, s), Streams(s, cast, c \in hub) PROVE FbInv'
    BY ZenonT(60), <1>1, <1>2, SubscriberStep DEF SubStep
  <1>3. ASSUME NEW s, SubStep(c, s), s \in Subs, s.got = sub[c].got, s.chan = sub[c].chan,
               s.since = sub[c].since, s.pc \in {"open", "closing"}
        PROVE  FbInv'
    <2>1. sub[c].pc = "open"
      BY Zenon, <1>3 DEF SubStep, Open
    <2>2. Streams(s, cast, c \in hub)
      BY Zenon, <1>1, <1>3, <2>1, SameStream
    <2> QED
      BY Zenon, <1>2, <1>3, <2>2
  <1>4. CASE Register(c)
    <2> DEFINE s == [sub[c] EXCEPT !.pc = "open", !.since = Len(cast)]
    <2>1. /\ sub' = [sub EXCEPT ![c] = s] /\ hub' = hub \cup {c} /\ gauge' = Cardinality(hub')
          /\ UNCHANGED <<up, sent, cast>> /\ sub[c].pc = "new"
      BY Zenon, <1>1, <1>4 DEF Register, Subs
    <2>2. /\ s \in Subs /\ s.pc = "open" /\ s.since = Len(cast) /\ Len(cast) \in Nat
          /\ s.got = sub[c].got /\ s.chan = sub[c].chan
      <3>1. Len(cast) \in Nat /\ sub[c] \in Subs
        BY <1>1
      <3> QED
        BY ZenonT(60), <3>1 DEF Subs
    <2>3. sub[c].got = << >> /\ sub[c].chan = << >>
      BY Zenon, <1>1, <2>1 DEF Streams
    <2> HIDE DEF s
    <2>4. Streams(s, cast, TRUE)
      BY SMTT(30), <2>2, <2>3 DEF Streams
    <2>5. (c \in hub') = TRUE /\ hub' \in SUBSET Clients /\ \A d \in Clients \ {c} : (d \in hub') = (d \in hub)
      BY SMTT(30), <1>1, <2>1
    <2>6. Streams(s, cast, c \in hub')
      BY Zenon, <2>4, <2>5
    <2> QED
      BY Zenon, <2>1, <2>2, <2>5, <2>6, SubscriberStep
  <1>5. CASE Write(c)
    <2> DEFINE s == [sub[c] EXCEPT !.chan = Tail(@), !.got = Append(@, Head(sub[c].chan))]
    <2>1. CASE SubStep(c, s)
      <3>1. sub[c].chan # << >> /\ sub[c].pc = "open"
        BY Zenon, <1>5, <2>1 DEF Write, SubStep, Open
      <3>2. s \in Subs /\ Streams(s, cast, c \in hub)
        BY ZenonT(60), <1>1, <3>1, WrittenStream
      <3> QED
        BY Zenon, <1>2, <2>1, <3>2
    <2>2. CASE SubStep(c, Breaks(c))
      BY Zenon, <1>1, <1>3, <2>2 DEF Breaks, Subs
    <2> QED
      BY Zenon, <1>5, <2>1, <2>2 DEF Write
  <1>6. CASE Ping(c) \/ PingFails(c) \/ Pong(c) \/ PongDeadline(c) \/ Close(c) \/ ClientDies(c)
    <2>1. \/ SubStep(c, [sub[c] EXCEPT !.awaiting_pong = TRUE])
          \/ SubStep(c, [sub[c] EXCEPT !.awaiting_pong = FALSE])
          \/ SubStep(c, [sub[c] EXCEPT !.alive = FALSE])
          \/ SubStep(c, [sub[c] EXCEPT !.pc = "closing"])
      BY Zenon, <1>6 DEF Ping, PingFails, Pong, PongDeadline, Close, ClientDies, Breaks
    <2>2. sub[c].pc = "open"
      BY Zenon, <2>1 DEF SubStep, Open
    <2>3. CASE SubStep(c, [sub[c] EXCEPT !.awaiting_pong = TRUE])
      BY Zenon, <1>1, <1>3, <2>2, <2>3 DEF Subs
    <2>4. CASE SubStep(c, [sub[c] EXCEPT !.awaiting_pong = FALSE])
      BY Zenon, <1>1, <1>3, <2>2, <2>4 DEF Subs
    <2>5. CASE SubStep(c, [sub[c] EXCEPT !.alive = FALSE])
      BY Zenon, <1>1, <1>3, <2>2, <2>5 DEF Subs
    <2>6. CASE SubStep(c, [sub[c] EXCEPT !.pc = "closing"])
      BY Zenon, <1>1, <1>3, <2>2, <2>6 DEF Subs
    <2> QED
      BY Zenon, <2>1, <2>3, <2>4, <2>5, <2>6
  <1>7. CASE Unregister(c)
    <2> DEFINE s == [NewSub EXCEPT !.pc = "closed"]
    <2>1. /\ sub' = [sub EXCEPT ![c] = s] /\ hub' = hub \ {c} /\ gauge' = Cardinality(hub')
          /\ UNCHANGED <<up, sent, cast>>
      BY Zenon, <1>7 DEF Unregister
    <2>2. s \in Subs /\ s.pc = "closed" /\ s.got = << >> /\ s.chan = << >> /\ s.since = 0
      <3>1. NewSub \in Subs /\ NewSub.got = << >> /\ NewSub.chan = << >> /\ NewSub.since = 0
        BY SMTT(30) DEF NewSub, Subs
      <3> QED
        BY Zenon, <3>1 DEF Subs
    <2> HIDE DEF s
    <2>3. Streams(s, cast, FALSE)
      BY SMTT(30), <1>1, <2>2 DEF Streams
    <2>4. (c \in hub') = FALSE /\ hub' \in SUBSET Clients /\ \A d \in Clients \ {c} : (d \in hub') = (d \in hub)
      BY SMTT(30), <1>1, <2>1
    <2>5. Streams(s, cast, c \in hub')
      BY Zenon, <2>3, <2>4
    <2> QED
      BY ZenonT(60), <2>1, <2>2, <2>4, <2>5, SubscriberStep
  <1> QED
    BY ZenonT(60), <1>4, <1>5, <1>6, <1>7 DEF Downstream

\* FbInv holds of every state of the hub, its relay and its subscribers.
THEOREM FlashblocksInvariance == FbSpec => []FbInv
  <1>1. ASSUME FbInv, [FbNext]_fb_vars PROVE FbInv'
    <2>1. CASE UNCHANGED fb_vars
      <3>1. FbTypes' /\ FbOrder'
        BY ZenonT(60), <1>1, <2>1 DEF fb_vars, FbInv, FbTypes, FbOrder, Increasing
      <3>2. \A c \in Clients : Streams(sub'[c], cast', c \in hub')
        BY ZenonT(60), <1>1, <2>1 DEF fb_vars, FbInv
      <3> QED
        BY ZenonT(60), <1>1, <2>1, <3>1, <3>2 DEF fb_vars, FbInv
    <2> QED
      BY Zenon, <1>1, <2>1, ConnectionStep, SendStep, RelayStep, DownstreamStep DEF FbNext, Upstream
  <1> QED
    BY <1>1, InitFbInv, PTL DEF FbSpec

\* A stretch of n elements of a sequence, after its first m, element by element.
LEMMA PartOf ==
  ASSUME NEW s \in Seq(Nat), NEW m \in Nat, NEW n \in Nat, m + n <= Len(s)
  PROVE  /\ SubSeq(s, m + 1, m + n) \in Seq(Nat)
         /\ Len(SubSeq(s, m + 1, m + n)) = n
         /\ \A i \in 1 .. n : SubSeq(s, m + 1, m + n)[i] = s[m + i]
  <1>1. SubSeq(s, m + 1, m + n) \in Seq(Nat)
    OBVIOUS
  <1>2. Len(SubSeq(s, m + 1, m + n)) = n
    BY SMTT(30)
  <1>3. ASSUME NEW i \in 1 .. n PROVE SubSeq(s, m + 1, m + n)[i] = s[m + i]
    <2>1. i \in 1 .. m + n - (m + 1) + 1 /\ m + 1 + i - 1 = m + i
      OBVIOUS
    <2>2. \A j \in m + 1 .. m + n : s[j] \in Nat
      OBVIOUS
    <2> QED
      BY SMTT(30), <2>1, <2>2, SubSeqProperties
  <1> QED
    BY Zenon, <1>1, <1>2, <1>3

\* A subscriber of the hub gets an unbroken stretch of the broadcasts.
THEOREM UnbrokenCorrect == FbSpec => []UnbrokenStreams
  <1>1. ASSUME FbInv PROVE UnbrokenStreams
    <2> SUFFICES ASSUME NEW c \in Clients
                 PROVE  LET stream == sub[c].got \o sub[c].chan
                            n == Len(stream)
                        IN  /\ sub[c].since + n <= Len(cast)
                            /\ stream = SubSeq(cast, sub[c].since + 1, sub[c].since + n)
                            /\ c \in hub => sub[c].since + n = Len(cast)
      BY Zenon DEF UnbrokenStreams
    <2> DEFINE g == sub[c].got
               h == sub[c].chan
               d == sub[c].since
               stream == g \o h
               k == Len(g)
               l == Len(h)
               part == SubSeq(cast, d + 1, d + (k + l))
    <2>1. sub[c] \in Subs /\ Streams(sub[c], cast, c \in hub) /\ cast \in Seq(Nat)
      BY Zenon, <1>1 DEF FbInv, FbTypes
    <2>2. g \in Seq(Nat) /\ h \in Seq(Nat) /\ d \in Nat /\ k \in Nat /\ l \in Nat /\ Len(cast) \in Nat
      BY SMTT(30), <2>1 DEF Subs
    <2>3. /\ d + k + l <= Len(cast) /\ (c \in hub => d + k + l = Len(cast))
          /\ \A i \in 1 .. k : g[i] = cast[d + i]
          /\ \A i \in 1 .. l : h[i] = cast[d + k + i]
      BY Zenon, <2>1 DEF Streams
    <2>4. Len(stream) = k + l /\ stream \in Seq(Nat)
      BY Zenon, <2>2, ConcatProperties
    <2>5. \A i \in 1 .. k + l : stream[i] = IF i <= k THEN g[i] ELSE h[i - k]
      BY Zenon, <2>2, ConcatProperties
    <2>6. \A i \in 1 .. Len(cast) : cast[i] \in Nat
      BY <2>1
    <2> HIDE DEF g, h, d, k, l, stream
    <2>7. d + (k + l) = d + k + l
      BY SMTT(30), <2>2
    <2>8. part \in Seq(Nat) /\ Len(part) = k + l /\ \A i \in 1 .. k + l : part[i] = cast[d + i]
      BY SMTT(30), <2>1, <2>2, <2>3, <2>7, PartOf DEF part
    <2>9. \A i \in 1 .. k + l : stream[i] = cast[d + i]
      <3> SUFFICES ASSUME NEW i \in 1 .. k + l PROVE stream[i] = cast[d + i]
        OBVIOUS
      <3>1. CASE i <= k
        <4>1. i \in 1 .. k /\ stream[i] = g[i]
          BY SMTT(30), <2>2, <2>5, <3>1
        <4> QED
          BY Zenon, <2>3, <4>1
      <3>2. CASE ~(i <= k)
        <4>1. i - k \in 1 .. l /\ d + k + (i - k) = d + i
          BY SMTT(30), <2>2, <3>2
        <4> QED
          BY Zenon, <2>3, <2>5, <3>2, <4>1
      <3> QED
        BY Zenon, <3>1, <3>2
    <2> HIDE DEF part
    <2>10. stream = part
      BY ZenonT(60), <2>4, <2>8, <2>9, SeqEqual
    <2> QED
      BY Zenon, <2>3, <2>4, <2>7, <2>10 DEF stream, part, g, h, d
  <1> QED
    BY <1>1, FlashblocksInvariance, PTL

\* No message is broadcast twice or after a later one.
THEOREM OrderCorrect == FbSpec => []BroadcastsInOrder
  <1>1. FbInv => BroadcastsInOrder
    BY Zenon DEF FbInv, FbOrder, Increasing, BroadcastsInOrder
  <1> QED
    BY <1>1, FlashblocksInvariance, PTL

\* websocket_clients_connected is the size of the hub.
THEOREM GaugeCorrect == FbSpec => []GaugeFollowsHub
  <1>1. ASSUME FbInv PROVE GaugeFollowsHub
    <2>1. ASSUME NEW c \in hub PROVE sub[c].pc \in {"open", "closing"}
      <3>1. c \in Clients /\ sub[c] \in Subs /\ Streams(sub[c], cast, c \in hub)
        BY Zenon, <1>1 DEF FbInv, FbTypes
      <3> QED
        BY Zenon, <3>1 DEF Streams, Subs
    <2> QED
      BY Zenon, <1>1, <2>1 DEF FbInv, GaugeFollowsHub
  <1> QED
    BY <1>1, FlashblocksInvariance, PTL

=============================================================================
