--------------------------- MODULE ClusterProofs ---------------------------
(***************************************************************************)
(* Cluster administration and the carriers under it, for every number of   *)
(* servers, calls and senders: what an acknowledged membership change      *)
(* leaves, whom the leadership is offered to, what the transport carries.  *)
(***************************************************************************)
EXTENDS RaftCluster, RaftTransport, FiniteSetTheorems, WellFoundedInduction, TLAPS

----------------------------------------------------------------------------
(* RaftCluster: helpers.                                                   *)

\* A set of numbers has a least one.
LEMMA LeastOf ==
    ASSUME NEW T, T \subseteq Nat, T # {}
    PROVE  \E m \in T : \A k \in T : ~(k < m)
<1>1. PICK m \in T : \A k \in T : ~(<<k, m>> \in OpToRel(<, Nat))
  BY Zenon, NatLessThanWellFounded, WFMin
<1>2. \A k \in T : k \in Nat /\ m \in Nat
  OBVIOUS
<1> QED
  BY Zenon, <1>1, <1>2 DEF OpToRel

\* One round of the voters' list: the remainder by its length.
LEMMA ModTwice ==
    ASSUME NEW n \in Nat \ {0}, NEW x \in Nat, x < n + n
    PROVE  x % n = IF x < n THEN x ELSE x - n
<1>1. CASE x < n
  BY <1>1, Z3
<1>2. CASE ~(x < n)
  <2>1. x - n \in 0 .. n - 1
    BY <1>2
  <2>2. x = (x - n) + 1 * n
    OBVIOUS
  <2> QED  BY <1>2, <2>1, <2>2, Z3
<1> QED  BY Zenon, <1>1, <1>2

\* Appending the greatest id keeps a list sorted.
LEMMA SortedGrows ==
    ASSUME NEW n \in Nat, NEW T \in SUBSET (1 .. n), NEW seq, IsSorted(seq, T)
    PROVE  \E more : IsSorted(more, T \cup {n + 1})
<1> DEFINE k == Cardinality(T)
           more == [i \in 1 .. k + 1 |-> IF i = k + 1 THEN n + 1 ELSE seq[i]]
<1>1. IsFiniteSet(T) /\ n + 1 \notin T
  <2>1. IsFiniteSet(1 .. n)
    <3>1. 1 \in Int /\ n \in Int
      OBVIOUS
    <3> QED
      BY ONLY Zenon, <3>1, FS_Interval
  <2>2. T \subseteq 1 .. n
    OBVIOUS
  <2>3. IsFiniteSet(T)
    BY ONLY Zenon, <2>1, <2>2, FS_Subset
  <2>4. n + 1 \notin 1 .. n
    OBVIOUS
  <2> QED
    BY Zenon, <2>2, <2>3, <2>4
<1>2. k \in Nat /\ Cardinality(T \cup {n + 1}) = k + 1
  BY Zenon, <1>1, FS_CardinalityType, FS_AddElement
<1>3. /\ seq \in [1 .. k -> T]
      /\ \A s \in T : \E i \in 1 .. k : seq[i] = s
      /\ \A i, j \in 1 .. k : i < j => seq[i] < seq[j]
  BY Zenon DEF IsSorted
<1> HIDE DEF k
<1>4. \A i \in 1 .. k : i # k + 1 /\ i \in 1 .. k + 1 /\ seq[i] \in 1 .. n
  <2>1. T \subseteq 1 .. n
    OBVIOUS
  <2>2. \A i \in 1 .. k : seq[i] \in 1 .. n
    BY Zenon, <1>3, <2>1
  <2> QED
    BY <1>2, <2>2
<1>5. \A i \in 1 .. k + 1 : i = k + 1 \/ i \in 1 .. k
  BY <1>2
<1>6. more \in [1 .. k + 1 -> T \cup {n + 1}]
  BY Zenon, <1>3, <1>5
<1>7. \A s \in T \cup {n + 1} : \E i \in 1 .. k + 1 : more[i] = s
  BY <1>2, <1>3, <1>4
<1>8. \A i, j \in 1 .. k + 1 : i < j => more[i] < more[j]
  BY <1>2, <1>3, <1>4, <1>5
<1> HIDE DEF more
<1>9. DOMAIN more = 1 .. k + 1
  BY Zenon, <1>6
<1> QED
  BY Zenon, <1>2, <1>6, <1>7, <1>8, <1>9 DEF IsSorted

\* voters.sort_by finds an order: there is a sorted list of every set of
\* servers, by least counterexample over the greatest id.
LEMMA SortedIs ==
    ASSUME NEW S \in SUBSET Servers
    PROVE  IsSorted(Sorted(S), S)
<1> DEFINE Fine(n) == \A T \in SUBSET (1 .. n) : \E seq : IsSorted(seq, T)
           Bad == {n \in Nat : ~Fine(n)}
<1>1. Bad = {}
  <2>1. SUFFICES ASSUME Bad # {} PROVE FALSE
    OBVIOUS
  <2>2. PICK m \in Bad : \A k \in Bad : ~(k < m)
    <3>1. Bad \subseteq Nat
      OBVIOUS
    <3> HIDE DEF Bad
    <3> QED
      BY Zenon, <2>1, <3>1, LeastOf
  <2>3. m # 0
    <3>1. Cardinality({}) = 0
      BY Zenon, FS_EmptySet
    <3>2. IsSorted(<< >>, {})
      BY <3>1 DEF IsSorted
    <3>3. SUFFICES ASSUME m = 0, NEW T \in SUBSET (1 .. 0) PROVE \E seq : IsSorted(seq, T)
      BY Zenon, <2>2
    <3>4. T = {}
      OBVIOUS
    <3> QED
      BY Zenon, <3>2, <3>4
  <2>4. m - 1 \in Nat /\ Fine(m - 1)
    <3>1. m - 1 \in Nat /\ m - 1 < m
      BY <2>2, <2>3
    <3> QED
      BY Zenon, <2>2, <3>1
  <2>5. ASSUME NEW T \in SUBSET (1 .. m) PROVE \E seq : IsSorted(seq, T)
    <3>1. T \ {m} \in SUBSET (1 .. m - 1)
      BY <2>2, <2>4
    <3>2. PICK seq : IsSorted(seq, T \ {m})
      BY Zenon, <2>4, <3>1
    <3>3. \E more : IsSorted(more, (T \ {m}) \cup {(m - 1) + 1})
      BY ONLY Zenon, <2>4, <3>1, <3>2, SortedGrows
    <3>4. (m - 1) + 1 = m
      BY <2>2, <2>4
    <3>5. CASE m \in T
      <4>1. (T \ {m}) \cup {m} = T
        BY Zenon, <3>5
      <4> QED
        BY Zenon, <3>3, <3>4, <4>1
    <3>6. CASE m \notin T
      <4>1. T \ {m} = T
        BY Zenon, <3>6
      <4> QED
        BY Zenon, <3>2, <4>1
    <3> QED
      BY Zenon, <3>5, <3>6
  <2> QED
    BY Zenon, <2>2, <2>5
<1>2. N \in Nat /\ S \in SUBSET (1 .. N)
  BY Zenon, ClusterAssumption DEF Servers
<1>3. \E seq : IsSorted(seq, S)
  BY Zenon, <1>1, <1>2
<1>4. \E seq \in [1 .. Cardinality(S) -> S] : IsSorted(seq, S)
  BY Zenon, <1>3 DEF IsSorted
<1> QED
  BY Zenon, <1>4 DEF Sorted

NoPick == [pick |-> 0, current |-> 0]

\* f is the loop of default_transfer_target over the servers up to n.
Loop(f, matched, n) ==
    f = [s \in 0 .. n |-> IF s = 0 THEN NoPick ELSE Better(matched, f[s - 1], s)]

\* The loop can be run over any number of servers: least counterexample.
LEMMA LoopRuns ==
    ASSUME NEW matched, NEW n \in Nat
    PROVE  \E f : Loop(f, matched, n)
<1> DEFINE Bad == {k \in Nat : ~ \E f : Loop(f, matched, k)}
<1>1. SUFFICES ASSUME Bad # {} PROVE FALSE
  OBVIOUS
<1>2. PICK m \in Bad : \A k \in Bad : ~(k < m)
  <2>1. Bad \subseteq Nat
    OBVIOUS
  <2> HIDE DEF Bad
  <2> QED
    BY Zenon, <1>1, <2>1, LeastOf
<1>3. m # 0
  <2> DEFINE g == [s \in 0 .. 0 |-> NoPick]
  <2>1. g = [s \in 0 .. 0 |-> IF s = 0 THEN NoPick ELSE Better(matched, g[s - 1], s)]
    OBVIOUS
  <2>2. Loop(g, matched, 0)
    BY Zenon, <2>1 DEF Loop
  <2> QED
    BY Zenon, <1>2, <2>2
<1>4. m - 1 \in Nat /\ m - 1 < m /\ m \in Nat
  BY <1>2, <1>3
<1>5. PICK f : Loop(f, matched, m - 1)
  BY Zenon, <1>2, <1>4
<1> DEFINE g == [s \in 0 .. m |-> IF s = m THEN Better(matched, f[m - 1], m) ELSE f[s]]
<1>6. ASSUME NEW s \in 0 .. m
      PROVE  g[s] = IF s = 0 THEN NoPick ELSE Better(matched, g[s - 1], s)
  <2>1. \A k \in 0 .. m - 1 : f[k] = IF k = 0 THEN NoPick ELSE Better(matched, f[k - 1], k)
    BY Zenon, <1>5 DEF Loop
  <2>2. s # 0 => s - 1 \in 0 .. m /\ s - 1 # m
    BY <1>4
  <2>3. CASE s = m
    BY Zenon, <1>3, <1>4, <2>2, <2>3
  <2>4. CASE s # m
    <3>1. s \in 0 .. m - 1
      BY <1>4, <2>4
    <3> QED
      BY Zenon, <2>1, <2>2, <2>4, <3>1
  <2> QED
    BY Zenon, <2>3, <2>4
<1>7. g = [s \in 0 .. m |-> g[s]]
  BY Zenon
<1>8. Loop(g, matched, m)
  <2> HIDE DEF g
  <2> QED
    BY Zenon, <1>6, <1>7 DEF Loop
<1> QED
  BY Zenon, <1>2, <1>8

\* What the loop keeps after the servers up to s.
Furthest(b, matched, s) ==
    /\ b.current \in Nat
    /\ b.pick # 0 => b.pick \in Candidates(matched) /\ NextIndex(matched, b.pick) = b.current
                     /\ b.current > 0
    /\ \A c \in Candidates(matched) : c <= s => NextIndex(matched, c) <= b.current

\* One turn keeps it.
LEMMA FurthestTurn ==
    ASSUME NEW matched \in Matched, NEW b, NEW s \in Nat, Furthest(b, matched, s)
    PROVE  Furthest(Better(matched, b, s + 1), matched, s + 1)
<1>1. \A c \in Candidates(matched) : c \in Nat /\ c # 0 /\ NextIndex(matched, c) \in Nat
  BY ClusterAssumption DEF Candidates, Voters, Servers, NextIndex, Matched, Unknown, None
<1>2. \A c \in Candidates(matched) : c <= s + 1 => c <= s \/ c = s + 1
  BY <1>1
<1>3. CASE s + 1 \in Candidates(matched) /\ NextIndex(matched, s + 1) > b.current
  <2>1. Better(matched, b, s + 1) = [pick |-> s + 1, current |-> NextIndex(matched, s + 1)]
    BY Zenon, <1>3 DEF Better
  <2> QED
    BY <1>1, <1>2, <1>3, <2>1 DEF Furthest
<1>4. CASE ~(s + 1 \in Candidates(matched) /\ NextIndex(matched, s + 1) > b.current)
  <2>1. Better(matched, b, s + 1) = b
    BY Zenon, <1>4 DEF Better
  <2> QED
    BY <1>1, <1>2, <1>4, <2>1 DEF Furthest
<1> QED
  BY Zenon, <1>3, <1>4

\* After the last server, the loop of default_transfer_target has seen all.
LEMMA FurthestAfter ==
    ASSUME NEW matched \in Matched, NEW f, Loop(f, matched, N)
    PROVE  Furthest(f[N], matched, N)
<1> DEFINE Bad == {k \in 0 .. N : ~Furthest(f[k], matched, k)}
<1>0. N \in Nat /\ N \in 0 .. N
  BY ClusterAssumption
<1>1. SUFFICES ASSUME Bad # {} PROVE FALSE
  BY Zenon, <1>0
<1>2. PICK m \in Bad : \A k \in Bad : ~(k < m)
  <2>1. Bad \subseteq Nat
    BY <1>0
  <2> HIDE DEF Bad
  <2> QED
    BY Zenon, <1>1, <2>1, LeastOf
<1>3. \A k \in 0 .. N : f[k] = IF k = 0 THEN NoPick ELSE Better(matched, f[k - 1], k)
  BY Zenon DEF Loop
<1>4. m # 0
  <2>1. \A c \in Candidates(matched) : c \in Nat /\ ~(c <= 0)
    BY ClusterAssumption DEF Candidates, Voters, Servers
  <2>2. Furthest(NoPick, matched, 0)
    BY Zenon, <2>1 DEF Furthest, NoPick
  <2>3. f[0] = NoPick
    BY <1>0, <1>3
  <2> QED
    BY Zenon, <1>2, <2>2, <2>3
<1>5. m - 1 \in Nat /\ m - 1 \in 0 .. N /\ m - 1 < m /\ (m - 1) + 1 = m
  BY <1>0, <1>2, <1>4
<1>6. Furthest(f[m - 1], matched, m - 1)
  BY Zenon, <1>2, <1>5
<1>7. Furthest(Better(matched, f[m - 1], (m - 1) + 1), matched, (m - 1) + 1)
  BY ONLY Zenon, <1>5, <1>6, matched \in Matched, FurthestTurn
<1>8. f[m] = Better(matched, f[m - 1], m)
  BY Zenon, <1>2, <1>3, <1>4
<1> QED
  BY Zenon, <1>2, <1>5, <1>7, <1>8

\* The loop ends at a voter with progress that no other candidate is ahead of.
LEMMA TargetIs ==
    ASSUME NEW matched \in Matched, default_transfer_target(matched) # 0
    PROVE  LET t == default_transfer_target(matched) IN
           /\ t \in Voters(view.config) \ {Me}
           /\ matched[t] >= 0
           /\ \A s \in Voters(view.config) \ {Me} : matched[s] <= matched[t]
<1> DEFINE Eqn(f) == f = [s \in 0 .. N |-> IF s = 0 THEN [pick |-> 0, current |-> 0]
                                          ELSE Better(matched, f[s - 1], s)]
           best == CHOOSE f : Eqn(f)
           t == default_transfer_target(matched)
<1>1. t = best[N].pick
  BY Zenon DEF default_transfer_target
<1>2. Eqn(best)
  <2>1. PICK f : Loop(f, matched, N)
    BY Zenon, LoopRuns, ClusterAssumption
  <2>2. Eqn(f)
    BY Zenon, <2>1 DEF Loop, NoPick
  <2> HIDE DEF Eqn
  <2> QED
    BY Zenon, <2>2
<1>3. Loop(best, matched, N)
  <2>1. ASSUME NEW f, Eqn(f) PROVE Loop(f, matched, N)
    BY Zenon, <2>1 DEF Loop, NoPick
  <2> HIDE DEF Eqn
  <2> QED
    BY Zenon, <1>2, <2>1
<1> HIDE DEF best
<1>4. Furthest(best[N], matched, N)
  BY Zenon, <1>3, FurthestAfter
<1>5. \A c \in Candidates(matched) : c \in Nat /\ c <= N /\ c # Me /\ c \in Servers
  BY ClusterAssumption DEF Candidates, Voters, Servers
<1>6. \A s \in Servers \ {Me} : matched[s] \in {-2, -1} \cup Nat
  BY ClusterAssumption DEF Matched, Servers, Unknown, None
<1>7. t \in Candidates(matched) /\ NextIndex(matched, t) > 0
      /\ \A c \in Candidates(matched) : NextIndex(matched, c) <= NextIndex(matched, t)
  BY Zenon, <1>1, <1>4, <1>5 DEF Furthest
<1> HIDE DEF t
<1>8. matched[t] >= 0
  BY <1>5, <1>6, <1>7 DEF NextIndex
<1>9. ASSUME NEW s \in Voters(view.config) \ {Me} PROVE matched[s] <= matched[t]
  <2>1. s \in Servers \ {Me} /\ t \in Servers \ {Me}
    BY Zenon, <1>5, <1>7 DEF Voters
  <2>2. CASE s \in Candidates(matched)
    BY <1>6, <1>7, <1>8, <2>1, <2>2 DEF NextIndex
  <2>3. CASE s \notin Candidates(matched)
    BY <1>6, <1>8, <2>1, <2>3 DEF Candidates, Unknown
  <2> QED
    BY Zenon, <2>2, <2>3
<1>10. t \in Voters(view.config) \ {Me}
  BY Zenon, <1>7 DEF Candidates
<1> QED
  BY Zenon, <1>8, <1>9, <1>10 DEF t

----------------------------------------------------------------------------
(* The administration of the cluster.                                      *)

Seats == [addr : Addrs \cup {"none"}, suffrage : {"none", "Voter", "Nonvoter"}]
Configs == [servers : [Servers -> Seats], version : Nat]
Ops == {"none", "add_voter", "add_non_voter", "demote_voter", "remove_server"}
Memberships == [pc : {"idle", "connect", "version", "change", "returned"}, op : Ops,
                id : Servers, addr : Addrs \cup {"none"}, version : Nat,
                seen : {"none", "Voter", "Nonvoter"},
                result : {"none", "Ok", "Raft", "NotLeader", "VersionMismatch"}, left : Seats]
Listings == [id : Servers, addr : Addrs \cup {"none"}]

\* The server c of the list, then i places on, round the list.
Place(c, i, n) == IF c + i <= n THEN c + i ELSE c + i - n

\* v lists servers in the order of their ids, this one at place c.
Listed(v, c) ==
    /\ v \in Seq(Listings) /\ c \in 1 .. Len(v) /\ v[c].id = Me
    /\ \A i, j \in 1 .. Len(v) : i < j => v[i].id < v[j].id

\* asked are the servers at the next places.
Rounds(v, c, asked) ==
    /\ asked \in Seq(Servers) /\ Len(asked) < Len(v)
    /\ \A i \in 1 .. Len(asked) : asked[i] = v[Place(c, i, Len(v))].id

\* The round robin of a transfer.
InRound(tr, rr) ==
    \/ /\ tr.voters = << >> /\ tr.asked = << >> /\ tr.pc # "ask"
       /\ tr.pc = "default" => ~rr
    \/ \E c \in 1 .. Len(tr.voters) :
           /\ Listed(tr.voters, c) /\ Rounds(tr.voters, c, tr.asked)
           /\ tr.pc \in {"ask", "default", "returned"}
           /\ tr.pc = "ask" => tr.offset = Len(tr.asked) + 1 /\ tr.offset < Len(tr.voters)
           /\ tr.pc = "default" => Len(tr.asked) + 1 = Len(tr.voters)

\* Every place but c is i places on from c, for an i below the length.
LEMMA PlaceOf ==
    ASSUME NEW n \in Nat, NEW c \in 1 .. n, NEW k \in 1 .. n, k # c
    PROVE  \E i \in 1 .. n - 1 : Place(c, i, n) = k
<1>1. CASE k > c
  <2>1. k - c \in 1 .. n - 1 /\ Place(c, k - c, n) = k
    BY <1>1 DEF Place
  <2> QED
    BY Zenon, <2>1
<1>2. CASE k < c
  <2>1. k - c + n \in 1 .. n - 1 /\ Place(c, k - c + n, n) = k
    BY <1>2 DEF Place
  <2> QED
    BY Zenon, <2>1
<1> QED
  BY <1>1, <1>2

\* Further on in the list is further on in the round of the ids.
LEMMA TurnGrows ==
    ASSUME NEW v, NEW c, Listed(v, c), NEW i \in 1 .. Len(v) - 1
    PROVE  LET p == Place(c, i, Len(v)) IN
           /\ p \in 1 .. Len(v) /\ v[p].id \in Servers \ {Me}
           /\ \A j \in 1 .. Len(v) - 1 :
                  i < j => Turn(v[p].id) < Turn(v[Place(c, j, Len(v))].id)
<1> DEFINE n == Len(v)
           p == Place(c, i, n)
           id == [k \in 1 .. n |-> v[k].id]
<1>1. n \in Nat /\ c \in 1 .. n /\ i \in 1 .. n - 1
  BY DEF Listed
<1>2. id \in [1 .. n -> Servers] /\ id[c] = Me /\ \A k, l \in 1 .. n : k < l => id[k] < id[l]
  <2>1. v \in Seq(Listings) /\ v[c].id = Me
        /\ \A k, l \in 1 .. n : k < l => v[k].id < v[l].id
    BY Zenon DEF Listed
  <2>2. \A k \in 1 .. n : v[k] \in Listings
    BY <2>1
  <2>3. \A k \in 1 .. n : v[k].id \in Servers
    BY Zenon, <2>2 DEF Listings
  <2>4. \A k \in 1 .. n : id[k] = v[k].id
    OBVIOUS
  <2>5. id \in [1 .. n -> Servers]
    BY Zenon, <2>3
  <2> HIDE DEF id, n
  <2> QED
    BY Zenon, <1>1, <2>1, <2>4, <2>5
<1>3. \A k \in 1 .. n : id[k] = v[k].id
  OBVIOUS
<1> HIDE DEF n, id
<1>4. p \in 1 .. n /\ p # c
  BY <1>1 DEF Place
<1>5. id[p] \in Servers /\ id[p] # Me
  <2>1. \A k \in 1 .. n : id[k] \in Servers /\ id[k] \in Nat
    BY <1>2, ClusterAssumption DEF Servers
  <2>2. p < c \/ c < p
    BY <1>1, <1>4
  <2> QED
    BY <1>1, <1>2, <1>4, <2>1, <2>2
<1>6. ASSUME NEW j \in 1 .. n - 1, i < j
      PROVE  Turn(id[p]) < Turn(id[Place(c, j, n)])
  <2> DEFINE q == Place(c, j, n)
  <2>1. q \in 1 .. n /\ q # c
    BY <1>1 DEF Place
  <2>2. /\ id[p] \in 1 .. N /\ id[q] \in 1 .. N /\ Me \in 1 .. N /\ N \in Nat
    BY Zenon, <1>2, <1>4, <2>1, ClusterAssumption DEF Servers
  <2>3. \/ c < p /\ p < q
        \/ c < p /\ q < c
        \/ p < q /\ q < c
    BY <1>1, <1>6 DEF Place
  <2>4. \/ Me < id[p] /\ id[p] < id[q]
        \/ Me < id[p] /\ id[q] < Me
        \/ id[p] < id[q] /\ id[q] < Me
    BY Zenon, <1>1, <1>2, <1>4, <2>1, <2>3
  <2> HIDE DEF p, q
  <2>5. Turn(id[p]) < Turn(id[q])
    BY SMTT(30), <2>2, <2>4 DEF Turn
  <2> QED
    BY Zenon, <2>5 DEF q
<1>7. \A j \in 1 .. n - 1 : Place(c, j, n) \in 1 .. n
  BY <1>1 DEF Place
<1> HIDE DEF p
<1>8. \A j \in 1 .. n - 1 : i < j => Turn(v[p].id) < Turn(v[Place(c, j, n)].id)
  BY Zenon, <1>3, <1>4, <1>6, <1>7
<1>9. v[p].id \in Servers \ {Me}
  BY Zenon, <1>3, <1>4, <1>5
<1> QED
  BY Zenon, <1>4, <1>8, <1>9 DEF n, p

\* Going round the list is going round the ids.
LEMMA RoundsInOrder ==
    ASSUME NEW v, NEW c, Listed(v, c), NEW asked, Rounds(v, c, asked)
    PROVE  AskedInTurn(v, asked) /\ (Len(asked) + 1 = Len(v) => AllAsked(v, asked))
<1> DEFINE n == Len(v)
           others == Others(v)
           at == [i \in 1 .. n - 1 |-> v[Place(c, i, n)].id]
<1>1. /\ n \in Nat /\ c \in 1 .. n /\ v[c].id = Me /\ DOMAIN v = 1 .. n
      /\ Len(asked) \in Nat /\ Len(asked) <= n - 1 /\ DOMAIN asked = 1 .. Len(asked)
      /\ \A i \in 1 .. Len(asked) : asked[i] = v[Place(c, i, n)].id
  BY DEF Listed, Rounds
<1>2. \A i \in 1 .. n - 1 :
          /\ Place(c, i, n) \in 1 .. n /\ at[i] \in Servers \ {Me}
          /\ \A j \in 1 .. n - 1 : i < j => Turn(at[i]) < Turn(at[j])
  BY Zenon, TurnGrows
<1>3. \A i \in 1 .. n - 1 : at[i] = v[Place(c, i, n)].id
  OBVIOUS
<1>4. \A s \in others : \E i \in 1 .. n - 1 : at[i] = s
  <2>1. SUFFICES ASSUME NEW k \in 1 .. n, v[k].id # Me
                 PROVE  \E i \in 1 .. n - 1 : at[i] = v[k].id
    BY SMTT(30), <1>1 DEF Others
  <2>2. k # c
    BY Zenon, <1>1, <2>1
  <2>3. PICK i \in 1 .. n - 1 : Place(c, i, n) = k
    BY Zenon, <1>1, <2>2, PlaceOf
  <2> QED
    BY Zenon, <1>3, <2>3
<1>5. \A i \in 1 .. n - 1 : at[i] \in others
  BY Zenon, <1>1, <1>2, <1>3 DEF Others
<1>6. \A i \in 1 .. Len(asked) : i \in 1 .. n - 1 /\ asked[i] = at[i]
  BY SMTT(30), <1>1, <1>3
<1>7. \A i \in 1 .. n - 1 : Turn(at[i]) \in Int
  BY SMTT(30), <1>2, ClusterAssumption DEF Turn, Servers
<1> HIDE DEF at, others, n
<1>8. ASSUME NEW i \in DOMAIN asked, NEW s \in others
      PROVE  Turn(s) < Turn(asked[i]) <=> \E j \in 1 .. i - 1 : asked[j] = s
  <2>1. i \in 1 .. n - 1 /\ asked[i] = at[i] /\ i \in 1 .. Len(asked)
    BY Zenon, <1>1, <1>6
  <2>2. PICK k \in 1 .. n - 1 : at[k] = s
    BY Zenon, <1>4
  <2>3. ASSUME Turn(s) < Turn(asked[i]) PROVE \E j \in 1 .. i - 1 : asked[j] = s
    <3>1. ~(i < k) /\ i # k
      BY SMTT(30), <1>2, <1>7, <2>1, <2>2, <2>3
    <3>2. k \in 1 .. i - 1 /\ k \in 1 .. Len(asked)
      BY <1>1, <2>1, <2>2, <3>1
    <3>3. asked[k] = s
      BY Zenon, <1>6, <2>2, <3>2
    <3> QED
      BY Zenon, <3>2, <3>3
  <2>4. ASSUME NEW j \in 1 .. i - 1, asked[j] = s PROVE Turn(s) < Turn(asked[i])
    <3>1. j \in 1 .. Len(asked) /\ j < i
      BY <1>1, <2>1
    <3>2. j \in 1 .. n - 1 /\ at[j] = s
      BY Zenon, <1>6, <2>4, <3>1
    <3> QED
      BY Zenon, <1>2, <2>1, <3>1, <3>2
  <2> QED
    BY Zenon, <2>3, <2>4
<1>9. ASSUME Len(asked) + 1 = n, NEW s \in others PROVE \E i \in DOMAIN asked : asked[i] = s
  <2>1. PICK k \in 1 .. n - 1 : at[k] = s
    BY Zenon, <1>4
  <2>2. k \in 1 .. Len(asked)
    BY SMTT(30), <1>1, <1>9, <2>1
  <2> QED
    BY Zenon, <1>1, <1>6, <2>1, <2>2
<1>10. \A i \in DOMAIN asked : asked[i] \in others
  BY Zenon, <1>1, <1>5, <1>6
<1>11. Len(asked) + 1 = n => \A s \in others : \E i \in DOMAIN asked : asked[i] = s
  BY Zenon, <1>9
<1> QED
  BY Zenon, <1>8, <1>10, <1>11 DEF others, n, AskedInTurn, AllAsked

\* A transfer in its round asks in order.
LEMMA RoundOrdered ==
    ASSUME InRound(transfer, round_robin)
    PROVE  RoundRobinOrder
<1>1. CASE transfer.voters = << >> /\ transfer.asked = << >>
           /\ (transfer.pc = "default" => ~round_robin)
  BY <1>1 DEF RoundRobinOrder, AskedInTurn
<1>2. ASSUME NEW c, Listed(transfer.voters, c), Rounds(transfer.voters, c, transfer.asked),
             transfer.pc = "default" => Len(transfer.asked) + 1 = Len(transfer.voters)
      PROVE  RoundRobinOrder
  BY Zenon, <1>2, RoundsInOrder DEF RoundRobinOrder
<1> QED
  BY Zenon, <1>1, <1>2 DEF InRound

Transferring == [pc : {"idle", "ask", "default", "returned"}, voters : Seq(Listings),
                 offset : Nat, asked : Seq(Servers), target : 0 .. N,
                 matched : {<< >>} \cup Matched, among : SUBSET Servers,
                 result : {"none", "Ok", "Raft", "in progress", "ServerNotFound",
                           "ServerAddrMismatch"}]

\* A call that was acknowledged left what it asked for.
Honest(c) ==
    c.result = "Ok" => /\ c.op = "remove_server" => c.left = Absentee
                       /\ c.op = "demote_voter" => c.left.suffrage # "Voter"

\* A target is the furthest of those it was chosen among.
WellChosen(tr) ==
    tr.target # 0 => /\ tr.target \in tr.among
                     /\ tr.matched[tr.target] >= 0
                     /\ \A s \in tr.among : tr.matched[s] <= tr.matched[tr.target]

\* The inductive invariant of ClusterSpec.
CallsInv == /\ config \in Configs /\ view \in [config : Configs, leader : BOOLEAN]
            /\ lead \in BOOLEAN /\ member_call \in [Calls -> Memberships]
            /\ \A t \in Calls : Honest(member_call[t])
TransferInv == transfer \in Transferring /\ InRound(transfer, round_robin) /\ WellChosen(transfer)
ClusterInv == CallsInv /\ TransferInv

\* A cluster as it is first seen, without calls or transfers.
LEMMA InitClusterInv == ClusterInit => ClusterInv
<1> SUFFICES ASSUME ClusterInit PROVE ClusterInv
  OBVIOUS
<1>1. PICK present \in SUBSET Targets, a \in Addrs :
          config = [servers |-> [s \in Servers |-> IF s \in present \cup {Me} \cup (Servers \ Targets)
                                                    THEN Server(a, "Voter") ELSE Absentee],
                     version |-> 1]
  BY Zenon DEF ClusterInit
<1>2. Absentee \in Seats /\ Server(a, "Voter") \in Seats
  BY Zenon DEF Seats, Absentee, Server
<1>3. config \in Configs
  BY Zenon, <1>1, <1>2 DEF Configs
<1>4. view \in [config : Configs, leader : BOOLEAN]
  BY Zenon, <1>3 DEF ClusterInit
<1>5. NoCall \in Memberships /\ Honest(NoCall)
  BY Zenon, <1>2, ClusterAssumption DEF NoCall, Memberships, Honest, Ops, Servers
<1>6. member_call = [t \in Calls |-> NoCall] /\ transfer = NoTransfer
  BY Zenon DEF ClusterInit
<1>7. CallsInv
  <2>1. lead \in BOOLEAN
    BY Zenon DEF ClusterInit
  <2> QED
    BY Zenon, <1>3, <1>4, <1>5, <1>6, <2>1 DEF CallsInv
<1>8. NoTransfer \in Transferring /\ WellChosen(NoTransfer)
  BY ClusterAssumption DEF NoTransfer, Transferring, WellChosen
<1>9. InRound(NoTransfer, round_robin)
  BY Zenon DEF InRound, NoTransfer
<1> QED
  BY Zenon, <1>6, <1>7, <1>8, <1>9 DEF ClusterInv, TransferInv

\* A step of one call.
LEMMA CallMoves ==
    ASSUME CallsInv, NEW t \in Calls, NEW c \in Memberships, Honest(c), Step(t, c),
           config' \in Configs
    PROVE  CallsInv'
<1>1. member_call' = [member_call EXCEPT ![t] = c] /\ view' = view /\ lead' = lead
  BY Zenon DEF Step
<1>2. member_call \in [Calls -> Memberships] /\ \A u \in Calls : Honest(member_call[u])
  BY Zenon DEF CallsInv
<1>3. member_call' \in [Calls -> Memberships]
  BY Zenon, <1>1, <1>2
<1>4. \A u \in Calls : member_call'[u] = IF u = t THEN c ELSE member_call[u]
  BY Zenon, <1>1, <1>2
<1>5. \A u \in Calls : Honest(member_call'[u])
  BY Zenon, <1>2, <1>4
<1> QED
  BY Zenon, <1>1, <1>3, <1>5 DEF CallsInv

\* Changing one server's seat.
LEMMA PutIs ==
    ASSUME NEW servers \in [Servers -> Seats], NEW s \in Servers, NEW seat \in Seats
    PROVE  Put(servers, s, seat) \in [Servers -> Seats] /\ Put(servers, s, seat)[s] = seat
BY Zenon DEF Put

\* The seats of members and of absentees.
LEMMA SeatsAre ==
    /\ Absentee \in Seats /\ Absentee.suffrage = "none"
    /\ \A a \in Addrs \cup {"none"}, sf \in {"Voter", "Nonvoter"} :
           Server(a, sf) \in Seats /\ Server(a, sf).suffrage = sf
    /\ \A seat \in Seats : seat.addr \in Addrs \cup {"none"}
                           /\ seat.suffrage \in {"none", "Voter", "Nonvoter"}
BY Zenon DEF Seats, Absentee, Server

\* What a change leaves of its server, whatever the server has become since
\* the call looked at it.
LEMMA OutcomesHonest ==
    ASSUME NEW c \in Memberships, NEW servers \in [Servers -> Seats],
           NEW out \in Outcomes(c, servers)
    PROVE  /\ out \in [Servers -> Seats]
           /\ c.op = "remove_server" => out[c.id] = Absentee
           /\ c.op = "demote_voter" => out[c.id].suffrage # "Voter"
<1> DEFINE id == c.id
           op == c.op
           addrs == {c.addr} \cup (IF servers[id] # Absentee THEN {servers[id].addr} ELSE {})
<1>1. id \in Servers /\ op \in Ops /\ c.addr \in Addrs \cup {"none"}
  BY Zenon DEF Memberships
<1>2. servers[id] \in Seats
  BY Zenon, <1>1
<1>3. \A a \in addrs : a \in Addrs \cup {"none"}
  BY Zenon, <1>1, <1>2, SeatsAre
<1>4. Put(servers, id, Absentee) \in [Servers -> Seats] /\ Put(servers, id, Absentee)[id] = Absentee
  BY SMTT(30), <1>1, SeatsAre, PutIs
<1>5. CASE op = "add_voter"
  <2>1. PICK a \in addrs : out = Put(servers, id, Server(a, "Voter"))
    BY Zenon, <1>5 DEF Outcomes
  <2>2. out \in [Servers -> Seats]
    BY Zenon, <1>1, <1>3, <2>1, SeatsAre, PutIs
  <2> QED
    BY Zenon, <1>5, <2>2
<1>6. CASE op = "add_non_voter"
  <2>1. out = servers \/ \E a \in addrs : out = Put(servers, id, Server(a, "Nonvoter"))
    BY Zenon, <1>6 DEF Outcomes
  <2>2. out \in [Servers -> Seats]
    BY SMTT(30), <1>1, <1>3, <2>1, SeatsAre, PutIs
  <2> QED
    BY Zenon, <1>6, <2>2
<1>7. CASE op = "demote_voter"
  <2>1. \/ servers[id] = Absentee /\ out = servers
        \/ out = Put(servers, id, Server(servers[id].addr, "Nonvoter"))
    BY Zenon, <1>7 DEF Outcomes
  <2>2. servers[id].addr \in Addrs \cup {"none"}
    BY Zenon, <1>2, SeatsAre
  <2>3. Server(servers[id].addr, "Nonvoter") \in Seats
        /\ Server(servers[id].addr, "Nonvoter").suffrage = "Nonvoter"
    BY Zenon, <2>2, SeatsAre
  <2>4. out \in [Servers -> Seats] /\ out[id].suffrage # "Voter"
    <3> DEFINE seat == Server(servers[id].addr, "Nonvoter")
    <3>1. Put(servers, id, seat) \in [Servers -> Seats] /\ Put(servers, id, seat)[id] = seat
      <4>1. seat \in Seats
        BY Zenon, <2>3
      <4> HIDE DEF seat, id
      <4> QED
        BY <1>1, <4>1, PutIs
    <3>2. seat.suffrage = "Nonvoter" /\ Absentee.suffrage = "none"
      BY Zenon, <2>3, SeatsAre
    <3> HIDE DEF seat, id
    <3> QED
      BY Zenon, <2>1, <3>1, <3>2 DEF seat
  <2> QED
    BY Zenon, <1>7, <2>4
<1>8. CASE op \in {"none", "remove_server"}
  <2>1. out = Put(servers, id, Absentee)
    BY Zenon, <1>8 DEF Outcomes
  <2> QED
    BY Zenon, <1>4, <1>8, <2>1
<1> QED
  BY Zenon, <1>1, <1>5, <1>6, <1>7, <1>8 DEF Ops

\* Every answer of a call that changed nothing is honest.
LEMMA ReturnsIs ==
    ASSUME CallsInv, NEW t \in Calls,
           NEW result \in {"Ok", "Raft", "NotLeader", "VersionMismatch"}
    PROVE  /\ Returns(t, result) \in Memberships
           /\ Returns(t, result).op = member_call[t].op
           /\ Returns(t, result).result = result
           /\ result # "Ok" => Honest(Returns(t, result))
<1>1. member_call[t] \in Memberships
  BY Zenon DEF CallsInv
<1>2. member_call[t].op \in Ops /\ member_call[t].version \in Nat
  BY Zenon, <1>1 DEF Memberships
<1>3. Absentee \in Seats
  BY Zenon, SeatsAre
<1> QED
  BY ZenonT(60), <1>2, <1>3, ClusterAssumption DEF Returns, NoCall, Memberships, Honest, Servers, Ops

\* A membership call begins.
LEMMA CallMembershipStep ==
    ASSUME CallsInv, NEW t \in Calls, CallMembership(t)
    PROVE  CallsInv'
<1>1. PICK op \in Adds \cup {"demote_voter", "remove_server"}, id \in Targets, a \in Addrs,
           version \in {0, view.config.version} :
           Step(t, [NoCall EXCEPT !.op = op, !.id = id, !.version = version,
                        !.addr = IF op \in Adds THEN a ELSE "none",
                        !.pc = CASE ~view.leader -> "returned"
                                 [] op \in Adds -> "connect"
                                 [] OTHER -> "version",
                        !.result = IF view.leader THEN "none" ELSE "NotLeader"])
  BY Zenon DEF CallMembership
<1> DEFINE addr == IF op \in Adds THEN a ELSE "none"
           pc == CASE ~view.leader -> "returned" [] op \in Adds -> "connect" [] OTHER -> "version"
           result == IF view.leader THEN "none" ELSE "NotLeader"
           c == [NoCall EXCEPT !.op = op, !.id = id, !.version = version, !.addr = addr,
                               !.pc = pc, !.result = result]
<1>2. /\ op \in Ops /\ id \in Servers /\ version \in Nat /\ addr \in Addrs \cup {"none"}
  BY ClusterAssumption DEF CallsInv, Configs, Ops, Adds, Servers
<1>3. pc \in {"returned", "connect", "version"} /\ result \in {"none", "NotLeader"}
  OBVIOUS
<1>4. Absentee \in Seats
  BY Zenon, SeatsAre
<1>5. Step(t, c) /\ config' = config
  BY Zenon, <1>1 DEF CallMembership
<1>6. c \in Memberships /\ Honest(c)
  <2> HIDE DEF addr, pc, result
  <2> QED
    BY ZenonT(60), <1>2, <1>3, <1>4, ClusterAssumption DEF NoCall, Memberships, Honest, Servers
<1>7. config' \in Configs
  BY Zenon, <1>5 DEF CallsInv
<1> HIDE DEF c
<1> QED
  BY Zenon, <1>5, <1>6, <1>7, CallMoves

\* A call that only moves on keeps what its answer says.
LEMMA MovesOn ==
    ASSUME NEW c \in Memberships, Honest(c),
           NEW pc \in {"version", "change"}, NEW seen \in {"none", "Voter", "Nonvoter"}
    PROVE  /\ [c EXCEPT !.pc = pc] \in Memberships /\ Honest([c EXCEPT !.pc = pc])
           /\ [c EXCEPT !.pc = pc, !.seen = seen] \in Memberships
           /\ Honest([c EXCEPT !.pc = pc, !.seen = seen])
BY ZenonT(60) DEF Memberships, Honest

\* check_member_addr_open refuses a call or lets it on.
LEMMA AddrStep ==
    ASSUME CallsInv, NEW t \in Calls, check_member_addr_open(t)
    PROVE  CallsInv'
<1>1. member_call[t] \in Memberships /\ Honest(member_call[t]) /\ config' \in Configs
  BY Zenon DEF CallsInv, check_member_addr_open
<1>2. CASE Step(t, [member_call[t] EXCEPT !.pc = "version"])
  BY ZenonT(60), <1>1, <1>2, MovesOn, CallMoves
<1>3. CASE Step(t, Returns(t, "Raft"))
  BY Zenon, <1>1, <1>3, ReturnsIs, CallMoves
<1> QED
  BY Zenon, <1>2, <1>3 DEF check_member_addr_open

\* check_version refuses a call or lets it on, with the suffrage it has read.
LEMMA VersionStep ==
    ASSUME CallsInv, NEW t \in Calls, check_version(t)
    PROVE  CallsInv'
<1> DEFINE c == member_call[t]
           seen == view.config.servers[c.id].suffrage
<1>1. c \in Memberships /\ Honest(c) /\ config' \in Configs
  BY Zenon DEF CallsInv, check_version
<1>2. seen \in {"none", "Voter", "Nonvoter"}
  <2>1. c.id \in Servers
    BY Zenon, <1>1 DEF Memberships
  <2>2. view.config.servers \in [Servers -> Seats]
    BY Zenon DEF CallsInv, Configs
  <2> HIDE DEF c
  <2>3. view.config.servers[c.id] \in Seats
    BY Zenon, <2>1, <2>2
  <2> QED
    BY Zenon, <2>3, SeatsAre
<1>3. CASE Step(t, [c EXCEPT !.pc = "change", !.seen = seen])
  <2> HIDE DEF seen, c
  <2> QED
    BY ZenonT(60), <1>1, <1>2, <1>3, MovesOn, CallMoves
<1>4. CASE Step(t, Returns(t, "VersionMismatch"))
  BY Zenon, <1>1, <1>4, ReturnsIs, CallMoves
<1> QED
  BY Zenon, <1>3, <1>4 DEF check_version

\* A change applied to the configuration in effect leaves what the call
\* acknowledges.
LEMMA ChangeStep ==
    ASSUME CallsInv, NEW t \in Calls, change_membership(t)
    PROVE  CallsInv'
<1> DEFINE c == member_call[t]
<1>1. c \in Memberships /\ config \in Configs
  BY Zenon DEF CallsInv
<1>2. ASSUME NEW result \in {"Raft", "NotLeader"}, Step(t, Returns(t, result)), UNCHANGED config
      PROVE  CallsInv'
  BY Zenon, <1>1, <1>2, ReturnsIs, CallMoves
<1>3. ASSUME NEW servers \in Outcomes(c, config.servers), NEW result \in {"Ok", "Raft"},
             config' = [servers |-> servers, version |-> config.version + 1],
             Step(t, [Returns(t, result) EXCEPT !.left = config'.servers[c.id]])
      PROVE  CallsInv'
  <2> DEFINE left == config'.servers[c.id]
             was == Returns(t, result)
             r == [was EXCEPT !.left = left]
  <2>1. config.servers \in [Servers -> Seats] /\ config.version \in Nat /\ c.id \in Servers
    BY Zenon, <1>1 DEF Configs, Memberships
  <2>2. /\ servers \in [Servers -> Seats]
        /\ c.op = "remove_server" => servers[c.id] = Absentee
        /\ c.op = "demote_voter" => servers[c.id].suffrage # "Voter"
    BY Zenon, <1>1, <1>3, <2>1, OutcomesHonest
  <2>3. config'.servers = servers /\ config' \in Configs
    BY SMTT(30), <1>3, <2>1, <2>2 DEF Configs
  <2>4. left \in Seats /\ (c.op = "remove_server" => left = Absentee)
        /\ (c.op = "demote_voter" => left.suffrage # "Voter")
    BY Zenon, <2>1, <2>2, <2>3
  <2>5. was \in Memberships /\ was.op = c.op
    BY Zenon, <1>3, ReturnsIs
  <2>6. Step(t, r)
    BY Zenon, <1>3
  <2> HIDE DEF left, was, c
  <2>7. r \in Memberships /\ Honest(r)
    BY Zenon, <2>4, <2>5 DEF Memberships, Honest
  <2> HIDE DEF r
  <2> QED
    BY Zenon, <2>3, <2>6, <2>7, CallMoves
<1> QED
  BY Zenon, <1>2, <1>3 DEF change_membership

\* A call that is over makes room for the next one.
LEMMA AnsweredStep ==
    ASSUME CallsInv, NEW t \in Calls, Answered(t)
    PROVE  CallsInv'
<1>1. NoCall \in Memberships /\ Honest(NoCall)
  BY Zenon, SeatsAre, ClusterAssumption DEF NoCall, Memberships, Honest, Ops, Servers
<1>2. Step(t, NoCall) /\ config' \in Configs
  BY Zenon DEF Answered, CallsInv
<1> QED
  BY Zenon, <1>1, <1>2, CallMoves

\* Elections, other leaders' changes and metrics touch no call's answer.
LEMMA RaftInv ==
    ASSUME CallsInv, RaftStep
    PROVE  CallsInv'
<1>1. CASE LeadershipMoves
  <2>1. lead' \in BOOLEAN
    BY Zenon, <1>1 DEF LeadershipMoves
  <2> QED
    BY Zenon, <1>1, <2>1 DEF LeadershipMoves, CallsInv
<1>2. CASE ChangedElsewhere
  <2>1. PICK s \in Targets, sf \in {"Voter", "Nonvoter"}, a \in Addrs :
            config' = [servers |-> Put(config.servers, s, Server(a, sf)),
                       version |-> config.version + 1]
    BY Zenon, <1>2 DEF ChangedElsewhere
  <2>2. config.servers \in [Servers -> Seats] /\ config.version \in Nat /\ s \in Servers
    BY Zenon, ClusterAssumption DEF CallsInv, Configs, Servers
  <2>3. Server(a, sf) \in Seats
    BY Zenon, SeatsAre
  <2>4. Put(config.servers, s, Server(a, sf)) \in [Servers -> Seats]
    BY Zenon, <2>2, <2>3, PutIs
  <2>5. config' \in Configs
    BY SMTT(30), <2>1, <2>2, <2>4 DEF Configs
  <2>6. member_call' = member_call /\ view' = view /\ lead' = lead
    BY Zenon, <1>2 DEF ChangedElsewhere
  <2> QED
    BY Zenon, <2>5, <2>6 DEF CallsInv
<1>3. CASE MetricsUpdate
  <2>1. view' \in [config : Configs, leader : BOOLEAN]
    BY Zenon, <1>3 DEF MetricsUpdate, CallsInv
  <2> QED
    BY Zenon, <1>3, <2>1 DEF MetricsUpdate, CallsInv
<1> QED
  BY Zenon, <1>1, <1>2, <1>3 DEF RaftStep

\* A transfer that ends or falls back keeps its round and its target.
LEMMA DoneIs ==
    ASSUME TransferInv,
           NEW result \in {"none", "Ok", "Raft", "in progress", "ServerNotFound",
                           "ServerAddrMismatch"}
    PROVE  Done(result) \in Transferring /\ InRound(Done(result), round_robin)
           /\ WellChosen(Done(result))
<1> DEFINE d == Done(result)
<1>1. transfer \in Transferring /\ InRound(transfer, round_robin) /\ WellChosen(transfer)
  BY Zenon DEF TransferInv
<1>2. d \in Transferring /\ d.voters = transfer.voters /\ d.asked = transfer.asked
      /\ d.pc = "returned" /\ d.target = transfer.target /\ d.among = transfer.among
      /\ d.matched = transfer.matched
  BY Zenon, <1>1 DEF Done, Transferring
<1> HIDE DEF d
<1>3. InRound(d, round_robin)
  BY Zenon, <1>1, <1>2 DEF InRound
<1>4. WellChosen(d)
  BY Zenon, <1>1, <1>2 DEF WellChosen
<1> QED
  BY Zenon, <1>2, <1>3, <1>4 DEF d

\* A step of the transfer to a record of which TransferInv is true.
LEMMA TransferStepInv ==
    ASSUME NEW tr \in Transferring, InRound(tr, round_robin), WellChosen(tr), Transfers(tr)
    PROVE  TransferInv'
BY Zenon DEF Transfers, TransferInv

\* Sorting keeps the number of voters.
LEMMA SortedLen ==
    ASSUME NEW S \in SUBSET Servers
    PROVE  Cardinality(S) \in Nat /\ Len(Sorted(S)) = Cardinality(S)
<1>1. IsFiniteSet(Servers)
  <2>1. 1 \in Int /\ N \in Int
    BY ClusterAssumption
  <2> QED
    BY ONLY Zenon, <2>1, FS_Interval DEF Servers
<1>2. IsFiniteSet(S)
  BY Zenon, <1>1, FS_Subset
<1>3. Cardinality(S) \in Nat
  BY Zenon, <1>2, FS_CardinalityType
<1>4. Sorted(S) \in [1 .. Cardinality(S) -> S]
  BY Zenon, SortedIs DEF IsSorted
<1> QED
  BY <1>3, <1>4

\* The list of the voters that a round starts with.
LEMMA ListedVoters ==
    ASSUME CallsInv, Me \in Voters(view.config)
    PROVE  LET voters == Sorted(Voters(view.config))
               v == [i \in DOMAIN voters |->
                         [id |-> voters[i], addr |-> view.config.servers[voters[i]].addr]]
           IN  Len(v) = Len(voters) /\ \E c \in 1 .. Len(v) : Listed(v, c)
<1> DEFINE S == Voters(view.config)
           voters == Sorted(S)
           servers == view.config.servers
           v == [i \in DOMAIN voters |-> [id |-> voters[i], addr |-> servers[voters[i]].addr]]
           n == Cardinality(S)
<1>1. S \in SUBSET Servers
  BY Zenon DEF Voters
<1>2. IsSorted(voters, S)
  BY Zenon, <1>1, SortedIs
<1>3. n \in Nat
  BY Zenon, <1>1, SortedLen
<1> HIDE DEF voters, n, S
<1>4. /\ voters \in [1 .. n -> S]
      /\ \A s \in S : \E i \in 1 .. n : voters[i] = s
      /\ \A i, j \in 1 .. n : i < j => voters[i] < voters[j]
  BY Zenon, <1>2 DEF IsSorted, n
<1>5. servers \in [Servers -> Seats]
  BY Zenon DEF CallsInv, Configs
<1>6. \A i \in 1 .. n : [id |-> voters[i], addr |-> servers[voters[i]].addr] \in Listings
  <2>1. ASSUME NEW i \in 1 .. n PROVE voters[i] \in Servers
    BY Zenon, <1>1, <1>4
  <2> HIDE DEF servers
  <2>2. \A i \in 1 .. n : servers[voters[i]] \in Seats
    BY Zenon, <1>5, <2>1
  <2>3. \A i \in 1 .. n : servers[voters[i]].addr \in Addrs \cup {"none"}
    BY Zenon, <2>2, SeatsAre
  <2> QED
    BY Zenon, <2>1, <2>3 DEF Listings
<1> HIDE DEF servers
<1>7. v \in [1 .. n -> Listings] /\ \A i \in 1 .. n : v[i].id = voters[i]
  BY Zenon, <1>4, <1>6
<1> HIDE DEF v
<1>8. v \in Seq(Listings) /\ Len(v) = n /\ Len(voters) = n
  BY SMTT(30), <1>3, <1>4, <1>7
<1>9. PICK c \in 1 .. n : voters[c] = Me
  BY Zenon, <1>4 DEF S
<1>10. Listed(v, c)
  BY <1>4, <1>7, <1>8, <1>9 DEF Listed
<1>11. Len(v) = Len(voters) /\ \E k \in 1 .. Len(v) : Listed(v, k)
  BY Zenon, <1>8, <1>10
<1> QED
  BY Zenon, <1>11 DEF v, voters, servers, S

\* A transfer begins: with the list of voters, nobody asked.
LEMMA InternalStep ==
    ASSUME ClusterInv, transfer_leader_internal
    PROVE  TransferInv'
<1> DEFINE voters == Sorted(Voters(view.config))
           v == [i \in DOMAIN voters |->
                     [id |-> voters[i], addr |-> view.config.servers[voters[i]].addr]]
           fall == [transfer EXCEPT !.pc = "default"]
           ask == [transfer EXCEPT !.pc = "ask", !.offset = 1, !.voters = v]
<1>1. CallsInv /\ TransferInv /\ transfer.pc = "idle"
  BY Zenon DEF ClusterInv, transfer_leader_internal
<1>2. transfer \in Transferring /\ WellChosen(transfer)
      /\ transfer.voters = << >> /\ transfer.asked = << >>
  BY Zenon, <1>1 DEF TransferInv, InRound
<1>3. ASSUME NEW result \in {"Ok", "ServerNotFound"}, Transfers(Done(result))
      PROVE  TransferInv'
  BY Zenon, <1>1, <1>3, DoneIs, TransferStepInv
<1>4. CASE ~round_robin /\ Transfers(fall)
  <2>1. fall \in Transferring /\ fall.voters = << >> /\ fall.asked = << >>
        /\ fall.pc = "default" /\ fall.target = transfer.target /\ fall.among = transfer.among
        /\ fall.matched = transfer.matched
    BY Zenon, <1>2 DEF Transferring
  <2> HIDE DEF fall
  <2>2. InRound(fall, round_robin)
    BY Zenon, <1>4, <2>1 DEF InRound
  <2>3. WellChosen(fall)
    BY Zenon, <1>2, <2>1 DEF WellChosen
  <2> QED
    BY Zenon, <1>4, <2>1, <2>2, <2>3, TransferStepInv
<1>5. CASE Len(voters) > 1 /\ Me \in Voters(view.config) /\ Transfers(ask)
  <2>1. PICK c \in 1 .. Len(v) : Len(v) = Len(voters) /\ Listed(v, c)
    BY Zenon, <1>1, <1>5, ListedVoters
  <2>2. v \in Seq(Listings) /\ Len(v) > 1
    BY Zenon, <1>5, <2>1 DEF Listed
  <2> HIDE DEF v
  <2>3. /\ ask \in Transferring /\ ask.voters = v /\ ask.asked = << >> /\ ask.pc = "ask"
        /\ ask.offset = 1 /\ ask.target = transfer.target /\ ask.among = transfer.among
        /\ ask.matched = transfer.matched
    BY Zenon, <1>2, <2>2 DEF Transferring
  <2> HIDE DEF ask
  <2>4. Rounds(v, c, << >>)
    BY SMTT(30), <2>2 DEF Rounds
  <2>5. InRound(ask, round_robin)
    BY <2>1, <2>2, <2>3, <2>4 DEF InRound
  <2>6. WellChosen(ask)
    BY Zenon, <1>2, <2>3 DEF WellChosen
  <2> QED
    BY Zenon, <1>5, <2>3, <2>5, <2>6, TransferStepInv
<1>6. \/ \E result \in {"Ok", "ServerNotFound"} : Transfers(Done(result))
      \/ ~round_robin /\ Transfers(fall)
      \/ Len(voters) > 1 /\ Me \in Voters(view.config) /\ Transfers(ask)
  <2>1. view.leader \in BOOLEAN
    BY Zenon, <1>1 DEF CallsInv
  <2>2. Len(voters) <= 1 \/ Len(voters) > 1
    <3>1. Voters(view.config) \in SUBSET Servers
      BY Zenon DEF Voters
    <3>2. Len(voters) \in Nat
      BY Zenon, <3>1, SortedLen
    <3> HIDE DEF voters
    <3> QED
      BY <3>2
  <2> QED
    BY Zenon, <2>1, <2>2 DEF transfer_leader_internal
<1> QED
  BY Zenon, <1>3, <1>4, <1>5, <1>6

\* The server that the round asks next.
LEMMA TargetNext ==
    ASSUME NEW c, Listed(transfer.voters, c),
           transfer.offset \in 1 .. Len(transfer.voters) - 1
    PROVE  Target = transfer.voters[Place(c, transfer.offset, Len(transfer.voters))]
<1> DEFINE v == transfer.voters
           n == Len(v)
           o == transfer.offset
           current == CHOOSE i \in 1 .. n : v[i].id = Me
<1>1. n \in Nat /\ c \in 1 .. n /\ o \in 1 .. n - 1 /\ v[c].id = Me
      /\ \A i, j \in 1 .. n : i < j => v[i].id < v[j].id
  BY DEF Listed
<1>2. \A i \in 1 .. n : v[i].id = Me => i = c
  <2>1. ASSUME NEW i \in 1 .. n, v[i].id = Me, i # c PROVE FALSE
    <3>1. i < c \/ c < i
      BY SMTT(30), <1>1, <2>1
    <3>2. Me < Me
      BY Zenon, <1>1, <2>1, <3>1
    <3> QED
      BY SMTT(30), <3>2, ClusterAssumption
  <2> QED
    BY Zenon, <2>1
<1>3. current = c
  <2> HIDE DEF v, n
  <2> QED
    BY Zenon, <1>1, <1>2
<1>4. Target = v[((current - 1 + o) % n) + 1]
  BY Zenon DEF Target
<1> HIDE DEF v, n, o, current
<1>5. c - 1 + o \in Nat /\ c - 1 + o < n + n /\ n \in Nat \ {0}
  BY <1>1
<1> DEFINE x == c - 1 + o
<1>6. x % n = IF x < n THEN x ELSE x - n
  <2> HIDE DEF x
  <2>1. x \in Nat /\ x < n + n
    BY Zenon, <1>5 DEF x
  <2> QED
    BY ONLY ZenonT(60), <1>5, <2>1, ModTwice
<1>7. ((c - 1 + o) % n) + 1 = Place(c, o, n)
  BY SMTT(30), <1>1, <1>6 DEF Place
<1> QED
  BY Zenon, <1>3, <1>4, <1>7 DEF v, n, o

\* One more server asked, in the order of the round.
LEMMA RoundsOn ==
    ASSUME NEW v, NEW c, Listed(v, c), NEW asked, Rounds(v, c, asked),
           Len(asked) + 1 < Len(v)
    PROVE  LET s == v[Place(c, Len(asked) + 1, Len(v))].id IN
           /\ s \in Servers /\ Append(asked, s) \in Seq(Servers)
           /\ Len(Append(asked, s)) = Len(asked) + 1
           /\ Rounds(v, c, Append(asked, s))
<1> DEFINE k == Len(asked) + 1
           s == v[Place(c, k, Len(v))].id
           more == Append(asked, s)
<1>1. asked \in Seq(Servers) /\ v \in Seq(Listings) /\ c \in 1 .. Len(v)
      /\ \A i \in 1 .. Len(asked) : asked[i] = v[Place(c, i, Len(v))].id
  BY Zenon DEF Rounds, Listed
<1>2. k \in 1 .. Len(v) - 1
  BY SMTT(30), <1>1
<1>3. s \in Servers
  BY Zenon, <1>2, TurnGrows
<1> HIDE DEF s
<1>4. more \in Seq(Servers) /\ Len(more) = k /\ more[k] = s
      /\ \A i \in 1 .. Len(asked) : more[i] = asked[i]
  BY SMTT(30), <1>1, <1>3
<1>5. \A i \in 1 .. k : i = k \/ i \in 1 .. Len(asked)
  BY SMTT(30), <1>1
<1> HIDE DEF more
<1>6. \A i \in 1 .. k : more[i] = v[Place(c, i, Len(v))].id
  BY Zenon, <1>1, <1>4, <1>5 DEF s
<1>7. Rounds(v, c, more)
  BY Zenon, <1>4, <1>6 DEF Rounds
<1> QED
  BY Zenon, <1>3, <1>4, <1>7 DEF more, s

\* Recording who was asked leaves the rest of a transfer alone.
LEMMA NowAsked ==
    ASSUME NEW tr \in Transferring, NEW asked \in Seq(Servers)
    PROVE  LET a == [tr EXCEPT !.asked = asked] IN
           /\ a \in Transferring /\ a.asked = asked /\ a.voters = tr.voters /\ a.pc = tr.pc
           /\ a.target = tr.target /\ a.among = tr.among /\ a.matched = tr.matched
BY Zenon DEF Transferring

\* The round robin asks the next voter, or has asked all.
LEMMA AsksStep ==
    ASSUME ClusterInv, RoundRobinAsks
    PROVE  TransferInv'
<1> DEFINE v == transfer.voters
           n == Len(v)
           asked == Append(transfer.asked, Target.id)
           over == transfer.offset + 1 = n
           stop == [Done("Ok") EXCEPT !.asked = asked]
           fall == [transfer EXCEPT !.asked = asked, !.pc = "default"]
           on == [transfer EXCEPT !.asked = asked, !.offset = @ + 1]
<1>1. TransferInv /\ transfer.pc = "ask"
  BY Zenon DEF ClusterInv, RoundRobinAsks
<1>2. transfer \in Transferring /\ WellChosen(transfer)
  BY Zenon, <1>1 DEF TransferInv
<1>3. PICK c \in 1 .. n : /\ Listed(v, c) /\ Rounds(v, c, transfer.asked)
                          /\ transfer.offset = Len(transfer.asked) + 1 /\ transfer.offset < n
  BY Zenon, <1>1 DEF TransferInv, InRound
<1>4. n \in Nat /\ Len(transfer.asked) \in Nat
  BY <1>3 DEF Listed, Rounds
<1>5. transfer.offset \in 1 .. n - 1
  BY SMTT(30), <1>3, <1>4
<1>6. Target.id = v[Place(c, Len(transfer.asked) + 1, n)].id
  BY Zenon, <1>3, <1>5, TargetNext
<1>7. asked \in Seq(Servers) /\ Len(asked) = transfer.offset /\ Rounds(v, c, asked)
  BY SMTT(30), <1>3, <1>6, RoundsOn
<1> HIDE DEF asked
<1>8. CASE Transfers(stop)
  <2>1. Done("Ok") \in Transferring /\ WellChosen(Done("Ok"))
    BY Zenon, <1>1, DoneIs
  <2>2. Done("Ok").voters = v /\ Done("Ok").pc = "returned"
    BY Zenon, <1>2 DEF Done, Transferring
  <2>3. /\ stop \in Transferring /\ stop.voters = v /\ stop.pc = "returned" /\ stop.asked = asked
        /\ stop.target = Done("Ok").target /\ stop.among = Done("Ok").among
        /\ stop.matched = Done("Ok").matched
    BY ZenonT(60), <1>7, <2>1, <2>2, NowAsked
  <2> HIDE DEF stop
  <2>4. InRound(stop, round_robin)
    BY Zenon, <1>3, <1>7, <2>3 DEF InRound
  <2>5. WellChosen(stop)
    BY Zenon, <2>1, <2>3 DEF WellChosen
  <2> QED
    BY Zenon, <1>8, <2>3, <2>4, <2>5, TransferStepInv
<1>9. CASE over /\ Transfers(fall)
  <2>1. /\ fall \in Transferring /\ fall.voters = v /\ fall.pc = "default" /\ fall.asked = asked
        /\ fall.target = transfer.target /\ fall.among = transfer.among
        /\ fall.matched = transfer.matched
    BY ZenonT(60), <1>2, <1>7 DEF Transferring
  <2> HIDE DEF fall
  <2>2. InRound(fall, round_robin)
    BY Zenon, <1>3, <1>7, <1>9, <2>1 DEF InRound
  <2>3. WellChosen(fall)
    BY Zenon, <1>2, <2>1 DEF WellChosen
  <2> QED
    BY Zenon, <1>9, <2>1, <2>2, <2>3, TransferStepInv
<1>10. CASE ~over /\ Transfers(on)
  <2>1. /\ on \in Transferring /\ on.voters = v /\ on.pc = "ask" /\ on.asked = asked
        /\ on.offset = transfer.offset + 1
        /\ on.target = transfer.target /\ on.among = transfer.among
        /\ on.matched = transfer.matched
    <3>1. transfer.offset + 1 \in Nat
      BY <1>4, <1>5
    <3>2. transfer.voters = v /\ transfer.pc = "ask"
      BY Zenon, <1>1
    <3> HIDE DEF v, n
    <3> DEFINE o == transfer.offset + 1
               b == [transfer EXCEPT !.asked = asked, !.offset = o]
    <3>3. /\ b \in Transferring /\ b.voters = transfer.voters /\ b.pc = transfer.pc
          /\ b.asked = asked /\ b.offset = o /\ b.target = transfer.target
          /\ b.among = transfer.among /\ b.matched = transfer.matched
      <4>1. o \in Nat
        BY Zenon, <3>1
      <4> HIDE DEF o
      <4> QED
        BY ZenonT(60), <1>2, <1>7, <4>1 DEF Transferring
    <3>4. on = b
      BY Zenon
    <3> HIDE DEF b, on
    <3> QED
      BY Zenon, <3>2, <3>3, <3>4
  <2> HIDE DEF on
  <2>2. transfer.offset + 1 < n
    BY SMTT(30), <1>4, <1>5, <1>10
  <2>3. InRound(on, round_robin)
    BY Zenon, <1>3, <1>7, <2>1, <2>2 DEF InRound
  <2>4. WellChosen(on)
    BY Zenon, <1>2, <2>1 DEF WellChosen
  <2> QED
    BY Zenon, <1>10, <2>1, <2>3, <2>4, TransferStepInv
<1> QED
  BY ZenonT(60), <1>8, <1>9, <1>10 DEF RoundRobinAsks, asked

\* transfer_leader takes the target the loop has picked.
LEMMA DefaultStep ==
    ASSUME ClusterInv, transfer_leader
    PROVE  TransferInv'
<1>1. TransferInv /\ CallsInv
  BY Zenon DEF ClusterInv
<1>2. ASSUME NEW result \in {"Ok", "Raft"}, Transfers(Done(result)) PROVE TransferInv'
  BY ZenonT(60), <1>1, <1>2, DoneIs, TransferStepInv
<1>3. ASSUME NEW matched \in Matched, NEW s, s = default_transfer_target(matched), s # 0,
             NEW answer \in transfer_leader_to(s, view.config.servers[s].addr),
             Transfers([Done(answer) EXCEPT !.target = s, !.matched = matched,
                                            !.among = Voters(view.config) \ {Me}])
      PROVE  TransferInv'
  <2> DEFINE d == Done(answer)
             among == Voters(view.config) \ {Me}
             tr == [d EXCEPT !.target = s, !.matched = matched, !.among = among]
  <2>1. s \in among /\ matched[s] >= 0 /\ \A u \in among : matched[u] <= matched[s]
    BY Zenon, <1>3, TargetIs
  <2>2. among \in SUBSET Servers /\ s \in 0 .. N
    BY <2>1, ClusterAssumption DEF Voters, Servers
  <2>3. answer \in {"ServerNotFound", "ServerAddrMismatch", "Ok", "Raft", "in progress"}
    BY Zenon, <1>3 DEF transfer_leader_to
  <2>4. d \in Transferring /\ InRound(d, round_robin)
    BY ZenonT(60), <1>1, <2>3, DoneIs
  <2>5. Transfers(tr)
    BY Zenon, <1>3
  <2> HIDE DEF d, among
  <2>6. /\ tr \in Transferring /\ tr.voters = d.voters /\ tr.asked = d.asked /\ tr.pc = d.pc
        /\ tr.offset = d.offset /\ tr.target = s /\ tr.matched = matched /\ tr.among = among
    BY ZenonT(60), <2>2, <2>4 DEF Transferring
  <2> HIDE DEF tr
  <2>7. InRound(tr, round_robin)
    BY Zenon, <2>4, <2>6 DEF InRound
  <2>8. WellChosen(tr)
    BY Zenon, <2>1, <2>6 DEF WellChosen
  <2> QED
    BY Zenon, <2>5, <2>6, <2>7, <2>8, TransferStepInv
<1> QED
  BY Zenon, <1>2, <1>3 DEF transfer_leader

\* Every step of calls, transfers and Raft keeps ClusterInv.
LEMMA ClusterStep == ClusterInv /\ [ClusterNext]_cluster_vars => ClusterInv'
<1> SUFFICES ASSUME ClusterInv, [ClusterNext]_cluster_vars PROVE ClusterInv'
  OBVIOUS
<1>0. CallsInv /\ TransferInv
  BY Zenon DEF ClusterInv
<1>1. ASSUME NEW t \in Calls, MembershipStep(t) PROVE ClusterInv'
  <2>1. CallsInv'
    BY Zenon, <1>0, <1>1, CallMembershipStep, AddrStep, VersionStep, ChangeStep, AnsweredStep
       DEF MembershipStep
  <2>2. UNCHANGED <<transfer, round_robin>>
    BY Zenon, <1>1 DEF MembershipStep, CallMembership, check_member_addr_open, check_version,
                change_membership, Answered, Step
  <2> QED
    BY Zenon, <1>0, <2>1, <2>2 DEF ClusterInv, TransferInv
<1>2. CASE TransferStep
  <2>1. UNCHANGED <<config, lead, view, member_call>>
    BY Zenon, <1>2 DEF TransferStep, transfer_leader_internal, RoundRobinAsks, transfer_leader,
                TransferReturned, Transfers
  <2>2. CallsInv'
    BY Zenon, <1>0, <2>1 DEF CallsInv
  <2>3. CASE TransferReturned
    <3>1. NoTransfer \in Transferring /\ WellChosen(NoTransfer) /\ InRound(NoTransfer, round_robin)
      BY ClusterAssumption DEF NoTransfer, Transferring, WellChosen, InRound
    <3> QED
      BY Zenon, <2>2, <2>3, <3>1, TransferStepInv DEF TransferReturned, ClusterInv
  <2> QED
    BY Zenon, <1>2, <2>2, <2>3, InternalStep, AsksStep, DefaultStep DEF TransferStep, ClusterInv
<1>3. CASE RaftStep
  <2>1. UNCHANGED <<transfer, round_robin>>
    BY Zenon, <1>3 DEF RaftStep, LeadershipMoves, ChangedElsewhere, MetricsUpdate
  <2> QED
    BY Zenon, <1>0, <1>3, <2>1, RaftInv DEF ClusterInv, TransferInv
<1>4. CASE UNCHANGED cluster_vars
  BY Zenon, <1>0, <1>4 DEF cluster_vars, ClusterInv, CallsInv, TransferInv
<1> QED
  BY Zenon, <1>1, <1>2, <1>3, <1>4 DEF ClusterNext

\* Every reachable state of a server's administration of its cluster keeps
\* the inductive invariant.
THEOREM ClusterInvariance == ClusterSpec => []ClusterInv
BY InitClusterInv, ClusterStep, PTL DEF ClusterSpec

\* remove_server and demote_voter, in any cluster: whatever became of the
\* server between the look at its suffrage and the change, an acknowledged
\* removal leaves no member and an acknowledged demotion no voter.
THEOREM AcknowledgedCorrect == ClusterSpec => []AcknowledgedMeansGone
<1>1. ClusterInv => AcknowledgedMeansGone
  BY Zenon DEF ClusterInv, CallsInv, Honest, AcknowledgedMeansGone
<1> QED
  BY <1>1, ClusterInvariance, PTL

\* transfer_leader_round_robin, for any number of servers: the other voters
\* are asked in id order from this server on, round the list, each once and
\* none skipped, and all of them before the default target is tried.
THEOREM RoundRobinCorrect == ClusterSpec => []RoundRobinOrder
<1>1. ClusterInv => RoundRobinOrder
  BY Zenon, RoundOrdered DEF ClusterInv, TransferInv
<1> QED
  BY <1>1, ClusterInvariance, PTL

\* default_transfer_target, for any number of servers and any replication
\* metrics: the loop ends at a voter with progress that none is ahead of.
THEOREM DefaultTargetCorrect == ClusterSpec => []DefaultTargetFurthest
<1>1. ClusterInv => DefaultTargetFurthest
  BY Zenon DEF ClusterInv, TransferInv, WellChosen, DefaultTargetFurthest
<1> QED
  BY <1>1, ClusterInvariance, PTL

----------------------------------------------------------------------------
(* RaftTransport.                                                          *)

Answers == [ok : BOOLEAN, value : {"unit", "response", "null", "not yet", "Raft", "Network", "Unreachable"}]
Rpcs == [at : {"idle", "sent", "answered", "done"}, via : {"http", "memory"}, method : Methods,
         body : [result : {"null", "response"}, error : {"none", "Raft"}],
         there : BOOLEAN, lost : BOOLEAN, given : Answers, outcome : Answers]

\* What the peer's Raft may answer to a method.
Given(m) == {Success(ValueOf(m)), Failure("Raft")}

\* The sender of r knows what the peer answered, or that something was lost.
Carried(r) ==
    /\ r.outcome.ok => r.given = r.outcome
    /\ r.there /\ ~r.lost =>
          /\ r.given # NotYet
          /\ r.outcome.ok = (r.given.ok /\ (r.via = "http" => r.method # "transfer_leader"))

\* The inductive invariant of one RPC.
RpcOK(r) ==
    /\ r \in Rpcs
    /\ r.at = "answered" => /\ r.via = "http" /\ r.given \in Given(r.method)
                            /\ r.body = RaftHttpResponse(r.given)
    /\ r.at \in {"sent", "answered"} => ~r.lost /\ ~r.outcome.ok
    /\ r.at = "done" => Carried(r)

TransportInv == rpc \in [Senders -> Rpcs] /\ \A s \in Senders : RpcOK(rpc[s])

\* The answers a peer gives, and which of them are successes.
LEMMA AnswersAre ==
    /\ NotYet \in Answers /\ ~NotYet.ok
    /\ \A c \in {"not yet", "Raft", "Network", "Unreachable"} : Failure(c) \in Answers /\ ~Failure(c).ok
    /\ \A m \in Methods : /\ Success(ValueOf(m)) \in Answers /\ Success(ValueOf(m)).ok
                          /\ Success(ValueOf(m)) # NotYet
    /\ Failure("Raft") # NotYet
BY ZenonT(60) DEF NotYet, Answers, Failure, Success, ValueOf

\* The envelope of the HTTP transport carries every answer but ().
LEMMA EnvelopeCarries ==
    ASSUME NEW m \in Methods, NEW given \in Given(m)
    PROVE  LET out == into_result(RaftHttpResponse(given)) IN
           /\ RaftHttpResponse(given) \in [result : {"null", "response"}, error : {"none", "Raft"}]
           /\ out \in Answers /\ (out.ok => given = out)
           /\ out.ok = (given.ok /\ m # "transfer_leader")
<1>1. CASE given = Failure("Raft")
  BY Zenon, <1>1 DEF RaftHttpResponse, into_result, Failure, Success, Answers
<1>2. CASE given = Success(ValueOf(m)) /\ m = "transfer_leader"
  BY Zenon, <1>2 DEF RaftHttpResponse, into_result, Failure, Success, Answers, ValueOf
<1>3. CASE given = Success(ValueOf(m)) /\ m # "transfer_leader"
  BY ZenonT(60), <1>3 DEF RaftHttpResponse, into_result, Failure, Success, Answers, ValueOf
<1> QED
  BY Zenon, <1>1, <1>2, <1>3 DEF Given

\* However the peer's address is spelled, the URL is one the peer routes.
LEMMA UrlRoutes ==
    ASSUME NEW m \in Methods, NEW a \in PeerAddrs
    PROVE  raft_url(a, m) \in Routes
<1>1. a.scheme \in {"none", "http://"} /\ a.host = "peer"
  BY Zenon, TransportAssumption
<1>2. raft_url(a, m) = [scheme |-> "http://", host |-> "peer", slashes |-> 0, method |-> m]
  BY Zenon, <1>1 DEF raft_url
<1> QED
  BY Zenon, <1>2 DEF Routes

\* A sender without an RPC.
LEMMA NoRpcOK == NoRpc \in Rpcs /\ RpcOK(NoRpc) /\ NoRpc.given = NotYet
<1>1. NotYet \in Answers
  BY Zenon, AnswersAre
<1>2. NoRpc \in Rpcs /\ NoRpc.at = "idle" /\ NoRpc.given = NotYet
  BY Zenon, <1>1 DEF NoRpc, Rpcs, Methods
<1> QED
  BY Zenon, <1>2 DEF RpcOK

\* A step of one sender to an RPC in order keeps the others'.
LEMMA RpcStepOK ==
    ASSUME TransportInv, NEW s \in Senders, NEW r, RpcOK(r), Goes_to(s, r)
    PROVE  TransportInv'
<1>1. rpc \in [Senders -> Rpcs] /\ rpc' = [rpc EXCEPT ![s] = r] /\ r \in Rpcs
  BY Zenon DEF TransportInv, Goes_to, RpcOK
<1>2. rpc' \in [Senders -> Rpcs] /\ \A u \in Senders : rpc'[u] = IF u = s THEN r ELSE rpc[u]
  BY Zenon, <1>1
<1>3. \A u \in Senders : RpcOK(rpc'[u])
  BY Zenon, <1>2 DEF TransportInv
<1> QED
  BY Zenon, <1>2, <1>3 DEF TransportInv

\* HttpRaftClient::post sends, or fails at an address nobody serves.
LEMMA SendHttpStep ==
    ASSUME TransportInv, listening \in BOOLEAN, NEW s \in Senders, SendHttp(s)
    PROVE  TransportInv'
<1>1. PICK m \in Methods, a \in PeerAddrs :
           IF listening /\ raft_url(a, m) \in Routes
           THEN Goes_to(s, [[NoRpc EXCEPT !.method = m, !.there = listening] EXCEPT !.at = "sent"])
           ELSE Goes_to(s, [[NoRpc EXCEPT !.method = m, !.there = listening]
                                EXCEPT !.at = "done", !.outcome = Failure("Network")])
  BY Zenon DEF SendHttp
<1>2. raft_url(a, m) \in Routes
  BY Zenon, UrlRoutes
<1>3. NotYet \in Answers /\ ~NotYet.ok /\ Failure("Network") \in Answers /\ ~Failure("Network").ok
  BY Zenon, AnswersAre
<1> DEFINE r == [NoRpc EXCEPT !.method = m, !.there = listening]
           sent == [r EXCEPT !.at = "sent"]
           failed == [r EXCEPT !.at = "done", !.outcome = Failure("Network")]
<1>4. r \in Rpcs /\ r.there = listening /\ ~r.lost /\ r.outcome = NotYet
  BY Zenon, <1>3 DEF NoRpc, Rpcs, Methods
<1> HIDE DEF r
<1>5. CASE listening
  <2>1. Goes_to(s, sent)
    BY Zenon, <1>1, <1>2, <1>5 DEF r
  <2>2. RpcOK(sent)
    BY Zenon, <1>3, <1>4 DEF RpcOK, Rpcs
  <2> QED
    BY Zenon, <2>1, <2>2, RpcStepOK
<1>6. CASE ~listening
  <2>1. Goes_to(s, failed)
    BY Zenon, <1>1, <1>6 DEF r
  <2>2. failed \in Rpcs /\ failed.at = "done" /\ failed.outcome = Failure("Network")
        /\ failed.there = r.there
    BY Zenon, <1>3, <1>4 DEF Rpcs
  <2> HIDE DEF failed
  <2>3. RpcOK(failed)
    BY Zenon, <1>3, <1>4, <1>6, <2>2 DEF RpcOK, Carried
  <2> QED
    BY Zenon, <2>1, <2>3, RpcStepOK
<1> QED
  BY Zenon, <1>5, <1>6

\* InMemoryRaftClient looks its peer up.
LEMMA SendInMemoryStep ==
    ASSUME TransportInv, registered \in BOOLEAN, NEW s \in Senders, SendInMemory(s)
    PROVE  TransportInv'
<1>1. PICK m \in Methods :
           LET r == [NoRpc EXCEPT !.via = "memory", !.method = m, !.there = registered] IN
           IF registered
           THEN Goes_to(s, [r EXCEPT !.at = "sent"])
           ELSE Goes_to(s, [r EXCEPT !.at = "done", !.outcome = Failure("Unreachable")])
  BY Zenon DEF SendInMemory
<1>3. NotYet \in Answers /\ ~NotYet.ok /\ Failure("Unreachable") \in Answers
      /\ ~Failure("Unreachable").ok
  BY Zenon, AnswersAre
<1> DEFINE r == [NoRpc EXCEPT !.via = "memory", !.method = m, !.there = registered]
           sent == [r EXCEPT !.at = "sent"]
           failed == [r EXCEPT !.at = "done", !.outcome = Failure("Unreachable")]
<1>4. r \in Rpcs /\ r.there = registered /\ ~r.lost /\ r.outcome = NotYet
  BY Zenon, <1>3 DEF NoRpc, Rpcs, Methods
<1> HIDE DEF r
<1>5. CASE registered
  <2>1. Goes_to(s, sent)
    BY Zenon, <1>1, <1>5 DEF r
  <2>2. RpcOK(sent)
    BY Zenon, <1>3, <1>4 DEF RpcOK, Rpcs
  <2> QED
    BY Zenon, <2>1, <2>2, RpcStepOK
<1>6. CASE ~registered
  <2>1. Goes_to(s, failed)
    BY Zenon, <1>1, <1>6 DEF r
  <2>2. failed \in Rpcs /\ failed.at = "done" /\ failed.outcome = Failure("Unreachable")
        /\ failed.there = r.there
    BY Zenon, <1>3, <1>4 DEF Rpcs
  <2> HIDE DEF failed
  <2>3. RpcOK(failed)
    BY Zenon, <1>3, <1>4, <1>6, <2>2 DEF RpcOK, Carried
  <2> QED
    BY Zenon, <2>1, <2>3, RpcStepOK
<1> QED
  BY Zenon, <1>5, <1>6

\* A lost request or answer is an error to the sender.
LEMMA LostStep ==
    ASSUME TransportInv, NEW s \in Senders, Lost(s)
    PROVE  TransportInv'
<1> DEFINE r == [rpc[s] EXCEPT !.at = "done", !.lost = TRUE, !.outcome = Failure("Network")]
<1>1. rpc[s] \in Rpcs /\ Goes_to(s, r)
  BY Zenon DEF TransportInv, Lost
<1>2. Failure("Network") \in Answers /\ ~Failure("Network").ok
  BY Zenon, AnswersAre
<1>3. r \in Rpcs /\ r.at = "done" /\ r.lost /\ r.outcome = Failure("Network")
  BY ZenonT(60), <1>1, <1>2 DEF Rpcs
<1> HIDE DEF r
<1>4. RpcOK(r)
  BY Zenon, <1>2, <1>3 DEF RpcOK, Carried
<1> QED
  BY Zenon, <1>1, <1>4, RpcStepOK

\* The HTTP handler wraps what Raft answers in the envelope.
LEMMA HandlesHttpStep ==
    ASSUME TransportInv, NEW s \in Senders, HandlesHttp(s)
    PROVE  TransportInv'
<1>1. PICK given \in Given(rpc[s].method) :
           Goes_to(s, [rpc[s] EXCEPT !.at = "answered", !.given = given,
                                     !.body = RaftHttpResponse(given)])
  BY Zenon DEF HandlesHttp, Given
<1> DEFINE body == RaftHttpResponse(given)
           r == [rpc[s] EXCEPT !.at = "answered", !.given = given, !.body = body]
<1>2. rpc[s] \in Rpcs /\ RpcOK(rpc[s]) /\ rpc[s].at = "sent" /\ rpc[s].via = "http"
  BY Zenon DEF TransportInv, HandlesHttp
<1>3. rpc[s].method \in Methods /\ ~rpc[s].lost /\ ~rpc[s].outcome.ok
  BY Zenon, <1>2 DEF Rpcs, RpcOK
<1>4. body \in [result : {"null", "response"}, error : {"none", "Raft"}]
  BY Zenon, <1>3, EnvelopeCarries
<1>5. given \in Answers
  BY Zenon, <1>3, AnswersAre DEF Given
<1> HIDE DEF body
<1>6. /\ r \in Rpcs /\ r.at = "answered" /\ r.given = given /\ r.body = body
      /\ r.via = "http" /\ r.method = rpc[s].method /\ r.lost = rpc[s].lost
      /\ r.outcome = rpc[s].outcome
  BY ZenonT(60), <1>2, <1>4, <1>5 DEF Rpcs
<1>7. Goes_to(s, r)
  BY Zenon, <1>1 DEF body
<1> HIDE DEF r
<1>8. RpcOK(r)
  BY Zenon, <1>3, <1>6 DEF RpcOK, body
<1> QED
  BY Zenon, <1>7, <1>8, RpcStepOK

\* into_result opens the envelope again.
LEMMA PostReturnsStep ==
    ASSUME TransportInv, NEW s \in Senders, PostReturns(s)
    PROVE  TransportInv'
<1> DEFINE out == into_result(rpc[s].body)
           r == [rpc[s] EXCEPT !.at = "done", !.outcome = out]
<1>1. Goes_to(s, r) /\ rpc[s] \in Rpcs /\ RpcOK(rpc[s]) /\ rpc[s].at = "answered"
  BY Zenon DEF TransportInv, PostReturns
<1>2. /\ rpc[s].via = "http" /\ rpc[s].method \in Methods /\ rpc[s].given \in Given(rpc[s].method)
      /\ rpc[s].body = RaftHttpResponse(rpc[s].given)
  BY Zenon, <1>1 DEF RpcOK, Rpcs
<1>3. /\ out \in Answers /\ (out.ok => rpc[s].given = out)
      /\ out.ok = (rpc[s].given.ok /\ rpc[s].method # "transfer_leader")
  BY SMTT(30), <1>2, EnvelopeCarries
<1>4. rpc[s].given # NotYet
  BY ZenonT(60), <1>2, AnswersAre DEF Given
<1> HIDE DEF out
<1>5. /\ r \in Rpcs /\ r.at = "done" /\ r.outcome = out /\ r.given = rpc[s].given
      /\ r.via = "http" /\ r.method = rpc[s].method
  BY Zenon, <1>1, <1>2, <1>3 DEF Rpcs
<1> HIDE DEF r
<1>6. Carried(r)
  BY Zenon, <1>3, <1>4, <1>5 DEF Carried
<1>7. RpcOK(r)
  BY Zenon, <1>5, <1>6 DEF RpcOK
<1> QED
  BY Zenon, <1>1, <1>7, RpcStepOK

\* In memory the answer arrives as it is given.
LEMMA HandlesInMemoryStep ==
    ASSUME TransportInv, NEW s \in Senders, HandlesInMemory(s)
    PROVE  TransportInv'
<1>1. PICK given \in Given(rpc[s].method) :
           Goes_to(s, [rpc[s] EXCEPT !.at = "done", !.given = given,
                           !.outcome = IF given.ok THEN given ELSE Failure("Network")])
  BY Zenon DEF HandlesInMemory, Given
<1> DEFINE out == IF given.ok THEN given ELSE Failure("Network")
           r == [rpc[s] EXCEPT !.at = "done", !.given = given, !.outcome = out]
<1>2. rpc[s] \in Rpcs /\ rpc[s].via = "memory" /\ rpc[s].method \in Methods
  BY Zenon DEF TransportInv, HandlesInMemory, Rpcs
<1>3. given \in Answers /\ given # NotYet
  BY ZenonT(60), <1>2, AnswersAre DEF Given
<1>4. out \in Answers /\ (out.ok => given = out) /\ out.ok = given.ok
  BY ZenonT(60), <1>3, AnswersAre DEF Answers
<1> HIDE DEF out
<1>5. /\ r \in Rpcs /\ r.at = "done" /\ r.outcome = out /\ r.given = given
      /\ r.via = "memory"
  BY ZenonT(60), <1>2, <1>3, <1>4 DEF Rpcs
<1>6. Goes_to(s, r)
  BY Zenon, <1>1 DEF out
<1> HIDE DEF r
<1>7. Carried(r)
  <2>1. r.via # "http" /\ given.ok \in BOOLEAN
    BY Zenon, <1>3, <1>5 DEF Answers
  <2>2. r.outcome.ok = (r.given.ok /\ (r.via = "http" => r.method # "transfer_leader"))
    <3>1. (r.via = "http" => r.method # "transfer_leader") = TRUE
      BY Zenon, <2>1
    <3>2. r.outcome.ok = given.ok /\ r.given.ok = given.ok
      BY Zenon, <1>4, <1>5
    <3>3. (given.ok /\ TRUE) = given.ok
      BY Zenon, <2>1
    <3> QED
      BY Zenon, <3>1, <3>2, <3>3
  <2> QED
    BY Zenon, <1>3, <1>4, <1>5, <2>2 DEF Carried
<1>8. RpcOK(r)
  BY Zenon, <1>5, <1>7 DEF RpcOK
<1> QED
  BY Zenon, <1>6, <1>8, RpcStepOK

\* The inductive invariant of TransportSpec.
TransportAll == registered \in BOOLEAN /\ listening \in BOOLEAN /\ TransportInv

\* Every step of a sender or of the peer keeps it.
LEMMA TransportStep == TransportAll /\ [TransportNext]_transport_vars => TransportAll'
<1> SUFFICES ASSUME TransportAll, [TransportNext]_transport_vars PROVE TransportAll'
  OBVIOUS
<1>0. registered \in BOOLEAN /\ listening \in BOOLEAN /\ TransportInv
  BY Zenon DEF TransportAll
<1>1. ASSUME NEW s \in Senders,
             \/ SendHttp(s) \/ SendInMemory(s) \/ Lost(s)
             \/ HandlesHttp(s) \/ PostReturns(s) \/ HandlesInMemory(s) \/ Taken(s)
      PROVE  TransportAll'
  <2>1. registered' = registered /\ listening' = listening
    BY Zenon, <1>1 DEF SendHttp, SendInMemory, Lost, HandlesHttp, PostReturns, HandlesInMemory,
                Taken, Goes_to
  <2>2. ASSUME Taken(s) PROVE TransportInv'
    BY Zenon, <1>0, <2>2, NoRpcOK, RpcStepOK DEF Taken
  <2>3. TransportInv'
    BY Zenon, <1>0, <1>1, <2>2, SendHttpStep, SendInMemoryStep, LostStep, HandlesHttpStep,
       PostReturnsStep, HandlesInMemoryStep
  <2> QED
    BY Zenon, <1>0, <2>1, <2>3 DEF TransportAll
<1>2. CASE PeerRegisters \/ PeerComesOrGoes
  <2>1. rpc' = rpc /\ registered' \in BOOLEAN /\ listening' \in BOOLEAN
    BY Zenon, <1>0, <1>2 DEF PeerRegisters, PeerComesOrGoes
  <2> QED
    BY Zenon, <1>0, <2>1 DEF TransportAll, TransportInv
<1>3. CASE UNCHANGED transport_vars
  BY Zenon, <1>0, <1>3 DEF transport_vars, TransportAll, TransportInv
<1> QED
  BY Zenon, <1>1, <1>2, <1>3 DEF TransportNext

\* The carriers, for any number of senders and any spelling of the peer's
\* address: what a sender takes for success is the peer's answer to this RPC,
\* and it learns every answer that is not lost but the () of a transfer over
\* HTTP.
THEOREM CarriedCorrect == TransportSpec => []AnswersCarried
<1>1. TransportInit => TransportAll
  <2> SUFFICES ASSUME TransportInit PROVE TransportAll
    OBVIOUS
  <2>1. rpc = [s \in Senders |-> NoRpc] /\ registered \in BOOLEAN /\ listening \in BOOLEAN
    BY Zenon DEF TransportInit
  <2>2. rpc \in [Senders -> Rpcs] /\ \A s \in Senders : RpcOK(rpc[s])
    BY Zenon, <2>1, NoRpcOK
  <2> QED
    BY Zenon, <2>1, <2>2 DEF TransportAll, TransportInv
<1>2. TransportAll => AnswersCarried
  BY Zenon DEF TransportAll, TransportInv, RpcOK, Carried, AnswersCarried
<1> QED
  BY <1>1, <1>2, TransportStep, PTL DEF TransportSpec
=============================================================================
