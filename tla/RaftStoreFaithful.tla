------------------------- MODULE RaftStoreFaithful -------------------------
(***************************************************************************)
(* Every state machine MemoryRaftStore keeps is the one the committed      *)
(* entries produce.  The head a sequence of entries produces exists for    *)
(* every prefix, the recursion of apply computes it, and more entries      *)
(* never lower its number.                                                 *)
(***************************************************************************)
EXTENDS RaftStoreProofs

-----------------------------------------------------------------------------
(* The head of a sequence of entries.                                      *)

\* Entry i holds the head of the first n entries of s.
IsHead(s, n, i) ==
    /\ i \in 1 .. n /\ s[i] # Blank
    /\ \A j \in 1 .. n : s[j] # Blank =>
          \/ block_number(s[i]) > block_number(s[j])
          \/ block_number(s[i]) = block_number(s[j]) /\ i <= j

\* HeadOf(s, n) is Blank when there is no payload, and the head otherwise.
Headed(s, n) ==
    \/ HeadOf(s, n) = Blank /\ \A i \in 1 .. n : s[i] = Blank
    \/ \E i \in 1 .. n : IsHead(s, n, i) /\ HeadOf(s, n) = s[i]

\* Payloads have numbers.
LEMMA BlockNumberNat == ASSUME NEW p \in Entries PROVE block_number(p) \in Nat
  BY SMTT(30), StoreAssumption DEF block_number, Entries, Blank

\* An entry of a log is an entry.
LEMMA EntryOf ==
    ASSUME NEW s \in Seq(Entries), NEW i \in 1 .. Len(s)
    PROVE  s[i] \in Entries /\ block_number(s[i]) \in Nat
  BY BlockNumberNat

\* There is one head only.
LEMMA HeadOfIs ==
    ASSUME NEW s \in Seq(Entries), NEW n \in 0 .. Len(s), NEW i, IsHead(s, n, i)
    PROVE  HeadOf(s, n) = s[i]
  <1> DEFINE payloads == {k \in 1 .. n : s[k] # Blank}
             Beats(k, j) == \/ block_number(s[k]) > block_number(s[j])
                            \/ block_number(s[k]) = block_number(s[j]) /\ k <= j
             first == {k \in payloads : \A j \in payloads : Beats(k, j)}
  <1>1. i \in first
    BY Zenon DEF IsHead
  <1>2. ASSUME NEW k \in first PROVE k = i
    <2>1. /\ i \in 1 .. Len(s) /\ k \in 1 .. Len(s) /\ Beats(i, k) /\ Beats(k, i)
      BY <1>1
    <2>2. block_number(s[i]) \in Nat /\ block_number(s[k]) \in Nat
      BY Zenon, <2>1, EntryOf
    <2> QED
      BY <2>1, <2>2
  <1>3. payloads # {} /\ HeadOf(s, n) = IF payloads = {} THEN Blank ELSE s[CHOOSE k \in first : TRUE]
    BY Zenon, <1>1 DEF HeadOf
  <1> HIDE DEF first
  <1>4. (CHOOSE k \in first : TRUE) = i
    BY Zenon, <1>1, <1>2
  <1> QED
    BY Zenon, <1>3, <1>4

\* Entries without payloads have no head.
LEMMA HeadOfNone ==
    ASSUME NEW s, NEW n, \A i \in 1 .. n : s[i] = Blank
    PROVE  HeadOf(s, n) = Blank
  BY DEF HeadOf

\* A head and one more entry: what apply does with the entry.
LEMMA HeadStep ==
    ASSUME NEW s \in Seq(Entries), NEW n \in 0 .. Len(s), n < Len(s), Headed(s, n)
    PROVE  Headed(s, n + 1) /\ HeadOf(s, n + 1) = Newer(HeadOf(s, n), s[n + 1])
  <1>1. n + 1 \in 1 .. Len(s) /\ n + 1 \in 0 .. Len(s) /\ Len(s) \in Nat /\ n \in Nat
    OBVIOUS
  <1>2. \A j \in 1 .. (n + 1) : j \in 1 .. n \/ j = n + 1
    BY <1>1
  <1>3. \A j \in 1 .. n : j < n + 1 /\ j \in 1 .. (n + 1) /\ j \in 1 .. Len(s) /\ j \in Nat
    BY <1>1
  <1>4. ASSUME NEW i, IsHead(s, n + 1, i), s[i] = Newer(HeadOf(s, n), s[n + 1])
        PROVE  Headed(s, n + 1) /\ HeadOf(s, n + 1) = Newer(HeadOf(s, n), s[n + 1])
    <2>1. HeadOf(s, n + 1) = s[i]
      BY Zenon, <1>1, <1>4, HeadOfIs
    <2>2. i \in 1 .. (n + 1)
      BY Zenon, <1>4 DEF IsHead
    <2> QED
      BY Zenon, <1>4, <2>1, <2>2 DEF Headed
  <1>5. CASE HeadOf(s, n) = Blank /\ \A i \in 1 .. n : s[i] = Blank
    <2>1. CASE s[n + 1] = Blank
      <3>1. \A i \in 1 .. (n + 1) : s[i] = Blank
        BY Zenon, <1>2, <1>5, <2>1
      <3> QED
        BY Zenon, <1>5, <2>1, <3>1, HeadOfNone DEF Headed, Newer
    <2>2. CASE s[n + 1] # Blank
      <3>1. s[n + 1] = Newer(HeadOf(s, n), s[n + 1])
        BY Zenon, <1>5, <2>2 DEF Newer
      <3>2. IsHead(s, n + 1, n + 1)
        BY <1>1, <1>2, <1>5, <2>2 DEF IsHead
      <3> QED
        BY Zenon, <1>4, <3>1, <3>2
    <2> QED
      BY Zenon, <2>1, <2>2
  <1>6. ASSUME NEW i \in 1 .. n, IsHead(s, n, i), HeadOf(s, n) = s[i]
        PROVE  Headed(s, n + 1) /\ HeadOf(s, n + 1) = Newer(HeadOf(s, n), s[n + 1])
    <2>1. \A j \in 1 .. (n + 1) : block_number(s[j]) \in Nat
      BY Zenon, <1>1, <1>2, <1>3, EntryOf
    <2>2. CASE s[n + 1] # Blank /\ block_number(s[n + 1]) > block_number(s[i])
      <3>1. s[n + 1] = Newer(HeadOf(s, n), s[n + 1])
        BY Zenon, <1>6, <2>2 DEF Newer
      <3>2. ASSUME NEW j \in 1 .. n, s[j] # Blank
            PROVE  block_number(s[n + 1]) > block_number(s[j])
        <4>1. block_number(s[i]) >= block_number(s[j])
          BY SMTT(30), <1>3, <1>6, <2>1, <3>2 DEF IsHead
        <4> QED
          BY SMTT(30), <1>1, <1>3, <2>1, <2>2, <4>1
      <3>3. IsHead(s, n + 1, n + 1)
        BY <1>1, <1>2, <2>2, <3>2 DEF IsHead
      <3> QED
        BY Zenon, <1>4, <3>1, <3>3
    <2>3. CASE ~(s[n + 1] # Blank /\ block_number(s[n + 1]) > block_number(s[i]))
      <3>1. s[i] = Newer(HeadOf(s, n), s[n + 1])
        BY Zenon, <1>6, <2>3 DEF Newer, IsHead
      <3>2. IsHead(s, n + 1, i)
        BY SMTT(30), <1>1, <1>2, <1>3, <1>6, <2>1, <2>3 DEF IsHead
      <3> QED
        BY Zenon, <1>4, <3>1, <3>2
    <2> QED
      BY Zenon, <2>2, <2>3
  <1> QED
    BY Zenon, <1>5, <1>6 DEF Headed

\* Every prefix of a sequence of entries has its head, by induction: the least
\* prefix without one would have a predecessor with one.
LEMMA HeadExists ==
    ASSUME NEW s \in Seq(Entries), NEW n \in 0 .. Len(s)
    PROVE  Headed(s, n)
  <1> DEFINE Bad == {k \in 0 .. Len(s) : ~Headed(s, k)}
  <1>1. SUFFICES ASSUME Bad # {} PROVE FALSE
    OBVIOUS
  <1>2. Bad \subseteq Nat
    OBVIOUS
  <1>3. PICK m \in Bad : \A k \in Bad : ~(<<k, m>> \in OpToRel(<, Nat))
    <2> HIDE DEF Bad
    <2> QED
      BY Zenon, <1>1, <1>2, NatLessThanWellFounded, WFMin
  <1>4. \A k \in Bad : ~(k < m)
    <2>1. \A k \in Bad : k \in Nat /\ m \in Nat
      BY Zenon, <1>2
    <2> QED
      BY Zenon, <1>3, <2>1 DEF OpToRel
  <1>5. m # 0
    BY HeadOfNone DEF Headed
  <1>6. m - 1 \in 0 .. Len(s) /\ m - 1 < Len(s) /\ m - 1 < m /\ (m - 1) + 1 = m
    BY <1>5
  <1>7. Headed(s, m - 1)
    BY Zenon, <1>4, <1>6
  <1>8. Headed(s, m)
    BY Zenon, <1>6, <1>7, HeadStep
  <1> QED
    BY Zenon, <1>8

\* More entries never lower the number of the head.
LEMMA HeadMonotone ==
    ASSUME NEW s \in Seq(Entries), NEW m \in 0 .. Len(s), NEW n \in 0 .. m
    PROVE  /\ HeadOf(s, m) \in Entries
           /\ block_number(HeadOf(s, n)) <= block_number(HeadOf(s, m))
  <1>1. n \in 0 .. Len(s) /\ m \in Nat /\ n \in Nat /\ Len(s) \in Nat
    OBVIOUS
  <1>2. Headed(s, n) /\ Headed(s, m)
    BY Zenon, <1>1, HeadExists
  <1>3. /\ \A i \in 1 .. n : i \in 1 .. m
        /\ \A i \in 1 .. m : i \in 1 .. Len(s)
    BY <1>1
  <1>4. Blank \in Entries /\ block_number(Blank) = 0
    BY StoreAssumption DEF Blank, Entries, block_number
  <1>5. HeadOf(s, m) \in Entries
    BY Zenon, <1>2, <1>3, <1>4, EntryOf DEF Headed
  <1>6. block_number(HeadOf(s, m)) \in Nat
    BY Zenon, <1>5, BlockNumberNat
  <1>7. CASE HeadOf(s, n) = Blank
    BY SMTT(30), <1>4, <1>5, <1>6, <1>7
  <1>8. ASSUME NEW i \in 1 .. n, IsHead(s, n, i), HeadOf(s, n) = s[i]
        PROVE  block_number(HeadOf(s, n)) <= block_number(HeadOf(s, m))
    <2>1. i \in 1 .. m /\ s[i] # Blank
      BY Zenon, <1>3, <1>8 DEF IsHead
    <2>2. PICK k \in 1 .. m : IsHead(s, m, k) /\ HeadOf(s, m) = s[k]
      BY Zenon, <1>2, <2>1 DEF Headed
    <2>3. block_number(s[i]) \in Nat /\ block_number(s[k]) \in Nat
      BY Zenon, <1>3, <2>1, EntryOf
    <2> QED
      BY SMTT(30), <1>8, <2>1, <2>2, <2>3 DEF IsHead
  <1> QED
    BY Zenon, <1>2, <1>5, <1>7, <1>8 DEF Headed

\* The head of a prefix stays when an entry is added.
LEMMA HeadStays ==
    ASSUME NEW s \in Seq(Entries), NEW e \in Entries, NEW n \in 0 .. Len(s)
    PROVE  HeadOf(Append(s, e), n) = HeadOf(s, n)
  <1> DEFINE r == Append(s, e)
  <1>1. r \in Seq(Entries) /\ n \in 0 .. Len(r) /\ \A i \in 1 .. n : r[i] = s[i]
    OBVIOUS
  <1> HIDE DEF r
  <1>2. Headed(s, n)
    BY Zenon, HeadExists
  <1>3. ASSUME NEW i \in 1 .. n, IsHead(s, n, i) PROVE HeadOf(r, n) = s[i]
    <2>1. IsHead(r, n, i)
      BY Zenon, <1>1, <1>3 DEF IsHead
    <2> QED
      BY Zenon, <1>1, <2>1, HeadOfIs
  <1>4. ASSUME \A i \in 1 .. n : s[i] = Blank PROVE HeadOf(r, n) = Blank
    BY Zenon, <1>1, <1>4, HeadOfNone
  <1>5. HeadOf(r, n) = HeadOf(s, n)
    BY SMTT(30), <1>2, <1>3, <1>4 DEF Headed
  <1> QED
    BY Zenon, <1>5 DEF r

\* The entries of log from a + 1 to k are those of s.
Batch(s, log, a, k) ==
    /\ s \in Seq(Entries) /\ k \in 0 .. Len(s) /\ a \in 0 .. k
    /\ \A i \in (a + 1) .. k : log[i] = s[i]

\* The recursion of apply over them.
Solves(f, s, log, a, k) ==
    f = [i \in a .. k |-> IF i = a THEN HeadOf(s, a) ELSE Newer(f[i - 1], log[i])]

\* The recursion of apply over a batch of committed entries ends at the head of
\* all entries up to the last of the batch.
LEMMA BatchHead ==
    ASSUME NEW s, NEW log, NEW a, NEW k, Batch(s, log, a, k), NEW f, Solves(f, s, log, a, k)
    PROVE  f[k] = HeadOf(s, k)
  <1> USE DEF Batch
  <1> DEFINE Bad == {i \in a .. k : f[i] # HeadOf(s, i)}
  <1>0. k \in a .. k
    OBVIOUS
  <1>1. SUFFICES ASSUME Bad # {} PROVE FALSE
    BY Zenon, <1>0
  <1>2. Bad \subseteq Nat
    OBVIOUS
  <1>3. PICK m \in Bad : \A i \in Bad : ~(<<i, m>> \in OpToRel(<, Nat))
    <2> HIDE DEF Bad
    <2> QED
      BY Zenon, <1>1, <1>2, NatLessThanWellFounded, WFMin
  <1>4. \A i \in Bad : ~(i < m)
    <2>1. \A i \in Bad : i \in Nat /\ m \in Nat
      BY Zenon, <1>2
    <2> QED
      BY Zenon, <1>3, <2>1 DEF OpToRel
  <1>5. \A i \in a .. k : f[i] = IF i = a THEN HeadOf(s, a) ELSE Newer(f[i - 1], log[i])
    BY Zenon DEF Solves
  <1>6. m # a
    BY Zenon, <1>5
  <1>7. /\ m - 1 \in a .. k /\ m - 1 \in 0 .. Len(s) /\ m - 1 < Len(s) /\ m - 1 < m
        /\ (m - 1) + 1 = m /\ m \in (a + 1) .. k
    BY <1>6
  <1>8. f[m - 1] = HeadOf(s, m - 1)
    BY Zenon, <1>4, <1>7
  <1>9. f[m] = Newer(HeadOf(s, m - 1), s[m])
    BY Zenon, <1>5, <1>6, <1>7, <1>8
  <1>10. Headed(s, m - 1)
    BY Zenon, <1>7, HeadExists
  <1>11. HeadOf(s, m) = Newer(HeadOf(s, m - 1), s[m])
    BY Zenon, <1>7, <1>10, HeadStep
  <1> QED
    BY Zenon, <1>9, <1>11

\* The head apply(k) leaves: the recursion has a solution, so the function it
\* names satisfies its equation.
LEMMA ApplyHead ==
    ASSUME NEW s \in Seq(Entries), NEW k \in 0 .. Len(s), NEW sm, NEW log,
           sm.applied \in 0 .. k, sm.head = HeadOf(s, sm.applied),
           \A i \in (sm.applied + 1) .. k : log[i] = s[i]
    PROVE  HeadAfter(sm, log, k) = HeadOf(s, k)
  <1> DEFINE a == sm.applied
             h == sm.head
             Eqn(f) == f = [i \in a .. k |-> IF i = a THEN h ELSE Newer(f[i - 1], log[i])]
             g == [i \in a .. k |-> HeadOf(s, i)]
  <1>1. ASSUME NEW i \in a .. k, i # a PROVE g[i] = Newer(g[i - 1], log[i])
    <2>1. /\ i - 1 \in a .. k /\ i - 1 \in 0 .. Len(s) /\ i - 1 < Len(s)
          /\ (i - 1) + 1 = i /\ i \in (a + 1) .. k
      BY <1>1
    <2>2. Headed(s, i - 1)
      BY Zenon, <2>1, HeadExists
    <2>3. HeadOf(s, i) = Newer(HeadOf(s, i - 1), s[i])
      BY Zenon, <2>1, <2>2, HeadStep
    <2> QED
      BY Zenon, <1>1, <2>1, <2>3
  <1>2. Eqn(g)
    <2>1. \A i \in a .. k : g[i] = IF i = a THEN h ELSE Newer(g[i - 1], log[i])
      BY Zenon, <1>1
    <2>2. g = [i \in a .. k |-> g[i]]
      BY Zenon
    <2> HIDE DEF g
    <2> QED
      BY Zenon, <2>1, <2>2
  <1>3. Eqn(CHOOSE f : Eqn(f))
    <2> HIDE DEF Eqn, g
    <2> QED
      BY Zenon, <1>2
  <1>4. ASSUME NEW f, Eqn(f) PROVE f[k] = HeadOf(s, k)
    <2>1. Solves(f, s, log, a, k)
      BY Zenon, <1>4 DEF Solves
    <2>2. Batch(s, log, a, k)
      BY Zenon DEF Batch
    <2> HIDE DEF a
    <2> QED
      BY <2>1, <2>2, BatchHead
  <1>5. (CHOOSE f : Eqn(f))[k] = HeadOf(s, k)
    BY Zenon, <1>3, <1>4
  <1> QED
    BY Zenon, <1>5 DEF HeadAfter

-----------------------------------------------------------------------------
(* The state machines.                                                     *)

\* The state machine the committed entries up to its last applied one produce.
Faithful(sm) ==
    /\ sm \in StateMachines
    /\ sm.applied <= Len(chosen)
    /\ sm.head = HeadOf(chosen, sm.applied)

\* All state machines and snapshots of the store.
Machines ==
    {mem.sm, mem.snap, disk.sm, disk.snap, EmptySm} \cup {clone[t] : t \in Tasks}
        \cup {img[t].sm : t \in Tasks} \cup {img[t].snap : t \in Tasks}

FInv ==
    /\ clone = [t \in Tasks |-> clone[t]]
    /\ \A sm \in Machines : Faithful(sm)

\* Empty state machines are faithful to no entries.
LEMMA InitFInv == Init => FInv
  <1> SUFFICES ASSUME Init PROVE FInv
    OBVIOUS
  <1>1. Machines = {EmptySm}
    BY Zenon DEF Init, Machines, EmptyImage, Tasks
  <1>2. \A i \in 1 .. 0 : chosen[i] = Blank
    OBVIOUS
  <1>3. HeadOf(chosen, 0) = Blank
    BY Zenon, <1>2, HeadOfNone
  <1>4. EmptySm = [applied |-> 0, head |-> Blank] /\ Blank \in Entries /\ 0 \in 0 .. MaxIndex
    BY StoreAssumption DEF EmptySm, Blank, Entries
  <1>5. Faithful(EmptySm)
    BY <1>3, <1>4 DEF Init, Faithful, StateMachines
  <1> QED
    BY Zenon, <1>1, <1>5 DEF FInv, Init

\* A step that copies state machines, and adds at most one new one.
LEMMA CopyStep ==
    ASSUME FInv, chosen' = chosen, NEW new, Faithful(new), Machines' \subseteq Machines \cup {new},
           clone' = [t \in Tasks |-> clone'[t]]
    PROVE  FInv'
  BY Zenon DEF FInv, Faithful

\* A step in memory: no image and no file changes.
LEMMA MemoryMachines ==
    ASSUME FInv, StoreFrame, chosen' = chosen, NEW new, Faithful(new),
           mem'.sm \in {mem.sm, new}, mem'.snap \in Machines,
           NEW t \in Tasks, NEW c, clone' = clone \/ (clone' = [clone EXCEPT ![t] = c] /\ c \in {mem.sm, new})
    PROVE  FInv'
  <1>1. disk' = disk /\ img' = img
    BY Zenon DEF StoreFrame
  <1>2. /\ clone' = [u \in Tasks |-> clone'[u]]
        /\ \A u \in Tasks : clone'[u] \in {clone[u], mem.sm, new}
    BY Zenon DEF FInv
  <1>3. Machines' \subseteq Machines \cup {new}
    BY Zenon, <1>1, <1>2 DEF Machines
  <1> QED
    BY Zenon, <1>2, <1>3, CopyStep

\* apply runs the committed entries, so it ends at their head.
LEMMA ApplyFaithful ==
    ASSUME SInv, LInv, FInv, NEW k \in Indexes, apply(k)
    PROVE  /\ FInv'
           /\ k <= Len(chosen) /\ mem' = [mem EXCEPT !.sm = [applied |-> k, head |-> HeadOf(chosen, k)]]
  <1> DEFINE a == mem.sm.applied
  <1>1. /\ mem.sm.applied < k /\ k <= acked.committed /\ (a + 1) .. k \subseteq DOMAIN acked.log
        /\ StoreFrame /\ chosen' = chosen /\ clone' = clone
    BY Zenon DEF apply
  <1>2. /\ a \in Nat /\ k \in Nat /\ acked.committed \in Nat /\ mem.committed \in Nat
        /\ acked.committed <= mem.committed
        /\ \A i \in DOMAIN acked.log : i \in DOMAIN mem.log
    BY Zenon, IndexNat DEF SInv, Shapes, Shape, AckedShape, Holds
  <1>3. chosen \in Seq(Entries) /\ Len(chosen) \in Nat /\ mem.committed <= Len(chosen)
    BY DEF LInv, Sound
  <1>4. k \in 0 .. Len(chosen) /\ a \in 0 .. k
    BY SMTT(30), <1>1, <1>2, <1>3
  <1>5. ASSUME NEW i \in (a + 1) .. k PROVE mem.log[i] = chosen[i]
    <2>1. i \in DOMAIN mem.log
      BY Zenon, <1>1, <1>2
    <2>2. i <= mem.committed
      BY <1>1, <1>2
    <2> QED
      BY Zenon, <2>1, <2>2 DEF LInv, Sound
  <1>6. mem.sm.head = HeadOf(chosen, a)
    BY Zenon DEF FInv, Machines, Faithful
  <1>7. mem' = [mem EXCEPT !.sm = [applied |-> k, head |-> HeadAfter(mem.sm, mem.log, k)]]
    BY Zenon DEF apply
  <1>8. HeadAfter(mem.sm, mem.log, k) = HeadOf(chosen, k)
    BY Zenon, <1>3, <1>4, <1>5, <1>6, ApplyHead
  <1> DEFINE new == [applied |-> k, head |-> HeadOf(chosen, k)]
  <1>9. mem' = [mem EXCEPT !.sm = new]
    BY Zenon, <1>7, <1>8
  <1>10. Faithful(new)
    <2>1. HeadOf(chosen, k) \in Entries
      BY Zenon, <1>3, <1>4, HeadMonotone
    <2>2. k \in 0 .. MaxIndex
      BY <1>2, StoreAssumption DEF Indexes
    <2> QED
      BY <1>4, <2>1, <2>2 DEF Faithful, StateMachines
  <1>11. mem'.sm = new /\ mem'.snap = mem.snap
    BY Zenon, <1>9 DEF SInv, Shapes, Shape
  <1> HIDE DEF new
  <1>12. FInv'
    BY Zenon, <1>1, <1>10, <1>11, MemoryMachines DEF Machines, Tasks
  <1> QED
    BY <1>4, <1>9, <1>12 DEF new

\* An installed snapshot is the cluster's state machine at its index.
LEMMA InstallFaithful ==
    ASSUME SInv, LInv, FInv, NEW n \in Indexes, install_snapshot(n)
    PROVE  /\ FInv'
           /\ n <= Len(chosen) /\ mem' = [mem EXCEPT !.sm = [applied |-> n, head |-> HeadOf(chosen, n)]]
  <1> DEFINE new == [applied |-> n, head |-> HeadOf(chosen, n)]
  <1>1. /\ mem' = [mem EXCEPT !.sm = new] /\ n \in DOMAIN chosen
        /\ StoreFrame /\ chosen' = chosen /\ clone' = [clone EXCEPT ![Worker] = new]
    BY Zenon DEF install_snapshot
  <1>2. chosen \in Seq(Entries) /\ n \in 0 .. Len(chosen)
    BY <1>1 DEF LInv
  <1>3. HeadOf(chosen, n) \in Entries
    BY <1>2, HeadMonotone
  <1>4. n \in 0 .. MaxIndex
    BY StoreAssumption DEF Indexes
  <1>5. Faithful(new)
    BY SMTT(30), <1>2, <1>3, <1>4 DEF Faithful, StateMachines
  <1>6. mem'.sm = new /\ mem'.snap = mem.snap
    BY Zenon, <1>1 DEF SInv, Shapes, Shape
  <1> HIDE DEF new
  <1>7. FInv'
    BY Zenon, <1>1, <1>5, <1>6, MemoryMachines DEF Machines, Tasks
  <1> QED
    BY <1>1, <1>2, <1>7 DEF new

\* A read copies a state machine into an image, the rename copies the image.
LEMMA PersistFaithful ==
    ASSUME SInv, FInv, NEW t \in Tasks,
           PersistLocks(t) \/ ReadField(t) \/ PersistReplaces(t) \/ PersistFails(t)
    PROVE  FInv'
  <1> DEFINE r == Reads(t, img[t])
  <1>1. nread[t] \in 0 .. 5 /\ Shape(mem) /\ Shape(img[t])
    BY DEF SInv, Shapes, HasRead
  <1>2. r.sm \in {mem.sm, img[t].sm} /\ r.snap \in {mem.snap, img[t].snap}
    BY <1>1, ReadsFacts
  <1>3. chosen' = chosen /\ mem' = mem /\ Faithful(EmptySm)
    BY Zenon DEF PersistLocks, ReadField, PersistReplaces, PersistFails, FInv, Machines
  <1>4. disk' = disk \/ disk' = r
    BY Zenon DEF PersistLocks, ReadField, PersistReplaces, PersistFails
  <1>5. img' = [img EXCEPT ![t] = r] \/ img' = [img EXCEPT ![t] = EmptyImage]
    BY Zenon DEF PersistLocks, ReadField, PersistReplaces, PersistFails, PersistEnds, SInv, Shapes
  <1>6. clone' = clone \/ clone' = [clone EXCEPT ![t] = EmptySm]
    BY Zenon DEF PersistLocks, ReadField, PersistReplaces, PersistFails, PersistEnds
  <1> HIDE DEF r
  <1>7. EmptyImage.sm = EmptySm /\ EmptyImage.snap = EmptySm
    BY Zenon DEF EmptyImage
  <1>8. /\ clone' = [u \in Tasks |-> clone'[u]]
        /\ \A u \in Tasks : clone'[u] \in {clone[u], EmptySm}
    BY Zenon, <1>6 DEF FInv
  <1>9. ASSUME NEW u \in Tasks PROVE img'[u] \in {img[u], r, EmptyImage}
    BY Zenon, <1>5 DEF SInv, Shapes
  <1>10. \A u \in Tasks : img'[u].sm \in Machines /\ img'[u].snap \in Machines
    BY Zenon, <1>2, <1>7, <1>9 DEF Machines
  <1>11. disk'.sm \in Machines /\ disk'.snap \in Machines
    BY Zenon, <1>2, <1>4 DEF Machines
  <1>12. Machines' \subseteq Machines
    BY SMTT(30), <1>3, <1>8, <1>10, <1>11 DEF Machines
  <1> QED
    BY Zenon, <1>3, <1>8, <1>12, CopyStep

\* open brings back what the file has.
LEMMA ReopenFaithful == ASSUME FInv, Reopen PROVE FInv'
  <1>1. /\ mem' = disk /\ disk' = disk /\ img' = [t \in Tasks |-> EmptyImage]
        /\ clone' = [t \in Tasks |-> EmptySm] /\ chosen' = chosen
    BY Zenon DEF Reopen
  <1>2. Machines' \subseteq Machines /\ Faithful(EmptySm)
    BY Zenon, <1>1 DEF Machines, EmptyImage, FInv
  <1> QED
    BY Zenon, <1>1, <1>2, CopyStep

\* More committed entries leave the heads of the earlier ones.
LEMMA CommitFaithful ==
    ASSUME LInv, FInv, NEW e \in Entries, ClusterCommits(e)
    PROVE  FInv'
  <1>1. Machines' = Machines /\ clone' = clone /\ chosen' = Append(chosen, e)
    BY Zenon DEF ClusterCommits, Machines
  <1>2. chosen \in Seq(Entries) /\ Len(chosen') = Len(chosen) + 1 /\ Len(chosen) \in Nat
    BY <1>1 DEF LInv
  <1>3. ASSUME NEW sm \in Machines PROVE Faithful(sm)'
    <2>1. sm \in StateMachines /\ sm.applied <= Len(chosen) /\ sm.head = HeadOf(chosen, sm.applied)
      BY Zenon DEF FInv, Faithful
    <2>2. sm.applied \in Nat
      BY <2>1, StoreAssumption DEF StateMachines
    <2>3. sm.applied \in 0 .. Len(chosen) /\ sm.applied <= Len(chosen')
      BY SMTT(30), <1>2, <2>1, <2>2
    <2>4. HeadOf(chosen', sm.applied) = HeadOf(chosen, sm.applied)
      BY Zenon, <1>1, <1>2, <2>3, HeadStays
    <2> QED
      BY Zenon, <2>1, <2>3, <2>4 DEF Faithful
  <1> QED
    BY Zenon, <1>1, <1>3 DEF FInv

\* Every step of the store keeps its state machines faithful.
LEMMA NextFInv == ASSUME SInv, LInv, FInv, [Next]_vars PROVE FInv'
  <1>1. CASE LogStorage
    <2>1. /\ StoreFrame /\ chosen' = chosen /\ clone' = clone
          /\ \E x : \/ mem' = [mem EXCEPT !.vote = x] \/ mem' = [mem EXCEPT !.committed = x]
                    \/ mem' = [mem EXCEPT !.log = x] \/ mem' = [mem EXCEPT !.purged = x]
      BY Zenon, <1>1 DEF LogStorage, save_vote, save_committed, append, truncate_after, purge, PurgeLog
    <2>2. mem'.sm = mem.sm /\ mem'.snap = mem.snap
      BY Zenon, <2>1 DEF SInv, Shapes, Shape
    <2>3. Faithful(mem.sm) /\ Core \in Tasks /\ mem.snap \in Machines
      BY Zenon DEF FInv, Machines, Tasks
    <2> QED
      BY Zenon, <2>1, <2>2, <2>3, MemoryMachines
  <1>2. CASE StateMachine
    <2>1. CASE SnapshotTick \/ build_snapshot
      <3>1. /\ StoreFrame /\ chosen' = chosen /\ mem' = mem
            /\ clone' = clone \/ clone' = [clone EXCEPT ![Builder] = mem.sm]
        BY Zenon, <2>1 DEF SnapshotTick, build_snapshot
      <3>2. Faithful(mem.sm) /\ Builder \in Tasks /\ mem.snap \in Machines
        BY Zenon DEF FInv, Machines, Tasks
      <3> QED
        BY Zenon, <3>1, <3>2, MemoryMachines
    <2> QED
      BY Zenon, <1>2, <2>1, ApplyFaithful, InstallFaithful DEF StateMachine
  <1>3. CASE \E t \in Tasks : persist_to_disk(t)
    <2>1. ASSUME NEW t \in Tasks, WriteSnapshot(t) PROVE FInv'
      <3>1. StoreFrame /\ chosen' = chosen /\ clone' = clone /\ mem' = [mem EXCEPT !.snap = clone[t]]
        BY Zenon, <2>1 DEF WriteSnapshot
      <3>2. mem'.sm = mem.sm /\ mem'.snap = clone[t]
        BY Zenon, <3>1 DEF SInv, Shapes, Shape
      <3>3. Faithful(mem.sm) /\ clone[t] \in Machines
        BY Zenon DEF FInv, Machines
      <3> QED
        BY Zenon, <3>1, <3>2, <3>3, MemoryMachines
    <2> QED
      BY Zenon, <1>3, <2>1, PersistFaithful DEF persist_to_disk
  <1>4. CASE Reopen
    BY Zenon, <1>4, ReopenFaithful
  <1>5. CASE \E e \in Entries : ClusterCommits(e)
    BY Zenon, <1>5, CommitFaithful
  <1>6. CASE UNCHANGED vars
    BY <1>6 DEF vars, FInv, Machines, Faithful
  <1> QED
    BY Zenon, <1>1, <1>2, <1>3, <1>4, <1>5, <1>6 DEF Next

\* Every state machine of MemoryRaftStore, in memory, in the file and in the
\* snapshots, is the one the committed entries up to its last applied entry
\* produce, through applies, snapshots, crashes and restarts in any order.
THEOREM FaithfulCorrect == Spec => []StateMachineFaithful
  <1>1. FInv => StateMachineFaithful
    BY Zenon DEF FInv, Machines, Faithful, StateMachineFaithful
  <1> QED
    BY <1>1, InitSInv, NextSInv, InitLInv, NextLInv, InitFInv, NextFInv, PTL DEF Spec
=============================================================================
