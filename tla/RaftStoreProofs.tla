-------------------------- MODULE RaftStoreProofs --------------------------
(***************************************************************************)
(* What MemoryRaftStore has acknowledged is in its file, and its logs, in  *)
(* memory and in the file, agree with the committed entries and have no    *)
(* holes above what is applied: for logs, votes and numbers of crashes     *)
(* without a bound.                                                        *)
(***************************************************************************)
EXTENDS RaftStore, WellFoundedInduction, TLAPS

-----------------------------------------------------------------------------
(* The last index of a log.                                                *)

\* A bounded, non-empty set of numbers has a greatest one.
LEMMA BoundedMax ==
    ASSUME NEW S, S \subseteq Nat, S # {}, NEW b \in Nat, \A y \in S : y <= b
    PROVE  Max(S) \in S /\ \A y \in S : y <= Max(S)
  <1> DEFINE Bounds == {n \in Nat : \A y \in S : y <= n}
  <1>1. Bounds \subseteq Nat /\ Bounds # {}
    BY SMTT(30)
  <1>2. PICK m \in Bounds : \A n \in Bounds : ~(<<n, m>> \in OpToRel(<, Nat))
    <2> HIDE DEF Bounds
    <2> QED
      BY Zenon, <1>1, NatLessThanWellFounded, WFMin
  <1>3. \A n \in Bounds : ~(n < m)
    BY Zenon, <1>2 DEF OpToRel
  <1>4. m \in S
    <2>1. SUFFICES ASSUME m \notin S PROVE FALSE
      BY SMTT(30)
    <2>2. \A y \in S : y <= m - 1
      BY SMTT(30), <2>1
    <2>3. m - 1 \in Nat
      <3>1. PICK y \in S : y \in Nat
        BY Zenon
      <3>2. y <= m - 1 /\ m \in Nat
        BY Zenon, <2>2
      <3> QED
        BY SMTT(30), <3>1, <3>2
    <2>4. m - 1 \in Bounds
      BY Zenon, <2>2, <2>3
    <2> QED
      BY SMTT(30), <1>3, <2>4
  <1>5. \E x \in S : \A y \in S : x >= y
    BY Zenon, <1>4
  <1> QED
    BY Zenon, <1>5 DEF Max

\* LastLog is not before any entry of the log.
LEMMA LastLogLast ==
    ASSUME NEW m, DOMAIN m.log \subseteq Indexes, NEW i \in DOMAIN m.log
    PROVE  LastLog(m) \in Nat /\ i <= LastLog(m)
  <1> DEFINE S == DOMAIN m.log \cup {0}
  <1>1. S \subseteq Nat /\ S # {} /\ \A y \in S : y <= MaxIndex
    BY SMTT(30), StoreAssumption DEF Indexes
  <1>2. MaxIndex \in Nat /\ i \in S
    BY Zenon, StoreAssumption
  <1>3. LastLog(m) = Max(S)
    BY Zenon DEF LastLog, LastOf
  <1> HIDE DEF S
  <1>4. Max(S) \in S /\ \A y \in S : y <= Max(S)
    BY ZenonT(60), <1>1, <1>2, BoundedMax
  <1> QED
    BY Zenon, <1>1, <1>2, <1>3, <1>4

-----------------------------------------------------------------------------
(* The inductive invariant.                                                *)

\* The shape of an image, as far as the argument needs it.
Shape(m) ==
    /\ m = [purged |-> m.purged, committed |-> m.committed, log |-> m.log,
            vote |-> m.vote, sm |-> m.sm, snap |-> m.snap]
    /\ m.purged \in Nat /\ m.committed \in Nat /\ m.vote \in Nat /\ m.sm.applied \in Nat
    /\ DOMAIN m.log \subseteq Indexes

AckedShape ==
    /\ acked = [vote |-> acked.vote, committed |-> acked.committed, log |-> acked.log,
                applied |-> acked.applied, snap |-> acked.snap, head |-> acked.head]
    /\ acked.committed \in Nat /\ acked.vote \in Nat /\ acked.applied \in Nat

Shapes ==
    /\ Shape(mem) /\ Shape(disk) /\ AckedShape
    /\ img = [t \in Tasks |-> img[t]] /\ \A t \in Tasks : Shape(img[t])
    /\ nread \in [Tasks -> Nat]
    /\ pc \in [Tasks -> {"idle", "purgeLog", "writeSnap", "persist", "reading"}]

(***************************************************************************)
(* What a task that is reading its image together knows.  The fields it    *)
(* has read hold what has been acknowledged, because nobody acknowledges   *)
(* without the persist_lock it holds; and the fields its own operation     *)
(* changed are still those in memory, because nobody else changes them.    *)
(***************************************************************************)
HasRead(t) ==
    LET n == nread[t] IN
    /\ persist_lock = t /\ n \in 1 .. 5
    /\ n >= 2 => /\ img[t].committed >= acked.committed
                 /\ t = Core => img[t].committed = mem.committed
    /\ n >= 3 => /\ \A i \in DOMAIN acked.log :
                        i \in DOMAIN img[t].log /\ img[t].log[i] = acked.log[i]
                 /\ t = Core => img[t].log = mem.log
    /\ n >= 4 => /\ img[t].vote >= acked.vote
                 /\ t = Core => img[t].vote = mem.vote
    /\ n >= 5 => /\ img[t].sm.applied >= acked.applied
                 /\ t = Worker => img[t].sm = mem.sm

SInv ==
    /\ Shapes
    /\ Holds(mem) /\ Holds(disk)
    /\ pc[Core] = "purgeLog" => \A i \in DOMAIN acked.log : i > mem.purged
    /\ \A t \in Tasks : pc[t] = "reading" => HasRead(t)
    /\ \A t \in Tasks : pc[t] # "reading" => nread[t] = 0

\* Taking the lock and reading a field leave the rest of an image alone.
LEMMA ReadsFacts ==
    ASSUME Shape(mem), NEW t \in Tasks, nread[t] \in 0 .. 5, NEW m, Shape(m)
    PROVE  LET r == Reads(t, m)
               n == nread[t]
           IN  /\ Shape(r)
               /\ r.purged = IF n = 0 THEN mem.purged ELSE m.purged
               /\ r.committed = IF n = 1 THEN mem.committed ELSE m.committed
               /\ r.log = IF n = 2 THEN mem.log ELSE m.log
               /\ r.vote = IF n = 3 THEN mem.vote ELSE m.vote
               /\ r.sm = IF n = 4 THEN mem.sm ELSE m.sm
               /\ r.snap = IF n = 5 THEN mem.snap ELSE m.snap
  <1> DEFINE r == Reads(t, m)
  <1>0. CASE nread[t] = 0
    <2>1. ReadOrder[nread[t] + 1] = "purged"
      BY SMTT(30), <1>0 DEF ReadOrder
    <2>2. r = [m EXCEPT !.purged = mem.purged]
      BY Zenon, <2>1 DEF Reads
    <2> QED
      BY SMTT(30), <1>0, <2>2 DEF Shape
  <1>1. CASE nread[t] = 1
    <2>1. ReadOrder[nread[t] + 1] = "committed"
      BY SMTT(30), <1>1 DEF ReadOrder
    <2>2. r = [m EXCEPT !.committed = mem.committed]
      BY Zenon, <2>1 DEF Reads
    <2> QED
      BY SMTT(30), <1>1, <2>2 DEF Shape
  <1>2. CASE nread[t] = 2
    <2>1. ReadOrder[nread[t] + 1] = "log"
      BY SMTT(30), <1>2 DEF ReadOrder
    <2>2. r = [m EXCEPT !.log = mem.log]
      BY Zenon, <2>1 DEF Reads
    <2> QED
      BY SMTT(30), <1>2, <2>2 DEF Shape
  <1>3. CASE nread[t] = 3
    <2>1. ReadOrder[nread[t] + 1] = "vote"
      BY SMTT(30), <1>3 DEF ReadOrder
    <2>2. r = [m EXCEPT !.vote = mem.vote]
      BY Zenon, <2>1 DEF Reads
    <2> QED
      BY SMTT(30), <1>3, <2>2 DEF Shape
  <1>4. CASE nread[t] = 4
    <2>1. ReadOrder[nread[t] + 1] = "sm"
      BY SMTT(30), <1>4 DEF ReadOrder
    <2>2. r = [m EXCEPT !.sm = mem.sm]
      BY Zenon, <2>1 DEF Reads
    <2> QED
      BY SMTT(30), <1>4, <2>2 DEF Shape
  <1>5. CASE nread[t] = 5
    <2>1. ReadOrder[nread[t] + 1] = "snap"
      BY SMTT(30), <1>5 DEF ReadOrder
    <2>2. r = [m EXCEPT !.snap = mem.snap]
      BY Zenon, <2>1 DEF Reads
    <2> QED
      BY SMTT(30), <1>5, <2>2 DEF Shape
  <1> QED
    BY SMTT(30), <1>0, <1>1, <1>2, <1>3, <1>4, <1>5

\* The store of a server that never ran.
LEMMA EmptyShape == Shape(EmptyImage)
  BY SMTT(30) DEF Shape, EmptyImage, EmptySm

\* An empty store holds the nothing that is acknowledged.
LEMMA InitSInv == Init => SInv
  <1> SUFFICES ASSUME Init PROVE SInv
    BY SMTT(30)
  <1>1. Shapes
    BY Zenon, EmptyShape DEF Init, Shapes, AckedShape, Tasks
  <1>2. Holds(mem) /\ Holds(disk)
    BY SMTT(30) DEF Init, Holds, EmptyImage, EmptySm
  <1> QED
    BY Zenon, <1>1, <1>2 DEF Init, SInv, Tasks, Core

-----------------------------------------------------------------------------
(* The operations.                                                         *)

\* An operation of the core changes its own fields in memory, may take back
\* promises about entries, and goes on to persist.
LEMMA CoreOp ==
    ASSUME SInv, StoreFrame, Shape(mem)', AckedShape', Holds(mem)', mem'.sm = mem.sm,
           pc[Core] # "reading", NEW s \in {"persist", "purgeLog"}, Goes(Core, s),
           s = "purgeLog" => \A i \in DOMAIN acked'.log : i > mem'.purged,
           acked'.vote = acked.vote, acked'.committed = acked.committed,
           acked'.applied = acked.applied,
           \A i \in DOMAIN acked'.log : i \in DOMAIN acked.log /\ acked'.log[i] = acked.log[i]
    PROVE  SInv'
  <1>1. /\ disk' = disk /\ img' = img /\ nread' = nread /\ persist_lock' = persist_lock
        /\ pc' = [pc EXCEPT ![Core] = s] /\ Core \in Tasks
    BY Zenon DEF StoreFrame, Goes, Tasks
  <1>2. Shapes'
    BY ZenonT(60), <1>1 DEF SInv, Shapes, Shape
  <1>3. Holds(disk)'
    BY ZenonT(60), <1>1 DEF SInv, Holds
  <1>4. pc'[Core] = s
    BY Zenon, <1>1 DEF SInv, Shapes
  <1>5. ASSUME NEW t \in Tasks, pc'[t] = "reading" PROVE HasRead(t)'
    <2>1. t # Core /\ pc[t] = "reading"
      BY Zenon, <1>1, <1>4, <1>5 DEF SInv, Shapes
    <2>2. HasRead(t)
      BY Zenon, <2>1 DEF SInv
    <2> QED
      BY Zenon, <1>1, <2>1, <2>2 DEF HasRead
  <1>6. ASSUME NEW t \in Tasks, pc'[t] # "reading" PROVE nread'[t] = 0
    BY Zenon, <1>1, <1>6 DEF SInv, Shapes
  <1> QED
    BY Zenon, <1>2, <1>3, <1>4, <1>5, <1>6 DEF SInv

\* An operation of the worker or the builder leaves the core's fields and all
\* promises alone, and only an idle worker changes the state machine.
LEMMA OtherOp ==
    ASSUME SInv, StoreFrame, Shape(mem)', acked' = acked, NEW t \in Tasks, NEW s,
           s \in {"writeSnap", "persist"}, Goes(t, s), t = Core => pc[t] = "writeSnap",
           mem'.committed = mem.committed, mem'.log = mem.log, mem'.vote = mem.vote,
           mem'.purged = mem.purged, pc[t] # "reading",
           mem'.sm = mem.sm \/ (t = Worker /\ mem'.sm.applied >= mem.sm.applied)
    PROVE  SInv'
  <1>1. /\ disk' = disk /\ img' = img /\ nread' = nread /\ persist_lock' = persist_lock
        /\ pc' = [pc EXCEPT ![t] = s]
    BY Zenon DEF StoreFrame, Goes
  <1>2. Shapes'
    BY ZenonT(60), <1>1 DEF SInv, Shapes, Shape, AckedShape
  <1>3. mem'.sm.applied >= mem.sm.applied
    BY SMTT(30) DEF SInv, Shapes, Shape
  <1>4. Holds(disk)' /\ Holds(mem)'
    BY SMTT(30), <1>1, <1>3 DEF SInv, Holds, Shapes, Shape, AckedShape
  <1>5. ASSUME NEW u \in Tasks, pc'[u] = "reading" PROVE HasRead(u)'
    <2>1. u # t /\ pc[u] = "reading"
      BY Zenon, <1>1, <1>5 DEF SInv, Shapes
    <2>2. HasRead(u) /\ (u = Worker => mem'.sm = mem.sm)
      BY Zenon, <2>1 DEF SInv
    <2> QED
      BY Zenon, <1>1, <2>1, <2>2 DEF HasRead
  <1>6. pc'[Core] = "purgeLog" => pc[Core] = "purgeLog"
    BY Zenon, <1>1 DEF SInv, Shapes, Tasks
  <1>7. ASSUME NEW u \in Tasks, pc'[u] # "reading" PROVE nread'[u] = 0
    BY Zenon, <1>1, <1>7 DEF SInv, Shapes
  <1> QED
    BY Zenon, <1>2, <1>4, <1>5, <1>6, <1>7 DEF SInv

\* save_vote and save_committed change memory before they persist.
LEMMA SaveStep ==
    ASSUME SInv, (\E v \in 1 .. MaxVote : save_vote(v)) \/ (\E c \in Indexes : save_committed(c))
    PROVE  SInv'
  <1>1. ASSUME NEW v \in 1 .. MaxVote, save_vote(v) PROVE SInv'
    <2>1. mem' = [mem EXCEPT !.vote = v] /\ v > mem.vote /\ v \in Nat
      BY SMTT(30), <1>1, StoreAssumption DEF save_vote
    <2>2. Shape(mem)' /\ mem'.sm = mem.sm
      BY Zenon, <2>1 DEF SInv, Shapes, Shape
    <2>3. Holds(mem)' /\ AckedShape'
      BY SMTT(30), <1>1, <2>1 DEF save_vote, SInv, Shapes, Shape, Holds, AckedShape
    <2> QED
      BY Zenon, <1>1, <2>2, <2>3, CoreOp DEF save_vote, CoreCalls, Idle
  <1>2. ASSUME NEW c \in Indexes, save_committed(c) PROVE SInv'
    <2>1. mem' = [mem EXCEPT !.committed = c] /\ c > mem.committed /\ c \in Nat
      BY SMTT(30), <1>2, StoreAssumption DEF save_committed, Indexes
    <2>2. Shape(mem)' /\ mem'.sm = mem.sm
      BY Zenon, <2>1 DEF SInv, Shapes, Shape
    <2>3. Holds(mem)' /\ AckedShape'
      BY SMTT(30), <1>2, <2>1 DEF save_committed, SInv, Shapes, Shape, Holds, AckedShape
    <2> QED
      BY Zenon, <1>2, <2>2, <2>3, CoreOp DEF save_committed, CoreCalls, Idle
  <1> QED
    BY Zenon, <1>1, <1>2

\* New entries do not touch old ones: they come after the last of them.
LEMMA AppendStep ==
    ASSUME SInv, NEW upto \in Indexes, NEW new, append(upto, new)
    PROVE  SInv'
  <1> DEFINE added == (LastLog(mem) + 1) .. upto
             log == [i \in DOMAIN mem.log \cup added |->
                        IF i \in added THEN new[i] ELSE mem.log[i]]
  <1>1. mem' = [mem EXCEPT !.log = log]
    BY Zenon DEF append, SInv, Shapes, Shape
  <1>2. LastLog(mem) \in Nat
    <2>1. CASE DOMAIN mem.log = {}
      BY Zenon, <2>1 DEF LastLog, SInv, Shapes, Shape
    <2>2. ASSUME NEW i \in DOMAIN mem.log PROVE LastLog(mem) \in Nat
      BY Zenon, <2>2, LastLogLast DEF SInv, Shapes, Shape
    <2> QED
      BY Zenon, <2>1, <2>2
  <1>3. added \subseteq Indexes
    BY SMTT(30), <1>2, StoreAssumption DEF Indexes
  <1>4. ASSUME NEW i \in DOMAIN mem.log PROVE i \notin added
    <2>1. i <= LastLog(mem)
      BY Zenon, <1>4, LastLogLast DEF SInv, Shapes, Shape
    <2>2. i \in Nat
      BY SMTT(30), <1>4, StoreAssumption DEF SInv, Shapes, Shape, Indexes
    <2> QED
      BY SMTT(30), <1>2, <2>1, <2>2
  <1> HIDE DEF added
  <1>5. /\ DOMAIN log = DOMAIN mem.log \cup added
        /\ \A i \in DOMAIN mem.log : log[i] = mem.log[i]
    BY Zenon, <1>4
  <1> HIDE DEF log
  <1>6. Shape(mem)' /\ mem'.sm = mem.sm
    BY Zenon, <1>1, <1>3, <1>5 DEF SInv, Shapes, Shape
  <1>7. Holds(mem)' /\ AckedShape'
    BY ZenonT(60), <1>1, <1>5 DEF append, SInv, Shapes, Shape, Holds, AckedShape
  <1> QED
    BY Zenon, <1>6, <1>7, CoreOp DEF append, CoreCalls, Idle

\* truncate_after gives up the entries it removes.
LEMMA TruncateStep ==
    ASSUME SInv, NEW k \in 0 .. MaxIndex, truncate_after(k)
    PROVE  SInv'
  <1> DEFINE Kept(l) == [i \in {j \in DOMAIN l : j <= k} |-> l[i]]
  <1>1. /\ mem' = [mem EXCEPT !.log = Kept(mem.log)]
        /\ acked' = [acked EXCEPT !.log = Kept(acked.log)]
    BY Zenon DEF truncate_after, RestrictDomain, Restrict, SInv, Shapes, Shape, AckedShape
  <1>2. Shape(mem)' /\ mem'.sm = mem.sm
    BY Zenon, <1>1 DEF SInv, Shapes, Shape
  <1>3. /\ AckedShape' /\ acked'.log = Kept(acked.log)
        /\ acked'.vote = acked.vote /\ acked'.committed = acked.committed
        /\ acked'.applied = acked.applied
    BY Zenon, <1>1 DEF SInv, Shapes, AckedShape
  <1>4. Holds(mem)'
    BY SMTT(30), <1>1, <1>3 DEF SInv, Shapes, Shape, Holds
  <1> QED
    BY ZenonT(60), <1>2, <1>3, <1>4, CoreOp DEF truncate_after, CoreCalls, Idle

\* purge gives up the entries first and removes them under the next lock.
LEMMA PurgeStep ==
    ASSUME SInv, (\E k \in Indexes : purge(k)) \/ PurgeLog
    PROVE  SInv'
  <1>1. ASSUME NEW k \in Indexes, purge(k) PROVE SInv'
    <2> DEFINE Kept(l) == [i \in {j \in DOMAIN l : j > k} |-> l[i]]
    <2>1. /\ mem' = [mem EXCEPT !.purged = k]
          /\ acked' = [acked EXCEPT !.log = Kept(acked.log)]
      BY Zenon, <1>1 DEF purge, RestrictDomain, Restrict, SInv, Shapes, AckedShape
    <2>2. Shape(mem)' /\ mem'.sm = mem.sm /\ mem'.purged = k
      <3>1. k \in Nat
        BY SMTT(30), StoreAssumption DEF Indexes
      <3> QED
        BY Zenon, <2>1, <3>1 DEF SInv, Shapes, Shape
    <2>3. /\ AckedShape' /\ acked'.log = Kept(acked.log)
          /\ acked'.vote = acked.vote /\ acked'.committed = acked.committed
          /\ acked'.applied = acked.applied
      BY Zenon, <2>1 DEF SInv, Shapes, AckedShape
    <2>4. Holds(mem)'
      BY SMTT(30), <2>1, <2>3 DEF SInv, Shapes, Shape, Holds
    <2> QED
      BY ZenonT(60), <1>1, <2>2, <2>3, <2>4, CoreOp DEF purge, CoreCalls, Idle
  <1>2. CASE PurgeLog
    <2> DEFINE Kept(l) == [i \in {j \in DOMAIN l : j > mem.purged} |-> l[i]]
    <2>1. mem' = [mem EXCEPT !.log = Kept(mem.log)] /\ acked' = acked
      BY Zenon, <1>2 DEF PurgeLog, RestrictDomain, Restrict, SInv, Shapes, Shape
    <2>2. Shape(mem)' /\ mem'.sm = mem.sm /\ AckedShape'
      BY Zenon, <2>1 DEF SInv, Shapes, Shape, AckedShape
    <2>3. \A i \in DOMAIN acked.log : i > mem.purged
      BY Zenon, <1>2 DEF PurgeLog, SInv
    <2>4. Holds(mem)'
      BY Zenon, <2>1, <2>3 DEF SInv, Shapes, Shape, Holds
    <2> QED
      BY Zenon, <1>2, <2>1, <2>2, <2>4, CoreOp DEF PurgeLog
  <1> QED
    BY Zenon, <1>1, <1>2

\* apply and install_snapshot only move the state machine on.
LEMMA ApplyStep ==
    ASSUME SInv, (\E k \in Indexes : apply(k)) \/ (\E n \in Indexes : install_snapshot(n))
    PROVE  SInv'
  <1>1. PICK k \in Indexes :
            /\ \E head : mem' = [mem EXCEPT !.sm = [applied |-> k, head |-> head]]
            /\ k > mem.sm.applied
    BY Zenon DEF apply, install_snapshot
  <1>2. k \in Nat
    BY SMTT(30), StoreAssumption DEF Indexes
  <1>3. /\ Shape(mem)' /\ mem'.sm.applied >= mem.sm.applied
        /\ mem'.committed = mem.committed /\ mem'.log = mem.log
        /\ mem'.vote = mem.vote /\ mem'.purged = mem.purged
    BY SMTT(30), <1>1, <1>2 DEF SInv, Shapes, Shape
  <1>4. PICK s \in {"writeSnap", "persist"} : Goes(Worker, s)
    BY Zenon DEF apply, install_snapshot
  <1>5. /\ StoreFrame /\ acked' = acked /\ pc[Worker] # "reading"
        /\ Worker \in Tasks /\ Worker # Core
    BY Zenon DEF apply, install_snapshot, WorkerCalls, Idle, Tasks, Worker, Core
  <1> QED
    BY Zenon, <1>3, <1>4, <1>5, OtherOp

\* Building and storing a snapshot touches nothing that is acknowledged.
LEMMA SnapshotStep ==
    ASSUME SInv, build_snapshot \/ \E t \in Tasks : WriteSnapshot(t)
    PROVE  SInv'
  <1>1. CASE build_snapshot
    <2>1. Builder \in Tasks /\ Builder # Core /\ pc[Builder] # "reading"
      BY Zenon, <1>1 DEF build_snapshot, Idle, Tasks, Builder, Core
    <2>2. mem' = mem /\ Shape(mem)'
      BY Zenon, <1>1 DEF build_snapshot, SInv, Shapes, Shape
    <2> QED
      BY Zenon, <1>1, <2>1, <2>2, OtherOp DEF build_snapshot
  <1>2. ASSUME NEW t \in Tasks, WriteSnapshot(t) PROVE SInv'
    <2>1. mem' = [mem EXCEPT !.snap = clone[t]]
      BY Zenon, <1>2 DEF WriteSnapshot
    <2>2. /\ Shape(mem)' /\ mem'.sm = mem.sm
          /\ mem'.committed = mem.committed /\ mem'.log = mem.log
          /\ mem'.vote = mem.vote /\ mem'.purged = mem.purged
      BY Zenon, <2>1 DEF SInv, Shapes, Shape
    <2> QED
      BY Zenon, <1>2, <2>2, OtherOp DEF WriteSnapshot
  <1> QED
    BY Zenon, <1>1, <1>2

\* One more field is read, under the lock: it holds what is acknowledged now.
LEMMA ReadStep ==
    ASSUME SInv, NEW t \in Tasks, PersistLocks(t) \/ ReadField(t)
    PROVE  SInv'
  <1> DEFINE n == nread[t]
             r == Reads(t, img[t])
  <1>1. /\ mem' = mem /\ disk' = disk /\ acked' = acked
        /\ img' = [img EXCEPT ![t] = r] /\ nread' = [nread EXCEPT ![t] = n + 1]
    <2>1. CASE PersistLocks(t)
      <3>1. n = 0
        BY Zenon, <2>1 DEF PersistLocks, SInv
      <3> QED
        BY SMTT(30), <2>1, <3>1 DEF PersistLocks, SInv, Shapes
    <2>2. CASE ReadField(t)
      BY Zenon, <2>2 DEF ReadField, SInv, Shapes
    <2> QED
      BY Zenon, <2>1, <2>2
  <1>2. n \in 0 .. 4 /\ (n > 0 => pc[t] = "reading")
    <2>1. CASE PersistLocks(t)
      BY SMTT(30), <2>1 DEF PersistLocks, SInv
    <2>2. CASE ReadField(t)
      <3>1. n + 1 < 6 /\ pc[t] = "reading"
        BY Zenon, <2>2 DEF ReadField, ReadOrder
      <3> QED
        BY SMTT(30), <3>1 DEF SInv, HasRead
    <2> QED
      BY Zenon, <2>1, <2>2
  <1>3. persist_lock' = t /\ pc' = [pc EXCEPT ![t] = "reading"]
    <2>1. CASE PersistLocks(t)
      BY ZenonT(60), <2>1 DEF PersistLocks, Goes
    <2>2. CASE ReadField(t)
      BY SMTT(30), <2>2 DEF ReadField, SInv, HasRead, Shapes
    <2> QED
      BY Zenon, <2>1, <2>2
  <1>4. \A u \in Tasks : pc[u] = "reading" => u = t
    BY Zenon DEF PersistLocks, ReadField, SInv, HasRead, Tasks, NoTask, Core, Worker, Builder
  <1>5. /\ Shape(r)
        /\ r.committed = IF n = 1 THEN mem.committed ELSE img[t].committed
        /\ r.log = IF n = 2 THEN mem.log ELSE img[t].log
        /\ r.vote = IF n = 3 THEN mem.vote ELSE img[t].vote
        /\ r.sm = IF n = 4 THEN mem.sm ELSE img[t].sm
    BY SMTT(30), <1>2, ReadsFacts DEF SInv, Shapes
  <1> HIDE DEF r
  <1>6. Shapes' /\ Holds(mem)' /\ Holds(disk)'
    <2>1. n + 1 \in Nat
      BY SMTT(30), <1>2
    <2>2. Shape(mem)' /\ Shape(disk)' /\ AckedShape' /\ Holds(mem)' /\ Holds(disk)'
      BY ZenonT(60), <1>1 DEF SInv, Shapes, Shape, AckedShape, Holds
    <2>3. img' = [u \in Tasks |-> img'[u]] /\ \A u \in Tasks : Shape(img[u])'
      BY ZenonT(60), <1>1, <1>5 DEF SInv, Shapes, Shape
    <2>4. /\ nread' \in [Tasks -> Nat]
          /\ pc' \in [Tasks -> {"idle", "purgeLog", "writeSnap", "persist", "reading"}]
      BY ZenonT(60), <1>1, <1>3, <2>1 DEF SInv, Shapes
    <2> QED
      BY Zenon, <2>2, <2>3, <2>4 DEF Shapes
  <1>7. img'[t] = r /\ nread'[t] = n + 1 /\ pc'[t] = "reading"
    BY ZenonT(60), <1>1, <1>3 DEF SInv, Shapes
  <1>8. HasRead(t)'
    <2>1. Holds(mem) /\ (n > 0 => HasRead(t))
      BY ZenonT(60), <1>2 DEF SInv
    <2> QED
      BY SMTT(30), <1>1, <1>2, <1>3, <1>5, <1>7, <2>1 DEF HasRead, Holds
  <1>9. ASSUME NEW u \in Tasks, u # t PROVE pc'[u] # "reading" /\ nread'[u] = 0
    BY ZenonT(60), <1>1, <1>3, <1>4, <1>9 DEF SInv, Shapes
  <1>10. pc'[Core] = "purgeLog" => pc[Core] = "purgeLog"
    BY Zenon, <1>3 DEF SInv, Shapes, Tasks
  <1> QED
    BY ZenonT(60), <1>1, <1>6, <1>7, <1>8, <1>9, <1>10 DEF SInv

\* The end of a persist: the task lets its image go.
LEMMA EndStep ==
    ASSUME SInv, NEW t \in Tasks, pc[t] = "reading", PersistEnds(t), mem' = mem,
           Shape(disk)', AckedShape', Holds(mem)', Holds(disk)', acked'.log = acked.log \/ t = Core
    PROVE  SInv'
  <1>1. /\ img' = [img EXCEPT ![t] = EmptyImage] /\ nread' = [nread EXCEPT ![t] = 0]
        /\ pc' = [pc EXCEPT ![t] = "idle"]
    BY Zenon DEF PersistEnds, Goes
  <1>2. \A u \in Tasks : pc[u] = "reading" => u = t
    BY Zenon DEF SInv, HasRead
  <1>3. Shapes'
    BY ZenonT(60), <1>1, EmptyShape DEF SInv, Shapes, Shape
  <1>4. ASSUME NEW u \in Tasks PROVE pc'[u] # "reading" /\ nread'[u] = 0
    BY Zenon, <1>1, <1>2 DEF SInv, Shapes
  <1>5. pc'[Core] = "purgeLog" => pc[Core] = "purgeLog" /\ t # Core
    BY Zenon, <1>1 DEF SInv, Shapes, Tasks
  <1> QED
    BY Zenon, <1>3, <1>4, <1>5 DEF SInv

\* The rename: what the operation's return tells is in the new file.
LEMMA ReplaceStep ==
    ASSUME SInv, NEW t \in Tasks, PersistReplaces(t)
    PROVE  SInv'
  <1> DEFINE r == Reads(t, img[t])
  <1>1. nread[t] = 5 /\ pc[t] = "reading" /\ HasRead(t)
    <2>1. nread[t] + 1 = 6 /\ pc[t] = "reading" /\ nread[t] \in Nat
      BY ZenonT(60) DEF PersistReplaces, ReadOrder, SInv, Shapes
    <2> QED
      BY SMTT(30), <2>1 DEF SInv
  <1>2. /\ Shape(r) /\ r.committed = img[t].committed /\ r.log = img[t].log
        /\ r.vote = img[t].vote /\ r.sm = img[t].sm
    BY SMTT(30), <1>1, ReadsFacts DEF SInv, Shapes
  <1>3. disk' = r /\ mem' = mem /\ acked' = Told(t) /\ PersistEnds(t)
    BY Zenon DEF PersistReplaces
  <1> HIDE DEF r
  <1>4. Shape(disk)'
    BY Zenon, <1>2, <1>3 DEF Shape
  <1>5. CASE t = Core
    <2>1. acked' = [acked EXCEPT !.vote = mem.vote, !.committed = mem.committed, !.log = mem.log]
      BY Zenon, <1>3, <1>5 DEF Told, Core, Worker, Builder
    <2>2. /\ AckedShape' /\ acked'.vote = mem.vote /\ acked'.committed = mem.committed
          /\ acked'.log = mem.log /\ acked'.applied = acked.applied
      BY ZenonT(60), <2>1 DEF SInv, Shapes, Shape, AckedShape
    <2>3. Holds(mem)'
      <3>1. ASSUME NEW x \in Nat PROVE x >= x
        BY ONLY SMTT(30), <3>1
      <3>2. /\ mem' = mem /\ mem.vote \in Nat /\ mem.committed \in Nat
            /\ mem.sm.applied >= acked.applied
        BY Zenon, <1>3 DEF SInv, Shapes, Shape, Holds
      <3> QED
        BY Zenon, <2>2, <3>1, <3>2 DEF Holds
    <2>4. Holds(disk)'
      BY SMTT(30), <1>1, <1>2, <1>3, <1>5, <2>2 DEF SInv, Shapes, Shape, Holds, HasRead
    <2> QED
      BY ZenonT(60), <1>1, <1>3, <1>4, <1>5, <2>2, <2>3, <2>4, EndStep
  <1>6. CASE t # Core
    <2>1. PICK applied, snap, head :
              /\ acked' = [acked EXCEPT !.applied = applied, !.snap = snap, !.head = head]
              /\ applied = acked.applied \/ (t = Worker /\ applied = mem.sm.applied)
      <3>1. CASE t = Worker
        <4>1. acked' = [acked EXCEPT !.applied = mem.sm.applied, !.head = mem.sm.head,
                                     !.snap = Max({acked.snap, clone[t].applied})]
          BY Zenon, <1>3, <3>1 DEF Told, Worker, Core, Builder, SInv, Shapes, AckedShape
        <4>2. acked' = [acked EXCEPT !.applied = mem.sm.applied,
                                     !.snap = Max({acked.snap, clone[t].applied}),
                                     !.head = mem.sm.head]
          BY Zenon, <4>1 DEF SInv, Shapes, AckedShape
        <4> QED
          BY Zenon, <3>1, <4>2
      <3>2. CASE t = Builder
        <4>1. acked' = [acked EXCEPT !.snap = Max({acked.snap, clone[t].applied})]
          BY Zenon, <1>3, <3>2 DEF Told, Builder, Worker, Core, SInv, Shapes, AckedShape
        <4>2. acked' = [acked EXCEPT !.applied = acked.applied,
                                     !.snap = Max({acked.snap, clone[t].applied}),
                                     !.head = acked.head]
          BY Zenon, <4>1 DEF SInv, Shapes, AckedShape
        <4> QED
          BY Zenon, <4>2
      <3> QED
        BY ZenonT(60), <1>6, <3>1, <3>2 DEF Tasks
    <2>2. /\ AckedShape' /\ acked'.vote = acked.vote /\ acked'.committed = acked.committed
          /\ acked'.log = acked.log /\ acked'.applied = applied
      BY ZenonT(60), <2>1 DEF SInv, Shapes, Shape, AckedShape
    <2>3. Holds(mem)'
      <3>1. ASSUME NEW x \in Nat PROVE x >= x
        BY ONLY SMTT(30), <3>1
      <3>2. mem' = mem /\ mem.sm.applied \in Nat /\ Holds(mem)
        BY Zenon, <1>3 DEF SInv, Shapes, Shape
      <3>3. mem.sm.applied >= applied
        BY Zenon, <2>1, <3>1, <3>2 DEF Holds
      <3> QED
        BY Zenon, <2>2, <3>2, <3>3 DEF Holds
    <2>4. Holds(disk)'
      BY SMTT(30), <1>1, <1>2, <1>3, <2>1, <2>2 DEF SInv, Shapes, Shape, Holds, HasRead
    <2> QED
      BY ZenonT(60), <1>1, <1>3, <1>4, <2>2, <2>3, <2>4, EndStep
  <1> QED
    BY ZenonT(60), <1>5, <1>6

\* A failed persist_to_disk leaves the file and answers nobody.
LEMMA FailStep ==
    ASSUME SInv, NEW t \in Tasks, PersistFails(t)
    PROVE  SInv'
  <1>1. /\ mem' = mem /\ disk' = disk /\ acked' = acked /\ PersistEnds(t)
        /\ pc[t] = "reading"
    BY Zenon DEF PersistFails
  <1>2. Shape(disk)' /\ AckedShape' /\ Holds(mem)' /\ Holds(disk)'
    BY Zenon, <1>1 DEF SInv, Shapes, Shape, AckedShape, Holds
  <1> QED
    BY Zenon, <1>1, <1>2, EndStep

\* A restart promises what the file holds.
LEMMA ReopenStep == ASSUME SInv, Reopen PROVE SInv'
  <1>1. /\ mem' = disk /\ disk' = disk /\ img' = [t \in Tasks |-> EmptyImage]
        /\ nread' = [t \in Tasks |-> 0] /\ pc' = [t \in Tasks |-> "idle"]
        /\ acked' = [vote |-> disk.vote, committed |-> disk.committed, log |-> disk.log,
                     applied |-> disk.sm.applied, snap |-> disk.snap.applied,
                     head |-> acked.head]
    BY Zenon DEF Reopen
  <1>2. Shape(disk)' /\ Shape(mem)'
    BY Zenon, <1>1 DEF SInv, Shapes, Shape
  <1>3. AckedShape'
    BY Zenon, <1>1 DEF SInv, Shapes, Shape, AckedShape
  <1>4. Shapes'
    BY ZenonT(60), <1>1, <1>2, <1>3, EmptyShape DEF Shapes, Shape
  <1>5. Holds(mem)' /\ Holds(disk)'
    BY SMTT(30), <1>1 DEF SInv, Shapes, Shape, Holds
  <1> QED
    BY Zenon, <1>1, <1>4, <1>5 DEF SInv, Tasks

\* Every step of the store keeps SInv.
LEMMA NextSInv == ASSUME SInv, [Next]_vars PROVE SInv'
  <1>1. CASE LogStorage
    BY ZenonT(60), <1>1, SaveStep, AppendStep, TruncateStep, PurgeStep DEF LogStorage
  <1>2. ASSUME UNCHANGED <<mem, disk, img, nread, persist_lock, pc, acked>> PROVE SInv'
    BY SMTT(30), <1>2 DEF SInv, Shapes, Shape, AckedShape, Holds, HasRead
  <1>3. CASE StateMachine
    <2>1. CASE SnapshotTick
      BY Zenon, <1>2, <2>1 DEF SnapshotTick, StoreFrame
    <2> QED
      BY Zenon, <1>3, <2>1, ApplyStep, SnapshotStep DEF StateMachine
  <1>4. CASE \E t \in Tasks : persist_to_disk(t)
    BY Zenon, <1>4, SnapshotStep, ReadStep, ReplaceStep, FailStep DEF persist_to_disk
  <1>5. CASE Reopen
    BY Zenon, <1>5, ReopenStep
  <1>6. CASE (\E e \in Entries : ClusterCommits(e)) \/ UNCHANGED vars
    BY Zenon, <1>2, <1>6 DEF ClusterCommits, vars
  <1> QED
    BY ZenonT(60), <1>1, <1>3, <1>4, <1>5, <1>6 DEF Next

\* The file of MemoryRaftStore holds, at every instant, the votes, entries,
\* commit index and applied entries that its operations have returned for,
\* although persist_to_disk reads the fields while other tasks change them.
THEOREM Durable == Spec => []Holds(disk)
  <1>1. SInv => Holds(disk)
    BY Zenon DEF SInv
  <1> QED
    BY <1>1, InitSInv, NextSInv, PTL DEF Spec

-----------------------------------------------------------------------------
(* The logs.                                                               *)

(* An image m of a store that has applied the entries up to a: its log     *)
(* holds every entry from there to its end and to the commit index, and    *)
(* agrees with the cluster up to the commit index.                         *)
Sound(m, a) ==
    /\ m.purged <= a
    /\ m.committed <= Len(chosen)
    /\ \A j \in DOMAIN m.log : \A i \in Indexes : a < i /\ i < j => i \in DOMAIN m.log
    /\ \A i \in Indexes : a < i /\ i <= m.committed => i \in DOMAIN m.log
    /\ \A i \in DOMAIN m.log : i <= m.committed => m.log[i] = chosen[i]

\* What a task has read is sound as soon as the log is part of it.
ReadSound(t) ==
    /\ nread[t] >= 1 => img[t].purged <= acked.applied
    /\ nread[t] >= 2 => img[t].committed <= mem.committed
    /\ nread[t] >= 3 => Sound(img[t], acked.applied)

LInv ==
    /\ chosen \in Seq(Entries) /\ Len(chosen) <= MaxIndex
    /\ Sound(mem, acked.applied)
    /\ Sound(disk, disk.sm.applied)
    /\ \A t \in Tasks : ReadSound(t)

\* A task that has read nothing vouches for nothing.
LEMMA ZeroBelow == ~(0 >= 1) /\ ~(0 >= 2) /\ ~(0 >= 3)
  BY SMTT(30)

\* Log indexes are numbers.
LEMMA IndexNat == Indexes \subseteq Nat
  BY SMTT(30), StoreAssumption DEF Indexes

\* Applying more does not make an image unsound.
LEMMA SoundWeakens ==
    ASSUME NEW m, Shape(m), NEW a \in Nat, NEW b \in Nat, a <= b, Sound(m, a)
    PROVE  Sound(m, b)
  <1>1. \A i \in Indexes : b < i => a < i
    BY SMTT(30), IndexNat
  <1>2. m.purged <= b
    BY SMTT(30) DEF Sound, Shape
  <1> QED
    BY Zenon, <1>1, <1>2 DEF Sound

\* An empty log has no gaps.
LEMMA InitLInv == Init => LInv
  <1> SUFFICES ASSUME Init PROVE LInv
    BY SMTT(30)
  <1>1. chosen \in Seq(Entries) /\ Len(chosen) = 0 /\ Len(chosen) <= MaxIndex
    BY SMTT(30), StoreAssumption DEF Init
  <1>2. Sound(EmptyImage, 0)
    BY SMTT(30), <1>1, IndexNat DEF Sound, EmptyImage
  <1>3. acked.applied = 0 /\ disk.sm.applied = 0 /\ mem = EmptyImage /\ disk = EmptyImage
    BY Zenon DEF Init, EmptyImage, EmptySm
  <1>4. \A t \in Tasks : nread[t] = 0
    BY Zenon DEF Init
  <1> QED
    BY SMTT(30), <1>1, <1>2, <1>3, <1>4 DEF LInv, ReadSound

\* An operation in memory.
LEMMA MemoryLog ==
    ASSUME SInv, SInv', LInv, StoreFrame, chosen' = chosen, acked'.applied = acked.applied,
           mem'.committed >= mem.committed, Sound(mem, acked.applied)'
    PROVE  LInv'
  <1>1. disk' = disk /\ img' = img /\ nread' = nread
    BY Zenon DEF StoreFrame
  <1>2. ASSUME NEW t \in Tasks PROVE ReadSound(t)'
    <2>1. ReadSound(t) /\ img[t].committed \in Nat /\ mem.committed \in Nat /\ mem'.committed \in Nat
      BY Zenon DEF LInv, SInv, Shapes, Shape
    <2>2. img[t].committed <= mem.committed => img[t].committed <= mem'.committed
      BY ONLY SMTT(30), <2>1, mem'.committed >= mem.committed
    <2> QED
      BY ZenonT(60), <1>1, <2>1, <2>2 DEF ReadSound, Sound
  <1> QED
    BY Zenon, <1>1, <1>2 DEF LInv, Sound

\* The operations of the worker and the builder, and save_vote, leave the log alone.
LEMMA OtherLog ==
    ASSUME SInv, SInv', LInv, StoreFrame, chosen' = chosen, acked' = acked,
           mem'.committed = mem.committed, mem'.log = mem.log, mem'.purged = mem.purged
    PROVE  LInv'
  <1>1. Sound(mem, acked.applied)'
    BY ZenonT(60) DEF LInv, Sound
  <1>2. mem'.committed >= mem.committed
    BY SMTT(30) DEF SInv, Shapes, Shape
  <1> QED
    BY Zenon, <1>1, <1>2, MemoryLog

\* The last index of a log that has entries is one of theirs.
LEMMA LastLogIn ==
    ASSUME NEW m, DOMAIN m.log \subseteq Indexes, DOMAIN m.log # {}
    PROVE  LastLog(m) \in DOMAIN m.log
  <1> DEFINE S == DOMAIN m.log \cup {0}
  <1>1. S \subseteq Nat /\ S # {} /\ \A y \in S : y <= MaxIndex
    BY SMTT(30), StoreAssumption DEF Indexes
  <1>2. MaxIndex \in Nat /\ LastLog(m) = Max(S)
    BY Zenon, StoreAssumption DEF LastLog, LastOf
  <1>3. PICK i \in DOMAIN m.log : i \in S /\ i > 0
    BY SMTT(30) DEF Indexes
  <1>4. Max(S) = 0 \/ Max(S) \in DOMAIN m.log
    <2>1. Max(S) \in S
      <3> HIDE DEF S
      <3> QED
        BY ZenonT(60), <1>1, <1>2, BoundedMax
    <2> QED
      BY Zenon, <2>1
  <1>5. Max(S) # 0
    <2>1. i <= Max(S)
      <3> HIDE DEF S
      <3> QED
        BY ZenonT(60), <1>1, <1>2, <1>3, BoundedMax
    <2> QED
      BY SMTT(30), <1>1, <1>3, <2>1
  <1> QED
    BY ZenonT(60), <1>2, <1>4, <1>5

\* A sound log holds everything between what is applied and its end.
LEMMA LogReaches ==
    ASSUME NEW m, Shape(m), NEW a \in Nat, Sound(m, a), NEW i \in Indexes, a < i, i <= LastLog(m)
    PROVE  i \in DOMAIN m.log
  <1>1. i \in Nat /\ a \in Nat /\ m.purged \in Nat /\ DOMAIN m.log \subseteq Indexes
    BY Zenon, IndexNat DEF Shape
  <1>2. CASE DOMAIN m.log = {}
    <2>1. i <= m.purged /\ m.purged <= a
      BY Zenon, <1>2 DEF LastLog, Sound
    <2> QED
      BY SMTT(30), <1>1, <2>1
  <1>3. CASE DOMAIN m.log # {}
    <2>1. LastLog(m) \in DOMAIN m.log
      BY Zenon, <1>1, <1>3, LastLogIn
    <2>2. LastLog(m) \in Nat
      BY Zenon, <1>1, <2>1, IndexNat
    <2>3. CASE i < LastLog(m)
      BY Zenon, <2>1, <2>3 DEF Sound
    <2> QED
      BY SMTT(30), <1>1, <2>1, <2>2, <2>3
  <1> QED
    BY Zenon, <1>2, <1>3

\* The end of a log is a number.
LEMMA LastLogNat == ASSUME NEW m, Shape(m) PROVE LastLog(m) \in Nat
  <1>1. CASE DOMAIN m.log = {}
    BY Zenon, <1>1 DEF LastLog, Shape
  <1>2. CASE DOMAIN m.log # {}
    <2>1. LastLog(m) \in DOMAIN m.log /\ DOMAIN m.log \subseteq Indexes
      BY ZenonT(60), <1>2, LastLogIn DEF Shape
    <2> QED
      BY ZenonT(60), <2>1, IndexNat
  <1> QED
    BY Zenon, <1>1, <1>2

\* The log storage leaves the state machine, the snapshot and the other tasks alone.
LEMMA LogStorageFrame ==
    ASSUME SInv, LogStorage
    PROVE  /\ StoreFrame /\ chosen' = chosen /\ clone' = clone
           /\ acked'.applied = acked.applied /\ acked'.snap = acked.snap
           /\ mem'.sm = mem.sm /\ mem'.snap = mem.snap /\ mem'.committed >= mem.committed
           /\ \E step \in {"persist", "purgeLog"} : pc' = [pc EXCEPT ![Core] = step]
  <1>1. /\ StoreFrame /\ chosen' = chosen /\ clone' = clone
        /\ \E step \in {"persist", "purgeLog"} : pc' = [pc EXCEPT ![Core] = step]
    BY Zenon DEF LogStorage, save_vote, save_committed, append, truncate_after, purge, PurgeLog, Goes
  <1>2. \/ \E v : mem' = [mem EXCEPT !.vote = v]
        \/ \E c \in Indexes : mem' = [mem EXCEPT !.committed = c] /\ c > mem.committed
        \/ \E l : mem' = [mem EXCEPT !.log = l]
        \/ \E k : mem' = [mem EXCEPT !.purged = k]
    BY Zenon DEF LogStorage, save_vote, save_committed, append, truncate_after, purge, PurgeLog
  <1>3. acked' = acked \/ \E l : acked' = [acked EXCEPT !.log = l]
    BY Zenon DEF LogStorage, save_vote, save_committed, append, truncate_after, purge, PurgeLog
  <1>4. mem'.sm = mem.sm /\ mem'.snap = mem.snap /\ mem'.committed >= mem.committed
    <2>1. Shape(mem) /\ mem.committed \in Nat
      BY Zenon DEF SInv, Shapes, Shape
    <2>2. CASE \E v : mem' = [mem EXCEPT !.vote = v]
      BY SMTT(30), <2>1, <2>2 DEF Shape
    <2>3. CASE \E c \in Indexes : mem' = [mem EXCEPT !.committed = c] /\ c > mem.committed
      BY SMTT(30), <2>1, <2>3, IndexNat DEF Shape
    <2>4. CASE \E l : mem' = [mem EXCEPT !.log = l]
      BY SMTT(30), <2>1, <2>4 DEF Shape
    <2>5. CASE \E k : mem' = [mem EXCEPT !.purged = k]
      BY SMTT(30), <2>1, <2>5 DEF Shape
    <2> QED
      BY ZenonT(60), <1>2, <2>2, <2>3, <2>4, <2>5
  <1>5. acked'.applied = acked.applied /\ acked'.snap = acked.snap
    BY Zenon, <1>3 DEF SInv, Shapes, AckedShape
  <1> QED
    BY ZenonT(60), <1>1, <1>4, <1>5

\* A commit index is saved for entries the log has.
LEMMA SaveCommittedSound ==
    ASSUME SInv, LInv, NEW c \in Indexes, save_committed(c), NEW a \in Nat, Sound(mem, a)
    PROVE  Sound(mem', a)
  <1>1. /\ mem' = [mem EXCEPT !.committed = c] /\ c <= LastLog(mem) /\ c \in DOMAIN chosen
        /\ \A i \in DOMAIN mem.log : i <= c => Matches(mem.log, i)
    BY Zenon DEF save_committed
  <1>2. /\ mem'.committed = c /\ mem'.log = mem.log /\ mem'.purged = mem.purged
        /\ Shape(mem) /\ c \in Nat
    BY ZenonT(60), <1>1, IndexNat DEF SInv, Shapes, Shape
  <1>3. c <= Len(chosen) /\ \A i \in DOMAIN mem.log : i <= c => mem.log[i] = chosen[i]
    BY SMTT(30), <1>1 DEF LInv, Matches
  <1>4. ASSUME NEW i \in Indexes, a < i, i <= c PROVE i \in DOMAIN mem.log
    <2>1. i <= LastLog(mem)
      BY SMTT(30), <1>1, <1>2, <1>4, IndexNat, LastLogNat
    <2> QED
      BY ZenonT(60), <1>2, <1>4, <2>1, LogReaches
  <1> QED
    BY Zenon, <1>2, <1>3, <1>4 DEF Sound

\* New entries continue the log, above the commit index.
LEMMA AppendSound ==
    ASSUME SInv, LInv, NEW upto \in Indexes, NEW new, append(upto, new), NEW a \in Nat, Sound(mem, a)
    PROVE  Sound(mem', a)
  <1> DEFINE added == (LastLog(mem) + 1) .. upto
             log == [i \in DOMAIN mem.log \cup added |->
                        IF i \in added THEN new[i] ELSE mem.log[i]]
  <1>1. mem' = [mem EXCEPT !.log = log] /\ LastLog(mem) >= acked.applied
    BY Zenon DEF append, SInv, Shapes, Shape
  <1>2. /\ mem'.committed = mem.committed /\ mem'.log = log /\ mem'.purged = mem.purged
        /\ Shape(mem) /\ acked.applied \in Nat /\ mem.committed \in Nat
    BY Zenon, <1>1 DEF SInv, Shapes, Shape, AckedShape
  <1>3. LastLog(mem) \in Nat /\ upto \in Nat /\ Indexes \subseteq Nat
    BY ZenonT(60), <1>2, LastLogNat, IndexNat
  <1>4. ASSUME NEW i \in Indexes, a < i, i \notin added PROVE i <= upto => i \in DOMAIN mem.log
    <2>1. i <= upto => i <= LastLog(mem)
      BY SMTT(30), <1>3, <1>4
    <2> QED
      BY ZenonT(60), <1>2, <1>4, <2>1, <1>3, LogReaches
  <1>5. ASSUME NEW i \in added
        PROVE  i \in Nat /\ i \notin DOMAIN mem.log /\ i > mem.committed /\ i <= upto
    <2>1. i \in Nat /\ i > LastLog(mem) /\ i \in Indexes
      BY SMTT(30), <1>3, StoreAssumption DEF Indexes
    <2>2. i \notin DOMAIN mem.log
      BY SMTT(30), <1>2, <1>3, <2>1, LastLogLast DEF Shape
    <2>3. acked.applied < i
      BY SMTT(30), <1>1, <1>2, <1>3, <2>1
    <2> QED
      BY SMTT(30), <1>2, <1>3, <2>1, <2>2, <2>3 DEF LInv, Sound
  <1> HIDE DEF added
  <1>6. /\ DOMAIN log = DOMAIN mem.log \cup added
        /\ \A i \in DOMAIN mem.log : log[i] = mem.log[i]
    BY Zenon, <1>5
  <1> HIDE DEF log
  <1>7. ASSUME NEW j \in DOMAIN log, NEW i \in Indexes, a < i, i < j
        PROVE  i \in DOMAIN log
    <2>1. CASE j \in DOMAIN mem.log
      BY ZenonT(60), <1>3, <1>6, <1>7, <2>1 DEF Sound
    <2>2. CASE j \in added
      <3>1. j <= upto /\ j \in Nat /\ i \in Nat
        BY ZenonT(60), <1>3, <1>5, <1>7, <2>2
      <3>2. i <= upto
        BY ONLY SMTT(30), <3>1, i < j, upto \in Nat
      <3> QED
        BY ZenonT(60), <1>4, <1>6, <1>7, <3>2
    <2> QED
      BY ZenonT(60), <1>6, <1>7, <2>1, <2>2
  <1>8. \A i \in DOMAIN log : i <= mem.committed => log[i] = chosen[i]
    <2>1. ASSUME NEW i \in added PROVE ~(i <= mem.committed)
      <3>1. i \in Nat /\ i > mem.committed /\ mem.committed \in Nat
        BY Zenon, <1>2, <1>5
      <3> QED
        BY ONLY SMTT(30), <3>1
    <2> QED
      BY SMTT(30), <1>3, <1>6, <2>1 DEF Sound
  <1> QED
    BY ZenonT(60), <1>2, <1>3, <1>6, <1>7, <1>8 DEF Sound

\* Entries up to the commit index are committed, so they are not truncated.
LEMMA TruncateSound ==
    ASSUME SInv, LInv, NEW k \in 0 .. MaxIndex, truncate_after(k), NEW a \in Nat, Sound(mem, a)
    PROVE  Sound(mem', a)
  <1> DEFINE Kept(l) == [i \in {j \in DOMAIN l : j <= k} |-> l[i]]
  <1>1. /\ mem' = [mem EXCEPT !.log = Kept(mem.log)]
        /\ \A i \in DOMAIN mem.log : i > k => ~Matches(mem.log, i)
    BY Zenon DEF truncate_after, RestrictDomain, Restrict, SInv, Shapes, Shape
  <1>2. /\ mem'.committed = mem.committed /\ mem'.log = Kept(mem.log) /\ mem'.purged = mem.purged
        /\ Shape(mem) /\ mem.committed \in Nat
    BY ZenonT(60), <1>1 DEF SInv, Shapes, Shape
  <1>3. k \in Nat /\ DOMAIN mem.log \subseteq Indexes
    BY SMTT(30), <1>2, StoreAssumption DEF Shape
  <1>4. /\ DOMAIN Kept(mem.log) = {j \in DOMAIN mem.log : j <= k}
        /\ \A i \in DOMAIN Kept(mem.log) : Kept(mem.log)[i] = mem.log[i]
    BY SMTT(30)
  <1>5. ASSUME NEW i \in DOMAIN mem.log, i <= mem.committed PROVE i <= k
    <2>1. i \in DOMAIN chosen
      BY SMTT(30), <1>2, <1>3, <1>5 DEF Sound, LInv, Indexes
    <2>2. Matches(mem.log, i)
      BY Zenon, <1>3, <1>5, <2>1 DEF Sound, Matches
    <2>3. i \in Nat
      BY ZenonT(60), <1>3, IndexNat
    <2> QED
      BY SMTT(30), <1>1, <1>3, <2>2, <2>3
  <1> HIDE DEF Kept
  <1>6. ASSUME NEW j \in DOMAIN Kept(mem.log), NEW i \in Indexes, a < i, i < j
        PROVE  i \in DOMAIN Kept(mem.log)
    <2>1. i \in DOMAIN mem.log
      BY Zenon, <1>3, <1>4, <1>6 DEF Sound
    <2> QED
      BY SMTT(30), <1>3, <1>4, <1>6, <2>1, IndexNat
  <1> QED
    BY ZenonT(60), <1>2, <1>3, <1>4, <1>5, <1>6 DEF Sound

\* purge only removes entries that need not be in the log.
LEMMA PurgeSound ==
    ASSUME SInv, (\E k \in Indexes : purge(k)) \/ PurgeLog, NEW a \in Nat, Sound(mem, a), mem'.purged <= a
    PROVE  Sound(mem', a)
  <1>1. ASSUME NEW k \in Indexes, purge(k) PROVE Sound(mem', a)
    <2>1. mem' = [mem EXCEPT !.purged = k]
      BY Zenon, <1>1 DEF purge
    <2>2. mem'.committed = mem.committed /\ mem'.log = mem.log
      BY Zenon, <2>1 DEF SInv, Shapes, Shape
    <2> QED
      BY Zenon, <2>2 DEF Sound
  <1>2. CASE PurgeLog
    <2> DEFINE Kept(l) == [i \in {j \in DOMAIN l : j > mem.purged} |-> l[i]]
    <2>1. mem' = [mem EXCEPT !.log = Kept(mem.log)]
      BY Zenon, <1>2 DEF PurgeLog, RestrictDomain, Restrict, SInv, Shapes, Shape
    <2>2. /\ mem'.committed = mem.committed /\ mem'.log = Kept(mem.log)
          /\ mem'.purged = mem.purged /\ mem.purged \in Nat
      BY ZenonT(60), <2>1 DEF SInv, Shapes, Shape
    <2>3. /\ DOMAIN Kept(mem.log) = {j \in DOMAIN mem.log : j > mem.purged}
          /\ \A i \in DOMAIN Kept(mem.log) : Kept(mem.log)[i] = mem.log[i]
      BY SMTT(30)
    <2> HIDE DEF Kept
    <2>4. \A i \in Indexes : a < i => i > mem.purged
      BY SMTT(30), <2>2, IndexNat DEF Sound
    <2> QED
      BY ZenonT(60), <2>2, <2>3, <2>4 DEF Sound
  <1> QED
    BY Zenon, <1>1, <1>2

\* The log storage keeps a sound log sound.
LEMMA LogStorageSound ==
    ASSUME SInv, LInv, LogStorage, NEW a \in Nat, Sound(mem, a), mem'.purged <= a
    PROVE  Sound(mem', a)
  <1>1. ASSUME NEW v \in 1 .. MaxVote, save_vote(v) PROVE Sound(mem', a)
    <2>1. mem' = [mem EXCEPT !.vote = v]
      BY Zenon, <1>1 DEF save_vote
    <2>2. mem'.committed = mem.committed /\ mem'.log = mem.log /\ mem'.purged = mem.purged
      BY Zenon, <2>1 DEF SInv, Shapes, Shape
    <2> QED
      BY Zenon, <2>2 DEF Sound
  <1> QED
    BY ZenonT(60), <1>1, SaveCommittedSound, AppendSound, TruncateSound, PurgeSound DEF LogStorage

\* Log storage operations keep LInv.
LEMMA LogStorageLog == ASSUME SInv, SInv', LInv, LogStorage PROVE LInv'
  <1>1. mem'.purged <= acked.applied
    <2>1. ASSUME NEW k \in Indexes, purge(k) PROVE mem'.purged = k /\ k <= acked.applied
      <3>1. mem' = [mem EXCEPT !.purged = k] /\ k <= acked.applied
        BY Zenon, <2>1 DEF purge
      <3> QED
        BY ZenonT(60), <3>1 DEF SInv, Shapes, Shape
    <2>2. CASE ~\E k \in Indexes : purge(k)
      <3>1. \/ \E v : mem' = [mem EXCEPT !.vote = v]
            \/ \E c \in Indexes : mem' = [mem EXCEPT !.committed = c]
            \/ \E l : mem' = [mem EXCEPT !.log = l]
        BY Zenon, <2>2 DEF LogStorage, save_vote, save_committed, append, truncate_after, PurgeLog
      <3>2. mem'.purged = mem.purged
        BY ZenonT(60), <3>1 DEF SInv, Shapes, Shape
      <3> QED
        BY Zenon, <3>2 DEF LInv, Sound
    <2> QED
      BY Zenon, <2>1, <2>2
  <1>2. acked.applied \in Nat /\ Sound(mem, acked.applied)
    BY Zenon DEF SInv, Shapes, AckedShape, LInv
  <1>3. Sound(mem', acked.applied)
    BY Zenon, <1>1, <1>2, LogStorageSound
  <1>4. Sound(mem, acked.applied)'
    BY Zenon, <1>3, LogStorageFrame DEF Sound
  <1> QED
    BY ZenonT(60), <1>4, LogStorageFrame, MemoryLog

\* One more field is read: the log after the purge point and the commit index.
LEMMA ReadLog ==
    ASSUME SInv, SInv', LInv, NEW t \in Tasks, PersistLocks(t) \/ ReadField(t)
    PROVE  LInv'
  <1> DEFINE n == nread[t]
             r == Reads(t, img[t])
  <1>1. /\ mem' = mem /\ disk' = disk /\ acked' = acked /\ chosen' = chosen
        /\ img' = [img EXCEPT ![t] = r] /\ nread' = [nread EXCEPT ![t] = n + 1]
    <2>1. CASE PersistLocks(t)
      <3>1. n = 0
        BY Zenon, <2>1 DEF PersistLocks, SInv
      <3> QED
        BY SMTT(30), <2>1, <3>1 DEF PersistLocks, SInv, Shapes
    <2>2. CASE ReadField(t)
      BY Zenon, <2>2 DEF ReadField, SInv, Shapes
    <2> QED
      BY ZenonT(60), <2>1, <2>2
  <1>2. n \in 0 .. 4
    <2>1. CASE PersistLocks(t)
      BY SMTT(30), <2>1 DEF PersistLocks, SInv
    <2>2. CASE ReadField(t)
      <3>1. n + 1 < 6 /\ pc[t] = "reading"
        BY Zenon, <2>2 DEF ReadField, ReadOrder
      <3>2. HasRead(t)
        BY Zenon, <3>1 DEF SInv
      <3>3. n \in 1 .. 5
        BY ZenonT(60), <3>2 DEF HasRead
      <3> QED
        BY SMTT(30), <3>1, <3>3
    <2> QED
      BY ZenonT(60), <2>1, <2>2
  <1>3. /\ r.purged = IF n = 0 THEN mem.purged ELSE img[t].purged
        /\ r.committed = IF n = 1 THEN mem.committed ELSE img[t].committed
        /\ r.log = IF n = 2 THEN mem.log ELSE img[t].log
    BY SMTT(30), <1>2, ReadsFacts DEF SInv, Shapes
  <1> HIDE DEF r
  <1>4. img'[t] = r /\ nread'[t] = n + 1
    BY Zenon, <1>1 DEF SInv, Shapes
  <1>5. ReadSound(t) /\ Sound(mem, acked.applied) /\ chosen \in Seq(Entries)
    BY Zenon DEF LInv
  <1>6. /\ img[t].committed \in Nat /\ mem.committed \in Nat
        /\ Indexes \subseteq Nat /\ DOMAIN mem.log \subseteq Indexes
    BY ZenonT(60), IndexNat DEF SInv, Shapes, Shape
  <1>7. Len(chosen) \in Nat
    BY SMTT(30), <1>5
  <1>8. ReadSound(t)'
    <2>1. CASE n = 0
      <3>1. r.purged <= acked.applied
        BY ZenonT(60), <1>3, <1>5, <2>1 DEF Sound
      <3>2. n + 1 = 1 /\ ~(1 >= 2) /\ ~(1 >= 3)
        BY ONLY SMTT(30), <2>1
      <3>3. img'[t].purged <= acked'.applied
        BY ZenonT(60), <1>1, <1>3, <1>4, <2>1, <3>1
      <3> QED
        BY ZenonT(60), <1>4, <3>2, <3>3 DEF ReadSound
    <2>2. CASE n = 1
      <3>1. r.purged <= acked.applied /\ r.committed = mem.committed
        <4>1. n >= 1 /\ n # 0
          BY ONLY SMTT(30), <2>2
        <4> QED
          BY ZenonT(60), <1>3, <1>5, <2>2, <4>1 DEF ReadSound
      <3>2. r.committed <= mem.committed
        <4>1. ASSUME NEW x \in Nat PROVE x <= x
          BY ONLY SMTT(30), <4>1
        <4> QED
          BY ZenonT(60), <1>6, <3>1, <4>1
      <3>3. n + 1 = 2 /\ ~(2 >= 3)
        BY ONLY SMTT(30), <2>2
      <3> QED
        BY ZenonT(60), <1>1, <1>4, <3>1, <3>2, <3>3 DEF ReadSound
    <2>3. CASE n = 2
      <3>1. /\ r.purged <= acked.applied /\ r.committed <= mem.committed
            /\ r.committed = img[t].committed /\ r.log = mem.log
        <4>1. n >= 1 /\ n >= 2 /\ n # 0 /\ n # 1
          BY ONLY SMTT(30), <2>3
        <4> QED
          BY ZenonT(60), <1>3, <1>5, <2>3, <4>1 DEF ReadSound
      <3>2. mem.committed <= Len(chosen) /\ r.committed \in Nat
        BY ZenonT(60), <1>5, <1>6, <3>1 DEF Sound
      <3>3. /\ \A i \in Indexes : i <= r.committed => i <= mem.committed
            /\ r.committed <= Len(chosen)
        <4>1. ASSUME NEW x \in Nat, NEW y \in Nat, x <= y, NEW i \in Nat, i <= x PROVE i <= y
          BY SMTT(30), <4>1
        <4> QED
          BY ZenonT(60), <1>6, <1>7, <3>1, <3>2, <4>1
      <3>4. Sound(r, acked.applied)
        BY ZenonT(60), <1>5, <1>6, <3>1, <3>2, <3>3 DEF Sound
      <3> QED
        BY ZenonT(60), <1>1, <1>4, <2>3, <3>1, <3>4 DEF ReadSound, Sound
    <2>4. CASE n \in 3 .. 4
      <3>1. /\ r.purged = img[t].purged /\ r.committed = img[t].committed /\ r.log = img[t].log
        <4>1. n # 0 /\ n # 1 /\ n # 2
          BY ONLY SMTT(30), <2>4
        <4> QED
          BY Zenon, <1>3, <4>1
      <3>2. n >= 1 /\ n >= 2 /\ n >= 3
        BY ONLY SMTT(30), <2>4
      <3> QED
        BY ZenonT(60), <1>1, <1>4, <1>5, <3>1, <3>2 DEF ReadSound, Sound
    <2>5. n = 0 \/ n = 1 \/ n = 2 \/ n \in 3 .. 4
      BY ONLY SMTT(30), <1>2
    <2> QED
      BY ZenonT(60), <2>1, <2>2, <2>3, <2>4, <2>5
  <1>9. ASSUME NEW u \in Tasks, u # t PROVE ReadSound(u)'
    <2>1. img'[u] = img[u] /\ nread'[u] = nread[u] /\ ReadSound(u)
      BY Zenon, <1>1, <1>9 DEF SInv, Shapes, LInv
    <2> QED
      BY ZenonT(60), <1>1, <2>1 DEF ReadSound, Sound
  <1> QED
    BY ZenonT(60), <1>1, <1>8, <1>9 DEF LInv, Sound

\* The end of a persist: the image read becomes the file, or is dropped.
LEMMA EndLog ==
    ASSUME SInv, SInv', LInv, NEW t \in Tasks, PersistReplaces(t) \/ PersistFails(t)
    PROVE  LInv'
  <1>1. /\ mem' = mem /\ chosen' = chosen /\ nread' = [nread EXCEPT ![t] = 0]
        /\ pc[t] = "reading" /\ nread[t] + 1 = 6
    BY ZenonT(60) DEF PersistReplaces, PersistFails, PersistEnds, ReadOrder
  <1>2. nread[t] = 5 /\ HasRead(t)
    BY SMTT(30), <1>1 DEF SInv, Shapes
  <1>3. \A u \in Tasks : nread'[u] = 0
    <2>1. \A u \in Tasks : u # t => pc[u] # "reading"
      BY Zenon, <1>2 DEF SInv, HasRead
    <2> QED
      BY ZenonT(60), <1>1, <2>1 DEF SInv, Shapes
  <1>4. \A u \in Tasks : ReadSound(u)'
    BY ZenonT(60), <1>3, ZeroBelow DEF ReadSound
  <1>5. acked.applied \in Nat /\ Shape(img[t]) /\ Shape(mem) /\ Sound(mem, acked.applied)
    BY Zenon DEF SInv, Shapes, AckedShape, LInv
  <1>6. CASE PersistFails(t)
    <2>1. disk' = disk /\ acked' = acked
      BY Zenon, <1>6 DEF PersistFails
    <2> QED
      BY ZenonT(60), <1>1, <1>4, <2>1 DEF LInv, Sound
  <1>7. CASE PersistReplaces(t)
    <2> DEFINE r == Reads(t, img[t])
    <2>1. disk' = r
      BY ZenonT(60), <1>7 DEF PersistReplaces
    <2>2. /\ Shape(r) /\ r.purged = img[t].purged /\ r.committed = img[t].committed
          /\ r.log = img[t].log /\ r.sm = img[t].sm
      <3>1. 5 # 0 /\ 5 # 1 /\ 5 # 2 /\ 5 # 3 /\ 5 # 4 /\ 5 \in 0 .. 5
        BY ONLY SMTT(30)
      <3>2. Shape(mem) /\ Shape(img[t]) /\ nread[t] \in 0 .. 5
        BY Zenon, <1>2, <3>1 DEF SInv, Shapes
      <3>3. /\ Shape(r)
            /\ r.purged = IF nread[t] = 0 THEN mem.purged ELSE img[t].purged
            /\ r.committed = IF nread[t] = 1 THEN mem.committed ELSE img[t].committed
            /\ r.log = IF nread[t] = 2 THEN mem.log ELSE img[t].log
            /\ r.sm = IF nread[t] = 4 THEN mem.sm ELSE img[t].sm
        BY SMTT(30), <3>2, ReadsFacts
      <3> HIDE DEF r
      <3> QED
        BY Zenon, <1>2, <3>1, <3>3
    <2> HIDE DEF r
    <2>3. /\ r.sm.applied >= acked.applied /\ r.sm.applied \in Nat
          /\ ReadSound(t) /\ Sound(img[t], acked.applied)
      BY SMTT(30), <1>2, <2>2 DEF HasRead, Shape, LInv, ReadSound
    <2>4. Sound(r, acked.applied)
      BY Zenon, <2>2, <2>3 DEF Sound
    <2>5. Sound(r, r.sm.applied)
      BY ZenonT(60), <1>5, <2>2, <2>3, <2>4, SoundWeakens
    <2>6. Sound(disk, disk.sm.applied)'
      BY ZenonT(60), <1>1, <2>1, <2>5 DEF Sound
    <2>7. acked'.applied \in Nat /\ acked.applied <= acked'.applied
      <3>1. acked' = Told(t)
        BY Zenon, <1>7 DEF PersistReplaces
      <3>2. acked'.applied = acked.applied \/ acked'.applied = mem.sm.applied
        <4>1. CASE t = Core
          BY ZenonT(60), <3>1, <4>1 DEF Told, Core, Worker, Builder, SInv, Shapes, AckedShape
        <4>2. CASE t = Worker
          BY ZenonT(60), <3>1, <4>2 DEF Told, Core, Worker, Builder, SInv, Shapes, AckedShape
        <4>3. CASE t = Builder
          BY ZenonT(60), <3>1, <4>3 DEF Told, Core, Worker, Builder, SInv, Shapes, AckedShape
        <4> QED
          BY ZenonT(60), <4>1, <4>2, <4>3 DEF Tasks
      <3>3. mem.sm.applied >= acked.applied /\ mem.sm.applied \in Nat
        BY Zenon DEF SInv, Holds, Shapes, Shape
      <3> QED
        BY SMTT(30), <1>5, <3>2, <3>3
    <2>8. Sound(mem, acked'.applied)
      BY ZenonT(60), <1>5, <2>7, SoundWeakens
    <2>9. Sound(mem, acked.applied)'
      BY Zenon, <1>1, <2>8 DEF Sound
    <2> QED
      BY ZenonT(60), <1>1, <1>4, <2>6, <2>9 DEF LInv
  <1> QED
    BY Zenon, <1>6, <1>7

\* What open reads is as sound as the file was.
LEMMA ReopenLog == ASSUME SInv, LInv, Reopen PROVE LInv'
  <1>1. /\ mem' = disk /\ disk' = disk /\ chosen' = chosen
        /\ acked'.applied = disk.sm.applied /\ \A t \in Tasks : nread'[t] = 0
    BY Zenon DEF Reopen
  <1>2. chosen \in Seq(Entries) /\ Len(chosen) <= MaxIndex /\ Sound(disk, disk.sm.applied)
    BY Zenon DEF LInv
  <1>3. Sound(mem, acked.applied)' /\ Sound(disk, disk.sm.applied)'
    BY Zenon, <1>1, <1>2 DEF Sound
  <1>4. \A t \in Tasks : ReadSound(t)'
    BY ZenonT(60), <1>1, ZeroBelow DEF ReadSound
  <1> QED
    BY ZenonT(60), <1>1, <1>2, <1>3, <1>4 DEF LInv

\* The entries the cluster has committed stay.
LEMMA CommitSound ==
    ASSUME LInv, NEW e \in Entries, ClusterCommits(e), NEW m, NEW a, Shape(m), Sound(m, a)
    PROVE  /\ m.committed <= Len(chosen')
           /\ \A i \in DOMAIN m.log : i <= m.committed => m.log[i] = chosen'[i]
  <1>1. /\ chosen \in Seq(Entries) /\ Len(chosen') = Len(chosen) + 1
        /\ Len(chosen) \in Nat /\ \A i \in 1 .. Len(chosen) : chosen'[i] = chosen[i]
    BY SMTT(30) DEF LInv, ClusterCommits
  <1>2. m.committed \in Nat /\ m.committed <= Len(chosen) /\ DOMAIN m.log \subseteq Indexes
    BY ZenonT(60) DEF Shape, Sound
  <1>3. \A i \in DOMAIN m.log : i <= m.committed => i \in 1 .. Len(chosen)
    BY SMTT(30), <1>1, <1>2 DEF Indexes
  <1> QED
    BY SMTT(30), <1>1, <1>2, <1>3 DEF Sound

\* More committed entries make no log unsound.
LEMMA CommitLog ==
    ASSUME SInv, LInv, NEW e \in Entries, ClusterCommits(e)
    PROVE  LInv'
  <1>1. /\ UNCHANGED <<mem, disk, img, nread, acked>>
        /\ chosen' = Append(chosen, e) /\ Len(chosen) < MaxIndex
    BY Zenon DEF ClusterCommits
  <1>2. chosen' \in Seq(Entries) /\ Len(chosen') = Len(chosen) + 1 /\ Len(chosen) \in Nat
    BY SMTT(30), <1>1 DEF LInv
  <1>3. Len(chosen') <= MaxIndex
    BY SMTT(30), <1>1, <1>2, StoreAssumption
  <1>4. Sound(mem, acked.applied)'
    BY ZenonT(60), <1>1, CommitSound DEF LInv, Sound, SInv, Shapes
  <1>5. Sound(disk, disk.sm.applied)'
    BY ZenonT(60), <1>1, CommitSound DEF LInv, Sound, SInv, Shapes
  <1>6. ASSUME NEW t \in Tasks PROVE ReadSound(t)'
    <2>1. ReadSound(t) /\ Shape(img[t])
      BY Zenon DEF LInv, SInv, Shapes
    <2> QED
      BY ZenonT(60), <1>1, CommitSound, <2>1 DEF ReadSound, Sound
  <1> QED
    BY ZenonT(60), <1>2, <1>3, <1>4, <1>5, <1>6 DEF LInv

\* Every step of the store keeps LInv.
LEMMA NextLInv == ASSUME SInv, SInv', LInv, [Next]_vars PROVE LInv'
  <1>1. CASE LogStorage
    BY Zenon, <1>1, LogStorageLog
  <1>2. ASSUME NEW sm, mem' = [mem EXCEPT !.sm = sm] \/ mem' = [mem EXCEPT !.snap = sm] \/ mem' = mem,
               StoreFrame, chosen' = chosen, acked' = acked
        PROVE  LInv'
    <2>1. mem'.committed = mem.committed /\ mem'.log = mem.log /\ mem'.purged = mem.purged
      BY ZenonT(60), <1>2 DEF SInv, Shapes, Shape
    <2> QED
      BY ZenonT(60), <1>2, <2>1, OtherLog
  <1>3. CASE StateMachine
    <2>1. CASE (\E k \in Indexes : apply(k)) \/ (\E n \in Indexes : install_snapshot(n))
      <3>1. \E sm : mem' = [mem EXCEPT !.sm = sm]
        BY Zenon, <2>1 DEF apply, install_snapshot
      <3>2. StoreFrame /\ chosen' = chosen /\ acked' = acked
        BY Zenon, <2>1 DEF apply, install_snapshot
      <3> QED
        BY Zenon, <1>2, <3>1, <3>2
    <2>2. CASE SnapshotTick \/ build_snapshot
      BY ZenonT(60), <1>2, <2>2 DEF SnapshotTick, build_snapshot
    <2> QED
      BY Zenon, <1>3, <2>1, <2>2 DEF StateMachine
  <1>4. CASE \E t \in Tasks : persist_to_disk(t)
    <2>1. ASSUME NEW t \in Tasks, WriteSnapshot(t) PROVE LInv'
      BY Zenon, <1>2, <2>1 DEF WriteSnapshot
    <2> QED
      BY ZenonT(60), <1>4, <2>1, ReadLog, EndLog DEF persist_to_disk
  <1>5. CASE Reopen
    BY ZenonT(60), <1>5, ReopenLog
  <1>6. CASE \E e \in Entries : ClusterCommits(e)
    BY ZenonT(60), <1>6, CommitLog
  <1>7. CASE UNCHANGED vars
    BY ZenonT(60), <1>7 DEF vars, LInv, ReadSound, Sound
  <1> QED
    BY ZenonT(60), <1>1, <1>3, <1>4, <1>5, <1>6, <1>7 DEF Next

\* The file of MemoryRaftStore can be resumed from at every instant: no entry
\* between the last applied one and the end of its log is missing, although
\* persist_to_disk reads the log and the state machine at different times.
THEOREM Resumable == Spec => []FileResumable
  <1>1. SInv /\ LInv => FileResumable
    <2> SUFFICES ASSUME SInv, LInv, NEW i \in 1 .. LastLog(disk), i > disk.sm.applied
                 PROVE  i \in DOMAIN disk.log
      BY Zenon DEF FileResumable
    <2>1. /\ Shape(disk) /\ Sound(disk, disk.sm.applied) /\ disk.sm.applied \in Nat
          /\ LastLog(disk) \in Nat
      BY ZenonT(60), LastLogNat DEF SInv, Shapes, Shape, LInv
    <2>2. CASE DOMAIN disk.log = {}
      BY SMTT(30), <2>1, <2>2 DEF LastLog, Sound, Shape
    <2>3. CASE DOMAIN disk.log # {}
      <3>1. LastLog(disk) \in Indexes
        BY ZenonT(60), <2>1, <2>3, LastLogIn DEF Shape
      <3>2. i \in Indexes /\ i <= LastLog(disk) /\ disk.sm.applied < i
        BY SMTT(30), <2>1, <3>1, StoreAssumption DEF Indexes
      <3> QED
        BY ZenonT(60), <2>1, <3>2, LogReaches
    <2> QED
      BY Zenon, <2>2, <2>3
  <1> QED
    BY <1>1, InitSInv, NextSInv, InitLInv, NextLInv, PTL DEF Spec
=============================================================================
