------------------------- MODULE RaftStoreRegister -------------------------
(***************************************************************************)
(* What follows from faithful state machines: the acknowledged head is in  *)
(* the file, and MemoryRaftStore implements the unsafe-head register.      *)
(***************************************************************************)
EXTENDS RaftStoreFaithful

-----------------------------------------------------------------------------
(* The heads.                                                              *)

\* A state machine not ahead of memory that covers the acknowledged head.
Covers(sm) ==
    /\ sm.applied <= mem.sm.applied
    /\ block_number(sm.head) >= block_number(acked.head)

HInv ==
    /\ acked.head \in Entries
    /\ Covers(mem.sm) /\ Covers(disk.sm)
    /\ \A t \in Tasks : nread[t] >= 5 => Covers(img[t].sm)

\* What is true of the head of a state machine of the store.
LEMMA MachineFacts ==
    ASSUME FInv, LInv, NEW sm \in Machines
    PROVE  /\ sm.applied \in Nat /\ sm.applied \in 0 .. Len(chosen)
           /\ sm.head \in Entries /\ block_number(sm.head) \in Nat
           /\ sm.head = HeadOf(chosen, sm.applied) /\ chosen \in Seq(Entries)
  <1>1. /\ sm \in StateMachines /\ sm.applied <= Len(chosen) /\ sm.head = HeadOf(chosen, sm.applied)
        /\ chosen \in Seq(Entries)
    BY Zenon DEF FInv, Faithful, LInv
  <1>2. sm.applied \in Nat /\ sm.head \in Entries
    BY <1>1, StoreAssumption DEF StateMachines
  <1> QED
    BY <1>1, <1>2, BlockNumberNat

\* Of two state machines, the one that applied more has the higher head.
LEMMA MachineOrder ==
    ASSUME FInv, LInv, NEW x \in Machines, NEW y \in Machines, x.applied <= y.applied
    PROVE  block_number(x.head) <= block_number(y.head)
  <1>1. /\ x.applied \in Nat /\ y.applied \in 0 .. Len(chosen) /\ chosen \in Seq(Entries)
        /\ x.head = HeadOf(chosen, x.applied) /\ y.head = HeadOf(chosen, y.applied)
    BY Zenon, MachineFacts
  <1>2. x.applied \in 0 .. y.applied
    BY <1>1
  <1> QED
    BY Zenon, <1>1, <1>2, HeadMonotone

\* No head, and none acknowledged.
LEMMA InitHInv == Init => HInv
  <1> SUFFICES ASSUME Init PROVE HInv
    OBVIOUS
  <1>1. acked.head = 0 /\ mem.sm = EmptySm /\ disk.sm = EmptySm /\ \A t \in Tasks : nread[t] = 0
    BY Zenon DEF Init, EmptyImage
  <1>2. 0 \in Entries /\ EmptySm.applied = 0 /\ EmptySm.head = 0 /\ block_number(0) = 0
    BY StoreAssumption DEF EmptySm, Entries, Blank, block_number
  <1> QED
    BY <1>1, <1>2 DEF HInv, Covers

\* A step that leaves the acknowledged head and the images alone, and applies
\* nothing or something.
LEMMA MemoryHead ==
    ASSUME SInv, LInv, FInv, HInv, acked'.head = acked.head,
           UNCHANGED <<disk, img, nread>>,
           \/ mem'.sm = mem.sm
           \/ /\ mem'.sm.applied \in Nat /\ mem'.sm.applied > mem.sm.applied
              /\ block_number(mem'.sm.head) \in Nat
              /\ block_number(mem'.sm.head) >= block_number(mem.sm.head)
    PROVE  HInv'
  <1>1. {mem.sm, disk.sm} \subseteq Machines /\ \A t \in Tasks : img[t].sm \in Machines
    BY Zenon DEF Machines
  <1>2. /\ mem'.sm.applied >= mem.sm.applied
        /\ block_number(mem'.sm.head) >= block_number(mem.sm.head)
        /\ mem'.sm.applied \in Nat /\ block_number(mem'.sm.head) \in Nat
    BY SMTT(30), <1>1, MachineFacts
  <1>3. /\ block_number(mem.sm.head) \in Nat /\ mem.sm.applied \in Nat
        /\ block_number(acked.head) \in Nat
    BY Zenon, <1>1, MachineFacts, BlockNumberNat DEF HInv
  <1>4. ASSUME NEW sm \in Machines, Covers(sm)
        PROVE  sm.applied <= mem'.sm.applied /\ block_number(sm.head) >= block_number(acked'.head)
    <2>1. sm.applied \in Nat
      BY Zenon, <1>1, MachineFacts
    <2> QED
      BY SMTT(30), <1>2, <1>3, <1>4, <2>1 DEF Covers
  <1>5. Covers(mem.sm)'
    BY SMTT(30), <1>2, <1>3 DEF Covers, HInv
  <1>6. Covers(disk.sm)'
    BY Zenon, <1>1, <1>4 DEF Covers, HInv
  <1>7. ASSUME NEW t \in Tasks, nread'[t] >= 5 PROVE Covers(img[t].sm)'
    BY Zenon, <1>1, <1>4, <1>7 DEF Covers, HInv
  <1> QED
    BY Zenon, <1>5, <1>6, <1>7 DEF HInv

\* apply and install_snapshot raise the head or keep it.
LEMMA ApplyHeads ==
    ASSUME SInv, LInv, FInv,
           (\E k \in Indexes : apply(k)) \/ (\E n \in Indexes : install_snapshot(n))
    PROVE  /\ mem'.sm.applied \in Nat /\ mem'.sm.applied > mem.sm.applied
           /\ block_number(mem'.sm.head) \in Nat
           /\ block_number(mem'.sm.head) >= block_number(mem.sm.head)
           /\ acked' = acked /\ crashes' = crashes /\ UNCHANGED <<disk, img, nread>>
  <1>1. PICK k \in Indexes :
            /\ mem' = [mem EXCEPT !.sm = [applied |-> k, head |-> HeadOf(chosen, k)]]
            /\ k <= Len(chosen) /\ mem.sm.applied < k
    <2>1. ASSUME NEW k \in Indexes, apply(k)
          PROVE  /\ mem' = [mem EXCEPT !.sm = [applied |-> k, head |-> HeadOf(chosen, k)]]
                 /\ k <= Len(chosen) /\ mem.sm.applied < k
      BY Zenon, <2>1, ApplyFaithful DEF apply
    <2>2. ASSUME NEW n \in Indexes, install_snapshot(n)
          PROVE  /\ mem' = [mem EXCEPT !.sm = [applied |-> n, head |-> HeadOf(chosen, n)]]
                 /\ n <= Len(chosen) /\ mem.sm.applied < n
      BY Zenon, <2>2, InstallFaithful DEF install_snapshot
    <2> QED
      BY Zenon, <2>1, <2>2
  <1>2. /\ mem'.sm.applied = k /\ mem'.sm.head = HeadOf(chosen, k)
    BY Zenon, <1>1 DEF SInv, Shapes, Shape
  <1>3. /\ mem.sm.applied \in Nat /\ chosen \in Seq(Entries) /\ mem.sm.head = HeadOf(chosen, mem.sm.applied)
    BY Zenon, MachineFacts DEF Machines
  <1>4. k \in Nat /\ k \in 0 .. Len(chosen) /\ mem.sm.applied \in 0 .. k
    BY SMTT(30), <1>1, <1>3, IndexNat
  <1>5. /\ HeadOf(chosen, k) \in Entries
        /\ block_number(HeadOf(chosen, mem.sm.applied)) <= block_number(HeadOf(chosen, k))
    BY Zenon, <1>3, <1>4, HeadMonotone
  <1>6. block_number(HeadOf(chosen, k)) \in Nat /\ block_number(mem.sm.head) \in Nat
    BY Zenon, <1>3, <1>5, BlockNumberNat, MachineFacts DEF Machines
  <1>7. acked' = acked /\ crashes' = crashes /\ UNCHANGED <<disk, img, nread>>
    BY Zenon DEF apply, install_snapshot, StoreFrame
  <1> QED
    BY Zenon, <1>1, <1>2, <1>3, <1>4, <1>5, <1>6, <1>7

\* The state machine is the fifth field read.
LEMMA ReadHead ==
    ASSUME SInv, HInv, NEW t \in Tasks, PersistLocks(t) \/ ReadField(t)
    PROVE  HInv'
  <1> DEFINE r == Reads(t, img[t])
  <1>1. nread[t] \in 0 .. 4 /\ Shape(mem) /\ Shape(img[t])
    <2>1. CASE PersistLocks(t)
      BY <2>1 DEF PersistLocks, SInv, Shapes
    <2>2. CASE ReadField(t)
      <3>1. nread[t] + 1 < 6 /\ nread[t] \in Nat
        BY Zenon, <2>2 DEF ReadField, ReadOrder, SInv, Shapes
      <3> QED
        BY SMTT(30), <3>1 DEF SInv, Shapes
    <2> QED
      BY Zenon, <2>1, <2>2
  <1>2. nread[t] = 4 => r.sm = mem.sm
    BY <1>1, ReadsFacts
  <1>3. /\ img' = [img EXCEPT ![t] = r] /\ nread' = [nread EXCEPT ![t] = nread[t] + 1]
        /\ UNCHANGED <<mem, disk, acked>>
    <2>1. CASE PersistLocks(t)
      <3>1. nread[t] = 0
        BY Zenon, <2>1 DEF PersistLocks, SInv
      <3> QED
        BY SMTT(30), <2>1, <3>1 DEF PersistLocks, SInv, Shapes
    <2>2. CASE ReadField(t)
      BY Zenon, <2>2 DEF ReadField, SInv, Shapes
    <2> QED
      BY Zenon, <2>1, <2>2
  <1> HIDE DEF r
  <1>4. ASSUME NEW u \in Tasks, nread'[u] >= 5 PROVE Covers(img[u].sm)'
    <2>1. CASE u = t
      <3>1. nread[t] = 4 /\ img'[t] = r
        BY SMTT(30), <1>1, <1>3, <1>4, <2>1 DEF SInv, Shapes
      <3> QED
        BY Zenon, <1>2, <1>3, <2>1, <3>1 DEF HInv, Covers
    <2>2. CASE u # t
      <3>1. img'[u] = img[u] /\ nread'[u] = nread[u]
        BY Zenon, <1>3, <2>2 DEF SInv, Shapes
      <3> QED
        BY Zenon, <1>3, <1>4, <3>1 DEF HInv, Covers
    <2> QED
      BY Zenon, <2>1, <2>2
  <1> QED
    BY Zenon, <1>3, <1>4 DEF HInv, Covers

\* What the end of a persist does to the heads: the worker acknowledges the
\* head in memory, which is the one in the new file.
LEMMA EndHeads ==
    ASSUME SInv, NEW t \in Tasks, PersistReplaces(t) \/ PersistFails(t)
    PROVE  /\ mem' = mem /\ crashes' = crashes /\ \A u \in Tasks : nread'[u] = 0
           /\ nread[t] = 5
           /\ \/ acked'.head = acked.head /\ (disk' = disk \/ disk'.sm = img[t].sm)
              \/ acked'.head = mem.sm.head /\ disk'.sm = mem.sm
  <1>1. /\ mem' = mem /\ crashes' = crashes /\ nread' = [nread EXCEPT ![t] = 0]
        /\ pc[t] = "reading" /\ nread[t] + 1 = 6
    BY Zenon DEF PersistReplaces, PersistFails, PersistEnds, ReadOrder
  <1>2. nread[t] = 5 /\ HasRead(t) /\ Shape(mem) /\ Shape(img[t])
    BY <1>1 DEF SInv, Shapes
  <1>3. \A u \in Tasks : nread'[u] = 0
    <2>1. \A u \in Tasks : u # t => pc[u] # "reading"
      BY Zenon, <1>2 DEF SInv, HasRead
    <2> QED
      BY Zenon, <1>1, <2>1 DEF SInv, Shapes
  <1>4. CASE PersistFails(t)
    BY Zenon, <1>1, <1>2, <1>3, <1>4 DEF PersistFails
  <1>5. CASE PersistReplaces(t)
    <2>1. disk' = Reads(t, img[t]) /\ acked' = Told(t)
      BY Zenon, <1>5 DEF PersistReplaces
    <2>2. disk'.sm = img[t].sm
      BY SMTT(30), <1>2, <2>1, ReadsFacts
    <2>3. CASE t = Worker
      <3>1. img[t].sm = mem.sm
        BY SMTT(30), <1>2, <2>3 DEF HasRead
      <3>2. acked'.head = mem.sm.head
        BY Zenon, <2>1, <2>3 DEF Told, Core, Worker, Builder, SInv, Shapes, AckedShape
      <3> QED
        BY Zenon, <1>1, <1>2, <1>3, <2>2, <3>1, <3>2
    <2>4. CASE t # Worker
      <3>1. acked'.head = acked.head
        <4>1. CASE t = Core
          BY Zenon, <2>1, <4>1 DEF Told, Core, Worker, Builder, SInv, Shapes, AckedShape
        <4>2. CASE t = Builder
          BY Zenon, <2>1, <4>2 DEF Told, Core, Worker, Builder, SInv, Shapes, AckedShape
        <4> QED
          BY Zenon, <2>4, <4>1, <4>2 DEF Tasks
      <3> QED
        BY Zenon, <1>1, <1>2, <1>3, <2>2, <3>1
    <2> QED
      BY Zenon, <2>3, <2>4
  <1> QED
    BY Zenon, <1>4, <1>5

\* A head is acknowledged after the file that covers it has been written.
LEMMA EndHInv ==
    ASSUME SInv, LInv, FInv, HInv, NEW t \in Tasks, PersistReplaces(t) \/ PersistFails(t)
    PROVE  HInv'
  <1>1. /\ mem' = mem /\ \A u \in Tasks : nread'[u] = 0
        /\ nread[t] = 5
        /\ \/ acked'.head = acked.head /\ (disk' = disk \/ disk'.sm = img[t].sm)
           \/ acked'.head = mem.sm.head /\ disk'.sm = mem.sm
    BY Zenon, EndHeads
  <1>2. mem.sm.head \in Entries /\ mem.sm.applied \in Nat /\ block_number(mem.sm.head) \in Nat
    BY Zenon, MachineFacts DEF Machines
  <1> QED
    BY SMTT(30), <1>1, <1>2 DEF HInv, Covers

\* Every step of the store keeps HInv.
LEMMA NextHInv == ASSUME SInv, LInv, FInv, HInv, [Next]_vars PROVE HInv'
  <1>1. CASE LogStorage
    <2>1. /\ StoreFrame
          /\ \E x : \/ mem' = [mem EXCEPT !.vote = x] \/ mem' = [mem EXCEPT !.committed = x]
                    \/ mem' = [mem EXCEPT !.log = x] \/ mem' = [mem EXCEPT !.purged = x]
          /\ acked' = acked \/ \E l : acked' = [acked EXCEPT !.log = l]
      BY Zenon, <1>1 DEF LogStorage, save_vote, save_committed, append, truncate_after, purge, PurgeLog
    <2>2. mem'.sm = mem.sm
      BY Zenon, <2>1 DEF SInv, Shapes, Shape
    <2>3. acked'.head = acked.head
      BY Zenon, <2>1 DEF SInv, Shapes, AckedShape
    <2> QED
      BY Zenon, <2>1, <2>2, <2>3, MemoryHead DEF StoreFrame
  <1>2. CASE (\E k \in Indexes : apply(k)) \/ (\E n \in Indexes : install_snapshot(n))
    BY Zenon, <1>2, ApplyHeads, MemoryHead
  <1>3. ASSUME UNCHANGED <<disk, img, nread, acked>>, mem'.sm = mem.sm PROVE HInv'
    BY Zenon, <1>3, MemoryHead
  <1>4. CASE SnapshotTick \/ build_snapshot
    BY Zenon, <1>3, <1>4 DEF SnapshotTick, build_snapshot, StoreFrame
  <1>5. ASSUME NEW t \in Tasks, WriteSnapshot(t) PROVE HInv'
    BY Zenon, <1>3, <1>5 DEF WriteSnapshot, StoreFrame, SInv, Shapes, Shape
  <1>6. CASE \E t \in Tasks : persist_to_disk(t)
    BY Zenon, <1>5, <1>6, ReadHead, EndHInv DEF persist_to_disk
  <1>7. CASE Reopen
    <2>1. /\ mem' = disk /\ disk' = disk /\ \A t \in Tasks : nread'[t] = 0
          /\ acked'.head = acked.head
      BY Zenon, <1>7 DEF Reopen
    <2>2. disk.sm.applied \in Nat
      BY Zenon DEF SInv, Shapes, Shape
    <2> QED
      BY <2>1, <2>2 DEF HInv, Covers
  <1>8. CASE (\E e \in Entries : ClusterCommits(e)) \/ UNCHANGED vars
    BY Zenon, <1>3, <1>8 DEF ClusterCommits, vars
  <1> QED
    BY Zenon, <1>1, <1>2, <1>4, <1>6, <1>7, <1>8 DEF Next, StateMachine

\* What an operation of MemoryRaftStore has returned is in its file at every
\* instant: votes, entries, commit index, applied entries, and a head at least
\* as high as the one a client was answered for.
THEOREM AckedDurableCorrect == Spec => []AckedDurable
  <1>1. SInv /\ HInv => AckedDurable
    BY Zenon DEF SInv, HInv, Covers, AckedDurable
  <1> QED
    BY <1>1, InitSInv, NextSInv, InitLInv, NextLInv, InitFInv, NextFInv, InitHInv, NextHInv,
       PTL DEF Spec

-----------------------------------------------------------------------------
(* The unsafe-head register.                                               *)

\* Every step of the store is a step of the register or leaves it alone.
LEMMA RegisterStep ==
    ASSUME SInv, LInv, FInv, HInv, [Next]_vars
    PROVE  [Register!Next]_(Register!vars)
  <1> DEFINE head == block_number(mem.sm.head)
             told == block_number(acked.head)
  <1>1. ASSUME mem'.sm = mem.sm, acked'.head = acked.head, crashes' = crashes
        PROVE  UNCHANGED Register!vars
    BY Zenon, <1>1 DEF Register!vars
  <1>2. /\ head \in Nat /\ told \in Nat /\ told <= head
        /\ block_number(disk.sm.head) \in Nat /\ told <= block_number(disk.sm.head)
        /\ block_number(disk.sm.head) <= head
    BY Zenon, BlockNumberNat, MachineFacts, MachineOrder DEF HInv, Covers, Machines
  <1>3. CASE LogStorage
    <2>1. /\ crashes' = crashes
          /\ \E x : \/ mem' = [mem EXCEPT !.vote = x] \/ mem' = [mem EXCEPT !.committed = x]
                    \/ mem' = [mem EXCEPT !.log = x] \/ mem' = [mem EXCEPT !.purged = x]
          /\ acked' = acked \/ \E l : acked' = [acked EXCEPT !.log = l]
      BY Zenon, <1>3 DEF LogStorage, save_vote, save_committed, append, truncate_after, purge,
                         PurgeLog, StoreFrame
    <2>2. mem'.sm = mem.sm
      BY Zenon, <2>1 DEF SInv, Shapes, Shape
    <2>3. acked'.head = acked.head
      BY Zenon, <2>1 DEF SInv, Shapes, AckedShape
    <2> QED
      BY Zenon, <1>1, <2>1, <2>2, <2>3
  <1>4. CASE (\E k \in Indexes : apply(k)) \/ (\E n \in Indexes : install_snapshot(n))
    <2>1. head' \in Nat /\ head' >= head /\ acked' = acked /\ crashes' = crashes
      BY Zenon, <1>4, ApplyHeads
    <2>2. CASE head' = head
      BY Zenon, <2>1, <2>2 DEF Register!vars
    <2>3. CASE head' > head
      BY Zenon, <2>1, <2>3 DEF Register!Next, Register!Advance
    <2> QED
      BY SMTT(30), <1>2, <2>1, <2>2, <2>3
  <1>5. CASE SnapshotTick \/ build_snapshot
    BY Zenon, <1>1, <1>5 DEF SnapshotTick, build_snapshot, StoreFrame
  <1>6. ASSUME NEW t \in Tasks, persist_to_disk(t) PROVE [Register!Next]_(Register!vars)
    <2>1. CASE WriteSnapshot(t)
      BY Zenon, <1>1, <2>1 DEF WriteSnapshot, StoreFrame, SInv, Shapes, Shape
    <2>2. CASE PersistLocks(t) \/ ReadField(t)
      BY Zenon, <1>1, <2>2 DEF PersistLocks, ReadField
    <2>3. CASE PersistReplaces(t) \/ PersistFails(t)
      <3>1. mem' = mem /\ crashes' = crashes /\ acked'.head \in {acked.head, mem.sm.head}
        BY Zenon, <2>3, EndHeads
      <3>2. CASE acked'.head = acked.head
        BY Zenon, <1>1, <3>1, <3>2
      <3>3. CASE acked'.head = mem.sm.head
        BY SMTT(30), <1>2, <3>1, <3>3 DEF Register!Next, Register!Acknowledge
      <3> QED
        BY Zenon, <3>1, <3>2, <3>3
    <2> QED
      BY Zenon, <1>6, <2>1, <2>2, <2>3 DEF persist_to_disk
  <1>7. CASE Reopen
    <2>1. mem' = disk /\ acked'.head = acked.head /\ crashes' = crashes + 1
      BY Zenon, <1>7 DEF Reopen
    <2> QED
      BY SMTT(30), <1>2, <2>1 DEF Register!Next, Register!Recover
  <1>8. CASE (\E e \in Entries : ClusterCommits(e)) \/ UNCHANGED vars
    BY Zenon, <1>1, <1>8 DEF ClusterCommits, vars
  <1> QED
    BY Zenon, <1>3, <1>4, <1>5, <1>6, <1>7, <1>8 DEF Next, StateMachine

\* MemoryRaftStore implements the unsafe-head register: latest_unsafe_payload
\* goes back only in a restart, and then not below an acknowledged payload.
THEOREM RegisterRefined == Spec => RefinesUnsafeHead
  <1>1. Init => Register!Init
    BY DEF Init, Register!Init, EmptyImage, EmptySm, block_number, Blank
  <1> QED
    BY <1>1, RegisterStep, InitSInv, NextSInv, InitLInv, NextLInv, InitFInv, NextFInv,
       InitHInv, NextHInv, PTL DEF Spec, RefinesUnsafeHead, Register!Spec

-----------------------------------------------------------------------------
(* Types.                                                                  *)

Ranges(m) ==
    /\ m.purged \in 0 .. MaxIndex /\ m.committed \in 0 .. MaxIndex
    /\ m.vote \in 0 .. MaxVote /\ m.log \in Logs

AckedRanges ==
    /\ acked.vote \in 0 .. MaxVote /\ acked.committed \in 0 .. MaxIndex
    /\ acked.applied \in 0 .. MaxIndex /\ acked.snap \in 0 .. MaxIndex
    /\ acked.log \in Logs

\* What TypeOK says beyond the other invariants.
TInv ==
    /\ Ranges(mem) /\ Ranges(disk) /\ (\A t \in Tasks : Ranges(img[t])) /\ AckedRanges
    /\ persist_lock \in Tasks \cup {NoTask}
    /\ triggered \in BOOLEAN /\ halted \in BOOLEAN /\ crashes \in 0 .. MaxCrashes

\* A log from its domain and its entries.
LEMMA LogsIntro ==
    ASSUME NEW S \in SUBSET Indexes, NEW l \in [S -> Entries]
    PROVE  l \in Logs
  BY Zenon DEF Logs

\* Domain and entries of a log.
LEMMA LogsElim ==
    ASSUME NEW l \in Logs
    PROVE  DOMAIN l \in SUBSET Indexes /\ l \in [DOMAIN l -> Entries]
  BY Zenon DEF Logs

\* A log cut down to the entries of a set.
LEMMA LogsRestrict ==
    ASSUME NEW l \in Logs, NEW S \in SUBSET DOMAIN l
    PROVE  [i \in S |-> l[i]] \in Logs
  <1>1. S \in SUBSET Indexes /\ [i \in S |-> l[i]] \in [S -> Entries]
    BY Zenon, LogsElim
  <1> QED
    BY Zenon, <1>1, LogsIntro

\* An empty store is within its ranges.
LEMMA InitTInv == Init => TInv
  <1> SUFFICES ASSUME Init PROVE TInv
    OBVIOUS
  <1>1. << >> \in Logs
    <2>1. << >> \in [{} -> Entries] /\ {} \in SUBSET Indexes
      OBVIOUS
    <2> QED
      BY ZenonT(60), <2>1, LogsIntro
  <1>2. 0 \in 0 .. MaxIndex /\ 0 \in 0 .. MaxVote /\ 0 \in 0 .. MaxCrashes
    BY StoreAssumption
  <1>3. Ranges(EmptyImage)
    BY Zenon, <1>1, <1>2 DEF Ranges, EmptyImage
  <1>4. AckedRanges
    BY Zenon, <1>1, <1>2 DEF Init, AckedRanges
  <1> QED
    BY Zenon, <1>2, <1>3, <1>4 DEF Init, TInv

\* An operation in memory.
LEMMA MemoryTypes ==
    ASSUME TInv, StoreFrame, Ranges(mem)', AckedRanges', triggered' \in BOOLEAN
    PROVE  TInv'
  <1>1. UNCHANGED <<disk, img, persist_lock, halted, crashes>>
    BY Zenon DEF StoreFrame
  <1> QED
    BY Zenon, <1>1 DEF TInv, Ranges

\* Log storage operations stay within their ranges.
LEMMA LogStorageTypes == ASSUME SInv, TInv, LogStorage PROVE TInv'
  <1>1. StoreFrame /\ triggered' = triggered
    BY ZenonT(60) DEF LogStorage, save_vote, save_committed, append, truncate_after, purge, PurgeLog
  <1>2. Shape(mem) /\ AckedShape /\ Ranges(mem) /\ AckedRanges /\ triggered \in BOOLEAN
    BY Zenon DEF SInv, Shapes, TInv
  <1>3. ASSUME acked' = acked PROVE AckedRanges'
    BY Zenon, <1>2, <1>3 DEF AckedRanges
  <1>4. ASSUME NEW l \in Logs, acked' = [acked EXCEPT !.log = l] PROVE AckedRanges'
    BY Zenon, <1>2, <1>4 DEF AckedRanges, AckedShape
  <1>5. ASSUME NEW l \in Logs, mem' = [mem EXCEPT !.log = l] PROVE Ranges(mem)'
    BY Zenon, <1>2, <1>5 DEF Ranges, Shape
  <1>6. ASSUME NEW v \in 1 .. MaxVote, save_vote(v) PROVE TInv'
    <2>1. mem' = [mem EXCEPT !.vote = v] /\ acked' = acked /\ v \in 0 .. MaxVote
      BY SMTT(30), <1>6, StoreAssumption DEF save_vote
    <2>2. Ranges(mem)'
      BY Zenon, <1>2, <2>1 DEF Ranges, Shape
    <2> QED
      BY Zenon, <1>1, <1>2, <1>3, <2>1, <2>2, MemoryTypes
  <1>7. ASSUME NEW c \in Indexes, save_committed(c) PROVE TInv'
    <2>1. mem' = [mem EXCEPT !.committed = c] /\ acked' = acked /\ c \in 0 .. MaxIndex
      BY SMTT(30), <1>7, StoreAssumption DEF save_committed, Indexes
    <2>2. Ranges(mem)'
      BY Zenon, <1>2, <2>1 DEF Ranges, Shape
    <2> QED
      BY Zenon, <1>1, <1>2, <1>3, <2>1, <2>2, MemoryTypes
  <1>8. ASSUME NEW upto \in Indexes, NEW new \in [Indexes -> Entries], append(upto, new) PROVE TInv'
    <2> DEFINE added == (LastLog(mem) + 1) .. upto
               S == DOMAIN mem.log \cup added
               log == [i \in S |-> IF i \in added THEN new[i] ELSE mem.log[i]]
    <2>1. mem' = [mem EXCEPT !.log = log] /\ acked' = acked
      BY Zenon, <1>2, <1>8 DEF append, Shape
    <2>2. LastLog(mem) \in Nat /\ DOMAIN mem.log \subseteq Indexes
      BY Zenon, <1>2, LastLogNat DEF Shape
    <2>3. added \subseteq Indexes
      BY SMTT(30), <2>2, StoreAssumption DEF Indexes
    <2> HIDE DEF added
    <2>4. S \in SUBSET Indexes /\ \A i \in S : log[i] \in Entries
      BY Zenon, <1>2, <2>2, <2>3, LogsElim DEF Ranges
    <2>5. log \in [S -> Entries]
      BY ZenonT(60), <2>4
    <2> HIDE DEF S, log
    <2>6. log \in Logs
      BY Zenon, <2>4, <2>5, LogsIntro
    <2> QED
      BY Zenon, <1>1, <1>2, <1>3, <1>5, <2>1, <2>6, MemoryTypes
  <1>9. ASSUME NEW k \in 0 .. MaxIndex, truncate_after(k) PROVE TInv'
    <2> DEFINE Kept(l) == [i \in {j \in DOMAIN l : j <= k} |-> l[i]]
    <2>1. /\ mem' = [mem EXCEPT !.log = Kept(mem.log)]
          /\ acked' = [acked EXCEPT !.log = Kept(acked.log)]
      BY Zenon, <1>2, <1>9 DEF truncate_after, RestrictDomain, Restrict, Shape, AckedShape
    <2>2. \A l \in Logs : Kept(l) \in Logs
      BY Zenon, LogsRestrict
    <2> HIDE DEF Kept
    <2>3. Kept(mem.log) \in Logs /\ Kept(acked.log) \in Logs
      BY Zenon, <1>2, <2>2 DEF Ranges, AckedRanges
    <2> QED
      BY Zenon, <1>1, <1>2, <1>4, <1>5, <2>1, <2>3, MemoryTypes
  <1>10. ASSUME NEW k \in Indexes, purge(k) PROVE TInv'
    <2> DEFINE Kept(l) == [i \in {j \in DOMAIN l : j > k} |-> l[i]]
    <2>1. mem' = [mem EXCEPT !.purged = k] /\ acked' = [acked EXCEPT !.log = Kept(acked.log)]
      BY Zenon, <1>2, <1>10 DEF purge, RestrictDomain, Restrict, AckedShape
    <2>2. k \in 0 .. MaxIndex
      BY StoreAssumption DEF Indexes
    <2>3. Ranges(mem)'
      BY Zenon, <1>2, <2>1, <2>2 DEF Ranges, Shape
    <2>4. Kept(acked.log) \in Logs
      BY Zenon, <1>2, LogsRestrict DEF AckedRanges
    <2> HIDE DEF Kept
    <2> QED
      BY Zenon, <1>1, <1>2, <1>4, <2>1, <2>3, <2>4, MemoryTypes
  <1>11. CASE PurgeLog
    <2> DEFINE Kept(l) == [i \in {j \in DOMAIN l : j > mem.purged} |-> l[i]]
    <2>1. mem' = [mem EXCEPT !.log = Kept(mem.log)] /\ acked' = acked
      BY Zenon, <1>2, <1>11 DEF PurgeLog, RestrictDomain, Restrict, Shape
    <2>2. Kept(mem.log) \in Logs
      BY Zenon, <1>2, LogsRestrict DEF Ranges
    <2> HIDE DEF Kept
    <2> QED
      BY Zenon, <1>1, <1>2, <1>3, <1>5, <2>1, <2>2, MemoryTypes
  <1> QED
    BY Zenon, <1>6, <1>7, <1>8, <1>9, <1>10, <1>11 DEF LogStorage

\* The larger of two numbers.
LEMMA MaxOfTwo == ASSUME NEW x \in Nat, NEW y \in Nat PROVE Max({x, y}) \in {x, y} /\ Max({x, y}) >= x
  <1>1. \E m \in {x, y} : \A n \in {x, y} : m >= n
    OBVIOUS
  <1>2. Max({x, y}) \in {x, y} /\ \A n \in {x, y} : Max({x, y}) >= n
    BY Zenon, <1>1 DEF Max
  <1> QED
    BY Zenon, <1>2

\* persist_to_disk copies fields that are within their ranges.
LEMMA PersistTypes ==
    ASSUME SInv, LInv, FInv, TInv, NEW t \in Tasks,
           PersistLocks(t) \/ ReadField(t) \/ PersistReplaces(t) \/ PersistFails(t)
    PROVE  TInv'
  <1> DEFINE r == Reads(t, img[t])
  <1>1. nread[t] \in 0 .. 5 /\ Shape(mem) /\ Shape(img[t])
    BY SMTT(30) DEF SInv, Shapes, HasRead
  <1>2. Ranges(r)
    BY SMTT(30), <1>1, ReadsFacts DEF TInv, Ranges
  <1>3. mem' = mem /\ triggered' = triggered /\ crashes' = crashes /\ halted' \in BOOLEAN
    BY Zenon DEF PersistLocks, ReadField, PersistReplaces, PersistFails, TInv
  <1>4. disk' = disk \/ disk' = r
    BY Zenon DEF PersistLocks, ReadField, PersistReplaces, PersistFails
  <1>5. img' = [img EXCEPT ![t] = r] \/ img' = [img EXCEPT ![t] = EmptyImage]
    BY Zenon DEF PersistLocks, ReadField, PersistReplaces, PersistFails, PersistEnds, SInv, Shapes
  <1>6. persist_lock' \in Tasks \cup {NoTask}
    BY Zenon DEF PersistLocks, ReadField, PersistReplaces, PersistFails, PersistEnds, TInv
  <1> HIDE DEF r
  <1>7. Ranges(EmptyImage)
    <2>1. << >> \in [{} -> Entries] /\ {} \in SUBSET Indexes
      OBVIOUS
    <2>2. << >> \in Logs
      BY Zenon, <2>1, LogsIntro
    <2> QED
      BY <2>2, StoreAssumption DEF Ranges, EmptyImage
  <1>8. \A u \in Tasks : img'[u] \in {img[u], r, EmptyImage}
    BY Zenon, <1>5 DEF SInv, Shapes
  <1>9. AckedRanges'
    <2>1. CASE PersistLocks(t) \/ ReadField(t) \/ PersistFails(t)
      BY Zenon, <2>1 DEF PersistLocks, ReadField, PersistFails, TInv, AckedRanges
    <2>2. CASE PersistReplaces(t)
      <3>1. acked' = Told(t) /\ Ranges(mem) /\ AckedRanges /\ AckedShape
        BY Zenon, <2>2 DEF PersistReplaces, TInv, SInv, Shapes
      <3>2. mem.sm.applied \in 0 .. MaxIndex
        BY DEF FInv, Machines, Faithful, StateMachines
      <3>3. Max({acked.snap, clone[t].applied}) \in 0 .. MaxIndex
        <4>1. clone[t] \in StateMachines
          BY Zenon DEF FInv, Machines, Faithful
        <4>2. clone[t].applied \in 0 .. MaxIndex /\ acked.snap \in 0 .. MaxIndex
          BY Zenon, <3>1, <4>1 DEF StateMachines, AckedRanges
        <4>3. clone[t].applied \in Nat /\ acked.snap \in Nat
          BY SMTT(30), <4>2, StoreAssumption
        <4> QED
          BY Zenon, <4>2, <4>3, MaxOfTwo
      <3>4. CASE t = Core
        <4>1. /\ acked'.vote = mem.vote /\ acked'.committed = mem.committed /\ acked'.log = mem.log
              /\ acked'.applied = acked.applied /\ acked'.snap = acked.snap
          BY Zenon, <3>1, <3>4 DEF Told, Core, Worker, Builder, AckedShape
        <4> QED
          BY Zenon, <3>1, <4>1 DEF AckedRanges, Ranges
      <3>5. CASE t = Worker
        <4>1. /\ acked'.vote = acked.vote /\ acked'.committed = acked.committed
              /\ acked'.log = acked.log /\ acked'.applied = mem.sm.applied
              /\ acked'.snap = Max({acked.snap, clone[t].applied})
          BY Zenon, <3>1, <3>5 DEF Told, Core, Worker, Builder, AckedShape
        <4> QED
          BY Zenon, <3>1, <3>2, <3>3, <4>1 DEF AckedRanges
      <3>6. CASE t = Builder
        <4>1. /\ acked'.vote = acked.vote /\ acked'.committed = acked.committed
              /\ acked'.log = acked.log /\ acked'.applied = acked.applied
              /\ acked'.snap = Max({acked.snap, clone[t].applied})
          BY Zenon, <3>1, <3>6 DEF Told, Core, Worker, Builder, AckedShape
        <4> QED
          BY Zenon, <3>1, <3>3, <4>1 DEF AckedRanges
      <3> QED
        BY Zenon, <3>4, <3>5, <3>6 DEF Tasks
    <2> QED
      BY Zenon, <2>1, <2>2
  <1> QED
    BY Zenon, <1>2, <1>3, <1>4, <1>6, <1>7, <1>8, <1>9 DEF TInv, Ranges

\* Every step of the store keeps TInv.
LEMMA NextTInv == ASSUME SInv, LInv, FInv, TInv, [Next]_vars PROVE TInv'
  <1>1. ASSUME StoreFrame, acked' = acked, triggered' \in BOOLEAN, NEW sm,
               mem' = [mem EXCEPT !.sm = sm] \/ mem' = [mem EXCEPT !.snap = sm] \/ mem' = mem
        PROVE  TInv'
    <2>1. Ranges(mem)'
      BY Zenon, <1>1 DEF TInv, Ranges, SInv, Shapes, Shape
    <2>2. AckedRanges'
      BY Zenon, <1>1 DEF TInv, AckedRanges
    <2> QED
      BY Zenon, <1>1, <2>1, <2>2, MemoryTypes
  <1>2. CASE StateMachine
    <2>1. CASE (\E k \in Indexes : apply(k)) \/ (\E n \in Indexes : install_snapshot(n))
      <3>1. \E sm : mem' = [mem EXCEPT !.sm = sm]
        BY Zenon, <2>1 DEF apply, install_snapshot
      <3>2. StoreFrame /\ acked' = acked /\ triggered' \in BOOLEAN
        BY Zenon, <2>1 DEF apply, install_snapshot, TInv
      <3> QED
        BY Zenon, <1>1, <3>1, <3>2
    <2>2. CASE SnapshotTick \/ build_snapshot
      BY Zenon, <1>1, <2>2 DEF SnapshotTick, build_snapshot
    <2> QED
      BY Zenon, <1>2, <2>1, <2>2 DEF StateMachine
  <1>3. ASSUME NEW t \in Tasks, WriteSnapshot(t) PROVE TInv'
    BY ZenonT(60), <1>1, <1>3 DEF WriteSnapshot, TInv
  <1>4. CASE \E t \in Tasks : persist_to_disk(t)
    BY Zenon, <1>3, <1>4, PersistTypes DEF persist_to_disk
  <1>5. CASE Reopen
    <2>1. /\ mem' = disk /\ disk' = disk /\ img' = [t \in Tasks |-> EmptyImage]
          /\ persist_lock' = NoTask /\ triggered' = FALSE /\ halted' = FALSE
          /\ crashes < MaxCrashes /\ crashes' = crashes + 1
          /\ acked' = [vote |-> disk.vote, committed |-> disk.committed, log |-> disk.log,
                       applied |-> disk.sm.applied, snap |-> disk.snap.applied,
                       head |-> acked.head]
      BY Zenon, <1>5 DEF Reopen
    <2>2. crashes' \in 0 .. MaxCrashes
      BY <2>1, StoreAssumption DEF TInv
    <2>3. disk.sm.applied \in 0 .. MaxIndex /\ disk.snap.applied \in 0 .. MaxIndex
      BY SMTT(30) DEF FInv, Machines, Faithful, StateMachines
    <2>4. AckedRanges'
      BY Zenon, <2>1, <2>3 DEF AckedRanges, TInv, Ranges
    <2>5. Ranges(EmptyImage)
      <3>1. << >> \in [{} -> Entries] /\ {} \in SUBSET Indexes
        OBVIOUS
      <3>2. << >> \in Logs
        BY Zenon, <3>1, LogsIntro
      <3> QED
        BY SMTT(30), <3>2, StoreAssumption DEF Ranges, EmptyImage
    <2> QED
      BY Zenon, <2>1, <2>2, <2>4, <2>5 DEF TInv, Ranges
  <1>6. CASE (\E e \in Entries : ClusterCommits(e)) \/ UNCHANGED vars
    BY ZenonT(60), <1>6 DEF ClusterCommits, vars, TInv, Ranges, AckedRanges
  <1> QED
    BY Zenon, <1>2, <1>4, <1>5, <1>6, LogStorageTypes DEF Next

\* Every variable of MemoryRaftStore has its type: no operation takes an index
\* or a vote out of its range.
THEOREM TypeCorrect == Spec => []TypeOK
  <1>1. ASSUME SInv, LInv, FInv, HInv, TInv PROVE TypeOK
    <2>1. ASSUME NEW m, Shape(m), Ranges(m), m.sm \in StateMachines, m.snap \in StateMachines
          PROVE  m \in Images
      BY Zenon, <2>1 DEF Shape, Ranges, Images
    <2>2. \A sm \in Machines : sm \in StateMachines
      BY Zenon, <1>1 DEF FInv, Faithful
    <2>3. mem \in Images /\ disk \in Images
      BY Zenon, <1>1, <2>1, <2>2 DEF SInv, Shapes, TInv, Machines
    <2>4. img \in [Tasks -> Images]
      <3>1. \A t \in Tasks : img[t] \in Images
        BY Zenon, <1>1, <2>1, <2>2 DEF SInv, Shapes, TInv, Machines
      <3> QED
        BY Zenon, <1>1, <3>1 DEF SInv, Shapes
    <2>5. clone \in [Tasks -> StateMachines]
      BY Zenon, <1>1, <2>2 DEF FInv, Machines
    <2>6. nread \in [Tasks -> 0 .. Len(ReadOrder) - 1]
      <3>1. Len(ReadOrder) - 1 = 5
        BY DEF ReadOrder
      <3>2. \A t \in Tasks : nread[t] \in 0 .. 5
        BY <1>1 DEF SInv, HasRead
      <3> QED
        BY Zenon, <1>1, <3>1, <3>2 DEF SInv, Shapes
    <2>7. acked \in [vote : 0 .. MaxVote, committed : 0 .. MaxIndex, log : Logs,
                     applied : 0 .. MaxIndex, snap : 0 .. MaxIndex, head : Entries]
      BY Zenon, <1>1 DEF SInv, Shapes, AckedShape, TInv, AckedRanges, HInv
    <2> QED
      BY Zenon, <1>1, <2>3, <2>4, <2>5, <2>6, <2>7 DEF TypeOK, TInv, SInv, Shapes, LInv
  <1> QED
    BY <1>1, InitSInv, NextSInv, InitLInv, NextLInv, InitFInv, NextFInv, InitHInv, NextHInv,
       InitTInv, NextTInv, PTL DEF Spec

=============================================================================
