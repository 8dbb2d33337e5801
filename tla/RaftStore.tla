----------------------------- MODULE RaftStore -----------------------------
(***************************************************************************)
(* MemoryRaftStore of src/raft_consensus.rs: the Raft log, vote, committed *)
(* index, state machine and snapshot of one node, kept in memory behind    *)
(* one RwLock per field and written to one JSON file.                      *)
(*                                                                         *)
(* Three tasks of openraft call it: the core (vote, committed index and    *)
(* log), the state machine worker (apply and install_snapshot) and the     *)
(* task that builds a snapshot.  Each operation changes its fields and     *)
(* then runs persist_to_disk, which reads the fields one by one under the  *)
(* persist_lock while the other two tasks go on changing them, and         *)
(* replaces the file by rename.  A crash loses the memory; the next open   *)
(* takes every field from the file.                                        *)
(*                                                                         *)
(* An entry is the payload it commits, or Blank for the entries that carry *)
(* none (blank and membership entries).  A payload stands for its hash;    *)
(* payloads of two leaders may have the same block number.  Log indexes    *)
(* start at 1 and 0 stands for None.                                       *)
(***************************************************************************)
EXTENDS Naturals, Sequences, FiniteSetsExt

CONSTANTS
    MaxIndex,            \* bound: highest log index
    BlockNumber,         \* the block number of payload 1, of payload 2...
    MaxVote,             \* bound: highest vote
    MaxCrashes,          \* bound: how often the process crashes
    Threshold,           \* snapshot_threshold
    BuildOverlapsInstall \* may a snapshot be installed while one is built?

ASSUME StoreAssumption ==
    /\ {MaxIndex, MaxVote, MaxCrashes, Threshold} \subseteq Nat
    /\ BlockNumber \in Seq(Nat)
    /\ BuildOverlapsInstall \in BOOLEAN

VARIABLES
    mem,          \* the fields in memory, an Image
    disk,         \* the fields in the file, an Image
    img,          \* the PersistedRaftStore each task is reading together
    nread,        \* how many fields of img a task has read
    persist_lock, \* the task that holds persist_lock, or NoTask
    pc,           \* what each task is doing
    triggered,    \* start_snapshot_loop has asked for a snapshot
    clone,        \* the state machine build_snapshot or the sender has copied
    chosen,       \* the entries the cluster has committed (external)
    acked,        \* what openraft and the clients have been told is stored
    halted,       \* a storage error was returned: openraft stops the node
    crashes       \* how often the process crashed

vars == <<mem, disk, img, nread, persist_lock, pc, triggered, clone,
          chosen, acked, halted, crashes>>

Core == "core"
Worker == "worker"
Builder == "builder"
Tasks == {Core, Worker, Builder}
NoTask == "none"

Blank == 0
Entries == Blank .. Len(BlockNumber)
block_number(p) == IF p = Blank THEN 0 ELSE BlockNumber[p]
Indexes == 1 .. MaxIndex
Logs == UNION {[I -> Entries] : I \in SUBSET Indexes}

(* UnsafeHeadStateMachine: last_applied_log and latest_unsafe_payload.  A  *)
(* snapshot is a serialized state machine whose meta.last_log_id is its    *)
(* last_applied_log.                                                       *)
StateMachines == [applied : 0 .. MaxIndex, head : Entries]
EmptySm == [applied |-> 0, head |-> 0]

\* PersistedRaftStore.
Images == [purged : 0 .. MaxIndex, committed : 0 .. MaxIndex, log : Logs,
           vote : 0 .. MaxVote, sm : StateMachines, snap : StateMachines]
EmptyImage == [purged |-> 0, committed |-> 0, log |-> << >>, vote |-> 0,
               sm |-> EmptySm, snap |-> EmptySm]

\* The order in which persist_to_disk reads the fields.
ReadOrder == <<"purged", "committed", "log", "vote", "sm", "snap">>

Idle(t) == pc[t] = "idle"
Goes(t, step) == pc' = [pc EXCEPT ![t] = step]

LastOf(log, floor) == Max(DOMAIN log \cup {floor})

\* get_log_state: the last entry of the log, or the purge point.
LastLog(image) ==
    IF DOMAIN image.log = {} THEN image.purged ELSE LastOf(image.log, 0)

\* The head of the first n entries: of the payloads with the highest number,
\* the first.
HeadOf(entries, n) ==
    LET payloads == {i \in 1 .. n : entries[i] # Blank}
        Beats(i, j) == \/ block_number(entries[i]) > block_number(entries[j])
                       \/ block_number(entries[i]) = block_number(entries[j]) /\ i <= j
        first == {i \in payloads : \A j \in payloads : Beats(i, j)}
    IN  IF payloads = {} THEN Blank ELSE entries[CHOOSE i \in first : TRUE]

Matches(log, i) == i \in DOMAIN chosen /\ log[i] = chosen[i]

-----------------------------------------------------------------------------
(* The log storage, called by the core one operation at a time.  Which     *)
(* operation openraft asks for, and with which arguments, is Raft's        *)
(* business: the guards on chosen and acked state its side of the          *)
(* contract.                                                               *)

CoreCalls == ~halted /\ Idle(Core)

StoreFrame == UNCHANGED <<disk, img, nread, persist_lock, halted, crashes>>

\* Mutant: the vote is granted before it is in the file.
SaveVoteInMemory(v) ==
    /\ CoreCalls
    /\ v > mem.vote
    /\ mem' = [mem EXCEPT !.vote = v]
    /\ acked' = [acked EXCEPT !.vote = v]
    /\ UNCHANGED <<pc, triggered, clone, chosen>>
    /\ StoreFrame

save_vote(v) ==
    /\ CoreCalls
    /\ v > mem.vote
    /\ mem' = [mem EXCEPT !.vote = v]
    /\ Goes(Core, "persist")
    /\ UNCHANGED <<triggered, clone, chosen, acked>>
    /\ StoreFrame

\* openraft saves a commit index only for entries its log agrees on.
save_committed(c) ==
    /\ CoreCalls
    /\ c > mem.committed
    /\ c \in DOMAIN chosen
    /\ c <= LastLog(mem)
    /\ \A i \in DOMAIN mem.log : i <= c => Matches(mem.log, i)
    /\ mem' = [mem EXCEPT !.committed = c]
    /\ Goes(Core, "persist")
    /\ UNCHANGED <<triggered, clone, chosen, acked>>
    /\ StoreFrame

(* Entries are appended at the end of a log that reaches the last applied  *)
(* entry, one or more at a time.                                           *)
append(upto, new) ==
    /\ CoreCalls
    /\ LastLog(mem) < upto
    /\ LastLog(mem) >= acked.applied
    /\ LET added == (LastLog(mem) + 1) .. upto
       IN  mem' = [mem EXCEPT !.log =
                     [i \in DOMAIN @ \cup added |->
                        IF i \in added THEN new[i] ELSE @[i]]]
    /\ Goes(Core, "persist")
    /\ UNCHANGED <<triggered, clone, chosen, acked>>
    /\ StoreFrame

(* Raft truncates only entries the cluster has not committed.  From here   *)
(* on the removed entries are no longer promised to anyone.                *)
truncate_after(k) ==
    /\ CoreCalls
    /\ \E i \in DOMAIN mem.log : i > k
    /\ \A i \in DOMAIN mem.log : i > k => ~Matches(mem.log, i)
    /\ LET keep(i) == i <= k
       IN  /\ mem' = [mem EXCEPT !.log = RestrictDomain(@, keep)]
           /\ acked' = [acked EXCEPT !.log = RestrictDomain(@, keep)]
    /\ Goes(Core, "persist")
    /\ UNCHANGED <<triggered, clone, chosen>>
    /\ StoreFrame

\* Mutant: the purge point is the first entry kept.
PurgeNext(k) ==
    /\ CoreCalls
    /\ mem.purged < k
    /\ k <= acked.applied
    /\ k <= acked.snap \/ (LastLog(mem) < acked.applied /\ k = acked.applied)
    /\ LET keep(i) == i > k
       IN  acked' = [acked EXCEPT !.log = RestrictDomain(@, keep)]
    /\ mem' = [mem EXCEPT !.purged = k + 1]
    /\ Goes(Core, "purgeLog")
    /\ UNCHANGED <<triggered, clone, chosen>>
    /\ StoreFrame

\* Mutant: entries are purged that were never applied.
PurgeUnapplied(k) ==
    /\ CoreCalls
    /\ mem.purged < k
    /\ k <= LastLog(mem)
    /\ LET keep(i) == i > k
       IN  acked' = [acked EXCEPT !.log = RestrictDomain(@, keep)]
    /\ mem' = [mem EXCEPT !.purged = k]
    /\ Goes(Core, "purgeLog")
    /\ UNCHANGED <<triggered, clone, chosen>>
    /\ StoreFrame

(* openraft purges applied entries a stored snapshot covers and, when it   *)
(* finds at start a log that ends before the applied entry, that log.      *)
(* last_purged_log_id is set first, the entries go under a second lock.    *)
purge(k) ==
    /\ CoreCalls
    /\ mem.purged < k
    /\ k <= acked.applied
    /\ k <= acked.snap \/ (LastLog(mem) < acked.applied /\ k = acked.applied)
    /\ LET keep(i) == i > k
       IN  acked' = [acked EXCEPT !.log = RestrictDomain(@, keep)]
    /\ mem' = [mem EXCEPT !.purged = k]
    /\ Goes(Core, "purgeLog")
    /\ UNCHANGED <<triggered, clone, chosen>>
    /\ StoreFrame

PurgeLog ==
    /\ pc[Core] = "purgeLog"
    /\ LET keep(i) == i > mem.purged
       IN  mem' = [mem EXCEPT !.log = RestrictDomain(@, keep)]
    /\ Goes(Core, "persist")
    /\ UNCHANGED <<triggered, clone, chosen, acked>>
    /\ StoreFrame

-----------------------------------------------------------------------------
(* The state machine worker.                                               *)

WorkerCalls == ~halted /\ Idle(Worker)

\* Mutant: a payload with the number of the head replaces it.
Newer_or_same(head, p) == IF block_number(p) >= block_number(head) THEN p ELSE head

\* should_update: a payload becomes the head if there is none or its number is
\* higher.
Newer(head, p) ==
    IF p # Blank /\ (head = Blank \/ block_number(p) > block_number(head))
    THEN p ELSE head

\* The loop of apply over the entries of the log up to k.
HeadAfter(sm, log, k) ==
    LET head[i \in sm.applied .. k] ==
            IF i = sm.applied THEN sm.head ELSE Newer(head[i - 1], log[i])
    IN  head[k]

(* apply takes a batch of flushed, committed entries under the state       *)
(* machine's lock, one after the other.                                    *)
apply(k) ==
    /\ WorkerCalls
    /\ mem.sm.applied < k
    /\ k <= acked.committed
    /\ (mem.sm.applied + 1) .. k \subseteq DOMAIN acked.log
    /\ mem' = [mem EXCEPT !.sm = [applied |-> k, head |-> HeadAfter(mem.sm, mem.log, k)]]
    /\ Goes(Worker, "persist")
    /\ UNCHANGED <<triggered, clone, chosen, acked>>
    /\ StoreFrame

\* Mutant: a snapshot older than the state machine is installed.
InstallOlder(n) ==
    /\ WorkerCalls
    /\ n \in DOMAIN chosen
    /\ LET sm == [applied |-> n, head |-> HeadOf(chosen, n)]
       IN  /\ mem' = [mem EXCEPT !.sm = sm]
           /\ clone' = [clone EXCEPT ![Worker] = sm]
    /\ Goes(Worker, "writeSnap")
    /\ UNCHANGED <<triggered, chosen, acked>>
    /\ StoreFrame

(* install_snapshot: the leader sends a snapshot of more entries than are  *)
(* committed here; the state machine is replaced, then the snapshot.       *)
install_snapshot(n) ==
    /\ WorkerCalls
    /\ n \in DOMAIN chosen
    /\ n > mem.committed
    /\ n > mem.sm.applied
    /\ BuildOverlapsInstall \/ Idle(Builder)
    /\ LET sm == [applied |-> n, head |-> HeadOf(chosen, n)]
       IN  /\ mem' = [mem EXCEPT !.sm = sm]
           /\ clone' = [clone EXCEPT ![Worker] = sm]
    /\ Goes(Worker, "writeSnap")
    /\ UNCHANGED <<triggered, chosen, acked>>
    /\ StoreFrame

-----------------------------------------------------------------------------
(* The snapshot builder.                                                   *)

should_snapshot ==
    /\ Threshold # 0
    /\ DOMAIN mem.log # {}
    /\ LastOf(mem.log, 0) >= mem.snap.applied + Threshold

\* A tick of start_snapshot_loop.
SnapshotTick ==
    /\ ~halted
    /\ ~triggered
    /\ should_snapshot
    /\ triggered' = TRUE
    /\ UNCHANGED <<mem, pc, clone, chosen, acked>>
    /\ StoreFrame

(* build_snapshot copies the state machine and writes the copy to          *)
(* current_snapshot under another lock.                                    *)
build_snapshot ==
    /\ ~halted
    /\ triggered
    /\ Idle(Builder)
    /\ BuildOverlapsInstall \/ pc[Worker] # "writeSnap"
    /\ triggered' = FALSE
    /\ clone' = [clone EXCEPT ![Builder] = mem.sm]
    /\ Goes(Builder, "writeSnap")
    /\ UNCHANGED <<mem, chosen, acked>>
    /\ StoreFrame

\* Mutant: current_snapshot is not replaced.
WriteNoSnapshot(t) ==
    /\ pc[t] = "writeSnap"
    /\ Goes(t, "persist")
    /\ UNCHANGED <<mem, triggered, clone, chosen, acked>>
    /\ StoreFrame

WriteSnapshot(t) ==
    /\ pc[t] = "writeSnap"
    /\ mem' = [mem EXCEPT !.snap = clone[t]]
    /\ Goes(t, "persist")
    /\ UNCHANGED <<triggered, clone, chosen, acked>>
    /\ StoreFrame

-----------------------------------------------------------------------------
(* persist_to_disk: take the lock, read the fields in order, replace the   *)
(* file.  The temporary file is private to the holder of the lock, so only *)
(* the rename shows.  Taking the lock and the first read are one step, and *)
(* so are the last read and the rename: what another task changes between  *)
(* the two shows in neither.                                               *)

Reads(t, image) == LET field == ReadOrder[nread[t] + 1]
                   IN  [image EXCEPT ![field] = mem[field]]

\* Mutant: the image is read without taking persist_lock.
PersistUnlocked(t) ==
    /\ pc[t] = "persist"
    /\ img' = [img EXCEPT ![t] = Reads(t, @)]
    /\ nread' = [nread EXCEPT ![t] = 1]
    /\ Goes(t, "reading")
    /\ UNCHANGED <<mem, disk, persist_lock, triggered, clone, chosen, acked,
                   halted, crashes>>

PersistLocks(t) ==
    /\ pc[t] = "persist"
    /\ persist_lock = NoTask
    /\ persist_lock' = t
    /\ img' = [img EXCEPT ![t] = Reads(t, @)]
    /\ nread' = [nread EXCEPT ![t] = 1]
    /\ Goes(t, "reading")
    /\ UNCHANGED <<mem, disk, triggered, clone, chosen, acked, halted,
                   crashes>>

ReadField(t) ==
    /\ pc[t] = "reading"
    /\ nread[t] + 1 < Len(ReadOrder)
    /\ img' = [img EXCEPT ![t] = Reads(t, @)]
    /\ nread' = [nread EXCEPT ![t] = @ + 1]
    /\ UNCHANGED <<mem, disk, persist_lock, pc, triggered, clone, chosen,
                   acked, halted, crashes>>

PersistEnds(t) ==
    /\ persist_lock' = NoTask
    /\ img' = [img EXCEPT ![t] = EmptyImage]
    /\ nread' = [nread EXCEPT ![t] = 0]
    /\ clone' = [clone EXCEPT ![t] = EmptySm]
    /\ Goes(t, "idle")

(* What the return of an operation tells openraft, and through it the      *)
(* leader and the clients: the core's fields, which only the core changes, *)
(* the applied entries, and a stored snapshot.                             *)
Told(t) ==
    CASE t = Core ->
           [acked EXCEPT !.vote = mem.vote, !.committed = mem.committed,
                         !.log = mem.log]
      [] t = Worker ->
           [acked EXCEPT !.applied = mem.sm.applied, !.head = mem.sm.head,
                         !.snap = Max({@, clone[t].applied})]
      [] t = Builder ->
           [acked EXCEPT !.snap = Max({@, clone[t].applied})]

\* The last read, fs::rename, the release of the lock and the operation's return.
PersistReplaces(t) ==
    /\ pc[t] = "reading"
    /\ nread[t] + 1 = Len(ReadOrder)
    /\ disk' = Reads(t, img[t])
    /\ acked' = Told(t)
    /\ PersistEnds(t)
    /\ UNCHANGED <<mem, triggered, chosen, halted, crashes>>

(* Creating, writing or renaming the file fails: the operation returns the *)
(* error, nobody is told anything, and openraft stops the node.            *)
PersistFails(t) ==
    /\ pc[t] = "reading"
    /\ nread[t] + 1 = Len(ReadOrder)
    /\ halted' = TRUE
    /\ PersistEnds(t)
    /\ UNCHANGED <<mem, disk, triggered, chosen, acked, crashes>>

(* The process stops at any point and the next one opens the file.  What   *)
(* open loads is what openraft then takes to be stored.                    *)
Reopen ==
    /\ crashes < MaxCrashes
    /\ crashes' = crashes + 1
    /\ mem' = disk
    /\ acked' = [vote |-> disk.vote, committed |-> disk.committed,
                 log |-> disk.log, applied |-> disk.sm.applied,
                 snap |-> disk.snap.applied, head |-> acked.head]
    /\ img' = [t \in Tasks |-> EmptyImage]
    /\ nread' = [t \in Tasks |-> 0]
    /\ clone' = [t \in Tasks |-> EmptySm]
    /\ pc' = [t \in Tasks |-> "idle"]
    /\ persist_lock' = NoTask
    /\ triggered' = FALSE
    /\ halted' = FALSE
    /\ UNCHANGED <<disk, chosen>>

\* External: the cluster commits one more entry.
ClusterCommits(e) ==
    /\ Len(chosen) < MaxIndex
    /\ chosen' = Append(chosen, e)
    /\ UNCHANGED <<mem, disk, img, nread, persist_lock, pc, triggered, clone,
                   acked, halted, crashes>>

-----------------------------------------------------------------------------

Init ==
    /\ mem = EmptyImage
    /\ disk = EmptyImage
    /\ img = [t \in Tasks |-> EmptyImage]
    /\ nread = [t \in Tasks |-> 0]
    /\ persist_lock = NoTask
    /\ pc = [t \in Tasks |-> "idle"]
    /\ triggered = FALSE
    /\ clone = [t \in Tasks |-> EmptySm]
    /\ chosen = << >>
    /\ acked = [vote |-> 0, committed |-> 0, log |-> << >>, applied |-> 0,
                snap |-> 0, head |-> 0]
    /\ halted = FALSE
    /\ crashes = 0

LogStorage ==
    \/ \E v \in 1 .. MaxVote : save_vote(v)
    \/ \E c \in Indexes : save_committed(c)
    \/ \E upto \in Indexes : \E new \in [Indexes -> Entries] :
          append(upto, new)
    \/ \E k \in 0 .. MaxIndex : truncate_after(k)
    \/ \E k \in Indexes : purge(k)
    \/ PurgeLog

StateMachine ==
    \/ \E k \in Indexes : apply(k)
    \/ \E n \in Indexes : install_snapshot(n)
    \/ SnapshotTick
    \/ build_snapshot

persist_to_disk(t) ==
    \/ WriteSnapshot(t)
    \/ PersistLocks(t)
    \/ ReadField(t)
    \/ PersistReplaces(t)
    \/ PersistFails(t)

Next ==
    \/ LogStorage
    \/ StateMachine
    \/ \E t \in Tasks : persist_to_disk(t)
    \/ Reopen
    \/ \E e \in Entries : ClusterCommits(e)

Spec == Init /\ [][Next]_vars

-----------------------------------------------------------------------------

\* Every variable of the store has its type.
TypeOK ==
    /\ {mem, disk} \subseteq Images
    /\ img \in [Tasks -> Images]
    /\ nread \in [Tasks -> 0 .. Len(ReadOrder) - 1]
    /\ persist_lock \in Tasks \cup {NoTask}
    /\ pc \in [Tasks -> {"idle", "purgeLog", "writeSnap", "persist", "reading"}]
    /\ triggered \in BOOLEAN
    /\ clone \in [Tasks -> StateMachines]
    /\ chosen \in Seq(Entries) /\ Len(chosen) <= MaxIndex
    /\ acked \in [vote : 0 .. MaxVote, committed : 0 .. MaxIndex, log : Logs,
                  applied : 0 .. MaxIndex, snap : 0 .. MaxIndex,
                  head : Entries]
    /\ halted \in BOOLEAN
    /\ crashes \in 0 .. MaxCrashes

\* An image that holds what has been acknowledged, heads left aside.
Holds(image) ==
    /\ image.vote >= acked.vote
    /\ image.committed >= acked.committed
    /\ \A i \in DOMAIN acked.log :
          i \in DOMAIN image.log /\ image.log[i] = acked.log[i]
    /\ image.sm.applied >= acked.applied

(* What an operation of the store has returned is in the file, at every    *)
(* instant: the vote that was granted, every entry reported as flushed,    *)
(* the saved commit index, the applied entries, and the head a client was  *)
(* answered for.  It is what makes a vote or an acknowledged payload       *)
(* survive a crash although persist_to_disk reads the fields one by one    *)
(* while other tasks change them.                                          *)
AckedDurable ==
    /\ Holds(disk)
    /\ block_number(disk.sm.head) >= block_number(acked.head)

(* The file can always be resumed from: it holds every entry between the   *)
(* one its state machine applied last and the end of its log, although the *)
(* log, the purge point and the state machine in it were read at different *)
(* times.                                                                  *)
FileResumable ==
    \A i \in 1 .. LastLog(disk) :
        i > disk.sm.applied => i \in DOMAIN disk.log

(* Through applies, snapshots, crashes and restarts in any order, every    *)
(* state machine of the store - in memory, in the file, in a snapshot -    *)
(* is the one the committed entries up to its last applied entry produce.  *)
(* Among committed payloads with one number and different hashes the first *)
(* is the head, whatever the batches: all servers settle on the same one.  *)
StateMachineFaithful ==
    \A sm \in {mem.sm, mem.snap, disk.sm, disk.snap} :
        /\ sm.applied <= Len(chosen)
        /\ sm.head = HeadOf(chosen, sm.applied)

(* A follower that lags can be served: what is no longer in the log is in  *)
(* the snapshot.  It takes that no crash cuts an install_snapshot short    *)
(* and that snapshots are not installed while one is built.                *)
HolesInSnapshot ==
    \A i \in 1 .. LastLog(mem) :
        i > mem.snap.applied => i \in DOMAIN mem.log

Register == INSTANCE UnsafeHead
                WITH head <- block_number(mem.sm.head),
                     acked <- block_number(acked.head), starts <- crashes

(* The store implements the unsafe-head register: latest_unsafe_payload    *)
(* never goes back while the process runs, and a restart never loses an    *)
(* acknowledged payload.                                                   *)
RefinesUnsafeHead == Register!Spec

=============================================================================
