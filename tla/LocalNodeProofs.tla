-------------------------- MODULE LocalNodeProofs --------------------------
(***************************************************************************)
(* LocalConsensus and its payload file, for every number of callers,       *)
(* servers and payloads: an acknowledged payload is in the file, and the   *)
(* version that membership() answers trails its members.                   *)
(***************************************************************************)
EXTENDS LocalNode, FiniteSetTheorems, TLAPS

----------------------------------------------------------------------------
(* FilePayloadStore.                                                       *)

LocalCallRecords ==
    [pc : {"idle", "members", "bump", "version", "lock", "publish"} \cup FileOps,
     op : {"none", "commit", "membership", "add_voter", "add_non_voter", "demote_voter", "remove_server"},
     id : LocalServers \cup {"none"}, n : Nat]
Files == [n : Nat, synced : BOOLEAN]
Writing == FileOps \cup {"publish"}

(***************************************************************************)
(* While no commit has been dropped: who writes holds the lock and writes  *)
(* a number above the latest, the temporary file is as far as the writer   *)
(* is, and only the writer about to publish is behind the file.            *)
(***************************************************************************)
Orderly ==
    /\ loose = {} /\ latest \in Nat /\ acked \in Nat
    /\ path \in Files /\ tmp \in Files
    /\ local_call \in [LocalCalls -> LocalCallRecords]
    /\ path.synced /\ acked <= latest /\ latest <= path.n
    /\ \A t \in LocalCalls :
        LET c == local_call[t] IN
        /\ c.pc \in Writing => lock = t /\ c.n > latest
        /\ c.pc = "sync" => tmp.n = c.n
        /\ c.pc = "rename" => tmp.n = c.n /\ tmp.synced
        /\ c.pc = "publish" => path.n = c.n

DInv == changes \in Nat /\ dropped \in BOOLEAN /\ (dropped \/ Orderly)

\* No payload is acknowledged and none is in the file.
LEMMA InitDInv == LocalInit => DInv
  <1> SUFFICES ASSUME LocalInit PROVE Orderly /\ dropped \in BOOLEAN /\ changes \in Nat
    BY Zenon DEF DInv
  <1>1. AtRest \in LocalCallRecords /\ AtRest.pc = "idle" /\ NoFile \in Files
    BY Zenon DEF AtRest, LocalCallRecords, NoFile, File, Files
  <1>2. NoFile.n = 0 /\ NoFile.synced
    BY Zenon DEF NoFile, File
  <1>3. \A t \in LocalCalls : local_call[t] = AtRest
    BY Zenon DEF LocalInit
  <1>4. local_call \in [LocalCalls -> LocalCallRecords]
    BY Zenon, <1>1 DEF LocalInit
  <1>5. /\ loose = {} /\ latest = 0 /\ acked = 0 /\ path = NoFile /\ tmp = NoFile
        /\ dropped \in BOOLEAN /\ changes = 0
    BY Zenon DEF LocalInit
  <1> QED
    BY <1>1, <1>2, <1>3, <1>4, <1>5 DEF Orderly, Writing, FileOps

\* A call that does not write changes only itself.
LEMMA AsideStep ==
    ASSUME Orderly, NEW t \in LocalCalls, local_call[t].pc \notin Writing,
           NEW c \in LocalCallRecords, c.pc \notin Writing, local_call' = [local_call EXCEPT ![t] = c],
           UNCHANGED <<latest, lock, path, tmp, loose>>,
           acked' \in Nat, acked' <= latest
    PROVE  Orderly'
  <1>1. local_call' \in [LocalCalls -> LocalCallRecords]
    BY Zenon DEF Orderly
  <1>2. \A u \in LocalCalls : local_call'[u] = local_call[u]
                              \/ local_call'[u].pc \notin Writing
    BY Zenon DEF Orderly
  <1> QED
    BY ZenonT(60), <1>1, <1>2 DEF Orderly, Writing, FileOps

\* A call of LocalConsensus, and the first steps of a commit.
LEMMA CallStep ==
    ASSUME Orderly, changes \in Nat, NEW t \in LocalCalls,
           \/ LocalChange(t) \/ LocalApply(t) \/ LocalBump(t) \/ LocalCommit(t)
           \/ LocalReadMembers(t) \/ LocalReadVersion(t)
    PROVE  Orderly'
  <1>1. PICK c \in LocalCallRecords : c.pc \notin Writing /\ local_call' = [local_call EXCEPT ![t] = c]
    <2>1. CASE LocalChange(t)
      <3>1. PICK op \in {"add_voter", "add_non_voter", "demote_voter", "remove_server"},
                 id \in LocalServers :
                local_call' = [local_call EXCEPT ![t] = [AtRest EXCEPT !.pc = "members", !.op = op,
                                                                       !.id = id]]
        BY Zenon, <2>1 DEF LocalChange
      <3> DEFINE c == [AtRest EXCEPT !.pc = "members", !.op = op, !.id = id]
      <3>2. c \in LocalCallRecords /\ c.pc \notin Writing
        BY Zenon DEF AtRest, LocalCallRecords, Writing, FileOps
      <3> QED
        BY Zenon, <3>1, <3>2
    <2>2. ASSUME NEW pc \in {"bump"}, Goes(t, pc)
          PROVE  \E c \in LocalCallRecords : c.pc \notin Writing /\ local_call' = [local_call EXCEPT ![t] = c]
      <3> DEFINE c == [local_call[t] EXCEPT !.pc = pc]
      <3>1. c \in LocalCallRecords /\ c.pc \notin Writing
        BY <2>2 DEF Orderly, LocalCallRecords, Writing, FileOps
      <3>2. local_call' = [local_call EXCEPT ![t] = c]
        BY Zenon, <2>2 DEF Goes, Orderly
      <3> QED
        BY Zenon, <3>1, <3>2
    <2>3. ASSUME Ends(t)
          PROVE  \E c \in LocalCallRecords : c.pc \notin Writing /\ local_call' = [local_call EXCEPT ![t] = c]
      <3>1. AtRest \in LocalCallRecords /\ AtRest.pc \notin Writing
        BY Zenon DEF AtRest, LocalCallRecords, Writing, FileOps
      <3> QED
        BY Zenon, <2>3, <3>1 DEF Ends
    <2>4. CASE LocalCommit(t)
      <3>1. PICK n \in 1 .. MaxPayload :
                local_call' = [local_call EXCEPT ![t] = [AtRest EXCEPT !.pc = "lock",
                                                             !.op = "commit", !.n = n]]
        BY Zenon, <2>4 DEF LocalCommit
      <3> DEFINE c == [AtRest EXCEPT !.pc = "lock", !.op = "commit", !.n = n]
      <3>2. c \in LocalCallRecords /\ c.pc \notin Writing
        <4>1. n \in Nat
          BY LocalAssumption
        <4> QED
          BY Zenon, <4>1 DEF AtRest, LocalCallRecords, Writing, FileOps
      <3> QED
        BY Zenon, <3>1, <3>2
    <2>5. LocalApply(t) \/ LocalBump(t) \/ LocalReadVersion(t) => Goes(t, "bump") \/ Ends(t)
      BY Zenon DEF LocalApply, LocalBump, LocalReadVersion
    <2>6. CASE LocalReadMembers(t)
      <3> DEFINE c == [AtRest EXCEPT !.pc = "version", !.op = "membership", !.n = changes]
      <3>1. local_call' = [local_call EXCEPT ![t] = c]
        BY Zenon, <2>6 DEF LocalReadMembers
      <3>2. c \in LocalCallRecords /\ c.pc \notin Writing
        BY Zenon DEF AtRest, LocalCallRecords, Writing, FileOps
      <3> QED
        BY Zenon, <3>1, <3>2
    <2> QED
      BY Zenon, <2>1, <2>2, <2>3, <2>4, <2>5, <2>6
  <1>2. /\ local_call[t].pc \notin Writing
        /\ UNCHANGED <<latest, lock, path, tmp, loose, acked>>
    BY Zenon DEF LocalChange, LocalApply, LocalBump, LocalCommit, LocalReadMembers,
                 LocalReadVersion, file_vars, Writing, FileOps
  <1> QED
    BY Zenon, <1>1, <1>2, AsideStep DEF Orderly

\* The lock is taken only for a number above the latest.
LEMMA LockStep == ASSUME Orderly, NEW t \in LocalCalls, CommitLocks(t) PROVE Orderly'
  <1>1. /\ local_call[t].pc = "lock" /\ lock = Nobody
        /\ UNCHANGED <<latest, path, tmp, loose>>
    BY Zenon DEF CommitLocks
  <1>2. local_call[t].n \in Nat /\ AtRest \in LocalCallRecords /\ AtRest.pc = "idle"
    BY Zenon DEF Orderly, LocalCallRecords, AtRest
  <1>3. CASE latest >= local_call[t].n
    <2>1. /\ local_call' = [local_call EXCEPT ![t] = AtRest] /\ lock' = lock
          /\ acked' = Higher(acked, local_call[t].n)
      BY Zenon, <1>3 DEF CommitLocks, Ends
    <2>2. acked' \in Nat /\ acked' <= latest
      BY Zenon, <1>2, <1>3, <2>1 DEF Higher, Orderly
    <2> QED
      BY Zenon, <1>1, <1>2, <2>1, <2>2, AsideStep DEF Writing, FileOps
  <1>4. CASE ~(latest >= local_call[t].n)
    <2> DEFINE c == [local_call[t] EXCEPT !.pc = "create"]
    <2>1. /\ local_call' = [local_call EXCEPT ![t] = c] /\ lock' = t /\ acked' = acked
      BY Zenon, <1>4 DEF CommitLocks, Goes, Orderly
    <2>2. c \in LocalCallRecords /\ c.pc = "create" /\ c.n = local_call[t].n
      BY DEF Orderly, LocalCallRecords, FileOps
    <2> HIDE DEF c
    <2>3. \A u \in LocalCalls : local_call[u].pc \notin Writing
      BY Zenon, <1>1, LocalAssumption DEF Orderly, Nobody
    <2>4. /\ local_call' \in [LocalCalls -> LocalCallRecords] /\ local_call'[t] = c
          /\ \A u \in LocalCalls \ {t} : local_call'[u] = local_call[u]
      BY Zenon, <2>1, <2>2 DEF Orderly
    <2>5. c.n > latest
      BY <1>2, <1>4, <2>2 DEF Orderly
    <2> QED
      BY Zenon, <1>1, <2>1, <2>2, <2>3, <2>4, <2>5 DEF Orderly, Writing, FileOps
  <1> QED
    BY Zenon, <1>3, <1>4

\* The writer is alone.
LEMMA OneWriter ==
    ASSUME Orderly, NEW t \in LocalCalls, local_call[t].pc \in Writing
    PROVE  \A u \in LocalCalls \ {t} : local_call[u].pc \notin Writing
  BY Zenon DEF Orderly

\* A file operation of persist, by the one writer.
LEMMA FileStep == ASSUME Orderly, NEW t \in LocalCalls, FileOp(t) PROVE Orderly'
  <1> DEFINE op == local_call[t].pc
             n == local_call[t].n
  <1>1. /\ op \in FileOps /\ UNCHANGED <<latest, loose, acked>>
    BY Zenon DEF FileOp
  <1>2. /\ \A u \in LocalCalls \ {t} : local_call[u].pc \notin Writing
        /\ lock = t /\ n > latest /\ n \in Nat
    BY Zenon, <1>1, OneWriter DEF Orderly, Writing, LocalCallRecords
  <1>3. CASE Ends(t) /\ lock' = Nobody /\ UNCHANGED <<path, tmp>>
    <2>1. AtRest \in LocalCallRecords /\ AtRest.pc = "idle"
      BY Zenon DEF LocalCallRecords, AtRest
    <2>2. /\ local_call' \in [LocalCalls -> LocalCallRecords]
          /\ \A u \in LocalCalls : local_call'[u].pc \notin Writing
      BY Zenon, <1>2, <1>3, <2>1 DEF Ends, Orderly, Writing, FileOps
    <2> QED
      BY Zenon, <1>1, <1>3, <2>2 DEF Orderly, Writing, FileOps
  <1>4. CASE Effect(op, n) /\ Goes(t, After(op)) /\ UNCHANGED lock
    <2> DEFINE c == [local_call[t] EXCEPT !.pc = After(op)]
    <2>1. After(op) \in Writing
      BY Zenon, <1>1 DEF After, FileOps, Writing
    <2>2. c \in LocalCallRecords /\ c.pc = After(op) /\ c.n = n
      BY <2>1 DEF Orderly, LocalCallRecords, Writing
    <2>3. local_call' = [local_call EXCEPT ![t] = c]
      BY Zenon, <1>4 DEF Goes, Orderly
    <2> HIDE DEF c
    <2>4. /\ local_call' \in [LocalCalls -> LocalCallRecords] /\ local_call'[t] = c
          /\ \A u \in LocalCalls \ {t} : local_call'[u] = local_call[u]
      BY Zenon, <2>2, <2>3 DEF Orderly
    <2>5. CASE op = "create"
      <3>1. c.pc = "write" /\ tmp' = File(0, FALSE) /\ path' = path
        BY Zenon, <1>4, <2>2, <2>5 DEF After, Effect
      <3>2. tmp' \in Files
        BY Zenon, <3>1 DEF File, Files
      <3> QED
        BY ZenonT(60), <1>1, <1>2, <1>4, <2>2, <2>4, <3>1, <3>2 DEF Orderly, Writing, FileOps
    <2>6. CASE op = "write"
      <3>1. c.pc = "sync" /\ tmp' = File(n, FALSE) /\ path' = path
        BY Zenon, <1>4, <2>2, <2>6 DEF After, Effect
      <3>2. tmp' \in Files /\ tmp'.n = n
        BY Zenon, <1>2, <3>1 DEF File, Files
      <3> QED
        BY ZenonT(60), <1>1, <1>2, <1>4, <2>2, <2>4, <3>1, <3>2 DEF Orderly, Writing, FileOps
    <2>7. CASE op = "sync"
      <3>1. c.pc = "rename" /\ tmp' = File(tmp.n, TRUE) /\ path' = path /\ tmp.n = n
        BY Zenon, <1>4, <2>2, <2>7 DEF After, Effect, Orderly
      <3>2. tmp' \in Files /\ tmp'.n = n /\ tmp'.synced
        BY Zenon, <1>2, <3>1 DEF File, Files
      <3> QED
        BY ZenonT(60), <1>1, <1>2, <1>4, <2>2, <2>4, <3>1, <3>2 DEF Orderly, Writing, FileOps
    <2>8. CASE op = "rename"
      <3>1. c.pc = "publish" /\ tmp' = NoFile /\ path' = tmp /\ tmp.n = n /\ tmp.synced
        BY Zenon, <1>4, <2>2, <2>8 DEF After, Effect, Orderly
      <3>2. tmp' \in Files
        BY Zenon, <3>1 DEF File, Files, NoFile
      <3> QED
        BY <1>1, <1>2, <1>4, <2>2, <2>4, <3>1, <3>2 DEF Orderly, Writing, FileOps
    <2> QED
      BY Zenon, <1>1, <2>5, <2>6, <2>7, <2>8 DEF FileOps
  <1> QED
    BY Zenon, <1>3, <1>4 DEF FileOp

\* What a commit publishes is in the file.
LEMMA PublishStep == ASSUME Orderly, NEW t \in LocalCalls, CommitPublishes(t) PROVE Orderly'
  <1> DEFINE n == local_call[t].n
  <1>1. /\ local_call[t].pc = "publish" /\ latest' = n /\ acked' = Higher(acked, n)
        /\ local_call' = [local_call EXCEPT ![t] = AtRest] /\ UNCHANGED <<path, tmp, loose>>
    BY Zenon DEF CommitPublishes, Ends
  <1>2. \A u \in LocalCalls \ {t} : local_call[u].pc \notin Writing
    BY Zenon, <1>1, OneWriter DEF Writing
  <1>3. n \in Nat /\ n > latest /\ path.n = n
    BY Zenon, <1>1 DEF Orderly, LocalCallRecords, Writing
  <1>4. acked' = n
    BY <1>1, <1>3 DEF Higher, Orderly
  <1>5. AtRest \in LocalCallRecords /\ AtRest.pc = "idle"
    BY Zenon DEF LocalCallRecords, AtRest
  <1>6. /\ local_call' \in [LocalCalls -> LocalCallRecords]
        /\ \A u \in LocalCalls : local_call'[u].pc \notin Writing
    BY Zenon, <1>1, <1>2, <1>5 DEF Orderly, Writing, FileOps
  <1> QED
    BY <1>1, <1>3, <1>4, <1>6 DEF Orderly, Writing, FileOps

\* open() takes the file's number, whoever was writing.
LEMMA RestartStep == ASSUME Orderly, LocalRestart PROVE Orderly'
  <1>1. AtRest \in LocalCallRecords /\ AtRest.pc = "idle" /\ NoFile \in Files
    BY Zenon DEF LocalCallRecords, AtRest, NoFile, File, Files
  <1>2. /\ local_call' \in [LocalCalls -> LocalCallRecords]
        /\ \A u \in LocalCalls : local_call'[u].pc \notin Writing
    BY Zenon, <1>1 DEF LocalRestart, Writing, FileOps
  <1>3. path.n \in Nat
    BY Zenon DEF Orderly, Files
  <1> QED
    BY <1>1, <1>2, <1>3 DEF LocalRestart, Orderly, Writing, FileOps

\* That a commit was dropped is never forgotten.
LEMMA NextDroppedStays ==
    ASSUME DInv, [LocalNext]_local_vars PROVE dropped' \in BOOLEAN /\ (dropped => dropped')
  BY Zenon DEF DInv, LocalNext, LocalMembership, LocalPayloads, LocalRestart, LocalChange, LocalApply,
         LocalBump, LocalReadMembers, LocalReadVersion, LocalCommit, CommitLocks, FileOp,
         CommitPublishes, CommitDropped, LooseOp, LocalTransfer, file_vars, local_vars

\* The changes are counted one by one.
LEMMA ChangesCount ==
    ASSUME changes \in Nat, [LocalNext]_local_vars PROVE changes' \in Nat
  <1>1. changes' \in {0, changes, changes + 1}
    BY Zenon DEF LocalNext, LocalMembership, LocalPayloads, LocalRestart, LocalChange, LocalApply,
         LocalBump, LocalReadMembers, LocalReadVersion, LocalCommit, CommitLocks, FileOp,
         CommitPublishes, CommitDropped, LooseOp, LocalTransfer, membership_vars, local_vars
  <1> QED
    BY ONLY SMTT(30), <1>1, changes \in Nat

\* Every step of the local node keeps DInv.
LEMMA NextDInv == ASSUME DInv, [LocalNext]_local_vars PROVE DInv'
  <1>1. dropped' \in BOOLEAN /\ (dropped => dropped') /\ changes \in Nat /\ changes' \in Nat
    BY Zenon, NextDroppedStays, ChangesCount DEF DInv
  <1>2. ASSUME Orderly, ~dropped' PROVE Orderly'
    <2>1. CASE \/ LocalTransfer \/ UNCHANGED local_vars
      BY ZenonT(60), <1>2, <2>1 DEF LocalTransfer, file_vars, local_vars, Orderly
    <2>2. ~LooseOp
      BY Zenon, <1>2 DEF LooseOp, Orderly
    <2>3. \A t \in LocalCalls : ~CommitDropped(t)
      BY Zenon, <1>2 DEF CommitDropped
    <2> QED
      BY Zenon, <1>1, <1>2, <2>1, <2>2, <2>3, CallStep, LockStep, FileStep, PublishStep, RestartStep
         DEF LocalNext, LocalMembership, LocalPayloads
  <1> QED
    BY Zenon, <1>1, <1>2 DEF DInv

\* An acknowledged payload is on disk, synced, under the name open() reads,
\* at whatever point the process dies, as long as no commit is dropped.
THEOREM AckedOnDiskCorrect == LocalSpec => []AckedOnDisk
  <1>1. DInv => AckedOnDisk
    BY DEF DInv, Orderly, AckedOnDisk, Files
  <1> QED
    BY <1>1, InitDInv, NextDInv, PTL DEF LocalSpec

\* The payload that a reader is answered never goes back, not even over a
\* restart, as long as no commit is dropped.
THEOREM LocalHeadCorrect == LocalSpec => LocalHeadNeverGoesBack
  <1>1. ASSUME DInv, [LocalNext]_local_vars, ~dropped' PROVE latest' >= latest
    <2>1. Orderly
      BY Zenon, <1>1, NextDroppedStays DEF DInv
    <2>2. latest \in Nat /\ path.n \in Nat /\ latest <= path.n
      BY Zenon, <2>1 DEF Orderly, Files
    <2>3. ASSUME NEW t \in LocalCalls, CommitPublishes(t) PROVE latest' >= latest
      <3>1. /\ latest' = local_call[t].n /\ local_call[t].n > latest
            /\ local_call[t].n \in Nat
        BY Zenon, <2>1, <2>3 DEF CommitPublishes, Orderly, Writing, LocalCallRecords
      <3> QED
        BY ONLY SMTT(30), <2>2, <3>1
    <2>4. CASE LocalRestart
      <3>1. latest' = path.n
        BY Zenon, <2>4 DEF LocalRestart
      <3> QED
        BY ONLY SMTT(30), <2>2, <3>1
    <2>5. CASE UNCHANGED latest
      BY ONLY SMTT(30), <2>2, <2>5
    <2>6. \/ \E t \in LocalCalls : CommitPublishes(t)
          \/ LocalRestart \/ UNCHANGED latest
      BY ZenonT(60), <1>1
      DEF LocalNext, LocalMembership, LocalPayloads, LocalChange, LocalApply, LocalBump,
          LocalReadMembers, LocalReadVersion, LocalCommit, CommitLocks, FileOp, CommitDropped, LooseOp, LocalTransfer,
          file_vars, local_vars
    <2> QED
      BY Zenon, <2>3, <2>4, <2>5, <2>6
  <1>2. DInv /\ [LocalNext]_local_vars => [~dropped' => latest' >= latest]_local_vars
    BY Zenon, <1>1
  <1> QED
    BY <1>2, InitDInv, NextDInv, PTL DEF LocalSpec, LocalHeadNeverGoesBack

----------------------------------------------------------------------------
(* LocalConsensus.                                                         *)

CallTypes == local_call \in [LocalCalls -> LocalCallRecords]

\* Call t goes to pc, and no other call moves.
Moved(t, pc) ==
    /\ CallTypes' /\ local_call'[t].pc = pc
    /\ \A u \in LocalCalls \ {t} : local_call'[u] = local_call[u]

\* A call whose record is replaced has moved.
LEMMA Replaced ==
  ASSUME CallTypes, NEW t \in LocalCalls, NEW c \in LocalCallRecords,
         local_call' = [local_call EXCEPT ![t] = c]
  PROVE  Moved(t, c.pc)
  BY Zenon DEF CallTypes, Moved

\* A call that goes on has moved.
LEMMA GoesMoves ==
  ASSUME CallTypes, NEW t \in LocalCalls,
         NEW pc \in {"idle", "members", "bump", "version", "lock", "publish"} \cup FileOps,
         Goes(t, pc)
  PROVE  Moved(t, pc)
  <1> DEFINE c == [local_call[t] EXCEPT !.pc = pc]
  <1>1. c \in LocalCallRecords /\ c.pc = pc
    BY ZenonT(60) DEF CallTypes, LocalCallRecords
  <1>2. local_call' = [local_call EXCEPT ![t] = c]
    BY Zenon DEF Goes, CallTypes
  <1> HIDE DEF c
  <1> QED
    BY Zenon, <1>1, <1>2, Replaced

\* A call that ends has moved.
LEMMA EndsMoves == ASSUME CallTypes, NEW t \in LocalCalls, Ends(t) PROVE Moved(t, "idle")
  <1>1. AtRest \in LocalCallRecords /\ AtRest.pc = "idle"
    BY Zenon DEF AtRest, LocalCallRecords
  <1> QED
    BY Zenon, <1>1, Replaced DEF Ends

\* Where a step of a commit or a new call takes its call, and what it leaves.
LEMMA QuietMoves ==
  ASSUME CallTypes, NEW t \in LocalCalls,
         \/ LocalChange(t) \/ LocalCommit(t) \/ CommitLocks(t) \/ FileOp(t)
         \/ CommitPublishes(t) \/ CommitDropped(t) \/ LocalReadVersion(t)
  PROVE  /\ UNCHANGED membership_vars /\ local_call[t].pc # "bump"
         /\ \E pc : pc \notin {"bump", "version"} /\ Moved(t, pc)
  <1>1. UNCHANGED membership_vars /\ local_call[t].pc # "bump"
    BY Zenon DEF LocalChange, LocalCommit, CommitLocks, FileOp, CommitPublishes, CommitDropped,
                 LocalReadVersion, FileOps
  <1>2. CASE LocalChange(t)
    <2>1. PICK op \in {"add_voter", "add_non_voter", "demote_voter", "remove_server"},
               id \in LocalServers :
              local_call' = [local_call EXCEPT ![t] = [AtRest EXCEPT !.pc = "members", !.op = op,
                                                                     !.id = id]]
      BY Zenon, <1>2 DEF LocalChange
    <2> DEFINE c == [AtRest EXCEPT !.pc = "members", !.op = op, !.id = id]
    <2>2. c \in LocalCallRecords /\ c.pc = "members"
      BY Zenon DEF AtRest, LocalCallRecords
    <2> HIDE DEF c
    <2> QED
      BY Zenon, <1>1, <2>1, <2>2, Replaced DEF c
  <1>3. CASE LocalCommit(t)
    <2>1. PICK n \in 1 .. MaxPayload :
              local_call' = [local_call EXCEPT ![t] = [AtRest EXCEPT !.pc = "lock",
                                                           !.op = "commit", !.n = n]]
      BY Zenon, <1>3 DEF LocalCommit
    <2> DEFINE c == [AtRest EXCEPT !.pc = "lock", !.op = "commit", !.n = n]
    <2>2. c \in LocalCallRecords /\ c.pc = "lock"
      <3>1. n \in Nat
        BY LocalAssumption
      <3> QED
        BY Zenon, <3>1 DEF AtRest, LocalCallRecords
    <2> HIDE DEF c
    <2> QED
      BY Zenon, <1>1, <2>1, <2>2, Replaced DEF c
  <1>4. CASE \/ CommitLocks(t) \/ FileOp(t) \/ CommitPublishes(t) \/ CommitDropped(t)
             \/ LocalReadVersion(t)
    <2>1. \/ Ends(t) \/ Goes(t, "create")
          \/ local_call[t].pc \in FileOps /\ Goes(t, After(local_call[t].pc))
      BY Zenon, <1>4 DEF CommitLocks, FileOp, CommitPublishes, CommitDropped, LocalReadVersion
    <2>2. local_call[t].pc \in FileOps => After(local_call[t].pc) \in FileOps \cup {"publish"}
      BY Zenon DEF After, FileOps
    <2>3. "create" \in FileOps /\ "bump" \notin FileOps /\ "version" \notin FileOps
      BY Zenon DEF FileOps
    <2> QED
      BY Zenon, <1>1, <2>1, <2>2, <2>3, GoesMoves, EndsMoves
  <1> QED
    BY Zenon, <1>2, <1>3, <1>4

Bumping == {t \in LocalCalls : local_call[t].pc = "bump"}

(***************************************************************************)
(* Every change is counted by the version or by a call about to count it,  *)
(* and the members that a call has read and still has locked are up to     *)
(* date.                                                                   *)
(***************************************************************************)
VInv ==
    /\ CallTypes /\ version \in Nat /\ changes \in Nat
    /\ changes + 1 = version + Cardinality(Bumping)
    /\ \A t \in LocalCalls : local_call[t].pc = "version" => local_call[t].n = changes

\* Finitely many calls are about to count their change.
LEMMA BumpingFinite ==
  /\ IsFiniteSet(Bumping) /\ Cardinality(Bumping) \in Nat
  <1>1. Bumping \in SUBSET LocalCalls
    BY Zenon DEF Bumping
  <1> QED
    BY Zenon, <1>1, LocalAssumption, FS_Subset, FS_CardinalityType

\* A call's step changes members or version as its program point says.
LEMMA VStep ==
  ASSUME VInv, NEW t \in LocalCalls,
         \/ LocalChange(t) \/ LocalCommit(t) \/ CommitLocks(t) \/ FileOp(t)
         \/ CommitPublishes(t) \/ CommitDropped(t) \/ LocalApply(t) \/ LocalBump(t)
         \/ LocalReadMembers(t) \/ LocalReadVersion(t)
  PROVE  VInv'
  <1>1. CallTypes /\ version \in Nat /\ changes \in Nat
        /\ changes + 1 = version + Cardinality(Bumping)
    BY Zenon DEF VInv
  <1>2. \A u \in LocalCalls : local_call[u].pc = "version" => local_call[u].n = changes
    BY Zenon DEF VInv
  <1>3. ASSUME NEW pc, pc # "bump", Moved(t, pc), local_call[t].pc # "bump",
               \/ UNCHANGED <<version, changes>>
               \/ version' = version + 1 /\ changes' = changes + 1
        PROVE  /\ CallTypes' /\ version' \in Nat /\ changes' \in Nat
               /\ changes' + 1 = version' + Cardinality(Bumping')
    <2>1. Bumping' = Bumping
      BY Zenon, <1>3 DEF Bumping, Moved
    <2>2. CallTypes' /\ Cardinality(Bumping) \in Nat
      BY Zenon, <1>3, BumpingFinite DEF Moved
    <2> QED
      BY SMTT(30), <1>1, <1>3, <2>1, <2>2
  <1>4. CASE LocalApply(t)
    <2>1. local_call[t].pc = "members" /\ \A u \in LocalCalls : local_call[u].pc # "version"
      BY Zenon, <1>4 DEF LocalApply, MembersUnread
    <2>2. CASE /\ Ends(t)
               /\ \/ UNCHANGED <<version, changes>>
                  \/ version' = version + 1 /\ changes' = changes + 1
      <3>1. Moved(t, "idle")
        BY Zenon, <1>1, <2>2, EndsMoves
      <3>2. \A u \in LocalCalls : local_call'[u].pc # "version"
        BY Zenon, <2>1, <3>1 DEF Moved
      <3>3. /\ CallTypes' /\ version' \in Nat /\ changes' \in Nat
            /\ changes' + 1 = version' + Cardinality(Bumping')
        BY Zenon, <1>3, <2>1, <2>2, <3>1
      <3> QED
        BY Zenon, <3>2, <3>3 DEF VInv
    <2>3. CASE changes' = changes + 1 /\ Goes(t, "bump") /\ UNCHANGED version
      <3>1. Moved(t, "bump")
        BY Zenon, <1>1, <2>3, GoesMoves
      <3>2. Bumping' = Bumping \cup {t} /\ t \notin Bumping
        BY Zenon, <2>1, <3>1 DEF Bumping, Moved
      <3>3. Cardinality(Bumping') = Cardinality(Bumping) + 1 /\ Cardinality(Bumping) \in Nat
        BY Zenon, <3>2, BumpingFinite, FS_AddElement
      <3>4. \A u \in LocalCalls : local_call'[u].pc # "version"
        BY Zenon, <2>1, <3>1 DEF Moved
      <3>5. /\ version' \in Nat /\ changes' \in Nat
            /\ changes' + 1 = version' + Cardinality(Bumping')
        BY SMTT(30), <1>1, <2>3, <3>3
      <3> QED
        BY Zenon, <3>1, <3>4, <3>5 DEF VInv, Moved
    <2> QED
      BY Zenon, <1>4, <2>2, <2>3 DEF LocalApply, membership_vars
  <1>5. CASE LocalBump(t)
    <2>1. Moved(t, "idle") /\ local_call[t].pc = "bump"
      BY Zenon, <1>1, <1>5, EndsMoves DEF LocalBump
    <2>2. Bumping' = Bumping \ {t} /\ t \in Bumping
      BY Zenon, <2>1 DEF Bumping, Moved
    <2>3. Cardinality(Bumping') = Cardinality(Bumping) - 1 /\ Cardinality(Bumping) \in Nat
      BY Zenon, <2>2, BumpingFinite, FS_RemoveElement
    <2>4. changes' = changes /\ version' = version + 1
      BY Zenon, <1>5 DEF LocalBump
    <2>5. /\ version' \in Nat /\ changes' \in Nat
          /\ changes' + 1 = version' + Cardinality(Bumping')
      BY SMTT(30), <1>1, <2>3, <2>4
    <2>6. \A u \in LocalCalls : local_call'[u].pc = "version" => local_call'[u].n = changes'
      BY Zenon, <1>2, <2>1, <2>4 DEF Moved
    <2> QED
      BY Zenon, <2>1, <2>5, <2>6 DEF VInv, Moved
  <1>6. CASE \/ LocalChange(t) \/ LocalCommit(t) \/ CommitLocks(t) \/ FileOp(t)
             \/ CommitPublishes(t) \/ CommitDropped(t) \/ LocalReadVersion(t)
    <2>1. PICK pc : pc \notin {"bump", "version"} /\ Moved(t, pc)
      BY Zenon, <1>1, <1>6, QuietMoves
    <2>2. UNCHANGED <<version, changes>> /\ local_call[t].pc # "bump"
      BY Zenon, <1>1, <1>6, QuietMoves DEF membership_vars
    <2>3. \A u \in LocalCalls : local_call'[u].pc = "version" => local_call'[u].n = changes'
      BY Zenon, <1>2, <2>1, <2>2 DEF Moved
    <2> QED
      BY Zenon, <1>3, <2>1, <2>2, <2>3 DEF VInv
  <1>7. CASE LocalReadMembers(t)
    <2> DEFINE c == [AtRest EXCEPT !.pc = "version", !.op = "membership", !.n = changes]
    <2>1. /\ local_call' = [local_call EXCEPT ![t] = c]
          /\ UNCHANGED <<version, changes>> /\ local_call[t].pc # "bump"
      BY Zenon, <1>7 DEF LocalReadMembers, membership_vars
    <2>2. c \in LocalCallRecords /\ c.pc = "version" /\ c.n = changes
      BY Zenon, <1>1 DEF AtRest, LocalCallRecords
    <2> HIDE DEF c
    <2>3. Moved(t, "version") /\ local_call'[t] = c
      BY Zenon, <1>1, <2>1, <2>2, Replaced DEF CallTypes
    <2>4. \A u \in LocalCalls : local_call'[u].pc = "version" => local_call'[u].n = changes'
      BY Zenon, <1>2, <2>1, <2>2, <2>3 DEF Moved
    <2> QED
      BY Zenon, <1>3, <2>1, <2>3, <2>4 DEF VInv
  <1> QED
    BY Zenon, <1>4, <1>5, <1>6, <1>7

\* The version that membership() loads trails the members it has read by the
\* calls about to count their change.
THEOREM VersionCorrect == LocalSpec => []VersionTrailsMembers
  <1>1. AtRest \in LocalCallRecords /\ AtRest.pc = "idle"
    BY Zenon DEF AtRest, LocalCallRecords
  <1>2. LocalInit => VInv
    <2> SUFFICES ASSUME LocalInit PROVE VInv
      OBVIOUS
    <2>1. /\ CallTypes /\ Bumping = {}
          /\ \A t \in LocalCalls : local_call[t].pc # "version"
      BY Zenon, <1>1 DEF LocalInit, CallTypes, Bumping
    <2> QED
      BY <2>1, FS_EmptySet DEF LocalInit, VInv
  <1>3. ASSUME VInv, [LocalNext]_local_vars PROVE VInv'
    <2>1. CASE LocalRestart
      <3>1. /\ CallTypes' /\ Bumping' = {}
            /\ \A t \in LocalCalls : local_call'[t].pc # "version"
        BY Zenon, <1>1, <2>1 DEF LocalRestart, CallTypes, Bumping
      <3> QED
        BY <2>1, <3>1, FS_EmptySet DEF LocalRestart, VInv
    <2>2. CASE LooseOp \/ LocalTransfer \/ UNCHANGED local_vars
      BY Zenon, <1>3, <2>2 DEF LooseOp, LocalTransfer, local_vars, membership_vars, VInv, CallTypes, Bumping
    <2> QED
      BY Zenon, <1>3, <2>1, <2>2, VStep DEF LocalNext, LocalMembership, LocalPayloads
  <1>4. VInv => VersionTrailsMembers
    <2> SUFFICES ASSUME VInv, NEW t \in LocalCalls, local_call[t].pc = "version"
                 PROVE  /\ version <= local_call[t].n + 1
                        /\ local_call[t].n + 1 - version = Cardinality(Bumping)
      BY Zenon DEF VersionTrailsMembers, Bumping
    <2>1. /\ local_call[t].n = changes /\ version \in Nat /\ changes \in Nat
          /\ changes + 1 = version + Cardinality(Bumping) /\ Cardinality(Bumping) \in Nat
      BY Zenon, BumpingFinite DEF VInv
    <2> QED
      BY ONLY SMTT(30), <2>1
  <1> QED
    BY <1>2, <1>3, <1>4, PTL DEF LocalSpec
=============================================================================
