----------------------------- MODULE LocalNode -----------------------------
(***************************************************************************)
(* The single-server stand-ins for Raft: LocalConsensus (consensus.rs),    *)
(* whose version is an atomic beside the locked members, and the           *)
(* FilePayloadStore under it (store.rs), which replaces its file by        *)
(* writing a temporary one and renaming it.  A payload is its number; a    *)
(* rename is taken to last, as the directory sync after it is best effort. *)
(***************************************************************************)
EXTENDS Naturals, FiniteSets

CONSTANTS
    LocalServers,
    LocalMe,        \* LocalConsensus.server_id
    LocalCalls,     \* callers
    MaxPayload,     \* bound: payload numbers
    MaxLocalChanges \* bound: membership changes

ASSUME LocalAssumption ==
    /\ MaxPayload \in Nat /\ MaxLocalChanges \in Nat
    /\ IsFiniteSet(LocalCalls) /\ "nobody" \notin LocalCalls

VARIABLES
    members,        \* LocalConsensus.members: suffrage by server
    version,        \* LocalConsensus.version
    changes,        \* history: changes made to members
    is_leader,      \* LocalConsensus.leader
    latest,         \* FilePayloadStore.latest; 0 for None
    lock,           \* who holds its write lock
    path,           \* the file: number, and whether its content is synced
    tmp,            \* the temporary file
    loose,          \* file operations whose caller is gone
    local_call,     \* the calls
    acked,          \* history: the highest number acknowledged
    dropped         \* history: some commit was dropped while it wrote

local_vars == <<members, version, changes, is_leader, latest, lock, path, tmp, loose,
                local_call, acked, dropped>>

File(n, synced) == [n |-> n, synced |-> synced]
NoFile == File(0, TRUE)
Nobody == "nobody"
JustMe == [s \in LocalServers |-> IF s = LocalMe THEN "Voter" ELSE "none"]
AtRest == [pc |-> "idle", op |-> "none", id |-> "none", n |-> 0]

LocalInit ==
    /\ members = JustMe
    /\ version = 1 /\ changes = 0
    /\ is_leader = TRUE
    /\ latest = 0 /\ lock = Nobody
    /\ path = NoFile /\ tmp = NoFile /\ loose = {}
    /\ local_call = [t \in LocalCalls |-> AtRest]
    /\ acked = 0 /\ dropped = FALSE

membership_vars == <<members, version, changes>>
file_vars == <<latest, lock, path, tmp, loose, acked, dropped>>

Goes(t, pc) == local_call' = [local_call EXCEPT ![t].pc = pc]
Ends(t) == local_call' = [local_call EXCEPT ![t] = AtRest]

----------------------------------------------------------------------------
(* LocalConsensus.                                                         *)

\* check_version lets 0 and our version through; another ends the call.
LocalChange(t) ==
    /\ local_call[t].pc = "idle" /\ changes < MaxLocalChanges
    /\ \E op \in {"add_voter", "add_non_voter", "demote_voter", "remove_server"},
          id \in LocalServers, expected \in 0 .. MaxLocalChanges + 1 :
           /\ expected \in {0, version}
           /\ local_call' = [local_call EXCEPT ![t] = [AtRest EXCEPT !.pc = "members", !.op = op,
                                                                     !.id = id]]
    /\ UNCHANGED <<membership_vars, is_leader, file_vars>>

\* membership() reads the members.  The guard of its read lock lives to the
\* end of the expression, so that the version is read under the lock too;
\* `n' is history: the changes these members include.
LocalReadMembers(t) ==
    /\ local_call[t].pc = "idle"
    /\ local_call' = [local_call EXCEPT ![t] = [AtRest EXCEPT !.pc = "version",
                                                              !.op = "membership", !.n = changes]]
    /\ UNCHANGED <<membership_vars, is_leader, file_vars>>

LocalReadVersion(t) ==
    /\ local_call[t].pc = "version"
    /\ Ends(t)
    /\ UNCHANGED <<membership_vars, is_leader, file_vars>>

\* Mutant: membership() gives the lock back before it reads the version.
MembersUnread_early == TRUE

\* What members.write() waits for.
MembersUnread == \A t \in LocalCalls : local_call[t].pc # "version"

\* Under the members lock: a demotion keeps it until the version counts.
LocalApply(t) ==
    LET c == local_call[t] IN
    /\ c.pc = "members" /\ MembersUnread
    /\ IF c.op = "demote_voter"
       THEN IF members[c.id] = "none"
            THEN Ends(t) /\ UNCHANGED membership_vars
            ELSE /\ members' = [members EXCEPT ![c.id] = "Nonvoter"]
                 /\ changes' = changes + 1 /\ version' = version + 1
                 /\ Ends(t)
       ELSE /\ members' = [members EXCEPT ![c.id] = CASE c.op = "add_voter" -> "Voter"
                                                      [] c.op = "add_non_voter" -> "Nonvoter"
                                                      [] OTHER -> "none"]
            /\ changes' = changes + 1
            /\ Goes(t, "bump") /\ UNCHANGED version
    /\ UNCHANGED <<is_leader, file_vars>>

\* fetch_add, after the lock is released.
LocalBump(t) ==
    /\ local_call[t].pc = "bump"
    /\ version' = version + 1
    /\ Ends(t)
    /\ UNCHANGED <<members, changes, is_leader, file_vars>>

\* transfer_leader, and transfer_leader_to a member at its address.
LocalTransfer ==
    /\ is_leader /\ is_leader' = FALSE
    /\ UNCHANGED <<membership_vars, file_vars, local_call>>

----------------------------------------------------------------------------
(* FilePayloadStore.                                                       *)

\* commit_unsafe_payload is refused on a follower.
LocalCommit(t) ==
    /\ local_call[t].pc = "idle" /\ is_leader
    /\ \E n \in 1 .. MaxPayload :
           local_call' = [local_call EXCEPT ![t] = [AtRest EXCEPT !.pc = "lock", !.op = "commit",
                                                                  !.n = n]]
    /\ UNCHANGED <<membership_vars, is_leader, file_vars>>

Higher(a, b) == IF a > b THEN a ELSE b

\* A number that is not above the latest is acknowledged without a write.
CommitLocks(t) ==
    /\ local_call[t].pc = "lock" /\ lock = Nobody
    /\ IF latest >= local_call[t].n
       THEN /\ Ends(t) /\ acked' = Higher(acked, local_call[t].n)
            /\ UNCHANGED lock
       ELSE /\ Goes(t, "create") /\ lock' = t
            /\ UNCHANGED acked
    /\ UNCHANGED <<membership_vars, is_leader, latest, path, tmp, loose, dropped>>

\* persist: one blocking file operation after the other.
FileOps == {"create", "write", "sync", "rename"}

\* Mutant: the temporary file is not synced before it is renamed.
After_unsynced(op) == CASE op = "create" -> "write" [] op = "rename" -> "publish" [] OTHER -> "rename"

After(op) == CASE op = "create" -> "write" [] op = "write" -> "sync"
               [] op = "sync" -> "rename" [] OTHER -> "publish"

\* What an operation does to the two files; without a temporary file, sync
\* and rename fail.
Works(op) == op \in {"create", "write"} \/ tmp # NoFile

Effect(op, n) ==
    /\ tmp' = CASE op = "create" -> File(0, FALSE)
                [] op = "write" -> File(n, FALSE)
                [] op = "sync" -> File(tmp.n, TRUE)
                [] OTHER -> NoFile
    /\ path' = IF op = "rename" THEN tmp ELSE path

FileOp(t) ==
    LET c == local_call[t] IN
    /\ c.pc \in FileOps
    /\ \/ /\ Works(c.pc) /\ Effect(c.pc, c.n)
          /\ Goes(t, After(c.pc)) /\ UNCHANGED lock
       \/ Ends(t) /\ lock' = Nobody /\ UNCHANGED <<path, tmp>>
    /\ UNCHANGED <<membership_vars, is_leader, latest, loose, acked, dropped>>

CommitPublishes(t) ==
    /\ local_call[t].pc = "publish"
    /\ latest' = local_call[t].n /\ lock' = Nobody
    /\ acked' = Higher(acked, latest')
    /\ Ends(t)
    /\ UNCHANGED <<membership_vars, is_leader, path, tmp, loose, dropped>>

\* The call is dropped, once; the operation it waits for still runs.
CommitDropped(t) ==
    /\ local_call[t].pc \in FileOps /\ ~dropped
    /\ loose' = {[op |-> local_call[t].pc, n |-> local_call[t].n]}
    /\ lock' = Nobody /\ dropped' = TRUE
    /\ Ends(t)
    /\ UNCHANGED <<membership_vars, is_leader, latest, path, tmp, acked>>

LooseOp ==
    /\ \E o \in loose : /\ loose' = loose \ {o}
                        /\ IF Works(o.op) THEN Effect(o.op, o.n) ELSE UNCHANGED <<path, tmp>>
    /\ UNCHANGED <<membership_vars, is_leader, latest, lock, acked, dropped, local_call>>

\* Mutant of LocalRestart: open() starts without the payload in the file.
LocalRestartEmpty ==
    /\ path.synced
    /\ latest' = 0 /\ lock' = Nobody /\ loose' = {} /\ tmp' = NoFile
    /\ local_call' = [t \in LocalCalls |-> AtRest]
    /\ version' = 1 /\ changes' = 0 /\ is_leader' = TRUE
    /\ members' = JustMe
    /\ UNCHANGED <<path, acked, dropped>>

\* The process dies and open() reads the file back; nothing else is kept.  A
\* file whose content was not synced may be torn, and then does not open.
LocalRestart ==
    /\ path.synced
    /\ latest' = path.n /\ lock' = Nobody /\ loose' = {} /\ tmp' = NoFile
    /\ local_call' = [t \in LocalCalls |-> AtRest]
    /\ version' = 1 /\ changes' = 0 /\ is_leader' = TRUE
    /\ members' = JustMe
    /\ UNCHANGED <<path, acked, dropped>>

LocalMembership ==
    \E t \in LocalCalls : \/ LocalChange(t) \/ LocalApply(t) \/ LocalBump(t)
                          \/ LocalReadMembers(t) \/ LocalReadVersion(t)

LocalPayloads ==
    \/ \E t \in LocalCalls : \/ LocalCommit(t) \/ CommitLocks(t) \/ FileOp(t)
                              \/ CommitPublishes(t) \/ CommitDropped(t)
    \/ LooseOp \/ LocalTransfer

LocalNext == LocalMembership \/ LocalPayloads \/ LocalRestart

LocalSpec == LocalInit /\ [][LocalNext]_local_vars

----------------------------------------------------------------------------

(***************************************************************************)
(* What membership() answers: the version it loads counts only changes     *)
(* that the members it read include, whatever calls change, count or end   *)
(* between its two reads; the changes it misses are those of calls that    *)
(* have yet to count theirs.  A version ahead of its members would let a   *)
(* caller's next change pass check_version over a change it never saw.     *)
(***************************************************************************)
VersionTrailsMembers ==
    \A t \in LocalCalls :
        LET read == local_call[t] IN
        read.pc = "version" =>
            /\ version <= read.n + 1
            /\ read.n + 1 - version = Cardinality({u \in LocalCalls : local_call[u].pc = "bump"})

(***************************************************************************)
(* An acknowledged payload is on disk, synced, under the name open() reads *)
(* or has been replaced there by a higher one, at whatever point the       *)
(* process dies; as long as no commit is dropped while it writes.          *)
(***************************************************************************)
AckedOnDisk == dropped \/ (path.synced /\ path.n >= acked /\ latest <= path.n)

(***************************************************************************)
(* What latest_unsafe_payload answers never goes back, not even over a     *)
(* restart in the middle of a commit: commits come one after the other,    *)
(* each compares with the latest once it has the lock, and the file is     *)
(* renamed before the payload is published.                                *)
(***************************************************************************)
LocalHeadNeverGoesBack == [][~dropped' => latest' >= latest]_local_vars
=============================================================================
