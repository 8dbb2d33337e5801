---------------------------- MODULE RaftCluster ----------------------------
(***************************************************************************)
(* Cluster administration on one server: the membership calls of           *)
(* RaftConsensus with their version check, and the ways to give the        *)
(* leadership away (raft_consensus.rs, and the round robin of              *)
(* conductor.rs).  The server sees the cluster through openraft's metrics, *)
(* which lag; openraft itself is external: it holds the configuration and  *)
(* the leadership, applies a change or refuses it, and hands over or not.  *)
(***************************************************************************)
EXTENDS Integers, Sequences, FiniteSets

CONSTANTS
    N,              \* servers are 1 .. N, in the order of their ids
    Me,             \* this server
    Addrs,
    Targets,        \* bound: the servers that membership calls are about
    Calls,          \* membership calls in flight
    MaxVersion,     \* bound: configurations
    MaxTerms,       \* bound: leadership changes
    MaxMatched      \* bound: log indexes in the replication metrics

ASSUME ClusterAssumption ==
    /\ N \in Nat \ {0} /\ Me \in 1 .. N /\ Targets \subseteq 1 .. N
    /\ MaxVersion \in Nat /\ MaxTerms \in Nat /\ MaxMatched \in Nat

VARIABLES
    config,         \* openraft: the membership in effect and its log index
    lead,           \* openraft: whether Me leads
    view,           \* Me's metrics: membership and leader state
    member_call,    \* the membership calls
    transfer,       \* transfer_leader_internal
    round_robin,    \* cfg.round_robin_leader_transfer
    terms

cluster_vars == <<config, lead, view, member_call, transfer, round_robin, terms>>

Servers == 1 .. N
Absentee == [addr |-> "none", suffrage |-> "none"]
Server(addr, suffrage) == [addr |-> addr, suffrage |-> suffrage]

Members(c) == {s \in Servers : c.servers[s] # Absentee}
Voters(c) == {s \in Servers : c.servers[s].suffrage = "Voter"}

\* `None' for a server that has replicated nothing, `Unknown' for one the
\* metrics do not list.
None == -1
Unknown == -2
Matched == [Servers \ {Me} -> {Unknown, None} \cup 0 .. MaxMatched]

NoCall == [pc |-> "idle", op |-> "none", id |-> Me, addr |-> "none", version |-> 0,
           seen |-> "none", result |-> "none", left |-> Absentee]
NoTransfer == [pc |-> "idle", voters |-> << >>, offset |-> 0, asked |-> << >>,
               target |-> 0, matched |-> << >>, among |-> {}, result |-> "none"]

ClusterInit ==
    /\ \E present \in SUBSET Targets, a \in Addrs :
           config = [servers |-> [s \in Servers |-> IF s \in present \cup {Me} \cup (Servers \ Targets)
                                                    THEN Server(a, "Voter") ELSE Absentee],
                     version |-> 1]
    /\ lead = TRUE
    /\ view = [config |-> config, leader |-> TRUE]
    /\ member_call = [t \in Calls |-> NoCall]
    /\ transfer = NoTransfer
    /\ round_robin \in BOOLEAN
    /\ terms = 0

----------------------------------------------------------------------------
(* Membership.                                                             *)

Adds == {"add_voter", "add_non_voter"}

Step(t, c) ==
    /\ member_call' = [member_call EXCEPT ![t] = c]
    /\ UNCHANGED <<lead, view, transfer, round_robin, terms>>

Returns(t, result) == [NoCall EXCEPT !.pc = "returned", !.op = member_call[t].op,
                                     !.version = member_call[t].version, !.result = result]

\* check_leader comes first; only an addition tries the address.
CallMembership(t) ==
    /\ member_call[t].pc = "idle"
    /\ \E op \in Adds \cup {"demote_voter", "remove_server"}, id \in Targets, a \in Addrs,
          version \in {0, view.config.version} :
           Step(t, [NoCall EXCEPT !.op = op, !.id = id, !.version = version,
                        !.addr = IF op \in Adds THEN a ELSE "none",
                        !.pc = CASE ~view.leader -> "returned"
                                 [] op \in Adds -> "connect"
                                 [] OTHER -> "version",
                        !.result = IF view.leader THEN "none" ELSE "NotLeader"])
    /\ UNCHANGED config

check_member_addr_open(t) ==
    /\ member_call[t].pc = "connect"
    /\ \/ Step(t, [member_call[t] EXCEPT !.pc = "version"])
       \/ Step(t, Returns(t, "Raft"))
    /\ UNCHANGED config

\* Zero is not checked.  remove_server notes the suffrage it then acts on.
check_version(t) ==
    /\ member_call[t].pc = "version"
    /\ LET c == member_call[t] IN
       IF c.version \in {0, view.config.version}
       THEN Step(t, [c EXCEPT !.pc = "change", !.seen = view.config.servers[c.id].suffrage])
       ELSE Step(t, Returns(t, "VersionMismatch"))
    /\ UNCHANGED config

Put(servers, s, server) == [servers EXCEPT ![s] = server]

\* Mutant: a server not seen as nonvoter is only taken out of the voters,
\* which without retain drops it unless it is a nonvoter by now.
Outcomes_voters_only(c, servers) ==
    LET known == servers[c.id] # Absentee
        addrs == {c.addr} \cup (IF known THEN {servers[c.id].addr} ELSE {})
        voter == servers[c.id].suffrage = "Voter"
    IN  CASE c.op = "add_voter" -> {Put(servers, c.id, Server(a, "Voter")) : a \in addrs}
          [] c.op = "add_non_voter" ->
                 IF voter THEN {servers}
                 ELSE {Put(servers, c.id, Server(a, "Nonvoter")) : a \in addrs}
          [] c.op = "demote_voter" ->
                 {IF known THEN Put(servers, c.id, Server(servers[c.id].addr, "Nonvoter"))
                  ELSE servers}
          [] OTHER -> {IF voter THEN Put(servers, c.id, Absentee) ELSE servers}

\* What a change asks for, on the configuration it meets; RemoveVoters with
\* retain leaves a nonvoter behind.  An address already known may stay.
Outcomes(c, servers) ==
    LET known == servers[c.id] # Absentee
        addrs == {c.addr} \cup (IF known THEN {servers[c.id].addr} ELSE {})
        voter == servers[c.id].suffrage = "Voter"
    IN  CASE c.op = "add_voter" -> {Put(servers, c.id, Server(a, "Voter")) : a \in addrs}
          [] c.op = "add_non_voter" ->
                 IF voter THEN {servers}
                 ELSE {Put(servers, c.id, Server(a, "Nonvoter")) : a \in addrs}
          [] c.op = "demote_voter" ->
                 {IF known THEN Put(servers, c.id, Server(servers[c.id].addr, "Nonvoter"))
                  ELSE servers}
          [] c.op = "remove_server" /\ c.seen = "Nonvoter" ->
                 IF voter THEN {} ELSE {Put(servers, c.id, Absentee)}
          [] OTHER -> {Put(servers, c.id, Absentee)}

\* openraft appends the change if it leads and some voter remains; the call
\* may still fail, or the leadership be lost, while it waits for the commit.
change_membership(t) ==
    /\ member_call[t].pc = "change"
    /\ LET c == member_call[t] IN
       \/ ~lead /\ Step(t, Returns(t, "NotLeader")) /\ UNCHANGED config
       \/ Step(t, Returns(t, "Raft")) /\ UNCHANGED config
       \/ /\ lead /\ config.version < MaxVersion
          /\ \E servers \in Outcomes(c, config.servers) :
                 /\ \E s \in Servers : servers[s].suffrage = "Voter"
                 /\ config' = [servers |-> servers, version |-> config.version + 1]
          /\ \E result \in {"Ok", "Raft"} :
                 Step(t, [Returns(t, result) EXCEPT !.left = config'.servers[c.id]])

Answered(t) ==
    /\ member_call[t].pc = "returned"
    /\ Step(t, NoCall)
    /\ UNCHANGED config

----------------------------------------------------------------------------
(* Giving the leadership away.                                             *)

Transfers(tr) ==
    /\ transfer' = tr
    /\ UNCHANGED <<config, lead, view, member_call, round_robin, terms>>

Done(result) == [transfer EXCEPT !.pc = "returned", !.result = result]

\* The order of voters.sort_by: each server of S once, by id.
IsSorted(seq, S) ==
    /\ seq \in [1 .. Cardinality(S) -> S]
    /\ \A s \in S : \E i \in DOMAIN seq : seq[i] = s
    /\ \A i, j \in DOMAIN seq : i < j => seq[i] < seq[j]

Sorted(S) == CHOOSE seq \in [1 .. Cardinality(S) -> S] : IsSorted(seq, S)

\* transfer_leader_internal and the head of transfer_leader_round_robin.
transfer_leader_internal ==
    /\ transfer.pc = "idle"
    /\ LET voters == Sorted(Voters(view.config)) IN
       CASE ~view.leader -> Transfers(Done("Ok"))
         [] view.leader /\ ~round_robin -> Transfers([transfer EXCEPT !.pc = "default"])
         [] view.leader /\ round_robin /\ Len(voters) <= 1 -> Transfers(Done("Ok"))
         [] view.leader /\ round_robin /\ Len(voters) > 1 /\ Me \notin Voters(view.config) ->
                Transfers(Done("ServerNotFound"))
         [] OTHER -> Transfers([transfer EXCEPT !.pc = "ask", !.offset = 1,
                                    !.voters = [i \in DOMAIN voters |->
                                                    [id |-> voters[i],
                                                     addr |-> view.config.servers[voters[i]].addr]]])

\* transfer_leader_to against today's membership, then openraft's trigger.
transfer_leader_to(id, addr) ==
    IF view.config.servers[id] = Absentee THEN {"ServerNotFound"}
    ELSE IF view.config.servers[id].addr # addr THEN {"ServerAddrMismatch"}
    ELSE {"Ok", "Raft", "in progress"}

\* Mutant: the offset is not taken modulo the number of voters but capped.
Target_capped ==
    LET n == Len(transfer.voters)
        current == CHOOSE i \in 1 .. n : transfer.voters[i].id = Me
    IN  transfer.voters[IF current + transfer.offset > n THEN n ELSE current + transfer.offset]

\* voters[(current + offset) % voters.len()], from zero.
Target ==
    LET n == Len(transfer.voters)
        current == CHOOSE i \in 1 .. n : transfer.voters[i].id = Me
    IN  transfer.voters[((current - 1 + transfer.offset) % n) + 1]

RoundRobinAsks ==
    /\ transfer.pc = "ask"
    /\ \E answer \in transfer_leader_to(Target.id, Target.addr) :
           LET asked == Append(transfer.asked, Target.id)
               over == transfer.offset + 1 = Len(transfer.voters)
           IN  CASE answer \in {"Ok", "in progress"} ->
                        Transfers([Done("Ok") EXCEPT !.asked = asked])
                 [] answer \notin {"Ok", "in progress"} /\ over ->
                        Transfers([transfer EXCEPT !.asked = asked, !.pc = "default"])
                 [] OTHER -> Transfers([transfer EXCEPT !.asked = asked, !.offset = @ + 1])

NextIndex(matched, s) == IF matched[s] >= 0 THEN matched[s] + 1 ELSE 0

Candidates(matched) == {s \in Voters(view.config) \ {Me} : matched[s] # Unknown}

\* Mutant: >= for >, so that a voter without progress can be picked.
Better_ge(matched, best, s) ==
    IF s \in Candidates(matched) /\ NextIndex(matched, s) >= best.current
    THEN [pick |-> s, current |-> NextIndex(matched, s)] ELSE best

\* One turn of the loop over the servers.
Better(matched, best, s) ==
    IF s \in Candidates(matched) /\ NextIndex(matched, s) > best.current
    THEN [pick |-> s, current |-> NextIndex(matched, s)] ELSE best

\* The loop; 0 when no peer is found.
default_transfer_target(matched) ==
    LET best[s \in 0 .. N] ==
            IF s = 0 THEN [pick |-> 0, current |-> 0] ELSE Better(matched, best[s - 1], s)
    IN  best[N].pick

\* RaftConsensus::transfer_leader, alone or after the round robin failed.
transfer_leader ==
    /\ transfer.pc = "default"
    /\ IF ~view.leader THEN Transfers(Done("Ok"))
       ELSE \E matched \in Matched :
                LET s == default_transfer_target(matched) IN
                \/ s = 0 /\ Transfers(Done("Raft"))
                \/ /\ s # 0
                   /\ \E answer \in transfer_leader_to(s, view.config.servers[s].addr) :
                          Transfers([Done(answer) EXCEPT !.target = s, !.matched = matched,
                                                         !.among = Voters(view.config) \ {Me}])

TransferReturned ==
    /\ transfer.pc = "returned"
    /\ Transfers(NoTransfer)

----------------------------------------------------------------------------
(* openraft.                                                               *)

LeadershipMoves ==
    /\ terms < MaxTerms
    /\ terms' = terms + 1 /\ lead' = ~lead
    /\ UNCHANGED <<config, view, member_call, transfer, round_robin>>

\* Another leader's change.
ChangedElsewhere ==
    /\ ~lead /\ config.version < MaxVersion
    /\ \E s \in Targets, sf \in {"Voter", "Nonvoter"}, a \in Addrs :
           config' = [servers |-> Put(config.servers, s, Server(a, sf)),
                      version |-> config.version + 1]
    /\ Voters(config') # {}
    /\ UNCHANGED <<lead, view, member_call, transfer, round_robin, terms>>

MetricsUpdate ==
    /\ view.config # config \/ view.leader # lead
    /\ view' = [view EXCEPT !.config = config, !.leader = lead]
    /\ UNCHANGED <<config, lead, member_call, transfer, round_robin, terms>>

MembershipStep(t) ==
    \/ CallMembership(t) \/ check_member_addr_open(t) \/ check_version(t)
    \/ change_membership(t) \/ Answered(t)

TransferStep ==
    transfer_leader_internal \/ RoundRobinAsks \/ transfer_leader \/ TransferReturned

RaftStep == LeadershipMoves \/ ChangedElsewhere \/ MetricsUpdate

ClusterNext == (\E t \in Calls : MembershipStep(t)) \/ TransferStep \/ RaftStep

ClusterSpec == ClusterInit /\ [][ClusterNext]_cluster_vars

----------------------------------------------------------------------------

(***************************************************************************)
(* remove_server acts on a suffrage it read before: whatever happened to   *)
(* the server since, an acknowledged removal leaves no member behind.  An  *)
(* acknowledged demotion never leaves a voter.                             *)
(***************************************************************************)
AcknowledgedMeansGone ==
    \A t \in Calls : member_call[t].result = "Ok" =>
        /\ member_call[t].op = "remove_server" => member_call[t].left = Absentee
        /\ member_call[t].op = "demote_voter" => member_call[t].left.suffrage # "Voter"

\* How far s comes after this server, going round the ids.
Turn(s) == IF s > Me THEN s - Me ELSE s - Me + N

Others(voters) == {voters[i].id : i \in DOMAIN voters} \ {Me}

\* Each server asked is another voter, and those asked before it are the
\* voters whose turn is before its own.
AskedInTurn(voters, asked) ==
    \A i \in DOMAIN asked :
        /\ asked[i] \in Others(voters)
        /\ \A s \in Others(voters) :
               Turn(s) < Turn(asked[i]) <=> \E j \in 1 .. i - 1 : asked[j] = s

AllAsked(voters, asked) ==
    \A s \in Others(voters) : \E i \in DOMAIN asked : asked[i] = s

(***************************************************************************)
(* The round robin asks the other voters in id order, starting after this  *)
(* server and wrapping round: it skips none, asks none twice, never asks   *)
(* itself, and falls back to the default target only after it asked all.   *)
(***************************************************************************)
RoundRobinOrder ==
    /\ AskedInTurn(transfer.voters, transfer.asked)
    /\ (round_robin /\ transfer.pc = "default") => AllAsked(transfer.voters, transfer.asked)

(***************************************************************************)
(* The default target is never behind another voter: no voter the metrics  *)
(* list has replicated more than it, and it has replicated something.      *)
(***************************************************************************)
DefaultTargetFurthest ==
    LET got == transfer.matched
        target == transfer.target
    IN  target # 0 => /\ target \in transfer.among
                      /\ got[target] >= 0
                      /\ \A s \in transfer.among : got[s] <= got[target]
=============================================================================
