---------------------------- MODULE Flashblocks ----------------------------
(***************************************************************************)
(* The flashblocks relay (flashblocks.rs).  One task reads rollup-boost's  *)
(* websocket while this conductor leads and broadcasts each message to the *)
(* hub; every subscriber has a task that writes from its bounded channel   *)
(* to its socket and watches the socket with pings.  A message is its      *)
(* position in what rollup-boost has sent.                                 *)
(***************************************************************************)
EXTENDS Naturals, Sequences, FiniteSets

CONSTANTS
    Clients,        \* downstream sockets, each connecting once
    Buffer,         \* SEND_CHANNEL_BUFFER_SIZE
    InitialAttempts, \* INITIAL_CONNECTION_ATTEMPTS
    MaxMessages,    \* bound: messages rollup-boost sends
    MaxFlaps        \* bound: leadership changes and lost connections

ASSUME FlashblocksAssumption ==
    Buffer \in Nat \ {0} /\ InitialAttempts \in Nat \ {0}
        /\ MaxMessages \in Nat /\ MaxFlaps \in Nat

VARIABLES
    up,         \* run_upstream_listener: where it is, its connection, attempts left
    sent,       \* messages rollup-boost has sent
    leads,      \* Conductor::leader()
    hub,        \* Hub: the registered clients
    gauge,      \* websocket_clients_connected
    sub,        \* handle_downstream, per client
    cast,       \* history: the messages broadcast
    flaps       \* bound counter

fb_vars == <<up, sent, leads, hub, gauge, sub, cast, flaps>>

\* A subscriber's task: its channel, what its socket got, whether a pong is
\* awaited; `since' is how much had been broadcast when it registered, and
\* `alive' whether the far end still answers pings.
NewSub == [pc |-> "new", chan |-> << >>, got |-> << >>, awaiting_pong |-> FALSE,
           since |-> 0, alive |-> TRUE]

FbInit ==
    /\ up = [pc |-> "initial", conn |-> FALSE, wire |-> << >>, tries |-> InitialAttempts]
    /\ sent = 0 /\ leads \in BOOLEAN
    /\ hub = {} /\ gauge = 0
    /\ sub = [c \in Clients |-> NewSub]
    /\ cast = << >> /\ flaps = 0

----------------------------------------------------------------------------
(* The upstream task.                                                      *)

Connected == [up EXCEPT !.pc = "poll", !.conn = TRUE]
Disconnected == [up EXCEPT !.pc = "poll", !.conn = FALSE, !.wire = << >>]

\* connect_initial_upstream, before the server listens; giving up ends it.
InitialDial ==
    /\ up.pc = "initial"
    /\ \/ up' = Connected
       \/ up.tries > 1 /\ up' = [up EXCEPT !.tries = @ - 1]
       \/ up.tries = 1 /\ up' = [up EXCEPT !.pc = "failed"]
    /\ UNCHANGED <<sent, leads, hub, gauge, sub, cast, flaps>>

\* The top of the loop: a follower polls, with or without a connection.
Poll ==
    /\ up.pc = "poll" /\ leads
    /\ up' = [up EXCEPT !.pc = IF up.conn THEN "read" ELSE "dial"]
    /\ UNCHANGED <<sent, leads, hub, gauge, sub, cast, flaps>>

Dial ==
    /\ up.pc = "dial"
    /\ up' = Connected \/ up' = Disconnected
    /\ UNCHANGED <<sent, leads, hub, gauge, sub, cast, flaps>>

\* Text and binary messages go the same way.
Read ==
    /\ up.pc = "read" /\ up.wire # << >>
    /\ up' = [up EXCEPT !.pc = "got"]
    /\ UNCHANGED <<sent, leads, hub, gauge, sub, cast, flaps>>

\* A close frame, an error, or UPSTREAM_READ_TIMEOUT.
ReadFails ==
    /\ up.pc = "read" /\ flaps < MaxFlaps
    /\ flaps' = flaps + 1
    /\ up' = Disconnected
    /\ UNCHANGED <<sent, leads, hub, gauge, sub, cast>>

Fits(c) == Len(sub[c].chan) < Buffer

\* Mutant: a full channel only loses the message.
broadcast_lossy(m) ==
    /\ sub' = [c \in Clients |-> IF c \in hub /\ Fits(c)
                                 THEN [sub[c] EXCEPT !.chan = Append(@, m)] ELSE sub[c]]
    /\ gauge' = Cardinality(hub) /\ UNCHANGED hub

\* Hub::broadcast: who has no room is dropped from the hub.
broadcast(m) ==
    LET served == {c \in hub : Fits(c)} IN
    /\ sub' = [c \in Clients |-> IF c \in served
                                 THEN [sub[c] EXCEPT !.chan = Append(@, m)] ELSE sub[c]]
    /\ hub' = served
    /\ gauge' = Cardinality(served)

\* Mutant: a message relayed is not taken off the connection.
Relay_kept ==
    /\ up.pc = "got"
    /\ IF leads THEN broadcast(Head(up.wire)) /\ cast' = Append(cast, Head(up.wire))
                ELSE UNCHANGED <<sub, hub, gauge, cast>>
    /\ up' = [up EXCEPT !.pc = "poll"]
    /\ UNCHANGED <<sent, leads, flaps>>

\* The message in hand goes out if this conductor (still) leads.
Relay ==
    /\ up.pc = "got"
    /\ IF leads THEN broadcast(Head(up.wire)) /\ cast' = Append(cast, Head(up.wire))
                ELSE UNCHANGED <<sub, hub, gauge, cast>>
    /\ up' = [up EXCEPT !.pc = "poll", !.wire = Tail(@)]
    /\ UNCHANGED <<sent, leads, flaps>>

----------------------------------------------------------------------------
(* The downstream tasks.                                                   *)

Listening == up.pc \notin {"initial", "failed"}
Open(c) == sub[c].pc = "open"

\* Hub::register.
Register(c) ==
    /\ Listening /\ sub[c].pc = "new"
    /\ sub' = [sub EXCEPT ![c].pc = "open", ![c].since = Len(cast)]
    /\ hub' = hub \cup {c}
    /\ gauge' = Cardinality(hub')
    /\ UNCHANGED <<up, sent, leads, cast, flaps>>

SubStep(c, s) ==
    /\ Open(c)
    /\ sub' = [sub EXCEPT ![c] = s]
    /\ UNCHANGED <<up, sent, leads, hub, gauge, cast, flaps>>

Breaks(c) == [sub[c] EXCEPT !.pc = "closing"]

\* A message is written, or the write fails or times out.
Write(c) ==
    /\ sub[c].chan # << >>
    /\ \/ SubStep(c, [sub[c] EXCEPT !.chan = Tail(@), !.got = Append(@, Head(sub[c].chan))])
       \/ SubStep(c, Breaks(c))

\* Mutant: the ping does not start the wait for its pong.
PingUnwatched(c) == SubStep(c, sub[c])

\* A ping is written, whether or not an earlier one is still unanswered.
Ping(c) == SubStep(c, [sub[c] EXCEPT !.awaiting_pong = TRUE])

\* Its write fails or times out.
PingFails(c) == SubStep(c, Breaks(c))

Pong(c) ==
    /\ sub[c].awaiting_pong /\ sub[c].alive
    /\ SubStep(c, [sub[c] EXCEPT !.awaiting_pong = FALSE])

PongDeadline(c) == sub[c].awaiting_pong /\ SubStep(c, Breaks(c))

Close(c) == SubStep(c, Breaks(c))

\* Mutant: the gauge is counted down, also for a client dropped before.
Unregister_counts_down(c) ==
    /\ sub[c].pc = "closing"
    /\ sub' = [sub EXCEPT ![c] = [NewSub EXCEPT !.pc = "closed"]]
    /\ hub' = hub \ {c}
    /\ gauge' = gauge - 1
    /\ UNCHANGED <<up, sent, leads, cast, flaps>>

\* Hub::unregister, also of a client the hub has dropped before.
Unregister(c) ==
    /\ sub[c].pc = "closing"
    /\ sub' = [sub EXCEPT ![c] = [NewSub EXCEPT !.pc = "closed"]]
    /\ hub' = hub \ {c}
    /\ gauge' = Cardinality(hub')
    /\ UNCHANGED <<up, sent, leads, cast, flaps>>

----------------------------------------------------------------------------
(* Around the relay.                                                       *)

\* rollup-boost sends to whoever is connected, read or not.
RollupBoostSends ==
    /\ sent < MaxMessages
    /\ sent' = sent + 1
    /\ up' = IF up.conn THEN [up EXCEPT !.wire = Append(@, sent')] ELSE up
    /\ UNCHANGED <<leads, hub, gauge, sub, cast, flaps>>

LeadershipFlips ==
    /\ flaps < MaxFlaps
    /\ flaps' = flaps + 1
    /\ leads' = ~leads
    /\ UNCHANGED <<up, sent, hub, gauge, sub, cast>>

ClientDies(c) == sub[c].alive /\ SubStep(c, [sub[c] EXCEPT !.alive = FALSE])

Upstream == InitialDial \/ Poll \/ Dial \/ Read \/ ReadFails \/ Relay

Downstream(c) ==
    \/ Register(c) \/ Write(c) \/ Ping(c) \/ PingFails(c) \/ Pong(c)
    \/ PongDeadline(c) \/ Close(c) \/ Unregister(c)

FbNext ==
    \/ Upstream
    \/ \E c \in Clients : Downstream(c) \/ ClientDies(c)
    \/ RollupBoostSends \/ LeadershipFlips

FbSpec == FbInit /\ [][FbNext]_fb_vars

----------------------------------------------------------------------------

(***************************************************************************)
(* A subscriber gets an unbroken stretch of the broadcasts, from the one   *)
(* after its registration: nothing twice, nothing out of order and no hole *)
(* in it.  What a slow reader loses it loses at the end, because broadcast *)
(* drops a client it cannot serve.                                         *)
(***************************************************************************)
UnbrokenStreams ==
    \A c \in Clients :
        LET stream == sub[c].got \o sub[c].chan
            n == Len(stream)
        IN  /\ sub[c].since + n <= Len(cast)
            /\ stream = SubSeq(cast, sub[c].since + 1, sub[c].since + n)
            /\ c \in hub => sub[c].since + n = Len(cast)

(***************************************************************************)
(* Across reconnects and leadership changes no message is broadcast twice  *)
(* or after a later one.                                                   *)
(***************************************************************************)
BroadcastsInOrder == \A i, j \in DOMAIN cast : i < j => cast[i] < cast[j]

(***************************************************************************)
(* The gauge is the number of clients in the hub, whoever changed it last, *)
(* and only clients whose task still runs are in the hub.                  *)
(***************************************************************************)
GaugeFollowsHub ==
    /\ gauge = Cardinality(hub)
    /\ \A c \in hub : sub[c].pc \in {"open", "closing"}

\* Timers fire, tasks that are ready are polled.  A deadline is not put off for
\* ever by the next ping: DOWNSTREAM_PONG_TIMEOUT is shorter than
\* DOWNSTREAM_PING_INTERVAL.
FbFairness ==
    \A c \in Clients : /\ WF_fb_vars(Ping(c)) /\ WF_fb_vars(PongDeadline(c))
                       /\ WF_fb_vars(Unregister(c))

(***************************************************************************)
(* A subscriber that falls silent does not stay in the hub.                *)
(***************************************************************************)
SilentClientsLeave ==
    FbFairness => \A c \in Clients : ~sub[c].alive ~> c \notin hub
=============================================================================
