-------------------------------- MODULE Realtime --------------------------------
(***************************************************************************)
(* Realtime delivery: the WebSocket server of the API and the Postgres     *)
(* event bus below it.  A connection's frames are worked off one after the *)
(* other, with awaits in between; sockets close, connections to Postgres   *)
(* drop and the two timers go off at any time.  What the events say is     *)
(* left out, and who owns a job is left open.                              *)
(***************************************************************************)
EXTENDS Integers, Sequences, SequencesExt

CONSTANTS
  Connections,
  Channels,          \* job and candle channels
  MaxSubscriptions,  \* maxSubscriptionsPerConnection
  MaxPending,        \* frames a connection may have waiting
  MaxLosses          \* bound: how often Postgres or a client goes away unannounced

\* What the theorems assume.
ConstantsOK == MaxSubscriptions \in Nat /\ MaxPending \in Nat /\ MaxLosses \in Nat

VARIABLES
  conn,      \* conn[c]: [is, alive, subs]; is: none, open, gone (the peer is),
             \* closing (by the server), closed
  queue,     \* queue[c]: the frames being worked off: [kind, key, pc]
  handlers,  \* the bus: <<connection, channel>> of each handler it calls
  bus,       \* [started, opening, listener, timer, closed]; listener: none, up, dead
  losses

sockets == <<conn, queue, handlers>>
vars == <<sockets, bus, losses>>

NoConnection == [is |-> "none", alive |-> FALSE, subs |-> {}]

Init ==
  /\ conn = [c \in Connections |-> NoConnection]
  /\ queue = [c \in Connections |-> <<>>]
  /\ handlers = {}
  /\ bus = [started |-> FALSE, opening |-> FALSE, listener |-> "none", timer |-> FALSE, closed |-> FALSE]
  /\ losses = 0

-----------------------------------------------------------------------------
(* The bus: one connection that LISTENs, reopened when it is lost. *)

\* describeDelivery
Connected == bus.started => bus.listener # "none"

EnsureListening(b) == IF b.closed \/ b.started THEN b ELSE [b EXCEPT !.started = TRUE, !.opening = TRUE]

ScheduleReconnect(b) ==
  IF b.closed \/ b.timer THEN b ELSE [b EXCEPT !.listener = "none", !.timer = TRUE]

\* connect and LISTEN come to an end; close does not look for an opening in flight.
Opened ==
  /\ bus.opening /\ bus' = [bus EXCEPT !.opening = FALSE, !.listener = "up"]
  /\ UNCHANGED <<sockets, losses>>

OpenFails ==
  /\ bus.opening /\ losses < MaxLosses /\ losses' = losses + 1
  /\ bus' = ScheduleReconnect([bus EXCEPT !.opening = FALSE, !.listener = "none"])
  /\ UNCHANGED sockets

ListenerLost ==
  /\ bus.listener = "up" /\ losses < MaxLosses /\ losses' = losses + 1
  /\ bus' = [bus EXCEPT !.listener = "dead"]
  /\ UNCHANGED sockets

ListenerError ==
  /\ bus.listener = "dead" /\ bus' = ScheduleReconnect(bus)
  /\ UNCHANGED <<sockets, losses>>

ReconnectDue ==
  /\ bus.timer /\ bus' = [bus EXCEPT !.timer = FALSE, !.opening = ~bus.closed]
  /\ UNCHANGED <<sockets, losses>>

BusClose ==
  /\ ~bus.closed /\ handlers' = {}
  /\ bus' = [bus EXCEPT !.closed = TRUE, !.timer = FALSE, !.listener = "none", !.started = FALSE]
  /\ UNCHANGED <<conn, queue, losses>>

-----------------------------------------------------------------------------
(* Connections. *)

Connect(c) ==
  /\ conn[c].is = "none" /\ ~bus.closed
  /\ conn' = [conn EXCEPT ![c] = [NoConnection EXCEPT !.is = "open", !.alive = TRUE]]
  /\ UNCHANGED <<queue, handlers, bus, losses>>

Closed(c) == conn[c].is \in {"none", "closed"}

\* cleanupConnection: what is subscribed so far is unsubscribed.
Cleanup(c) ==
  /\ conn' = [conn EXCEPT ![c] = [NoConnection EXCEPT !.is = "closed"]]
  /\ handlers' = {h \in handlers : ~(h[1] = c /\ h[2] \in conn[c].subs)}

Disconnect(c) ==
  /\ conn[c].is = "open" /\ Cleanup(c)
  /\ UNCHANGED <<queue, bus, losses>>

\* The close event of a socket the server has closed or terminated.
CloseEvent(c) ==
  /\ conn[c].is = "closing" /\ Cleanup(c)
  /\ UNCHANGED <<queue, bus, losses>>

\* The peer disappears and no close frame arrives.
PeerLost(c) ==
  /\ conn[c].is = "open" /\ losses < MaxLosses /\ losses' = losses + 1
  /\ conn' = [conn EXCEPT ![c].is = "gone"]
  /\ UNCHANGED <<queue, handlers, bus>>

Pong(c) ==
  /\ conn[c].is = "open" /\ ~conn[c].alive
  /\ conn' = [conn EXCEPT ![c].alive = TRUE]
  /\ UNCHANGED <<queue, handlers, bus, losses>>

There == {c \in Connections : ~Closed(c)}

\* Mutant: only who disconnects is dropped.
HeartbeatNeverTerminates ==
  /\ There # {}
  /\ conn' = [c \in Connections |->
       IF c \in There THEN [conn[c] EXCEPT !.is = IF Connected THEN @ ELSE "closing", !.alive = FALSE]
       ELSE conn[c]]
  /\ UNCHANGED <<queue, handlers, bus, losses>>

\* Who did not answer the last ping is terminated; without a transport everyone is sent away.
Heartbeat ==
  LET dropped == {c \in There : ~conn[c].alive \/ ~Connected}
  IN /\ There # {}
     /\ conn' = [c \in Connections |->
          IF c \in There
          THEN [conn[c] EXCEPT !.is = IF c \in dropped THEN "closing" ELSE @, !.alive = FALSE]
          ELSE conn[c]]
     /\ UNCHANGED <<queue, handlers, bus, losses>>

-----------------------------------------------------------------------------
(* Frames. *)

PendingFull(c) == Len(queue[c]) >= MaxPending

Receive(c, kind, key) ==
  /\ conn[c].is \in {"open", "closing"}
  /\ IF PendingFull(c) THEN conn' = [conn EXCEPT ![c].is = "closing"] /\ UNCHANGED queue
     ELSE /\ queue' = [queue EXCEPT ![c] = Append(@, [kind |-> kind, key |-> key, pc |-> "waiting"])]
          /\ UNCHANGED conn
  /\ UNCHANGED <<handlers, bus, losses>>

Turn(c, i) == i = 1

Finish(c, i) == queue' = [queue EXCEPT ![c] = RemoveAt(@, i)]

\* Nothing to do, or one too many.
Full(c, key) == key \in conn[c].subs \/ Cardinality(conn[c].subs) >= MaxSubscriptions

\* The head of handleSubscribe and handleSubscribeCandles.
Begin(c, i) ==
  LET m == queue[c][i]
  IN /\ Turn(c, i) /\ m.pc = "waiting" /\ m.kind = "subscribe"
     /\ IF Closed(c) \/ Full(c, m.key) THEN Finish(c, i)
        ELSE queue' = [queue EXCEPT ![c][i].pc = "lookup"]
     /\ UNCHANGED <<conn, handlers, bus, losses>>

\* The job is not the user's, the token is unknown, or the query fails.
Refuse(c, i) ==
  /\ queue[c][i].pc = "lookup" /\ Finish(c, i)
  /\ UNCHANGED <<conn, handlers, bus, losses>>

\* The row is there: eventBus.subscribe begins, and awaits an opening it has started itself.
Lookup(c, i) ==
  /\ queue[c][i].pc = "lookup"
  /\ queue' = [queue EXCEPT ![c][i].pc = IF EnsureListening(bus) # bus THEN "opening" ELSE "subscribe"]
  /\ bus' = EnsureListening(bus)
  /\ UNCHANGED <<conn, handlers, losses>>

Awaited(c, i) ==
  /\ queue[c][i].pc = "opening" /\ ~bus.opening
  /\ queue' = [queue EXCEPT ![c][i].pc = "subscribe"]
  /\ UNCHANGED <<conn, handlers, bus, losses>>

\* The handler is added, and its unsubscribe is handed back one await later.
AddHandler(c, i) ==
  /\ queue[c][i].pc = "subscribe"
  /\ handlers' = handlers \cup {<<c, queue[c][i].key>>}
  /\ queue' = [queue EXCEPT ![c][i].pc = "added"]
  /\ UNCHANGED <<conn, bus, losses>>

\* Mutant: the connection is not looked at after the await.
SubscribedUnchecked(c, i) ==
  LET key == queue[c][i].key
  IN /\ queue[c][i].pc = "added" /\ Finish(c, i)
     /\ conn' = [conn EXCEPT ![c].subs = @ \cup {key}]
     /\ UNCHANGED <<handlers, bus, losses>>

Subscribed(c, i) ==
  LET key == queue[c][i].key
  IN /\ queue[c][i].pc = "added" /\ Finish(c, i)
     /\ IF Closed(c) THEN handlers' = handlers \ {<<c, key>>} /\ UNCHANGED conn
        ELSE conn' = [conn EXCEPT ![c].subs = @ \cup {key}] /\ UNCHANGED handlers
     /\ UNCHANGED <<bus, losses>>

Unsubscribe(c, i) ==
  LET m == queue[c][i]
  IN /\ Turn(c, i) /\ m.pc = "waiting" /\ m.kind = "unsubscribe" /\ Finish(c, i)
     /\ conn' = [conn EXCEPT ![c].subs = @ \ {m.key}]
     /\ handlers' = IF m.key \in conn[c].subs THEN handlers \ {<<c, m.key>>} ELSE handlers
     /\ UNCHANGED <<bus, losses>>

-----------------------------------------------------------------------------
Work(c) ==
  \E i \in DOMAIN queue[c] :
    \/ Begin(c, i) \/ Lookup(c, i) \/ Refuse(c, i) \/ Awaited(c, i)
    \/ AddHandler(c, i) \/ Subscribed(c, i) \/ Unsubscribe(c, i)

BusStep == Opened \/ ListenerError \/ ReconnectDue

Next ==
  \/ BusStep \/ OpenFails \/ ListenerLost \/ BusClose \/ Heartbeat
  \/ \E c \in Connections :
       \/ Connect(c) \/ Disconnect(c) \/ CloseEvent(c) \/ PeerLost(c) \/ Pong(c) \/ Work(c)
       \/ \E kind \in {"subscribe", "unsubscribe"}, key \in Channels : Receive(c, kind, key)

Spec == Init /\ [][Next]_vars

\* What ends is noticed.
Noticed == BusStep \/ \E c \in Connections : CloseEvent(c)

\* Timers go off, awaits end, and a lost connection to Postgres is noticed.
FairSpec ==
  /\ Spec /\ WF_vars(Noticed) /\ WF_vars(Heartbeat)
  /\ \A c \in Connections : WF_vars(Work(c))

-----------------------------------------------------------------------------
Frames == [kind: {"subscribe", "unsubscribe"}, key: Channels,
           pc: {"waiting", "lookup", "opening", "subscribe", "added"}]

TypeOK ==
  /\ conn \in [Connections -> [is: {"none", "open", "gone", "closing", "closed"}, alive: BOOLEAN, subs: SUBSET Channels]]
  /\ \A c \in Connections : queue[c] \in Seq(Frames) /\ Len(queue[c]) <= MaxPending
  /\ handlers \subseteq Connections \X Channels
  /\ bus \in [started: BOOLEAN, opening: BOOLEAN, listener: {"none", "up", "dead"}, timer: BOOLEAN,
              closed: BOOLEAN]
  /\ losses \in 0..MaxLosses

\* Whatever closes while a subscription is being made, the bus calls no handler of a connection
\* that is closed or has no such subscription, unless a frame at work will see to it.
HandlersAreOwned ==
  \A h \in handlers :
    \/ ~Closed(h[1]) /\ h[2] \in conn[h[1]].subs
    \/ \E i \in DOMAIN queue[h[1]] : queue[h[1]][i].pc = "added" /\ queue[h[1]][i].key = h[2]

\* And what a connection is subscribed to has its handler, and is no more than allowed.
SubscriptionsAreServed ==
  \A c \in Connections :
    /\ ~bus.closed => \A key \in conn[c].subs : <<c, key>> \in handlers
    /\ Cardinality(conn[c].subs) <= MaxSubscriptions

\* A bus that was started listens, or listens again, until it is closed.
BusListens == bus.started => bus.listener = "up"

\* A peer that is gone is cleaned up, with all its handlers.
NoneIsLost ==
  \A c \in Connections :
    conn[c].is # "gone" /\ (conn[c].is = "closed" => \A h \in handlers : h[1] # c)

\* Neither stays away for good: the bus never sits there with neither a listener nor a reconnect to
\* come, and no handler of a lost peer is left.
Recovers == []<>(BusListens /\ NoneIsLost)
=============================================================================
