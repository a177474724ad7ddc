--------------------------------- MODULE MCFeeds ---------------------------------
(* Three feeds over sockets that close, in one run: the block subscription, the realtime      *)
(* gateway over Postgres, and the pump.fun ingestion with its recovery sweep.  They share no  *)
(* state, so a behaviour is one of a single part.                                             *)
EXTENDS Subscription

CONSTANTS Connections, Channels, MaxSubscriptions, MaxPending, MaxLosses,
          Workers, Sweep, Txs, TxsPerSlot, Unsupported, Empty, MaxQueue, Budget, PumpFaults

VARIABLES part,
  conn, queue, handlers, bus, losses,
  landed, open, signatures, work, deferred, stored, slot, settled, fin, rec, lost, pumpFaults

G == INSTANCE Realtime
P == INSTANCE PumpRecovery WITH queue <- signatures, checkpoint <- slot, faults <- pumpFaults,
                                MaxFaults <- PumpFaults

ASSUME FeedsConstants == ConstantsOK /\ G!ConstantsOK /\ P!ConstantsOK

gateway == <<conn, queue, handlers, bus, losses>>
pump == <<landed, open, signatures, work, deferred, stored, slot, settled, fin, rec, lost, pumpFaults>>

all == <<part, vars, gateway, pump>>

Blockfeed(A) == part = "blocks" /\ A /\ UNCHANGED <<part, gateway, pump>>
Gateway(A)   == part = "realtime" /\ A /\ UNCHANGED <<part, vars, pump>>
Pump(A)      == part = "pump" /\ A /\ UNCHANGED <<part, vars, gateway>>

FeedsInit == part \in {"blocks", "realtime", "pump"} /\ Init /\ G!Init /\ P!Init

FeedsNext == Blockfeed(Next) \/ Gateway(G!Next) \/ Pump(P!Next)

\* The fairness of each part's FairSpec.  A behaviour is of one part, so that one condition can name
\* a step of each.
FeedsSpec ==
  /\ FeedsInit /\ [][FeedsNext]_all
  /\ WF_all(Blockfeed(Deliver) \/ Gateway(G!Noticed) \/ Pump(P!SweepStep))
  /\ WF_all(Blockfeed(Unheard /\ Stall) \/ Gateway(G!Heartbeat) \/ Pump(P!Connect))
  /\ \A c \in Connections, w \in Workers :
       WF_all(Blockfeed(Proceeds) \/ Gateway(G!Work(c)) \/ Pump(P!Take(w) \/ P!Progress(w)))

-----------------------------------------------------------------------------
\* However connections come and go: the block checkpoint passes no block that was not handed out,
\* no block is handed out again before the deduplicator's window of others was, and the pump.fun
\* checkpoint is the slot of something stored.
NothingIsLost == TypeOK /\ P!TypeOK /\ NothingSkipped /\ NothingRepeatedEarly /\ P!CheckpointHasData

\* Whatever closes while a subscription is being made: every handler on the bus is one of an
\* open connection that subscribed, and every subscription has its handler.
SubscribersAreServed == G!TypeOK /\ G!HandlersAreOwned /\ G!SubscriptionsAreServed

\* The bus never sits there with neither a listener nor a reconnect to come, and a peer that is
\* gone is cleaned up with all its handlers.
RealtimeRecovers == part = "realtime" => G!Recovers

\* Once there is a checkpoint, what has facts and lands is stored or passed by it while the budget
\* reaches something that has; a signature the node could not resolve is stored later, if it has
\* facts, unless a throw or a restart forgets it.
PumpIsRecovered == part = "pump" => P!Recovers

\* Every block is handed out, by a frame or by the replay after a reconnection, unless the
\* subscription gave up or was stopped; what is stopped begins no reconnect.
BlocksArrive == (part = "blocks" => EveryEventArrives) /\ StopIsKept
=============================================================================
