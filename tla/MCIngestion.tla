------------------------------ MODULE MCIngestion ------------------------------
(* The V1 listeners and the V2 listeners, in one run.  Each version has a chain of its own,   *)
(* so a behaviour is one of either part.                                                      *)
EXTENDS Ingestion, TLC

CONSTANTS t1, t2, t3,
          v1, v2, V2Tokens, V2Height, V2Lag, V2Lookback, V2Launch, Graduation, CurveTrades, PoolTrades,
          CurveRange, MinRange, CeilingSuccesses, Accepted

VARIABLES part,
  tip, known, poolOf, stored, found, swapped, curved, swap, curve, range, ceiling, first, late

\* Three tokens, launched before, with and after the first scanned range; each is traded in its
\* launch block and later, so that a range skipped for one pool always loses a swap.
Launches == t1 :> 1 @@ t2 :> 2 @@ t3 :> 4
Trading  == t1 :> {1, 4} @@ t2 :> {2, 3} @@ t3 :> {4, 5}

\* On V2 one token launches and graduates within one range of discovery, the other one later;
\* both are traded on the curve and in the pool.
V2Launches  == v1 :> 0 @@ v2 :> 1
Graduations == v1 :> 1 @@ v2 :> 3
OnCurves    == v1 :> {0, 1} @@ v2 :> {1, 2, 3}
InPools     == v1 :> {2, 3} @@ v2 :> {3, 4}

V == INSTANCE IngestionV2 WITH Tokens <- V2Tokens, Launch <- V2Launch, MaxHeight <- V2Height,
       Lag <- V2Lag, Lookback <- V2Lookback,
       head <- tip, pool <- poolOf, trades <- stored, discovered <- found, exposed <- late

ASSUME V2Constants == V!NumbersOK /\ V!ChainOK

v2Vars == <<tip, known, poolOf, stored, found, swapped, curved, swap, curve, range, ceiling, first, late>>

AllInit == part \in {"v1", "v2"} /\ Init /\ V!Init

AllNext ==
  /\ part' = part
  /\ \/ part = "v1" /\ Next /\ UNCHANGED v2Vars
     \/ part = "v2" /\ V!Next /\ UNCHANGED vars

listeners == <<vars, v2Vars>>
V1(A)    == part = "v1" /\ A /\ UNCHANGED v2Vars
V2(A)    == part = "v2" /\ A /\ UNCHANGED vars

\* What either version assumes, in pairs: only one part moves in a behaviour, so that it is the
\* same as one condition for each, and TLC's cost doubles with every strong one.
AllSpec ==
  /\ AllInit /\ [][AllNext]_<<part, listeners>>
  /\ WF_listeners(V1(NewBlock) \/ V2(V!NewBlock))
  /\ WF_listeners(V1(DiscBegin) \/ V2(\E identified \in SUBSET V2Tokens : V!DiscCommit(V!SafeTip, identified)))
  /\ WF_listeners(V1(DiscUpToDate) \/ V2(V!SwapEnds))
  /\ WF_listeners(V1(TradePools) \/ V2(V!SwapPools))
  /\ WF_listeners(V1(TradeWaits) \/ V2(V!CurveBarrier(V!SafeTip)))
  /\ SF_listeners(V1(\E enriched \in SUBSET Tokens : DiscCommit(enriched)) \/ V2(V!CurveCommit))
  /\ SF_listeners(V1(TradeTip) \/ V2(V!CurveLogs))
  /\ SF_listeners(V1(TradeBarrier) \/ V2(V!SwapBarrier(V!SafeTip)))
  /\ SF_listeners(V1(TradeCommit) \/ V2(V!SwapCommit))
  /\ SF_listeners(V1(DiscRetry(t1, TRUE)) \/ V2(\E kind \in {"RANGE", "SOFT"} : V!CurveRefused(kind)))
  /\ \A t \in {t2, t3} : SF_listeners(V1(DiscRetry(t, TRUE)))

-----------------------------------------------------------------------------
\* V2: trades stay behind discovery, no launch and no graduation behind the checkpoint is
\* unknown, swaps are missed only of a pool that was found while a tick held an older list, the
\* curve's history has no hole, and its window stays under the ceiling a node imposed.
V2IsWhole ==
  part = "v2" =>
    /\ V!TypeOK /\ V!TradesBehindDiscovery /\ V!SwapsMissedOnlyBehindATick
    /\ V!DiscoveryIsComplete /\ V!CurveHistoryIsWhole /\ V!WindowUnderCeiling

\* Whatever reads fail or are refused, every listener reaches the tip of its chain.
ListenersCatchUp == (part = "v1" => CatchesUp) /\ (part = "v2" => V!CatchesUp)
=============================================================================
