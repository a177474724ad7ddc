------------------------------ MODULE Ingestion ------------------------------
(***************************************************************************)
(* Pons V1 ingestion: the discovery and the trade listener on a chain that *)
(* only grows (ReorgRecovery models forks).                                *)
(*                                                                         *)
(* Both listeners run their ticks in one process, on timers of their own,  *)
(* so the awaits of a discovery tick and of a trade tick interleave.       *)
(* Discovery stores launched tokens, some of them with enrichment PENDING, *)
(* and retries those; trades may only be scanned up to a barrier that      *)
(* discovery and enrichment have passed.                                   *)
(*                                                                         *)
(* What a tick reads from blocks that cannot change is read where it is    *)
(* committed; what it reads from rows another tick may change is read in   *)
(* an action of its own.                                                   *)
(***************************************************************************)
EXTENDS Integers, FiniteSets

CONSTANTS
  Tokens,
  LaunchHeight,   \* LaunchHeight[t]: the block of t's TokenLaunched event
  TradeHeights,   \* TradeHeights[t]: the blocks with a swap in t's pool
  MaxHeight,      \* bound: the chain stops growing here
  Lag,            \* confirmationLagBlocks
  Lookback,       \* freshStartLookbackBlocks
  MaxRange,       \* maxBlockRangePerPoll
  RetryBatch      \* enrichmentRetryBatchSize

ASSUME NumberAssumption ==
  /\ MaxHeight \in Nat /\ Lag \in Nat /\ Lookback \in Nat
  /\ MaxRange \in Nat \ {0} /\ RetryBatch \in Nat
ASSUME ChainAssumption ==
  /\ LaunchHeight \in [Tokens -> Nat]
  /\ TradeHeights \in [Tokens -> SUBSET Nat]
  /\ \A t \in Tokens : \A h \in TradeHeights[t] : h >= LaunchHeight[t]

VARIABLES
  head,        \* the chain's height
  row,         \* DiscoveredToken.enrichmentStatus, "absent" when there is no row
  swaps,       \* ChainTrade rows: pairs <<token, height>>
  discovered,  \* the discovery checkpoint's lastHeight
  traded,      \* the trade checkpoint's lastHeight
  disc,        \* the discovery tick in flight
  trade,       \* the trade tick in flight
  discFirst,   \* history: the first block discovery ever scanned
  tradeFirst,  \* history: the first block ever scanned for trades
  exposed      \* history: tokens that became trackable behind a trade tick's back

vars == <<head, row, swaps, discovered, traded, disc, trade, discFirst, tradeFirst, exposed>>

NoCheckpoint == -1

Swaps == {s \in Tokens \X (0..MaxHeight) : s[2] \in TradeHeights[s[1]]}

IdleDisc  == [pc |-> "idle", tip |-> 0, batch |-> {}]
IdleTrade == [pc |-> "idle", tip |-> 0, pools |-> {}, to |-> 0]

Init ==
  /\ head = 0
  /\ row = [t \in Tokens |-> "absent"]
  /\ swaps = {}
  /\ discovered = NoCheckpoint /\ traded = NoCheckpoint
  /\ disc = IdleDisc /\ trade = IdleTrade
  /\ discFirst = 0 /\ tradeFirst = 0
  /\ exposed = {}

LeastOf(a, b) == IF a < b THEN a ELSE b

SafeTip == head - Lag

\* Mutant: a lookback that may reach below genesis.
FromBlockUnclamped(checkpoint, tip) ==
  IF checkpoint # NoCheckpoint THEN checkpoint + 1 ELSE tip - Lookback + 1

\* Resume after the checkpoint, or start a lookback behind the tip.
FromBlock(checkpoint, tip) ==
  IF checkpoint # NoCheckpoint THEN checkpoint + 1
  ELSE IF tip - Lookback + 1 > 0 THEN tip - Lookback + 1 ELSE 0

ToBlock(from, tip) == LeastOf(from + MaxRange - 1, tip)

First(checkpoint, first, from) == IF checkpoint = NoCheckpoint THEN from ELSE first

-----------------------------------------------------------------------------
NewBlock ==
  /\ head < MaxHeight
  /\ head' = head + 1
  /\ UNCHANGED <<row, swaps, discovered, traded, disc, trade, discFirst, tradeFirst, exposed>>

-----------------------------------------------------------------------------
(* The discovery tick. *)

Pending == {t \in Tokens : row[t] = "PENDING"}

\* The RetryBatch oldest pending rows (any choice among equals).
RetryBatches ==
  {b \in SUBSET Pending :
     /\ Cardinality(b) = LeastOf(RetryBatch, Cardinality(Pending))
     /\ \A t \in b, u \in Pending \ b : LaunchHeight[t] <= LaunchHeight[u]}

\* Mutant: pending rows are retried only when there are new blocks to scan.
DiscBeginRetriesOnlyBehindTip ==
  /\ disc.pc = "idle"
  /\ SafeTip >= 0
  /\ \E b \in RetryBatches :
       disc' = [pc |-> "retry", tip |-> SafeTip,
                batch |-> IF FromBlock(discovered, SafeTip) <= SafeTip THEN b ELSE {}]
  /\ UNCHANGED <<head, row, swaps, discovered, traded, trade, discFirst, tradeFirst, exposed>>

\* The tip and the pending rows are read; a tip below genesis ends the tick at once.
DiscBegin ==
  /\ disc.pc = "idle"
  /\ SafeTip >= 0
  /\ \E b \in RetryBatches : disc' = [pc |-> "retry", tip |-> SafeTip, batch |-> b]
  /\ UNCHANGED <<head, row, swaps, discovered, traded, trade, discFirst, tradeFirst, exposed>>

\* One retried enrichment; a failed one only counts an attempt.
DiscRetry(t, complete) ==
  /\ disc.pc = "retry" /\ t \in disc.batch
  /\ disc' = [disc EXCEPT !.batch = @ \ {t}]
  /\ row' = IF complete THEN [row EXCEPT ![t] = "COMPLETE"] ELSE row
  /\ UNCHANGED <<head, swaps, discovered, traded, trade, discFirst, tradeFirst, exposed>>

Launched(from, to) == {t \in Tokens : LaunchHeight[t] \in from..to}

\* Mutant: a token whose enrichment failed is left out instead of stored PENDING.
DiscCommitForgetsFailures(enriched) ==
  LET from == FromBlock(discovered, disc.tip)
      to   == ToBlock(from, disc.tip)
  IN /\ disc.pc = "retry" /\ disc.batch = {}
     /\ from <= disc.tip
     /\ row' = [t \in Tokens |-> IF t \in Launched(from, to) /\ t \in enriched
                                 THEN "COMPLETE" ELSE row[t]]
     /\ discovered' = to
     /\ discFirst' = First(discovered, discFirst, from)
     /\ disc' = IdleDisc
     /\ UNCHANGED <<head, swaps, traded, trade, tradeFirst, exposed>>

\* The scanned range's tokens and the checkpoint, in one transaction; a token whose
\* enrichment could not be read is stored PENDING.
DiscCommit(enriched) ==
  LET from  == FromBlock(discovered, disc.tip)
      to    == ToBlock(from, disc.tip)
  IN /\ disc.pc = "retry" /\ disc.batch = {}
     /\ from <= disc.tip
     /\ row' = [t \in Tokens |-> IF t \notin Launched(from, to) THEN row[t]
                                 ELSE IF t \in enriched THEN "COMPLETE" ELSE "PENDING"]
     /\ discovered' = to
     /\ discFirst' = First(discovered, discFirst, from)
     /\ disc' = IdleDisc
     /\ UNCHANGED <<head, swaps, traded, trade, tradeFirst, exposed>>

\* Nothing new to scan.
DiscUpToDate ==
  /\ disc.pc = "retry" /\ disc.batch = {}
  /\ FromBlock(discovered, disc.tip) > disc.tip
  /\ disc' = IdleDisc
  /\ UNCHANGED <<head, row, swaps, discovered, traded, trade, discFirst, tradeFirst, exposed>>

\* An unreadable chain, or a restart: the tick ends where it is.
DiscFails ==
  /\ disc.pc = "retry"
  /\ disc' = IdleDisc
  /\ UNCHANGED <<head, row, swaps, discovered, traded, trade, discFirst, tradeFirst, exposed>>

-----------------------------------------------------------------------------
(* The trade tick. *)

Trackable == {t \in Tokens : row[t] = "COMPLETE"}

\* The pools are read before anything else; with none there is nothing to do.
TradePools ==
  /\ trade.pc = "idle"
  /\ Trackable # {}
  /\ trade' = [IdleTrade EXCEPT !.pc = "tip", !.pools = Trackable]
  /\ UNCHANGED <<head, row, swaps, discovered, traded, disc, discFirst, tradeFirst, exposed>>

TradeTip ==
  /\ trade.pc = "tip"
  /\ SafeTip >= 0
  /\ trade' = [trade EXCEPT !.pc = "barrier", !.tip = SafeTip]
  /\ UNCHANGED <<head, row, swaps, discovered, traded, disc, discFirst, tradeFirst, exposed>>

Least(S) == {b \in S : \A l \in S : b <= l}

\* Mutant: the barrier is the discovery checkpoint alone.
BarriersIgnorePending == {discovered}

\* Mutant: the pending block itself may be scanned.
BarriersOffByOne ==
  Least({discovered} \cup {LaunchHeight[t] : t \in {u \in Pending : LaunchHeight[u] <= discovered}})

\* Everything at or below the barrier has been discovered and fully enriched: the barrier is
\* the only element of this set.
Barriers ==
  Least({discovered} \cup {LaunchHeight[t] - 1 : t \in {u \in Pending : LaunchHeight[u] <= discovered}})

ScanTip(barrier) == LeastOf(trade.tip, barrier)
MayScan(barrier) == discovered # NoCheckpoint /\ FromBlock(traded, trade.tip) <= ScanTip(barrier)

\* Discovery's checkpoint and its pending rows are read here, after the pools were.
TradeBarrier ==
  /\ trade.pc = "barrier"
  /\ \E b \in Barriers :
       /\ MayScan(b)
       /\ trade' = [trade EXCEPT !.pc = "commit",
                                 !.to = ToBlock(FromBlock(traded, trade.tip), ScanTip(b))]
  /\ exposed' = exposed \cup (Trackable \ trade.pools)
  /\ UNCHANGED <<head, row, swaps, discovered, traded, disc, discFirst, tradeFirst>>

\* Waiting on discovery, or up to date.
TradeWaits ==
  /\ trade.pc = "barrier"
  /\ \E b \in Barriers : ~MayScan(b)
  /\ trade' = IdleTrade
  /\ UNCHANGED <<head, row, swaps, discovered, traded, disc, discFirst, tradeFirst, exposed>>

\* The swaps of the tracked pools and the checkpoint, in one transaction.
TradeCommit ==
  LET from == FromBlock(traded, trade.tip)
  IN /\ trade.pc = "commit"
     /\ swaps' = swaps \cup {s \in Swaps : s[1] \in trade.pools /\ s[2] \in from..trade.to}
     /\ traded' = trade.to
     /\ tradeFirst' = First(traded, tradeFirst, from)
     /\ trade' = IdleTrade
     /\ UNCHANGED <<head, row, discovered, disc, discFirst, exposed>>

\* An unreadable chain, or a restart.
TradeFails ==
  /\ trade.pc # "idle"
  /\ trade' = IdleTrade
  /\ UNCHANGED <<head, row, swaps, discovered, traded, disc, discFirst, tradeFirst, exposed>>

-----------------------------------------------------------------------------
DiscStep ==
  \/ DiscBegin
  \/ \E t \in Tokens, complete \in BOOLEAN : DiscRetry(t, complete)
  \/ \E enriched \in SUBSET Tokens : DiscCommit(enriched)
  \/ DiscUpToDate
  \/ DiscFails

TradeStep ==
  \/ TradePools
  \/ TradeTip
  \/ TradeBarrier
  \/ TradeCommit
  \/ TradeWaits
  \/ TradeFails

Next == NewBlock \/ DiscStep \/ TradeStep

Spec == Init /\ [][Next]_vars

\* Blocks keep coming; the timers keep firing; a read that is tried forever succeeds at times.
FairSpec ==
  /\ Spec
  /\ WF_vars(NewBlock)
  /\ WF_vars(DiscBegin) /\ WF_vars(DiscUpToDate) /\ WF_vars(TradeWaits)
  /\ \A t \in Tokens : SF_vars(DiscRetry(t, TRUE))
  /\ SF_vars(\E enriched \in SUBSET Tokens : DiscCommit(enriched))
  /\ WF_vars(TradePools) /\ SF_vars(TradeTip) /\ SF_vars(TradeBarrier) /\ SF_vars(TradeCommit)

-----------------------------------------------------------------------------
TypeOK ==
  /\ head \in 0..MaxHeight
  /\ row \in [Tokens -> {"absent", "PENDING", "COMPLETE"}]
  /\ swaps \subseteq Swaps
  /\ discovered \in Nat \cup {NoCheckpoint}
  /\ traded \in Nat \cup {NoCheckpoint}
  /\ disc \in [pc: {"idle", "retry"}, tip: Nat, batch: SUBSET Tokens]
  /\ trade \in [pc: {"idle", "tip", "barrier", "commit"}, tip: Nat, pools: SUBSET Tokens, to: Nat]
  /\ discFirst \in Nat /\ tradeFirst \in Nat
  /\ exposed \subseteq Tokens

\* Trades never overtake discovery, and no block at or below the trade checkpoint launched a
\* token that is still waiting for enrichment.
BarrierHeld ==
  /\ traded <= discovered
  /\ \A t \in Tokens : row[t] = "PENDING" => LaunchHeight[t] > traded

\* Discovery leaves no gap: every launch between its first block and its checkpoint has a row.
NoLaunchMissed ==
  \A t \in Tokens : discovered # NoCheckpoint /\ LaunchHeight[t] \in discFirst..discovered
    => row[t] # "absent"

\* The trade checkpoint's promise: every swap of a discovered token between the first
\* scanned block and the checkpoint is stored.
Missed == {s \in Swaps : /\ traded # NoCheckpoint /\ s[2] \in tradeFirst..traded
                         /\ LaunchHeight[s[1]] >= discFirst
                         /\ s \notin swaps}

\* A swap can only be missed for a token that became trackable between the moment a trade
\* tick read its pools and the moment it read the barrier.
MissedOnlyBehindATick == \A s \in Missed : s[1] \in exposed

\* Neither checkpoint ever moves back.
CheckpointsAdvance == [][discovered' >= discovered /\ traded' >= traded]_vars

\* Once the chain stops, every launch in range gets enriched and both listeners reach the tip.
CatchesUp ==
  <>[](/\ discovered = MaxHeight - Lag /\ traded = MaxHeight - Lag
       /\ \A t \in Tokens : LaunchHeight[t] \in discFirst..discovered => row[t] = "COMPLETE")
=============================================================================
