-------------------------- MODULE Ingestion_proofs --------------------------
(***************************************************************************)
(* Proofs about Ingestion, for every chain, every set of tokens, every lag *)
(* and every batch size.  BatchKnown and CommitReady strengthen the        *)
(* invariants: they say what a tick in flight may rely on although the     *)
(* other listener moved since it read.  The second half does the same for  *)
(* the three V2 listeners, as the run instantiates them.                   *)
(***************************************************************************)
EXTENDS MCIngestion, TLAPS

\* The rows a discovery tick retries exist.
BatchKnown == \A t \in disc.batch : row[t] # "absent"

\* What the trade tick that is about to commit can rely on: its range ends at a block that
\* discovery has passed, nothing at or below that block is waiting for enrichment, and every
\* trackable token launched by then is one of its pools or was exposed behind its back.
CommitReady ==
  trade.pc = "commit" =>
    /\ FromBlock(traded, trade.tip) <= trade.to
    /\ trade.to <= discovered
    /\ \A t \in Tokens : row[t] = "PENDING" => LaunchHeight[t] > trade.to
    /\ \A t \in Tokens : row[t] = "COMPLETE" /\ LaunchHeight[t] <= trade.to
                           => t \in trade.pools \cup exposed

IInv == TypeOK /\ BarrierHeld /\ NoLaunchMissed /\ BatchKnown /\ CommitReady

-----------------------------------------------------------------------------
\* A tick never starts below genesis, nor at or below its checkpoint.
LEMMA FromBlockFact ==
  ASSUME NEW checkpoint \in Nat \cup {NoCheckpoint}, NEW newest \in Nat
  PROVE  /\ FromBlock(checkpoint, newest) \in Nat
         /\ FromBlock(checkpoint, newest) > checkpoint
         /\ checkpoint # NoCheckpoint => FromBlock(checkpoint, newest) = checkpoint + 1
BY NumberAssumption DEF FromBlock, NoCheckpoint

\* A tick's range is not empty and stays below its tip.
LEMMA ToBlockFact ==
  ASSUME NEW from \in Nat, NEW newest \in Int, from <= newest
  PROVE  /\ ToBlock(from, newest) \in Nat /\ from <= ToBlock(from, newest)
         /\ ToBlock(from, newest) <= newest
BY NumberAssumption DEF ToBlock, LeastOf

\* The barrier is behind discovery and behind every pending token.
LEMMA BarrierFact ==
  ASSUME TypeOK, NEW b \in Barriers
  PROVE  /\ b \in Int
         /\ b <= discovered
         /\ \A t \in Tokens : row[t] = "PENDING" /\ LaunchHeight[t] <= discovered
              => b < LaunchHeight[t]
<1>1. /\ discovered \in Int
      /\ \A t \in Tokens : LaunchHeight[t] \in Nat
  BY ChainAssumption DEF TypeOK, NoCheckpoint
<1>2. b \in {discovered} \cup {LaunchHeight[t] - 1 : t \in {u \in Pending : LaunchHeight[u] <= discovered}}
  BY DEF Barriers, Least
<1>3. b \in Int
  BY <1>1, <1>2 DEF Pending
<1>4. b <= discovered
  BY DEF Barriers, Least
<1>5. ASSUME NEW t \in Tokens, row[t] = "PENDING", LaunchHeight[t] <= discovered
      PROVE  b < LaunchHeight[t]
  <2>1. b <= LaunchHeight[t] - 1
    BY <1>5 DEF Barriers, Least, Pending
  <2> QED BY <1>1, <1>3, <2>1
<1> QED BY <1>3, <1>4, <1>5

-----------------------------------------------------------------------------
\* No row, no request, no tick: the invariant holds at the start.
THEOREM InitInvariant == Init => IInv
BY NumberAssumption, ChainAssumption
   DEF Init, IInv, TypeOK, BarrierHeld, NoLaunchMissed, BatchKnown, CommitReady, IdleDisc,
       IdleTrade, NoCheckpoint, Swaps

\* Every step of a handler, a listener or the chain keeps the invariant.
THEOREM StepInvariant == IInv /\ [Next]_vars => IInv'
<1> SUFFICES ASSUME IInv, [Next]_vars PROVE IInv'
  OBVIOUS
<1> USE NumberAssumption, ChainAssumption DEF IInv, NoCheckpoint
<1>1. CASE NewBlock
  BY <1>1 DEF NewBlock, TypeOK, BarrierHeld, NoLaunchMissed, BatchKnown, CommitReady
<1>2. CASE DiscBegin
  <2>1. PICK b \in RetryBatches : disc' = [pc |-> "retry", tip |-> SafeTip, batch |-> b]
    BY <1>2 DEF DiscBegin
  <2>2. b \subseteq Pending
    BY DEF RetryBatches
  <2>3. SafeTip \in Nat
    BY <1>2 DEF DiscBegin, SafeTip, TypeOK
  <2> QED
    BY <1>2, <2>1, <2>2, <2>3
       DEF DiscBegin, Pending, TypeOK, BarrierHeld, NoLaunchMissed, BatchKnown, CommitReady
<1>3. ASSUME NEW t \in Tokens, NEW complete \in BOOLEAN, DiscRetry(t, complete) PROVE IInv'
  <2>1. row[t] # "absent"
    BY <1>3 DEF DiscRetry, BatchKnown
  <2>2. \A u \in Tokens : row'[u] = row[u] \/ (row[u] # "absent" /\ row'[u] = "COMPLETE")
    BY <1>3, <2>1 DEF DiscRetry, TypeOK
  <2>3. TypeOK'
    BY <1>3 DEF DiscRetry, TypeOK
  <2>4. BatchKnown'
    BY <1>3, <2>2 DEF DiscRetry, BatchKnown, TypeOK
  <2>5. BarrierHeld' /\ NoLaunchMissed'
    BY <1>3, <2>2 DEF DiscRetry, BarrierHeld, NoLaunchMissed
  <2>6. ASSUME trade.pc = "commit", NEW u \in Tokens, row'[u] = "COMPLETE",
               LaunchHeight[u] <= trade.to
        PROVE  u \in trade.pools \cup exposed
    <3>1. row[u] # "absent" /\ row[u] # "PENDING"
      BY <2>2, <2>6 DEF CommitReady, TypeOK
    <3>2. row[u] = "COMPLETE"
      BY <3>1 DEF TypeOK
    <3> QED BY <2>6, <3>2 DEF CommitReady
  <2>7. CommitReady'
    BY <1>3, <2>2, <2>6 DEF DiscRetry, CommitReady, FromBlock
  <2> QED BY <2>3, <2>4, <2>5, <2>7
<1>4. ASSUME NEW enriched \in SUBSET Tokens, DiscCommit(enriched) PROVE IInv'
  <2> DEFINE from == FromBlock(discovered, disc.tip)
             to   == ToBlock(from, disc.tip)
  <2>1. disc.tip \in Nat /\ discovered \in Nat \cup {-1} /\ traded \in Nat \cup {-1}
    BY DEF TypeOK
  <2>2. from \in Nat /\ from > discovered /\ (discovered # -1 => from = discovered + 1)
    BY <2>1, FromBlockFact
  <2>3. from <= disc.tip
    BY <1>4 DEF DiscCommit
  <2>4. to \in Nat /\ from <= to
    BY <2>1, <2>2, <2>3, ToBlockFact
  <2>5. /\ discovered' = to /\ disc' = IdleDisc
        /\ discFirst' = First(discovered, discFirst, from)
        /\ \A t \in Tokens : row'[t] = IF t \notin Launched(from, to) THEN row[t]
                                       ELSE IF t \in enriched THEN "COMPLETE" ELSE "PENDING"
        /\ UNCHANGED <<head, swaps, traded, trade, tradeFirst, exposed>>
    BY <1>4 DEF DiscCommit
  <2>6. \A t \in Tokens : LaunchHeight[t] \in Nat
    OBVIOUS
  <2> HIDE DEF from, to
  <2>7. TypeOK'
    <3>1. row' \in [Tokens -> {"absent", "PENDING", "COMPLETE"}]
      BY <1>4 DEF DiscCommit, TypeOK
    <3>2. discFirst' \in Nat
      BY <2>2, <2>5 DEF TypeOK, First
    <3> QED BY <2>4, <2>5, <3>1, <3>2 DEF TypeOK, IdleDisc
  <2>8. BarrierHeld'
    BY <2>1, <2>2, <2>4, <2>5, <2>6 DEF BarrierHeld, Launched
  <2>9. NoLaunchMissed'
    BY <2>1, <2>2, <2>4, <2>5, <2>6 DEF NoLaunchMissed, Launched, First, TypeOK
  <2>10. BatchKnown'
    BY <2>5 DEF BatchKnown, IdleDisc
  <2>11. CommitReady'
    <3>1. SUFFICES ASSUME trade.pc = "commit"
                   PROVE  /\ FromBlock(traded, trade.tip) <= trade.to
                          /\ trade.to <= to
                          /\ \A t \in Tokens : row'[t] = "PENDING" => LaunchHeight[t] > trade.to
                          /\ \A t \in Tokens : row'[t] = "COMPLETE" /\ LaunchHeight[t] <= trade.to
                                                 => t \in trade.pools \cup exposed
      BY <2>5 DEF CommitReady, FromBlock
    <3>2. trade.to \in Nat /\ trade.to <= discovered
      BY <3>1 DEF CommitReady, TypeOK
    <3>3. \A t \in Tokens : LaunchHeight[t] <= trade.to => row'[t] = row[t]
      BY <2>1, <2>2, <2>5, <2>6, <3>2 DEF Launched
    <3>4. \A t \in Tokens : row'[t] = "PENDING" => LaunchHeight[t] > trade.to
      BY <2>6, <3>1, <3>2, <3>3 DEF CommitReady
    <3> QED BY <2>1, <2>2, <2>4, <3>1, <3>2, <3>3, <3>4 DEF CommitReady
  <2> QED BY <2>7, <2>8, <2>9, <2>10, <2>11
<1>5. CASE DiscUpToDate
  BY <1>5 DEF DiscUpToDate, IdleDisc, TypeOK, BarrierHeld, NoLaunchMissed, BatchKnown,
              CommitReady, FromBlock
<1>6. CASE DiscFails
  BY <1>6 DEF DiscFails, IdleDisc, TypeOK, BarrierHeld, NoLaunchMissed, BatchKnown,
              CommitReady, FromBlock
<1>7. CASE TradePools
  BY <1>7 DEF TradePools, IdleTrade, Trackable, TypeOK, BarrierHeld, NoLaunchMissed, BatchKnown,
              CommitReady
<1>8. CASE TradeTip
  <2>1. SafeTip \in Nat
    BY <1>8 DEF TradeTip, SafeTip, TypeOK
  <2> QED
    BY <1>8, <2>1 DEF TradeTip, TypeOK, BarrierHeld, NoLaunchMissed, BatchKnown, CommitReady
<1>9. CASE TradeBarrier
  <2>1. PICK b \in Barriers :
          /\ MayScan(b)
          /\ trade' = [trade EXCEPT !.pc = "commit",
                                    !.to = ToBlock(FromBlock(traded, trade.tip), ScanTip(b))]
    BY <1>9 DEF TradeBarrier
  <2> DEFINE from == FromBlock(traded, trade.tip)
  <2>2. traded \in Nat \cup {-1} /\ discovered \in Nat \cup {-1} /\ trade.tip \in Nat
    BY DEF TypeOK
  <2>3. from \in Nat
    BY <2>2, FromBlockFact
  <2>4. /\ b \in Int /\ b <= discovered
        /\ \A t \in Tokens : row[t] = "PENDING" /\ LaunchHeight[t] <= discovered
             => b < LaunchHeight[t]
    BY BarrierFact
  <2>5. ScanTip(b) \in Int /\ ScanTip(b) <= b /\ from <= ScanTip(b)
    BY <2>1, <2>2, <2>4 DEF ScanTip, LeastOf, MayScan
  <2> HIDE DEF from
  <2>6. /\ trade'.to = ToBlock(from, ScanTip(b)) /\ trade'.tip = trade.tip
        /\ trade'.pc = "commit" /\ trade'.pools = trade.pools
    BY <2>1 DEF TypeOK, from
  <2>7. trade'.to \in Nat /\ from <= trade'.to /\ trade'.to <= b
    <3>1. ToBlock(from, ScanTip(b)) \in Nat /\ from <= ToBlock(from, ScanTip(b))
          /\ ToBlock(from, ScanTip(b)) <= ScanTip(b)
      BY <2>3, <2>5, ToBlockFact
    <3> QED BY <2>4, <2>5, <2>6, <3>1
  <2>8. TypeOK'
    <3>1. trade' \in [pc: {"idle", "tip", "barrier", "commit"}, tip: Nat, pools: SUBSET Tokens,
                      to: Nat]
      BY <2>1, <2>6, <2>7 DEF TypeOK
    <3> QED BY <1>9, <3>1 DEF TradeBarrier, TypeOK, Trackable
  <2>9. BarrierHeld' /\ NoLaunchMissed' /\ BatchKnown'
    BY <1>9 DEF TradeBarrier, BarrierHeld, NoLaunchMissed, BatchKnown
  <2>10. CommitReady'
    <3>1. FromBlock(traded, trade'.tip) <= trade'.to
      BY <2>6, <2>7 DEF from
    <3>2. trade'.to <= discovered
      BY <2>2, <2>4, <2>7
    <3>3. \A t \in Tokens : row[t] = "PENDING" => LaunchHeight[t] > trade'.to
      BY <2>2, <2>4, <2>7
    <3>4. \A t \in Tokens : row[t] = "COMPLETE" => t \in trade'.pools \cup exposed'
      BY <1>9, <2>6 DEF TradeBarrier, Trackable
    <3> QED BY <1>9, <3>1, <3>2, <3>3, <3>4 DEF TradeBarrier, CommitReady, FromBlock
  <2> QED BY <2>8, <2>9, <2>10
<1>10. CASE TradeCommit
  <2>1. trade.pc = "commit" /\ traded' = trade.to /\ trade' = IdleTrade
    BY <1>10 DEF TradeCommit
  <2>2. TypeOK'
    <3>1. FromBlock(traded, trade.tip) \in Nat
      BY FromBlockFact DEF TypeOK
    <3> QED BY <1>10, <2>1, <3>1 DEF TradeCommit, TypeOK, IdleTrade, First, Swaps
  <2>3. BarrierHeld' /\ NoLaunchMissed' /\ BatchKnown' /\ CommitReady'
    BY <1>10, <2>1 DEF TradeCommit, BarrierHeld, NoLaunchMissed, BatchKnown, CommitReady, IdleTrade
  <2> QED BY <2>2, <2>3
<1>11. CASE TradeWaits
  BY <1>11 DEF TradeWaits, IdleTrade, TypeOK, BarrierHeld, NoLaunchMissed, BatchKnown, CommitReady
<1>12. CASE TradeFails
  BY <1>12 DEF TradeFails, IdleTrade, TypeOK, BarrierHeld, NoLaunchMissed, BatchKnown, CommitReady
<1>13. CASE UNCHANGED vars
  BY <1>13 DEF vars, TypeOK, BarrierHeld, NoLaunchMissed, BatchKnown, CommitReady, FromBlock
<1> QED
  BY <1>1, <1>2, <1>3, <1>4, <1>5, <1>6, <1>7, <1>8, <1>9, <1>10, <1>11, <1>12, <1>13
     DEF Next, DiscStep, TradeStep

\* The invariant of the checkpoints, tokens and ticks holds in every reachable state.
THEOREM Invariant == Spec => []IInv
BY InitInvariant, StepInvariant, PTL DEF Spec

-----------------------------------------------------------------------------
\* Every variable keeps its type.
THEOREM TypeCorrect == Spec => []TypeOK
BY Invariant, PTL DEF IInv

\* Trades never overtake discovery, nor a token that is waiting for enrichment.
THEOREM BarrierIsHeld == Spec => []BarrierHeld
BY Invariant, PTL DEF IInv

\* Discovery leaves no gap between its first block and its checkpoint.
THEOREM NoLaunchIsMissed == Spec => []NoLaunchMissed
BY Invariant, PTL DEF IInv

-----------------------------------------------------------------------------
\* A step that stores and scans nothing misses nothing new.
LEMMA MissedKept ==
  ASSUME MissedOnlyBehindATick, exposed \subseteq exposed',
         UNCHANGED <<swaps, traded, tradeFirst, discFirst>>
  PROVE  MissedOnlyBehindATick'
BY DEF MissedOnlyBehindATick, Missed, Swaps

LEMMA MissedInit == Init => MissedOnlyBehindATick
BY DEF Init, MissedOnlyBehindATick, Missed, NoCheckpoint

LEMMA MissedStep == IInv /\ MissedOnlyBehindATick /\ [Next]_vars => MissedOnlyBehindATick'
<1> SUFFICES ASSUME IInv, MissedOnlyBehindATick, [Next]_vars PROVE MissedOnlyBehindATick'
  OBVIOUS
<1>1. CASE NewBlock
  BY <1>1, MissedKept DEF NewBlock
<1>2. CASE DiscBegin \/ DiscUpToDate \/ DiscFails
  BY <1>2, MissedKept DEF DiscBegin, DiscUpToDate, DiscFails
<1>3. ASSUME NEW t \in Tokens, NEW complete \in BOOLEAN, DiscRetry(t, complete)
      PROVE  MissedOnlyBehindATick'
  BY <1>3, MissedKept DEF DiscRetry
<1>4. ASSUME NEW enriched \in SUBSET Tokens, DiscCommit(enriched) PROVE MissedOnlyBehindATick'
  <2>1. CASE discovered = NoCheckpoint
    <3>1. traded' = NoCheckpoint
      BY <1>4, <2>1 DEF DiscCommit, IInv, BarrierHeld, TypeOK, NoCheckpoint
    <3> QED BY <3>1 DEF MissedOnlyBehindATick, Missed
  <2>2. CASE discovered # NoCheckpoint
    BY <1>4, <2>2, MissedKept DEF DiscCommit, First
  <2> QED BY <2>1, <2>2
<1>5. CASE TradePools \/ TradeTip \/ TradeBarrier \/ TradeWaits \/ TradeFails
  BY <1>5, MissedKept DEF TradePools, TradeTip, TradeBarrier, TradeWaits, TradeFails
<1>6. CASE TradeCommit
  <2> DEFINE from == FromBlock(traded, trade.tip)
  <2>1. /\ trade.pc = "commit" /\ traded' = trade.to
        /\ swaps' = swaps \cup {s \in Swaps : s[1] \in trade.pools /\ s[2] \in from..trade.to}
        /\ tradeFirst' = First(traded, tradeFirst, from)
        /\ UNCHANGED <<row, discovered, discFirst, exposed>>
    BY <1>6 DEF TradeCommit
  <2>2. /\ traded \in Nat \cup {NoCheckpoint} /\ trade.tip \in Nat /\ trade.to \in Nat
        /\ tradeFirst \in Nat /\ discFirst \in Nat /\ discovered \in Nat \cup {NoCheckpoint}
        /\ row \in [Tokens -> {"absent", "PENDING", "COMPLETE"}]
    BY DEF IInv, TypeOK
  <2>3. /\ from \in Nat /\ from > traded
        /\ traded # NoCheckpoint => from = traded + 1
    BY <2>2, FromBlockFact
  <2>4. trade.to <= discovered
    BY <2>1 DEF IInv, CommitReady
  <2> HIDE DEF from
  <2> SUFFICES ASSUME NEW s \in Swaps, s[2] \in tradeFirst'..trade.to,
                      LaunchHeight[s[1]] >= discFirst, s \notin swaps'
               PROVE  s[1] \in exposed
    BY <2>1 DEF MissedOnlyBehindATick, Missed, Swaps
  <2>5. /\ s[1] \in Tokens /\ s[2] \in Nat /\ LaunchHeight[s[1]] \in Nat
        /\ LaunchHeight[s[1]] <= s[2]
    <3>1. s[1] \in Tokens /\ s[2] \in 0..MaxHeight /\ s[2] \in TradeHeights[s[1]]
      BY DEF Swaps
    <3> QED BY <3>1, NumberAssumption, ChainAssumption
  <2>6. CASE s[2] \in from..trade.to
    <3>1. s[1] \notin trade.pools
      BY <2>1, <2>6
    <3>2. LaunchHeight[s[1]] <= trade.to /\ LaunchHeight[s[1]] \in discFirst..discovered
      BY <2>2, <2>4, <2>5
    <3>3. row[s[1]] # "absent"
      BY <2>2, <2>4, <2>5, <3>2 DEF IInv, NoLaunchMissed, NoCheckpoint
    <3>4. row[s[1]] # "PENDING"
      BY <2>1, <2>2, <2>5, <3>2 DEF IInv, CommitReady
    <3>5. row[s[1]] = "COMPLETE"
      BY <2>2, <2>5, <3>3, <3>4
    <3> QED BY <2>1, <2>5, <3>1, <3>2, <3>5 DEF IInv, CommitReady
  <2>7. CASE s[2] \notin from..trade.to
    <3>1. traded # NoCheckpoint /\ tradeFirst' = tradeFirst /\ s[2] \in tradeFirst..traded
      BY <2>1, <2>2, <2>3, <2>5, <2>7 DEF First, NoCheckpoint
    <3>2. s \notin swaps
      BY <2>1
    <3> QED BY <3>1, <3>2 DEF MissedOnlyBehindATick, Missed
  <2> QED BY <2>6, <2>7
<1>7. CASE UNCHANGED vars
  BY <1>7, MissedKept DEF vars
<1> QED BY <1>1, <1>2, <1>3, <1>4, <1>5, <1>6, <1>7 DEF Next, DiscStep, TradeStep

\* A swap at or below the trade checkpoint can only be missing for a token that became
\* trackable between a trade tick's read of its pools and its read of the barrier.
THEOREM OnlyExposedTokensMiss == Spec => []MissedOnlyBehindATick
<1>1. Init => MissedOnlyBehindATick
  BY MissedInit
<1>2. IInv /\ MissedOnlyBehindATick /\ [Next]_vars => MissedOnlyBehindATick'
  BY MissedStep
<1> QED BY <1>1, <1>2, Invariant, PTL DEF Spec

-----------------------------------------------------------------------------
\* Neither checkpoint ever moves back.
THEOREM CheckpointsOnlyAdvance == Spec => CheckpointsAdvance
<1>1. IInv /\ [Next]_vars => [discovered' >= discovered /\ traded' >= traded]_vars
  <2> SUFFICES ASSUME IInv, Next PROVE discovered' >= discovered /\ traded' >= traded
    OBVIOUS
  <2>1. discovered \in Int /\ traded \in Int
    BY DEF IInv, TypeOK, NoCheckpoint
  <2>2. ASSUME NEW enriched \in SUBSET Tokens, DiscCommit(enriched)
        PROVE  discovered' >= discovered /\ traded' = traded
    <3>1. /\ FromBlock(discovered, disc.tip) \in Nat
          /\ FromBlock(discovered, disc.tip) > discovered
      BY FromBlockFact DEF IInv, TypeOK
    <3>2. FromBlock(discovered, disc.tip) <= disc.tip /\ disc.tip \in Nat
      BY <2>2 DEF DiscCommit, IInv, TypeOK
    <3>3. /\ ToBlock(FromBlock(discovered, disc.tip), disc.tip) \in Nat
          /\ FromBlock(discovered, disc.tip) <= ToBlock(FromBlock(discovered, disc.tip), disc.tip)
      BY <3>1, <3>2, ToBlockFact
    <3> QED BY <2>1, <2>2, <3>1, <3>3 DEF DiscCommit
  <2>3. CASE TradeCommit
    <3>1. FromBlock(traded, trade.tip) \in Nat /\ FromBlock(traded, trade.tip) > traded
      BY FromBlockFact DEF IInv, TypeOK
    <3>2. trade.to >= FromBlock(traded, trade.tip) /\ trade.to \in Nat
      BY <2>3 DEF TradeCommit, IInv, CommitReady, TypeOK
    <3> QED BY <2>1, <2>3, <3>1, <3>2 DEF TradeCommit
  <2>4. CASE ~TradeCommit /\ ~\E enriched \in SUBSET Tokens : DiscCommit(enriched)
    <3>1. discovered' = discovered /\ traded' = traded
      BY <2>4 DEF Next, NewBlock, DiscStep, DiscBegin, DiscRetry, DiscUpToDate, DiscFails,
                  TradeStep, TradePools, TradeTip, TradeBarrier, TradeWaits, TradeFails
    <3> QED BY <2>1, <3>1
  <2> QED BY <2>1, <2>2, <2>3, <2>4
<1> QED BY <1>1, Invariant, PTL DEF Spec, CheckpointsAdvance

-----------------------------------------------------------------------------
(* The V2 listeners. *)

\* What a pool tick about to commit can rely on, although discovery went on: its range follows
\* the checkpoint, discovery has passed it, and every pool that graduated up to its end is on
\* its list or was exposed.
SwapReady ==
  swap.pc = "commit" =>
    /\ swap.from <= swap.to /\ swap.to <= found
    /\ swapped # V!None => swap.from = swapped + 1
    /\ \A t \in V2Tokens :
         poolOf[t] = "known" /\ Graduation[t] <= swap.to => t \in swap.pools \cup late

\* What a curve tick can rely on: its range follows the checkpoint or starts no later than any
\* known curve, discovery has passed it, and it is no wider than the window.
CurveReady ==
  curve.pc # "idle" =>
    /\ curve.from <= curve.to /\ curve.to <= found
    /\ curve.to - curve.from < range
    /\ curved # V!None => curve.from = curved + 1
    /\ curved = V!None => \A t \in known : curve.from <= V2Launch[t]

\* A listener has a first block once it has a checkpoint.
FirstIsScanned ==
  /\ (first.disc = V!None) <=> (found = V!None)
  /\ (first.swap = V!None) <=> (swapped = V!None)

VInv ==
  /\ V!TypeOK /\ V!TradesBehindDiscovery /\ FirstIsScanned
  /\ V!DiscoveryIsComplete /\ V!CurveHistoryIsWhole /\ V!SwapsMissedOnlyBehindATick
  /\ SwapReady /\ CurveReady /\ V!WindowUnderCeiling

\* What the chain holds, trade by trade.
LEMMA HappenedFacts ==
  ASSUME V!ChainOK
  PROVE  /\ \A s \in V!Happened("pool") :
              s[1] \in V2Tokens /\ s[2] \in Nat /\ Graduation[s[1]] <= s[2]
         /\ \A s \in V!Happened("curve") :
              s[1] \in V2Tokens /\ s[2] \in Nat /\ V2Launch[s[1]] <= s[2]
<1>1. \A s \in V!Happened("pool") :
        \E t \in V2Tokens : \E h \in PoolTrades[t] : s = <<t, h, "pool">>
  BY DEF V!Happened
<1>2. \A s \in V!Happened("curve") :
        \E t \in V2Tokens : \E h \in CurveTrades[t] : s = <<t, h, "curve">>
  BY DEF V!Happened
<1>3. \A t \in V2Tokens :
        /\ PoolTrades[t] \subseteq Nat /\ \A h \in PoolTrades[t] : Graduation[t] <= h
        /\ CurveTrades[t] \subseteq Nat /\ \A h \in CurveTrades[t] : V2Launch[t] <= h
  BY DEF V!ChainOK
<1> QED BY <1>1, <1>2, <1>3

\* Where a tick starts and ends.
LEMMA RangeFacts ==
  ASSUME V!NumbersOK, NEW checkpoint \in Nat \cup {V!None}, NEW newest \in Nat,
         NEW width \in Nat \ {0}
  PROVE  /\ V!FromBlock(checkpoint, newest) \in Nat
         /\ V!FromBlock(checkpoint, newest) > checkpoint
         /\ checkpoint # V!None => V!FromBlock(checkpoint, newest) = checkpoint + 1
         /\ \A from \in Nat, upto \in Int : from <= upto =>
              /\ V!ToBlock(from, width, upto) \in Nat
              /\ from <= V!ToBlock(from, width, upto)
              /\ V!ToBlock(from, width, upto) <= upto
              /\ V!ToBlock(from, width, upto) - from < width
<1>1. V!FromBlock(checkpoint, newest) \in Nat /\ V!FromBlock(checkpoint, newest) > checkpoint
      /\ (checkpoint # V!None => V!FromBlock(checkpoint, newest) = checkpoint + 1)
  BY DEF V!NumbersOK, V!FromBlock, V!Greater, V!None
<1>2. ASSUME NEW from \in Nat, NEW upto \in Int, from <= upto
      PROVE  /\ V!ToBlock(from, width, upto) \in Nat
             /\ from <= V!ToBlock(from, width, upto)
             /\ V!ToBlock(from, width, upto) <= upto
             /\ V!ToBlock(from, width, upto) - from < width
  BY <1>2 DEF V!ToBlock, V!Lesser
<1> QED BY <1>1, <1>2

LEMMA VInit == V!NumbersOK /\ V!ChainOK /\ V!Init => VInv
<1> SUFFICES ASSUME V!NumbersOK, V!ChainOK, V!Init PROVE VInv
  OBVIOUS
<1>1. V!TypeOK
  BY DEF V!Init, V!TypeOK, V!NumbersOK, V!None, V!NoCeiling, V!IdleSwap, V!IdleCurve
<1>2. /\ V!TradesBehindDiscovery /\ FirstIsScanned /\ V!DiscoveryIsComplete
      /\ V!CurveHistoryIsWhole /\ V!SwapsMissedOnlyBehindATick
  BY DEF V!Init, V!None, V!TradesBehindDiscovery, FirstIsScanned, V!DiscoveryIsComplete,
         V!CurveHistoryIsWhole, V!SwapsMissedOnlyBehindATick
<1>3. SwapReady /\ CurveReady
  BY DEF V!Init, V!IdleSwap, V!IdleCurve, SwapReady, CurveReady
<1>4. V!WindowUnderCeiling
  BY DEF V!Init, V!NoCeiling, V!NumbersOK, V!WindowUnderCeiling
<1> QED BY <1>1, <1>2, <1>3, <1>4 DEF VInv

\* Discovery only adds what lies above its checkpoint, and with it above every range in flight.
LEMMA DiscKeeps ==
  ASSUME V!NumbersOK, V!ChainOK, VInv,
         NEW newest \in 0..V!SafeTip, NEW identified \in SUBSET V2Tokens,
         V!DiscCommit(newest, identified)
  PROVE  VInv'
<1> DEFINE from == V!FromBlock(found, newest)
           to   == V!ToBlock(from, MaxRange, newest)
<1>1. /\ from <= newest
      /\ known' = known \cup V!Launched(from, to)
      /\ poolOf' = V!GraduatedRows(from, to, identified)
      /\ found' = to
      /\ V!Starts("disc", from)
      /\ tip' = tip /\ stored' = stored /\ swapped' = swapped /\ swap' = swap
      /\ late' = late /\ curved' = curved /\ curve' = curve /\ range' = range
      /\ ceiling' = ceiling
  BY DEF V!DiscCommit, V!swapVars, V!curveVars
<1>2. /\ newest \in Nat /\ MaxRange \in Nat \ {0} /\ found \in Nat \cup {V!None}
      /\ swapped \in Nat \cup {V!None} /\ curved \in Nat \cup {V!None}
  BY DEF VInv, V!TypeOK, V!NumbersOK, V!SafeTip
<1>3. /\ from \in Nat /\ from > found /\ (found # V!None => from = found + 1)
      /\ to \in Nat /\ from <= to /\ to > found
  <2>1. from \in Nat /\ from > found /\ (found # V!None => from = found + 1)
    BY <1>2, RangeFacts
  <2>2. to \in Nat /\ from <= to
    <3> HIDE DEF from
    <3> QED BY <1>1, <1>2, <2>1, RangeFacts
  <2> QED BY <1>2, <2>1, <2>2 DEF V!None
<1> HIDE DEF from, to
<1>4. \A t \in V2Tokens :
        V2Launch[t] \in Nat /\ Graduation[t] \in Nat /\ V2Launch[t] <= Graduation[t]
  BY DEF V!ChainOK
<1>5. \A t \in V2Tokens :
        /\ t \in known' <=> t \in known \/ V2Launch[t] \in from..to
        /\ poolOf'[t] = "known" => poolOf[t] = "known" \/ Graduation[t] >= from
        /\ poolOf'[t] = "none" => /\ poolOf[t] = "none"
                                  /\ t \in known' => ~(Graduation[t] \in from..to)
  BY <1>1 DEF V!GraduatedRows, V!Launched, V!Graduated
<1>6. /\ first' \in [{"disc", "swap", "curve"} -> Nat \cup {V!None}]
      /\ first'.disc = (IF first.disc = V!None THEN from ELSE first.disc)
      /\ first'.swap = first.swap
  BY <1>1, <1>3 DEF VInv, V!TypeOK, V!Starts
<1>7. V!TypeOK'
  <2>1. known' \subseteq V2Tokens
    BY <1>1 DEF VInv, V!TypeOK, V!Launched
  <2>2. poolOf' \in [V2Tokens -> {"none", "graduated", "known"}]
    BY <1>1 DEF VInv, V!TypeOK, V!GraduatedRows
  <2> QED BY <1>1, <1>2, <1>3, <1>6, <2>1, <2>2 DEF VInv, V!TypeOK
<1>8. V!TradesBehindDiscovery' /\ FirstIsScanned'
  BY <1>1, <1>2, <1>3, <1>6 DEF VInv, V!TradesBehindDiscovery, FirstIsScanned, V!None
<1>9. V!DiscoveryIsComplete'
  <2> SUFFICES ASSUME NEW t \in V2Tokens, V2Launch[t] \in first'.disc..to
               PROVE  t \in known' /\ (Graduation[t] <= to => poolOf'[t] # "none")
    BY <1>1 DEF V!DiscoveryIsComplete
  <2>1. first.disc \in Nat \cup {V!None} /\ (first.disc = V!None <=> found = V!None)
    BY DEF VInv, V!TypeOK, FirstIsScanned
  <2>2. CASE V2Launch[t] \in from..to
    BY <1>3, <1>4, <1>5, <2>2
  <2>3. CASE ~(V2Launch[t] \in from..to)
    <3>1. found # V!None /\ V2Launch[t] \in first.disc..found
      BY <1>2, <1>3, <1>4, <1>6, <2>1, <2>3 DEF V!None
    <3>2. t \in known /\ (Graduation[t] <= found => poolOf[t] # "none")
      BY <3>1 DEF VInv, V!DiscoveryIsComplete
    <3> QED BY <1>2, <1>3, <1>4, <1>5, <3>1, <3>2 DEF V!None
  <2> QED BY <2>2, <2>3
<1>10. V!CurveHistoryIsWhole'
  <2> SUFFICES ASSUME NEW s \in V!Happened("curve"), s[1] \in known', s[2] <= curved
               PROVE  s \in stored
    BY <1>1 DEF V!CurveHistoryIsWhole, V!Happened
  <2>1. s[1] \in V2Tokens /\ s[2] \in Nat /\ V2Launch[s[1]] <= s[2]
    BY HappenedFacts
  <2>2. curved <= found
    BY DEF VInv, V!TradesBehindDiscovery
  <2>3. V2Launch[s[1]] < from
    BY <1>2, <1>3, <1>4, <2>1, <2>2 DEF V!None
  <2>4. s[1] \in known
    BY <1>3, <1>4, <1>5, <2>1, <2>3
  <2> QED BY <2>4 DEF VInv, V!CurveHistoryIsWhole
<1>11. V!SwapsMissedOnlyBehindATick'
  <2> SUFFICES ASSUME NEW s \in V!Happened("pool"), swapped # V!None, s[2] \in first.swap..swapped,
                      poolOf'[s[1]] = "known", s[1] \notin late
               PROVE  s \in stored
    BY <1>1, <1>6 DEF V!SwapsMissedOnlyBehindATick, V!Happened
  <2>1. s[1] \in V2Tokens /\ s[2] \in Nat /\ Graduation[s[1]] <= s[2]
    BY HappenedFacts
  <2>2. swapped <= found
    BY DEF VInv, V!TradesBehindDiscovery
  <2>3. Graduation[s[1]] < from
    BY <1>2, <1>3, <1>4, <2>1, <2>2 DEF V!None
  <2>4. poolOf[s[1]] = "known"
    BY <1>3, <1>4, <1>5, <2>1, <2>3
  <2> QED BY <2>4 DEF VInv, V!SwapsMissedOnlyBehindATick
<1>12. SwapReady'
  <2> SUFFICES ASSUME swap.pc = "commit"
               PROVE  /\ swap.from <= swap.to /\ swap.to <= to
                      /\ swapped # V!None => swap.from = swapped + 1
                      /\ \A t \in V2Tokens : poolOf'[t] = "known" /\ Graduation[t] <= swap.to
                                             => t \in swap.pools \cup late
    BY <1>1 DEF SwapReady
  <2>1. swap.to \in Nat /\ swap.to <= found
    BY DEF VInv, SwapReady, V!TypeOK
  <2>2. \A t \in V2Tokens : poolOf'[t] = "known" /\ Graduation[t] <= swap.to => poolOf[t] = "known"
    BY <1>2, <1>3, <1>4, <1>5, <2>1 DEF V!None
  <2> QED BY <1>2, <1>3, <2>1, <2>2 DEF VInv, SwapReady, V!None
<1>13. CurveReady'
  <2> SUFFICES ASSUME curve.pc # "idle"
               PROVE  /\ curve.from <= curve.to /\ curve.to <= to
                      /\ curve.to - curve.from < range
                      /\ curved # V!None => curve.from = curved + 1
                      /\ curved = V!None => \A t \in known' : curve.from <= V2Launch[t]
    BY <1>1 DEF CurveReady
  <2>1. curve.to \in Nat /\ curve.from \in Nat /\ curve.from <= curve.to /\ curve.to <= found
    BY DEF VInv, CurveReady, V!TypeOK
  <2>2. \A t \in known' : t \in known \/ V2Launch[t] \in from..to
    BY <1>1 DEF V!Launched
  <2>3. \A t \in known' : t \in V2Tokens
    BY <1>7 DEF V!TypeOK
  <2> QED BY <1>2, <1>3, <1>4, <2>1, <2>2, <2>3 DEF VInv, CurveReady, V!None
<1>14. V!WindowUnderCeiling'
  BY <1>1 DEF VInv, V!WindowUnderCeiling
<1> QED BY <1>7, <1>8, <1>9, <1>10, <1>11, <1>12, <1>13, <1>14 DEF VInv

LEMMA SwapKeeps ==
  ASSUME V!NumbersOK, V!ChainOK, VInv, V!SwapStep
  PROVE  VInv'
<1>1. /\ tip' = tip /\ known' = known /\ poolOf' = poolOf /\ found' = found
      /\ curved' = curved /\ curve' = curve /\ range' = range /\ ceiling' = ceiling
      /\ stored \subseteq stored' /\ late \subseteq late'
  BY DEF V!SwapStep, V!SwapPools, V!SwapBarrier, V!SwapCommit, V!SwapEnds, V!chain,
         V!curveVars, V!swapVars
<1>2. /\ found \in Nat \cup {V!None} /\ swapped \in Nat \cup {V!None}
      /\ curved \in Nat \cup {V!None}
  BY DEF VInv, V!TypeOK
<1>3. V!CurveHistoryIsWhole' /\ CurveReady' /\ V!WindowUnderCeiling'
  BY <1>1 DEF VInv, V!CurveHistoryIsWhole, V!Happened, CurveReady, V!WindowUnderCeiling
<1>4. ASSUME UNCHANGED <<stored, swapped, first>>, V!TypeOK', SwapReady' PROVE VInv'
  <2>1. V!TradesBehindDiscovery' /\ FirstIsScanned' /\ V!DiscoveryIsComplete'
    BY <1>1, <1>4 DEF VInv, V!TradesBehindDiscovery, FirstIsScanned, V!DiscoveryIsComplete
  <2>2. V!SwapsMissedOnlyBehindATick'
    BY <1>1, <1>4 DEF VInv, V!SwapsMissedOnlyBehindATick, V!Happened
  <2> QED BY <1>3, <1>4, <2>1, <2>2 DEF VInv
<1>5. CASE V!SwapPools
  <2>1. V!TypeOK'
    BY <1>1, <1>5 DEF V!SwapPools, VInv, V!TypeOK, V!Trackable, V!IdleSwap, V!Happened
  <2>2. swap'.pc = "barrier"
    BY <1>5 DEF V!SwapPools, V!IdleSwap
  <2> QED BY <1>4, <1>5, <2>1, <2>2 DEF V!SwapPools, SwapReady
<1>6. CASE V!SwapEnds
  <2>1. V!TypeOK'
    BY <1>1, <1>6 DEF V!SwapEnds, VInv, V!TypeOK, V!IdleSwap, V!Happened
  <2> QED BY <1>4, <1>6, <2>1 DEF V!SwapEnds, SwapReady, V!IdleSwap
<1>7. ASSUME NEW newest \in 0..V!SafeTip, V!SwapBarrier(newest) PROVE VInv'
  <2> DEFINE from == V!FromBlock(swapped, newest)
             to   == V!ToBlock(from, MaxRange, V!Barrier(newest))
  <2>1. /\ newest \in Nat /\ MaxRange \in Nat \ {0} /\ found \in Nat
        /\ V!Barrier(newest) \in Nat /\ V!Barrier(newest) <= found
    BY <1>2, <1>7 DEF VInv, V!TypeOK, V!NumbersOK, V!SafeTip, V!SwapBarrier, V!Barrier, V!Lesser
  <2>2. from <= V!Barrier(newest)
    BY <1>7 DEF V!SwapBarrier
  <2>3. /\ from \in Nat /\ (swapped # V!None => from = swapped + 1)
        /\ to \in Nat /\ from <= to /\ to <= found
    <3>1. from \in Nat /\ (swapped # V!None => from = swapped + 1)
      BY <1>2, <2>1, RangeFacts
    <3>2. to \in Nat /\ from <= to /\ to <= V!Barrier(newest)
      BY <2>1, <2>2, <3>1, RangeFacts
    <3> QED BY <2>1, <3>1, <3>2
  <2>4. /\ swap' = [swap EXCEPT !.pc = "commit", !.from = from, !.to = to]
        /\ late' = late \cup (V!Trackable \ swap.pools)
        /\ UNCHANGED <<stored, swapped, first>>
    BY <1>7 DEF V!SwapBarrier, V!curveVars
  <2> HIDE DEF from, to
  <2>5. swap \in [pc: {"idle", "barrier", "commit"}, pools: SUBSET V2Tokens, from: Nat, to: Nat]
    BY DEF VInv, V!TypeOK
  <2>6. V!TypeOK'
    BY <1>1, <2>3, <2>4, <2>5 DEF VInv, V!TypeOK, V!Trackable, V!Happened
  <2>7. swap'.from = from /\ swap'.to = to /\ swap'.pools = swap.pools
    BY <2>4, <2>5
  <2>8. SwapReady'
    BY <1>1, <2>3, <2>4, <2>7 DEF SwapReady, V!Trackable
  <2> QED BY <1>4, <2>4, <2>6, <2>8
<1>8. CASE V!SwapCommit
  <2>1. /\ swap.pc = "commit" /\ swapped' = swap.to /\ swap' = V!IdleSwap /\ late' = late
        /\ stored' = stored \cup {s \in V!Happened("pool") :
                                     s[1] \in swap.pools /\ s[2] \in swap.from..swap.to}
        /\ V!Starts("swap", swap.from)
    BY <1>8 DEF V!SwapCommit
  <2>2. /\ swap.from \in Nat /\ swap.to \in Nat
        /\ swap.from <= swap.to /\ swap.to <= found
        /\ swapped # V!None => swap.from = swapped + 1
        /\ \A t \in V2Tokens :
             poolOf[t] = "known" /\ Graduation[t] <= swap.to => t \in swap.pools \cup late
    BY <2>1 DEF VInv, V!TypeOK, SwapReady
  <2>3. /\ first' \in [{"disc", "swap", "curve"} -> Nat \cup {V!None}]
        /\ first'.swap = (IF first.swap = V!None THEN swap.from ELSE first.swap)
        /\ first'.disc = first.disc
    BY <2>1, <2>2 DEF VInv, V!TypeOK, V!Starts
  <2>4. V!TypeOK'
    BY <1>1, <2>1, <2>2, <2>3 DEF VInv, V!TypeOK, V!IdleSwap, V!Happened
  <2>5. V!TradesBehindDiscovery' /\ FirstIsScanned' /\ V!DiscoveryIsComplete' /\ SwapReady'
    BY <1>1, <2>1, <2>2, <2>3
       DEF VInv, V!TypeOK, V!TradesBehindDiscovery, FirstIsScanned, V!DiscoveryIsComplete, SwapReady,
           V!IdleSwap, V!None
  <2>6. V!SwapsMissedOnlyBehindATick'
    <3> SUFFICES ASSUME NEW s \in V!Happened("pool"), s[2] \in first'.swap..swap.to,
                        poolOf[s[1]] = "known", s[1] \notin late
                 PROVE  s \in stored'
      BY <1>1, <2>1 DEF V!SwapsMissedOnlyBehindATick, V!Happened
    <3>1. s[1] \in V2Tokens /\ s[2] \in Nat /\ Graduation[s[1]] <= s[2] /\ Graduation[s[1]] \in Nat
      BY HappenedFacts DEF V!ChainOK
    <3>2. CASE s[2] >= swap.from
      BY <2>1, <2>2, <3>1, <3>2
    <3>3. CASE ~(s[2] >= swap.from)
      <4>1. first.swap \in Nat \cup {V!None} /\ (first.swap = V!None <=> swapped = V!None)
        BY DEF VInv, V!TypeOK, FirstIsScanned
      <4>2. swapped # V!None /\ s[2] \in first.swap..swapped
        BY <1>2, <2>2, <2>3, <3>1, <3>3, <4>1 DEF V!None
      <4> QED BY <1>1, <4>2 DEF VInv, V!SwapsMissedOnlyBehindATick
    <3> QED BY <3>2, <3>3
  <2> QED BY <1>3, <2>4, <2>5, <2>6 DEF VInv
<1> QED BY <1>5, <1>6, <1>7, <1>8 DEF V!SwapStep

\* The window after a refusal or a clean tick is as wide as the cap that is remembered at most.
LEMMA WindowFacts ==
  ASSUME V!NumbersOK, VInv
  PROVE  /\ V!Waning \in [width: Nat, left: 0..CeilingSuccesses]
         /\ V!Waning.left > 0 => ceiling.left > 0 /\ V!Waning.width = ceiling.width
         /\ \A cap \in Nat : /\ V!Growth(cap) \in Nat /\ V!Growth(cap) >= MinRange
                             /\ V!Growth(cap) <= cap \/ V!Growth(cap) = range
         /\ curve.pc # "idle" =>
              /\ V!Narrowed \in Nat /\ MinRange <= V!Narrowed /\ V!Narrowed <= range
              /\ V!Remembered(V!Narrowed) \in Nat /\ V!Narrowed <= V!Remembered(V!Narrowed)
<1>1. /\ ceiling \in [width: Nat, left: 0..CeilingSuccesses] /\ CeilingSuccesses \in Nat \ {0}
      /\ range \in Nat /\ MinRange \in Nat \ {0} /\ MinRange <= range
  BY DEF VInv, V!TypeOK, V!NumbersOK, V!WindowUnderCeiling
<1>2. V!Waning \in [width: Nat, left: 0..CeilingSuccesses]
  BY <1>1 DEF V!Waning, V!NoCeiling
<1>3. V!Waning.left > 0 => ceiling.left > 0 /\ V!Waning.width = ceiling.width
  BY <1>1 DEF V!Waning, V!NoCeiling
<1>4. ASSUME NEW cap \in Nat
      PROVE  /\ V!Growth(cap) \in Nat /\ V!Growth(cap) >= MinRange
             /\ V!Growth(cap) <= cap \/ V!Growth(cap) = range
  BY <1>1 DEF V!Growth, V!Lesser
<1>5. ASSUME curve.pc # "idle"
      PROVE  /\ V!Narrowed \in Nat /\ MinRange <= V!Narrowed /\ V!Narrowed <= range
             /\ V!Remembered(V!Narrowed) \in Nat /\ V!Narrowed <= V!Remembered(V!Narrowed)
  <2>1. V!Width \in Nat /\ V!Width <= range
    BY <1>1, <1>5 DEF VInv, V!TypeOK, CurveReady, V!Width
  <2>2. V!Width \div 2 \in Nat /\ V!Width \div 2 <= range /\ (V!Width * 3) \div 4 \in Nat
    BY <1>1, <2>1
  <2> QED BY <1>1, <2>2 DEF V!Narrowed, V!Remembered, V!Greater
<1> QED BY <1>2, <1>3, <1>4, <1>5

LEMMA CurveKeeps ==
  ASSUME V!NumbersOK, V!ChainOK, VInv, V!CurveStep
  PROVE  VInv'
<1>1. /\ tip' = tip /\ known' = known /\ poolOf' = poolOf /\ found' = found
      /\ swapped' = swapped /\ swap' = swap /\ late' = late
      /\ stored \subseteq stored'
  BY DEF V!CurveStep, V!CurveBarrier, V!CurveLogs, V!CurveWaits, V!CurveCommit, V!CurveEnds,
         V!CurveRefused,
         V!chain, V!curveVars, V!swapVars, V!vars
<1>2. /\ found \in Nat \cup {V!None} /\ swapped \in Nat \cup {V!None}
      /\ curved \in Nat \cup {V!None} /\ range \in Nat \ {0}
      /\ curve \in [pc: {"idle", "logs", "commit"}, from: Nat, to: Nat]
      /\ ceiling \in [width: Nat, left: 0..CeilingSuccesses]
      /\ known \subseteq V2Tokens /\ \A t \in V2Tokens : V2Launch[t] \in Nat
  BY DEF VInv, V!TypeOK, V!NumbersOK, V!ChainOK, V!WindowUnderCeiling
<1>3. ASSUME first'.disc = first.disc, first'.swap = first.swap
      PROVE  /\ FirstIsScanned' /\ V!DiscoveryIsComplete' /\ SwapReady'
             /\ V!SwapsMissedOnlyBehindATick'
  <2>1. FirstIsScanned' /\ V!DiscoveryIsComplete' /\ SwapReady'
    BY <1>1, <1>3 DEF VInv, FirstIsScanned, V!DiscoveryIsComplete, SwapReady
  <2>2. V!SwapsMissedOnlyBehindATick'
    BY <1>1, <1>3 DEF VInv, V!SwapsMissedOnlyBehindATick, V!Happened
  <2> QED BY <2>1, <2>2
<1>4. ASSUME UNCHANGED <<stored, curved, first>>, V!TypeOK', CurveReady', V!WindowUnderCeiling'
      PROVE  VInv'
  <2>1. V!TradesBehindDiscovery' /\ V!CurveHistoryIsWhole'
    BY <1>1, <1>4 DEF VInv, V!TradesBehindDiscovery, V!CurveHistoryIsWhole, V!Happened
  <2> QED BY <1>3, <1>4, <2>1 DEF VInv
<1>5. ASSUME NEW newest \in 0..V!SafeTip, V!CurveBarrier(newest) PROVE VInv'
  <2>1. /\ newest \in Nat /\ found \in Nat
        /\ V!Barrier(newest) \in Nat /\ V!Barrier(newest) <= found
    BY <1>2, <1>5 DEF VInv, V!TypeOK, V!NumbersOK, V!SafeTip, V!CurveBarrier, V!Barrier, V!Lesser
  <2>2. PICK from \in V!CurveStarts :
          /\ from <= V!Barrier(newest)
          /\ curve' = [pc |-> "logs", from |-> from, to |-> V!ToBlock(from, range, V!Barrier(newest))]
    BY <1>5 DEF V!CurveBarrier
  <2>3. /\ from \in Nat /\ (curved # V!None => from = curved + 1)
        /\ curved = V!None => \A t \in known : from <= V2Launch[t]
    BY <1>2 DEF V!CurveStarts
  <2> DEFINE to == V!ToBlock(from, range, V!Barrier(newest))
  <2>4. to \in Nat /\ from <= to /\ to <= V!Barrier(newest) /\ to - from < range
    BY <1>2, <2>1, <2>2, <2>3, RangeFacts
  <2>5. UNCHANGED <<stored, curved, first, range, ceiling>>
    BY <1>5 DEF V!CurveBarrier
  <2> HIDE DEF to
  <2>6. curve' = [pc |-> "logs", from |-> from, to |-> to]
    BY <2>2 DEF to
  <2>7. V!TypeOK'
    BY <1>1, <2>3, <2>4, <2>5, <2>6 DEF VInv, V!TypeOK, V!Happened
  <2>8. CurveReady'
    BY <1>1, <2>1, <2>3, <2>4, <2>5, <2>6 DEF CurveReady
  <2>9. V!WindowUnderCeiling'
    BY <2>5 DEF VInv, V!WindowUnderCeiling
  <2> QED BY <1>4, <2>5, <2>7, <2>8, <2>9
<1>6. CASE V!CurveLogs \/ V!CurveEnds \/ V!CurveWaits
  <2>1. /\ UNCHANGED <<stored, curved, first, range, ceiling>>
        /\ \/ curve' = [curve EXCEPT !.pc = "commit"] /\ curve.pc = "logs"
           \/ curve' = V!IdleCurve
           \/ curve' = curve
    BY <1>6 DEF V!CurveLogs, V!CurveEnds, V!CurveWaits, V!vars, V!chain, V!curveVars
  <2>2. V!TypeOK'
    BY <1>1, <1>2, <2>1 DEF VInv, V!TypeOK, V!Happened, V!IdleCurve
  <2>3. CurveReady'
    BY <1>1, <1>2, <2>1 DEF VInv, CurveReady, V!IdleCurve
  <2>4. V!WindowUnderCeiling'
    BY <2>1 DEF VInv, V!WindowUnderCeiling
  <2> QED BY <1>4, <2>1, <2>2, <2>3, <2>4
<1>7. ASSUME NEW kind \in {"RANGE", "SOFT", "NONE"}, V!CurveRefused(kind) PROVE VInv'
  <2>1. /\ range' = (IF kind = "NONE" THEN range ELSE V!Narrowed)
        /\ ceiling' = (IF kind = "RANGE"
                       THEN [width |-> V!Remembered(V!Narrowed), left |-> CeilingSuccesses]
                       ELSE ceiling)
        /\ curve' = V!IdleCurve /\ UNCHANGED <<stored, curved, first>>
    BY <1>7 DEF V!CurveRefused
  <2>2. /\ V!Narrowed \in Nat /\ MinRange <= V!Narrowed /\ V!Narrowed <= range
        /\ V!Remembered(V!Narrowed) \in Nat /\ V!Narrowed <= V!Remembered(V!Narrowed)
    BY <1>7, WindowFacts DEF V!CurveRefused
  <2>3. CeilingSuccesses \in Nat \ {0} /\ MinRange \in Nat
    BY DEF V!NumbersOK
  <2>4. V!TypeOK'
    BY <1>1, <1>2, <2>1, <2>2, <2>3 DEF VInv, V!TypeOK, V!Happened, V!IdleCurve
  <2>5. V!WindowUnderCeiling'
    BY <1>2, <2>1, <2>2, <2>3 DEF VInv, V!WindowUnderCeiling
  <2>6. CurveReady'
    BY <2>1 DEF CurveReady, V!IdleCurve
  <2> QED BY <1>4, <2>1, <2>4, <2>5, <2>6
<1>8. CASE V!CurveCommit
  <2> DEFINE cap == IF V!Waning.left > 0 THEN V!Lesser(V!Waning.width, CurveRange) ELSE CurveRange
  <2>1. /\ curve.pc = "commit"
        /\ stored' = stored \cup {s \in V!Happened("curve") :
                                     s[1] \in known /\ s[2] \in curve.from..curve.to}
        /\ curved' = curve.to /\ curve' = V!IdleCurve
        /\ ceiling' = V!Waning /\ range' = V!Growth(cap)
        /\ V!Starts("curve", curve.from)
    BY <1>8 DEF V!CurveCommit
  <2>2. /\ curve.from \in Nat /\ curve.to \in Nat /\ curve.from <= curve.to
        /\ curve.to <= found /\ (curved # V!None => curve.from = curved + 1)
        /\ curved = V!None => \A t \in known : curve.from <= V2Launch[t]
    BY <1>2, <2>1 DEF VInv, CurveReady
  <2>3. /\ V!Waning \in [width: Nat, left: 0..CeilingSuccesses]
        /\ V!Waning.left > 0 => ceiling.left > 0 /\ V!Waning.width = ceiling.width
        /\ CurveRange \in Nat
    BY WindowFacts DEF V!NumbersOK
  <2>4. cap \in Nat /\ (V!Waning.left > 0 => cap <= ceiling.width)
    BY <2>3 DEF V!Lesser
  <2> HIDE DEF cap
  <2>5. /\ range' \in Nat /\ range' >= MinRange /\ (range' <= cap \/ range' = range)
    BY <2>1, <2>4, WindowFacts
  <2>6. /\ first' \in [{"disc", "swap", "curve"} -> Nat \cup {V!None}]
        /\ first'.swap = first.swap /\ first'.disc = first.disc
    BY <2>1, <2>2 DEF VInv, V!TypeOK, V!Starts
  <2>7. V!TypeOK'
    BY <1>1, <2>1, <2>2, <2>3, <2>5, <2>6 DEF VInv, V!TypeOK, V!IdleCurve, V!Happened
  <2>8. V!TradesBehindDiscovery' /\ CurveReady'
    BY <1>1, <2>1, <2>2 DEF VInv, V!TradesBehindDiscovery, CurveReady, V!IdleCurve
  <2>9. V!CurveHistoryIsWhole'
    <3> SUFFICES ASSUME NEW s \in V!Happened("curve"), s[1] \in known, s[2] <= curve.to
                 PROVE  s \in stored'
      BY <1>1, <2>1 DEF V!CurveHistoryIsWhole, V!Happened
    <3>1. s[1] \in V2Tokens /\ s[2] \in Nat /\ V2Launch[s[1]] <= s[2]
      BY HappenedFacts
    <3>2. CASE s[2] >= curve.from
      BY <2>1, <2>2, <3>1, <3>2
    <3>3. CASE ~(s[2] >= curve.from)
      <4>1. curved # V!None /\ s[2] <= curved
        BY <1>2, <2>2, <3>1, <3>3 DEF V!None
      <4> QED BY <1>1, <4>1 DEF VInv, V!CurveHistoryIsWhole
    <3> QED BY <3>2, <3>3
  <2>10. V!WindowUnderCeiling'
    BY <1>2, <2>1, <2>3, <2>4, <2>5 DEF VInv, V!WindowUnderCeiling
  <2>11. FirstIsScanned' /\ V!DiscoveryIsComplete' /\ SwapReady' /\ V!SwapsMissedOnlyBehindATick'
    BY <1>3, <2>6
  <2> QED BY <2>7, <2>8, <2>9, <2>10, <2>11 DEF VInv
<1> QED BY <1>5, <1>6, <1>7, <1>8 DEF V!CurveStep

LEMMA VStep == V!NumbersOK /\ V!ChainOK /\ VInv /\ [V!Next]_(V!vars) => VInv'
<1> SUFFICES ASSUME V!NumbersOK, V!ChainOK, VInv, [V!Next]_(V!vars) PROVE VInv'
  OBVIOUS
<1>1. ASSUME /\ UNCHANGED <<known, poolOf, found, stored, swapped, late, curved, first>>
             /\ tip' \in 0..V2Height
             /\ swap' = swap \/ swap' = V!IdleSwap
             /\ \/ UNCHANGED <<curve, range, ceiling>>
                \/ curve' = V!IdleCurve /\ range' = CurveRange /\ ceiling' = V!NoCeiling
      PROVE  VInv'
  <2>1. V!TypeOK'
    BY <1>1 DEF VInv, V!TypeOK, V!IdleSwap, V!IdleCurve, V!NoCeiling, V!NumbersOK, V!Happened
  <2>2. V!TradesBehindDiscovery' /\ FirstIsScanned' /\ V!DiscoveryIsComplete'
    BY <1>1 DEF VInv, V!TradesBehindDiscovery, FirstIsScanned, V!DiscoveryIsComplete
  <2>3. V!CurveHistoryIsWhole' /\ V!SwapsMissedOnlyBehindATick'
    BY <1>1 DEF VInv, V!CurveHistoryIsWhole, V!SwapsMissedOnlyBehindATick, V!Happened
  <2>4. SwapReady' /\ CurveReady'
    BY <1>1 DEF VInv, SwapReady, CurveReady, V!IdleSwap, V!IdleCurve
  <2>5. V!WindowUnderCeiling'
    BY <1>1 DEF VInv, V!WindowUnderCeiling, V!NoCeiling, V!NumbersOK
  <2> QED BY <2>1, <2>2, <2>3, <2>4, <2>5 DEF VInv
<1>2. V2Height \in Nat /\ tip \in 0..V2Height
  BY DEF V!NumbersOK, VInv, V!TypeOK
<1>3. CASE V!NewBlock
  BY <1>1, <1>2, <1>3 DEF V!NewBlock, V!swapVars, V!curveVars
<1>4. CASE V!DiscStep
  BY <1>4, DiscKeeps DEF V!DiscStep
<1>5. CASE V!SwapStep
  BY <1>5, SwapKeeps
<1>6. CASE V!CurveStep
  BY <1>6, CurveKeeps
<1>7. CASE V!Restart
  BY <1>1, <1>2, <1>7 DEF V!Restart
<1>8. CASE UNCHANGED V!vars
  BY <1>1, <1>2, <1>8 DEF V!vars, V!chain, V!swapVars, V!curveVars
<1> QED BY <1>3, <1>4, <1>5, <1>6, <1>7, <1>8 DEF V!Next

-----------------------------------------------------------------------------
(* The run's specification. *)

LEMMA V2Moves == [AllNext]_<<part, listeners>> => [V!Next]_(V!vars)
<1> SUFFICES ASSUME [AllNext]_<<part, listeners>> PROVE [V!Next]_(V!vars)
  OBVIOUS
<1>1. UNCHANGED v2Vars => UNCHANGED V!vars
  BY DEF v2Vars, V!vars, V!chain, V!swapVars, V!curveVars
<1>2. UNCHANGED listeners => UNCHANGED v2Vars
  BY DEF listeners
<1> QED BY <1>1, <1>2 DEF AllNext

\* The V2 listeners' invariant, among the listeners of both versions.
THEOREM V2Invariant == AllSpec => []VInv
<1>1. AllInit => VInv
  BY VInit, V2Constants DEF AllInit
<1>2. VInv /\ [AllNext]_<<part, listeners>> => VInv'
  BY VStep, V2Moves, V2Constants
<1> QED BY <1>1, <1>2, PTL DEF AllSpec

\* discoveryV2Listener.ts, tradeV2Listener.ts, curveTradeListener.ts: neither trade listener
\* overtakes discovery, which leaves out no launch and no graduation; a token's history on its
\* curve has no hole up to the checkpoint, however the window shrinks, grows and is forgotten,
\* and a swap is missed only of a pool that was found behind a tick's back.
THEOREM V2HistoryIsWhole == AllSpec => []V2IsWhole
<1>1. VInv => V2IsWhole
  BY DEF VInv, V2IsWhole
<1> QED BY <1>1, V2Invariant, PTL
=============================================================================
