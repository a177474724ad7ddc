------------------------------ MODULE IngestionV2 ------------------------------
(***************************************************************************)
(* Pons V2 ingestion on a chain that only grows: a discovery listener that *)
(* scans launches and graduations, and two trade listeners behind it, one  *)
(* for the bonding curves and one for the pools of graduated tokens.  Each *)
(* has its own checkpoint and its own loop in one process.                 *)
(*                                                                         *)
(* What a tick reads from blocks that cannot change is read where it is    *)
(* committed, with a tip that may be old by then; so a discovery tick is   *)
(* one action.  Rows and checkpoints of other listeners are read in        *)
(* actions of their own.  The curve listener also adapts the width of its log window  *)
(* to what the providers accept.                                           *)
(***************************************************************************)
EXTENDS Integers

CONSTANTS
  Tokens,
  Launch,            \* Launch[t]: the block of t's TokenLaunched event
  Graduation,        \* Graduation[t]: the block of its PoolGraduated event
  CurveTrades,       \* CurveTrades[t]: the blocks with a trade on t's curve
  PoolTrades,        \* PoolTrades[t]: the blocks with a swap in t's pool
  MaxHeight,         \* bound: the chain stops growing here
  Lag,               \* confirmationLagBlocks
  Lookback,          \* freshStartLookbackBlocks
  MaxRange,          \* maxBlockRangePerPoll
  CurveRange,        \* the curve listener's widest window
  MinRange,          \* MIN_RANGE
  CeilingSuccesses,  \* CEILING_SUCCESSES
  Accepted           \* the widest log window the providers answer

NumbersOK ==
  /\ MaxHeight \in Nat /\ Lag \in Nat /\ Lookback \in Nat
  /\ MaxRange \in Nat \ {0} /\ CeilingSuccesses \in Nat \ {0}
  /\ CurveRange \in Nat /\ MinRange \in Nat \ {0} /\ MinRange <= CurveRange
  /\ Accepted \in Nat /\ MinRange <= Accepted
ChainOK ==
  /\ Launch \in [Tokens -> Nat] /\ Graduation \in [Tokens -> Nat]
  /\ CurveTrades \in [Tokens -> SUBSET Nat] /\ PoolTrades \in [Tokens -> SUBSET Nat]
  /\ \A t \in Tokens :
       /\ Launch[t] <= Graduation[t]
       /\ \A h \in CurveTrades[t] : Launch[t] <= h /\ h <= Graduation[t]
       /\ \A h \in PoolTrades[t] : Graduation[t] <= h

VARIABLES
  head,        \* the chain's height
  known,       \* tokens with a DiscoveredToken row; its enrichment gates nothing here
  pool,        \* "none", "graduated" without a poolId, or "known"
  trades,      \* ChainTrade rows: <<token, height, "curve" or "pool">>
  discovered,  \* the discovery checkpoint's lastHeight
  swapped,     \* the pool trade checkpoint's lastHeight
  curved,      \* the curve trade checkpoint's lastHeight
  swap,        \* the pool trade tick in flight
  curve,       \* the curve trade tick in flight
  range,       \* the curve listener's window
  ceiling,     \* its remembered cap: [width, left], left = 0 when there is none
  first,       \* history: the first block each listener ever scanned
  exposed      \* history: tokens whose pool became known behind a pool tick's back

chain == <<head, known, pool, discovered>>
swapVars == <<swapped, swap, exposed>>
curveVars == <<curved, curve, range, ceiling>>
vars == <<chain, trades, swapVars, curveVars, first>>

None == -1
NoCeiling == [width |-> 0, left |-> 0]
IdleSwap == [pc |-> "idle", pools |-> {}, from |-> 0, to |-> 0]
IdleCurve == [pc |-> "idle", from |-> 0, to |-> 0]

Init ==
  /\ head = 0
  /\ known = {} /\ pool = [t \in Tokens |-> "none"]
  /\ trades = {}
  /\ discovered = None /\ swapped = None /\ curved = None
  /\ swap = IdleSwap /\ curve = IdleCurve
  /\ range = CurveRange /\ ceiling = NoCeiling
  /\ first = [disc |-> None, swap |-> None, curve |-> None] /\ exposed = {}

Lesser(a, b) == IF a < b THEN a ELSE b
Greater(a, b) == IF a > b THEN a ELSE b

SafeTip == head - Lag

\* Resume after the checkpoint, or start a lookback behind the tip.
FromBlock(checkpoint, tip) ==
  IF checkpoint # None THEN checkpoint + 1 ELSE Greater(tip - Lookback + 1, 0)

ToBlock(from, width, tip) == Lesser(from + width - 1, tip)

\* What the chain holds.
Happened(venue) ==
  LET heights == IF venue = "pool" THEN PoolTrades ELSE CurveTrades
  IN UNION {{<<t, h, venue>> : h \in heights[t]} : t \in Tokens}

Starts(listener, from) ==
  first' = IF first[listener] = None THEN [first EXCEPT ![listener] = from] ELSE first

NewBlock ==
  /\ head < MaxHeight /\ head' = head + 1
  /\ UNCHANGED <<known, pool, discovered, trades, swapVars, curveVars, first>>

-----------------------------------------------------------------------------
(* The discovery tick. *)

Launched(from, to) == {t \in Tokens : Launch[t] \in from..to}
Graduated(from, to) == {t \in Tokens : Graduation[t] \in from..to}

\* A graduation updates an existing row, one launched in the same range included; without its
\* Initialize log the row gets no poolId.
GraduatedRows(from, to, identified) ==
  [t \in Tokens |->
     IF t \notin Graduated(from, to) \/ (t \notin known /\ t \notin Launched(from, to))
     THEN pool[t]
     ELSE IF t \in identified THEN "known" ELSE "graduated"]

\* Launches, graduations and the checkpoint, in one transaction.
DiscCommit(tip, identified) ==
  LET from == FromBlock(discovered, tip)
      to   == ToBlock(from, MaxRange, tip)
  IN /\ from <= tip
     /\ known' = known \cup Launched(from, to)
     /\ pool' = GraduatedRows(from, to, identified)
     /\ discovered' = to
     /\ Starts("disc", from)
     /\ UNCHANGED <<head, trades, swapVars, curveVars>>

-----------------------------------------------------------------------------
(* The pool trade tick. *)

Trackable == {t \in Tokens : pool[t] = "known"}

\* The pools are listed before anything else; with none the tick leaves no checkpoint.
SwapPools ==
  /\ swap.pc = "idle" /\ Trackable # {}
  /\ swap' = [IdleSwap EXCEPT !.pc = "barrier", !.pools = Trackable]
  /\ UNCHANGED <<chain, trades, swapped, exposed, curveVars, first>>

\* A trade tick goes no further than discovery.
Barrier(tip) == Lesser(tip, discovered)

\* The tip and discovery's checkpoint are read and the range is fixed.
SwapBarrier(tip) ==
  LET from == FromBlock(swapped, tip)
  IN /\ swap.pc = "barrier" /\ discovered # None
     /\ from <= Barrier(tip)
     /\ swap' = [swap EXCEPT !.pc = "commit", !.from = from,
                             !.to = ToBlock(from, MaxRange, Barrier(tip))]
     /\ exposed' = exposed \cup (Trackable \ swap.pools)
     /\ UNCHANGED <<chain, trades, swapped, curveVars, first>>

\* The swaps of the listed pools and the checkpoint, in one transaction.
SwapCommit ==
  /\ swap.pc = "commit"
  /\ trades' = trades \cup {s \in Happened("pool") : s[1] \in swap.pools /\ s[2] \in swap.from..swap.to}
  /\ swapped' = swap.to /\ swap' = IdleSwap
  /\ Starts("swap", swap.from)
  /\ UNCHANGED <<chain, exposed, curveVars>>

\* Waiting on discovery or up to date, one of the log chunks failed, or a restart.
SwapEnds ==
  /\ swap.pc # "idle" /\ swap' = IdleSwap
  /\ UNCHANGED <<chain, trades, swapped, exposed, curveVars, first>>

-----------------------------------------------------------------------------
(* The curve trade tick. *)

\* Mutant: a fresh start begins a range behind discovery.
CurveStartsBehindDiscovery ==
  {IF curved # None THEN curved + 1 ELSE Greater(discovered - CurveRange, 0)}

\* After the checkpoint, or at the earliest known launch: none while no curve is known.
CurveStarts ==
  IF curved # None THEN {curved + 1}
  ELSE {Launch[t] : t \in {u \in known : \A v \in known : Launch[u] <= Launch[v]}}

\* The tip and discovery's checkpoint are read and the range is fixed.
CurveBarrier(tip) ==
  /\ curve.pc = "idle" /\ discovered # None
  /\ \E from \in CurveStarts :
       /\ from <= Barrier(tip)
       /\ curve' = [pc |-> "logs", from |-> from, to |-> ToBlock(from, range, Barrier(tip))]
  /\ UNCHANGED <<chain, trades, swapVars, curved, range, ceiling, first>>

Width == curve.to - curve.from + 1

\* The cap that is remembered after a refusal.
Remembered(next) == Greater((Width * 3) \div 4, next)

Narrowed == Greater(Width \div 2, MinRange)

\* The log read failed: a named cap ("RANGE") narrows the window and is remembered, a timeout
\* ("SOFT") narrows it, and anything else ("NONE") leaves it alone.
CurveRefused(kind) ==
  /\ curve.pc = "logs"
  /\ range' = IF kind = "NONE" THEN range ELSE Narrowed
  /\ ceiling' = IF kind = "RANGE" THEN [width |-> Remembered(Narrowed), left |-> CeilingSuccesses]
                ELSE ceiling
  /\ curve' = IdleCurve
  /\ UNCHANGED <<chain, trades, swapVars, curved, first>>

\* The logs were read.
CurveLogs ==
  /\ curve.pc = "logs" /\ Width <= Accepted
  /\ curve' = [curve EXCEPT !.pc = "commit"]
  /\ UNCHANGED <<chain, trades, swapVars, curved, range, ceiling, first>>

\* One clean tick less until the ceiling is forgotten.
Waning == IF ceiling.left <= 1 THEN NoCeiling ELSE [ceiling EXCEPT !.left = @ - 1]

Growth(cap) == IF range < cap THEN Lesser(range * 2, cap) ELSE range

\* The trades of the curves that are known by now and the checkpoint, in one transaction;
\* then the window may grow.
CurveCommit ==
  /\ curve.pc = "commit"
  /\ trades' = trades \cup {s \in Happened("curve") : s[1] \in known /\ s[2] \in curve.from..curve.to}
  /\ curved' = curve.to /\ curve' = IdleCurve
  /\ ceiling' = Waning
  /\ range' = Growth(IF Waning.left > 0 THEN Lesser(Waning.width, CurveRange) ELSE CurveRange)
  /\ Starts("curve", curve.from)
  /\ UNCHANGED <<chain, swapVars>>

\* A block that cannot be read.
CurveEnds ==
  /\ curve.pc = "commit" /\ curve' = IdleCurve
  /\ UNCHANGED <<chain, trades, swapVars, curved, range, ceiling, first>>

\* Waiting on discovery, no curve known, or up to date: the tick leaves no trace.
CurveWaits ==
  /\ curve.pc = "idle" /\ SafeTip >= 0
  /\ \A from \in CurveStarts : from > Barrier(SafeTip)
  /\ UNCHANGED vars

-----------------------------------------------------------------------------
\* The process starts anew: ticks and the window are lost.  Bound: not after the last block.
Restart ==
  /\ head < MaxHeight
  /\ swap' = IdleSwap /\ curve' = IdleCurve
  /\ range' = CurveRange /\ ceiling' = NoCeiling
  /\ UNCHANGED <<head, known, pool, discovered, trades, swapped, exposed, curved, first>>

DiscStep ==
  \E tip \in 0..SafeTip, identified \in SUBSET Tokens : DiscCommit(tip, identified)

SwapStep == SwapPools \/ SwapCommit \/ SwapEnds \/ \E tip \in 0..SafeTip : SwapBarrier(tip)

CurveStep ==
  \/ \E tip \in 0..SafeTip : CurveBarrier(tip)
  \/ CurveLogs \/ CurveWaits \/ CurveCommit \/ CurveEnds
  \/ \E kind \in {"RANGE", "SOFT", "NONE"} : CurveRefused(kind)

Next == NewBlock \/ DiscStep \/ SwapStep \/ CurveStep \/ Restart

Spec == Init /\ [][Next]_vars

\* Blocks keep coming, the loops keep ticking, and a read that is tried for ever succeeds at
\* times if its window is not too wide; one that is too wide is told so at times.
FairSpec ==
  /\ Spec
  /\ WF_vars(NewBlock)
  /\ WF_vars(\E identified \in SUBSET Tokens : DiscCommit(SafeTip, identified))
  /\ WF_vars(SwapPools) /\ WF_vars(SwapEnds)
  /\ SF_vars(SwapBarrier(SafeTip)) /\ SF_vars(SwapCommit)
  /\ WF_vars(CurveBarrier(SafeTip)) /\ SF_vars(CurveLogs) /\ SF_vars(CurveCommit)
  /\ SF_vars(\E kind \in {"RANGE", "SOFT"} : CurveRefused(kind))

-----------------------------------------------------------------------------
TypeOK ==
  /\ head \in 0..MaxHeight
  /\ known \subseteq Tokens
  /\ pool \in [Tokens -> {"none", "graduated", "known"}]
  /\ trades \subseteq Happened("pool") \cup Happened("curve")
  /\ {discovered, swapped, curved} \subseteq Nat \cup {None}
  /\ swap \in [pc: {"idle", "barrier", "commit"}, pools: SUBSET Tokens, from: Nat, to: Nat]
  /\ curve \in [pc: {"idle", "logs", "commit"}, from: Nat, to: Nat]
  /\ range \in Nat /\ ceiling \in [width: Nat, left: 0..CeilingSuccesses]
  /\ first \in [{"disc", "swap", "curve"} -> Nat \cup {None}]
  /\ exposed \subseteq Tokens

\* Neither trade listener overtakes discovery.
TradesBehindDiscovery == swapped <= discovered /\ curved <= discovered

\* Discovery leaves no gap: what it scanned of a token it knows is in the row, the launch and
\* a graduation in the same range included.
DiscoveryIsComplete ==
  \A t \in Tokens : discovered # None /\ Launch[t] \in first.disc..discovered =>
    /\ t \in known
    /\ Graduation[t] <= discovered => pool[t] # "none"

\* The curve checkpoint's promise: the whole curve history, from its launch on, of every token
\* discovery knows, however the window shrank and grew.
CurveHistoryIsWhole ==
  \A s \in Happened("curve") : s[1] \in known /\ s[2] <= curved => s \in trades

\* The pool checkpoint's promise: a swap of a pool is missing only if the pool became known
\* while a tick held an older list, or its Initialize log was not found, or the block lies
\* before the listener's first.
SwapsMissedOnlyBehindATick ==
  \A s \in Happened("pool") :
    /\ swapped # None /\ s[2] \in first.swap..swapped
    /\ pool[s[1]] = "known" /\ s[1] \notin exposed
    => s \in trades

\* A remembered cap never keeps the window below its own width, and growth respects it.
WindowUnderCeiling ==
  /\ range >= MinRange
  /\ ceiling.left > 0 => range <= ceiling.width

\* Whatever widths the providers refuse, all listeners reach the tip: the curve listener once
\* it knows a curve, the pool listener once it knows a pool.
CatchesUp ==
  <>[](/\ discovered = MaxHeight - Lag
       /\ known # {} => curved = discovered
       /\ Trackable # {} => swapped = discovered)
=============================================================================
