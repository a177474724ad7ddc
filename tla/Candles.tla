-------------------------------- MODULE Candles --------------------------------
(***************************************************************************)
(* One token's candles: trade streams, backfills and reorg recovery write  *)
(* ChainTrade, the candle worker turns it into MarketCandle.               *)
(*                                                                         *)
(* The worker runs two loops in one process, the fleet tick and the tick   *)
(* for watched tokens; they share only the set of busy tokens, and every   *)
(* await lets the other loop and the writers of ChainTrade in.  A trade is *)
(* its place in source order (height, index), here one number.             *)
(***************************************************************************)
EXTENDS Integers, FiniteSets

CONSTANTS
  Trades,         \* places at which some fork has a trade
  Streams,        \* the trade listeners required for the token's venue
  StreamOf,       \* which listener ingests a trade
  MaxHeight,      \* bound: the chain ends here
  MaxRange,       \* blocks a listener commits at once
  BlocksPerTick,  \* blocks that share one source timestamp
  Widths,         \* the chart resolutions
  Cap,            \* tradePageCap
  MaxFaults       \* bound: recoveries, backfills, failed recomputes and ticks, restarts, watched ticks

ASSUME ChainAssumption == /\ MaxHeight \in Nat /\ Trades \subseteq 1..MaxHeight
                          /\ StreamOf \in [Trades -> Streams] /\ Streams # {}
                          /\ MaxRange \in Nat \ {0} /\ BlocksPerTick \in Nat \ {0}
ASSUME WorkerAssumption == /\ Widths # {} /\ Widths \subseteq Nat \ {0} /\ IsFiniteSet(Widths)
                           /\ Cap \in Nat \ {0} /\ MaxFaults \in Nat

VARIABLES
  live,      \* the trades of the chain the node follows
  canonical, \* ChainTrade rows with canonicalStatus CANONICAL
  position,  \* each stream's checkpoint height
  confirmed, \* each stream's lastHeightTimestamp
  pending,   \* CandleInvalidation rows that are not processed
  candle,    \* MarketCandle
  mark,      \* CandleAggregationCheckpoint
  loop,      \* what each loop holds between its awaits
  busy,      \* busyTokens: the loop that claimed the token
  faults,    \* how many of those there were
  skipped    \* history: trades the checkpoint was moved past without being read, or stored too late for it

ingested == <<live, canonical, position, confirmed>>
vars     == <<ingested, pending, candle, mark, loop, busy, faults, skipped>>

Loops   == {"fleet", "watched"}
Nobody  == "nobody"
NoTime  == -1
NoLimit == -1
NoMark  == 0

Least(S)    == CHOOSE x \in S : \A y \in S : x <= y
Greatest(S) == CHOOSE x \in S : \A y \in S : y <= x

TimeOf(height) == height \div BlocksPerTick
Coarsest       == Greatest(Widths)
AlignedTo(w, time) == time - (time % w)
Aligned(time)  == AlignedTo(Coarsest, time)

ASSUME WidthsNest == \A w \in Widths : Coarsest % w = 0

\* A bucket is <<width, start>>.
Buckets  == UNION {{<<w, AlignedTo(w, time)>> : time \in 0..TimeOf(MaxHeight)} : w \in Widths}
Start(b) == b[2]
End(b)   == b[2] + b[1]
In(b)    == {t \in Trades : AlignedTo(b[1], TimeOf(t)) = Start(b)}

NoCandle == [trades |-> {}, final |-> FALSE]
IdleLoop == [pc |-> "idle", mode |-> "none", finality |-> NoTime, ids |-> {},
             from |-> 0, until |-> NoLimit, read |-> {}]

Init ==
  /\ live = Trades /\ canonical = {}
  /\ position = [s \in Streams |-> 0] /\ confirmed = [s \in Streams |-> NoTime]
  /\ pending = {} /\ candle = [b \in Buckets |-> NoCandle] /\ mark = NoMark
  /\ loop = [l \in Loops |-> IdleLoop] /\ busy = Nobody
  /\ faults = 0 /\ skipped = {}

-----------------------------------------------------------------------------
(* The writers of ChainTrade. *)

\* A trade is late below what the checkpoint has passed, or will have when what has begun is done.
Late(t) ==
  \/ t <= mark
  \/ \E l \in Loops : \/ \E u \in loop[l].read : t <= u
                      \/ loop[l].mode = "forward" /\ TimeOf(t) < Aligned(loop[l].from)

\* A listener's commit: its trades, its checkpoint and the time of its last block.
Ingest(s, to) ==
  /\ position[s] < to /\ to <= position[s] + MaxRange
  /\ canonical' = canonical \cup {t \in live : StreamOf[t] = s /\ t \in (position[s] + 1)..to}
  /\ position' = [position EXCEPT ![s] = to]
  /\ confirmed' = [confirmed EXCEPT ![s] = TimeOf(to)]
  /\ skipped' = skipped \cup {t \in canonical' \ canonical : Late(t)}
  /\ UNCHANGED <<live, pending, candle, mark, loop, busy, faults>>

Invalidation(time) == [id |-> faults + 1, from |-> time]

\* The chain above the ancestor is another one; its rows are orphaned, the checkpoints go back,
\* and whoever lost a trade is invalidated.  lastHeightTimestamp stays what it was.
RecoverReorg(ancestor, fork) ==
  /\ faults < MaxFaults
  /\ \E s \in Streams : ancestor < position[s]
  /\ live' = {t \in live : t <= ancestor} \cup fork
  /\ canonical' = {t \in canonical : t <= ancestor}
  /\ position' = [s \in Streams |-> Least({position[s], ancestor})]
  /\ pending' = IF canonical' = canonical THEN pending
                                          ELSE pending \cup {Invalidation(TimeOf(ancestor))}
  /\ faults' = faults + 1
  /\ UNCHANGED <<confirmed, candle, mark, loop, busy, skipped>>

\* A token's history is fetched on demand, in ascending windows, whatever the streams' positions.
Backfill(to) ==
  LET new == {t \in live \ canonical : t <= to}
  IN /\ faults < MaxFaults /\ new # {}
     /\ canonical' = canonical \cup new
     /\ pending' = pending \cup {Invalidation(TimeOf(Least(new)))}
     /\ faults' = faults + 1
     /\ UNCHANGED <<live, position, confirmed, candle, mark, loop, busy, skipped>>

-----------------------------------------------------------------------------
(* runCandleAggregationTick. *)

Go(l, pc) == loop' = [loop EXCEPT ![l].pc = pc]

\* The next phase; what the phase before it held is dropped.
Phase(l, pc) ==
  loop' = [loop EXCEPT ![l] = [IdleLoop EXCEPT !.pc = pc, !.finality = loop[l].finality]]

\* After its tokens the fleet tick goes on to finality; the watched tick is over.
Done(l) == IF l = "fleet" THEN Phase(l, "promote") ELSE loop' = [loop EXCEPT ![l] = IdleLoop]

\* loadFinality: the least advanced stream, and nothing at all if one has never committed.
Confirmed ==
  LET times == {confirmed[s] : s \in Streams}
  IN IF NoTime \in times THEN NoTime ELSE Least(times)

\* The fleet timer fires again and again; a watched tick comes when someone watches the token.
Begin(l) ==
  /\ loop[l].pc = "idle"
  /\ loop' = [loop EXCEPT ![l].pc = "invalidations", ![l].finality = Confirmed]
  /\ \/ l = "fleet" /\ UNCHANGED faults
     \/ l = "watched" /\ faults < MaxFaults /\ faults' = faults + 1
  /\ UNCHANGED <<ingested, pending, candle, mark, busy, skipped>>

\* The snapshot of the pending rows.
SelectInvalidations(l) ==
  /\ loop[l].pc = "invalidations"
  /\ IF pending = {} THEN Phase(l, "forward")
     ELSE loop' = [loop EXCEPT ![l].pc = "claim", ![l].mode = "invalidation",
                     ![l].ids = {i.id : i \in pending},
                     ![l].from = Least({i.from : i \in pending})]
  /\ UNCHANGED <<ingested, pending, candle, mark, busy, faults, skipped>>

\* Other tokens of the batch may have come first; a busy token is left for a later tick.
ClaimInvalidated(l) ==
  /\ loop[l].pc = "claim"
  /\ \/ busy = Nobody /\ busy' = l /\ Go(l, "read")
     \/ busy # Nobody /\ Phase(l, "forward") /\ UNCHANGED busy
  /\ UNCHANGED <<ingested, pending, candle, mark, faults, skipped>>

\* Tokens with canonical trades past their checkpoint.
ClaimForward(l) ==
  LET behind == \E t \in canonical : t > mark
  IN /\ loop[l].pc = "forward"
     /\ \/ /\ behind /\ busy = Nobody /\ busy' = l
           /\ loop' = [loop EXCEPT ![l].pc = "check", ![l].mode = "forward"]
        \/ ~(behind /\ busy = Nobody) /\ Done(l) /\ UNCHANGED busy
     /\ UNCHANGED <<ingested, pending, candle, mark, faults, skipped>>

\* "A late backfill/reorg must converge before ordinary forward progress."
CheckInvalidations(l) ==
  /\ loop[l].pc = "check"
  /\ IF pending = {} THEN Go(l, "start") /\ UNCHANGED busy
                     ELSE Done(l) /\ busy' = Nobody
  /\ UNCHANGED <<ingested, pending, candle, mark, faults, skipped>>

StartForward(l) ==
  LET next == {t \in canonical : t > mark}
  IN /\ loop[l].pc = "start"
     /\ \/ /\ mark = NoMark /\ UNCHANGED busy
           /\ loop' = [loop EXCEPT ![l].pc = "read", ![l].from = 0]
        \/ /\ mark # NoMark /\ next # {} /\ UNCHANGED busy
           /\ loop' = [loop EXCEPT ![l].pc = "read", ![l].from = TimeOf(Least(next))]
        \/ /\ mark # NoMark /\ next = {} /\ busy' = Nobody
           /\ Done(l)
     /\ UNCHANGED <<ingested, pending, candle, mark, faults, skipped>>

-----------------------------------------------------------------------------
(* recomputeCandlesFromTimestamp. *)

Covers(l, time) ==
  /\ Aligned(loop[l].from) <= time
  /\ loop[l].until = NoLimit \/ time < loop[l].until

Window(l) == {t \in canonical : Covers(l, TimeOf(t))}

\* One page; a page that is full is widened to the end of its last hour and read again.
ReadPage(l) ==
  LET page == Window(l)
      last == CHOOSE t \in page : Cardinality({u \in page : u <= t}) = Cap
  IN /\ loop[l].pc = "read"
     /\ loop' = IF Cardinality(page) <= Cap
                THEN [loop EXCEPT ![l].pc = "persist", ![l].read = page]
                ELSE [loop EXCEPT ![l].pc = "complete",
                        ![l].until = Aligned(TimeOf(last)) + Coarsest]
     /\ UNCHANGED <<ingested, pending, candle, mark, busy, faults, skipped>>

CompletePage(l) ==
  /\ loop[l].pc = "complete"
  /\ loop' = [loop EXCEPT ![l].pc = "persist", ![l].read = Window(l)]
  /\ UNCHANGED <<ingested, pending, candle, mark, busy, faults, skipped>>

\* Mutant: a bucket that ends when ingestion stands at its end stays provisional.
FinalOnlyAfter(b, finality) == finality # NoTime /\ End(b) < finality

\* determineCandleStatus
Final(b, finality) == finality # NoTime /\ End(b) <= finality

Persist(l) ==
  LET bucket(b) == loop[l].read \cap In(b)
  IN /\ loop[l].pc = "persist"
     /\ candle' = [b \in Buckets |->
          IF bucket(b) = {} THEN candle[b]
          ELSE [trades |-> bucket(b), final |-> Final(b, loop[l].finality)]]
     /\ Go(l, "prune")
     /\ UNCHANGED <<ingested, pending, mark, busy, faults, skipped>>

\* Buckets of the window that nothing supports any more.
Prune(l) ==
  /\ loop[l].pc = "prune"
  /\ candle' = [b \in Buckets |->
       IF Covers(l, Start(b)) /\ loop[l].read \cap In(b) = {} THEN NoCandle ELSE candle[b]]
  /\ Go(l, "advance")
  /\ UNCHANGED <<ingested, pending, mark, busy, faults, skipped>>

\* The trades before the window of an invalidation that no tick had reached yet.
Overtaken(l) ==
  IF loop[l].mode = "invalidation" /\ loop[l].read # {}
  THEN {t \in canonical : t > mark /\ TimeOf(t) < Aligned(loop[l].from)} ELSE {}

\* The checkpoint goes to the last trade of the page; when an invalidation leaves none, it goes.
Advance(l) ==
  /\ loop[l].pc = "advance"
  /\ mark' = IF loop[l].read # {} THEN Greatest(loop[l].read)
             ELSE IF loop[l].mode = "invalidation" THEN NoMark ELSE mark
  /\ skipped' = (skipped \cup Overtaken(l)) \ loop[l].read
  /\ \/ loop[l].mode = "invalidation" /\ Go(l, "settle") /\ UNCHANGED busy
     \/ loop[l].mode = "forward" /\ Done(l) /\ busy' = Nobody
  /\ UNCHANGED <<ingested, pending, candle, faults>>

\* Mutant: every row of the token is marked, not the snapshot.
SettleAll(l) ==
  /\ loop[l].pc = "settle"
  /\ pending' = {}
  /\ busy' = Nobody /\ Phase(l, "forward")
  /\ UNCHANGED <<ingested, candle, mark, faults, skipped>>

\* The rows of the snapshot are processed, or go on where the page ended.
Settle(l) ==
  LET mine    == {i \in pending : i.id \in loop[l].ids}
      resumed == {[i EXCEPT !.from = loop[l].until] : i \in mine}
  IN /\ loop[l].pc = "settle"
     /\ pending' = (pending \ mine) \cup (IF loop[l].until = NoLimit THEN {} ELSE resumed)
     /\ busy' = Nobody /\ Phase(l, "forward")
     /\ UNCHANGED <<ingested, candle, mark, faults, skipped>>

\* Mutant: the claim is not given back.
RecomputeFailsBusy(l) ==
  /\ loop[l].pc \in {"read", "complete"} /\ faults < MaxFaults
  /\ IF loop[l].mode = "invalidation" THEN Phase(l, "forward") ELSE Done(l)
  /\ faults' = faults + 1
  /\ UNCHANGED <<ingested, pending, candle, mark, busy, skipped>>

\* DECIMALS_UNAVAILABLE: nothing is written, the rows stay pending.
RecomputeFails(l) ==
  /\ loop[l].pc \in {"read", "complete"} /\ faults < MaxFaults
  /\ IF loop[l].mode = "invalidation" THEN Phase(l, "forward") ELSE Done(l)
  /\ busy' = Nobody /\ faults' = faults + 1
  /\ UNCHANGED <<ingested, pending, candle, mark, skipped>>

\* promoteFinalizedCandles, by the fleet tick, with the finality the tick began with.
Promote(l) ==
  /\ loop[l].pc = "promote"
  /\ candle' = [b \in Buckets |->
       IF candle[b].trades # {} /\ Final(b, loop[l].finality)
       THEN [candle[b] EXCEPT !.final = TRUE] ELSE candle[b]]
  /\ loop' = [loop EXCEPT ![l] = IdleLoop]
  /\ UNCHANGED <<ingested, pending, mark, busy, faults, skipped>>

\* A write of one loop throws: its tick is over, its finally blocks give the token back.
TickFails(l) ==
  /\ loop[l].pc # "idle" /\ faults < MaxFaults
  /\ loop' = [loop EXCEPT ![l] = IdleLoop]
  /\ busy' = IF busy = l THEN Nobody ELSE busy
  /\ faults' = faults + 1
  /\ UNCHANGED <<ingested, pending, candle, mark, skipped>>

\* The worker stops between two writes and starts again.
Restart ==
  /\ faults < MaxFaults
  /\ \E l \in Loops : loop[l].pc # "idle"
  /\ loop' = [l \in Loops |-> IdleLoop] /\ busy' = Nobody
  /\ faults' = faults + 1
  /\ UNCHANGED <<ingested, pending, candle, mark, skipped>>

-----------------------------------------------------------------------------
Step(l) ==
  \/ SelectInvalidations(l) \/ ClaimInvalidated(l)
  \/ ClaimForward(l) \/ CheckInvalidations(l) \/ StartForward(l)
  \/ ReadPage(l) \/ CompletePage(l) \/ Persist(l) \/ Prune(l)
  \/ Advance(l) \/ Settle(l) \/ Promote(l)

Next ==
  \/ \E s \in Streams, to \in 1..MaxHeight : Ingest(s, to)
  \/ \E ancestor \in 0..MaxHeight :
       \E fork \in SUBSET {t \in Trades : t > ancestor} : RecoverReorg(ancestor, fork)
  \/ \E to \in 1..MaxHeight : Backfill(to)
  \/ \E l \in Loops : Begin(l) \/ Step(l) \/ RecomputeFails(l) \/ TickFails(l)
  \/ Restart

Spec == Init /\ [][Next]_vars

\* The listeners keep polling, the fleet timer keeps firing, and a tick that began goes on.
FairSpec ==
  /\ Spec
  /\ \A s \in Streams : WF_vars(\E to \in 1..MaxHeight : Ingest(s, to))
  /\ WF_vars(Begin("fleet"))
  /\ \A l \in Loops : WF_vars(Step(l))

-----------------------------------------------------------------------------
Times == 0..(TimeOf(MaxHeight) + Coarsest)

LoopRecords ==
  [pc: {"idle", "invalidations", "claim", "forward", "check", "start", "read", "complete",
        "persist", "prune", "advance", "settle", "promote"},
   mode: {"none", "invalidation", "forward"}, finality: Times \cup {NoTime},
   ids: SUBSET (1..MaxFaults), from: Times, until: Times \cup {NoLimit}, read: SUBSET Trades]

Claimed == {"check", "start", "read", "complete", "persist", "prune", "advance", "settle"}

\* Types, and the claim: a token is busy exactly while one loop recomputes it.
TypeOK ==
  /\ live \subseteq Trades /\ canonical \subseteq Trades
  /\ position \in [Streams -> 0..MaxHeight]
  /\ confirmed \in [Streams -> Times \cup {NoTime}]
  /\ pending \subseteq [id: 1..MaxFaults, from: Times]
  /\ candle \in [Buckets -> [trades: SUBSET Trades, final: BOOLEAN]]
  /\ mark \in 0..MaxHeight /\ faults \in 0..MaxFaults
  /\ skipped \subseteq Trades
  /\ loop \in [Loops -> LoopRecords] /\ busy \in Loops \cup {Nobody}
  /\ \A l \in Loops : loop[l].pc \in Claimed <=> busy = l

\* recompute.ts: "When canonical state changes, fully recompute every affected bucket." Once
\* no invalidation is open, no candle shows an orphaned trade, and every canonical trade the
\* checkpoint has passed is in its candles, whatever the loops were doing meanwhile: but for the
\* trades before an invalidated window that no tick had reached when it was recomputed, and those
\* a listener stores late.
CandlesMatchUnlessSkipped ==
  pending = {} =>
    \A b \in Buckets :
      /\ candle[b].trades \subseteq canonical
      /\ {t \in canonical \ skipped : t <= mark} \cap In(b) \subseteq candle[b].trades

\* Trades, backfills, reorgs and restarts may interrupt each other in any order: in the end the
\* candles are those of the live chain, and all whose time has passed are FINAL.
CandlesConverge ==
  <>[](\A b \in Buckets :
         /\ candle[b].trades \subseteq live \cap In(b)
         /\ live \cap In(b) \subseteq candle[b].trades \cup skipped
         /\ candle[b].trades # {} => candle[b].final = (End(b) <= TimeOf(MaxHeight)))
=============================================================================
