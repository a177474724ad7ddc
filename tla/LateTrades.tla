------------------------------- MODULE LateTrades -------------------------------
(***************************************************************************)
(* The candle worker's forward progress over the trades of IngestionV2:    *)
(* one checkpoint per token, over the rows of two listeners that each have *)
(* a checkpoint of their own.  Candles models the recomputation itself;    *)
(* here a recomputation is one step.                                       *)
(***************************************************************************)
EXTENDS IngestionV2

CONSTANT Day  \* the blocks of one bucket of the coarsest resolution, at least one

VARIABLES
  mark,     \* CandleAggregationCheckpoint: the place of the last aggregated trade, or None
  candled   \* the trades the stored candles were computed from

candles == <<mark, candled>>

\* lastSourceHeight and lastSourceIndex; in the block of a graduation the curve comes first.
Place(s) == 2 * s[2] + IF s[3] = "pool" THEN 1 ELSE 0

Stored(t) == {s \in trades : s[1] = t}

Newer(t) == {s \in Stored(t) : Place(s) > mark[t]}

\* The first bucket to recompute: the coarsest one of the next trade, or everything at first.
WindowStart(t) ==
  IF mark[t] = None THEN {0}
  ELSE {(s[2] \div Day) * Day : s \in {n \in Newer(t) : \A m \in Newer(t) : Place(n) <= Place(m)}}

Aggregate(t) ==
  /\ \E start \in WindowStart(t), last \in Newer(t) :
       /\ \A s \in Newer(t) : Place(s) <= Place(last)
       /\ candled' = candled \cup {s \in Stored(t) : s[2] >= start}
       /\ mark' = [mark EXCEPT ![t] = Place(last)]
  /\ UNCHANGED vars

LateInit == Init /\ mark = [t \in Tokens |-> None] /\ candled = {}

LateNext == (Next /\ UNCHANGED candles) \/ \E t \in Tokens : Aggregate(t)

LateSpec ==
  /\ LateInit /\ [][LateNext]_<<vars, candles>>
  /\ \A t \in Tokens : WF_<<vars, candles>>(Aggregate(t))

\* recompute.ts:7-9: "When canonical state changes, fully recompute every affected bucket":
\* every stored trade gets into the candles.
StoredTradesReachCandles ==
  \A s \in Happened("curve") \cup Happened("pool") : s \in trades ~> s \in candled
=============================================================================
