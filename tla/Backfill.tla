--------------------------------- MODULE Backfill ---------------------------------
(***************************************************************************)
(* tokenTradeBackfill: the trade history of one Pons V2 token, fetched on  *)
(* demand by API processes that share one row of cursors, beside the live  *)
(* listeners, which store what lies above the session's boundary.  The     *)
(* market page and the history route read the row to say what is covered.  *)
(* Every height has one trade: of the curve below Graduation, of the pool  *)
(* from there on.  Confirmed blocks do not change.                         *)
(***************************************************************************)
EXTENDS Integers

CONSTANTS
  Runners,     \* API processes: each has at most one run for a token (inFlight)
  Launch,      \* the height the token was launched at
  Boundaries,  \* heights a live session may start at
  MaxRange,    \* widest window of one request
  MaxHead      \* bound: confirmed heights

ASSUME LaunchAssumption == Launch \in Nat
ASSUME BoundariesAssumption == Boundaries \subseteq Nat
ASSUME BoundsAssumption == MaxRange \in Nat /\ MaxHead \in Nat

VARIABLES
  graduation,  \* the height the curve graduates at, MaxHead + 1 for never
  boundary,    \* IngestionSession.startBlock
  head,        \* highest confirmed height
  token,       \* DiscoveredToken: [graduated, pool], pool: its identity is resolved
  live,        \* lastHeight of the trade listeners
  stored,      \* heights whose trade is in ChainTrade
  row,         \* TokenTradeBackfill: [status, from, to, cursor, pool], cursors -1 for none
  run          \* run[r]: [pc, token, cursor, pool, target, stopped], token and cursors as read, then reached

vars == <<graduation, boundary, head, token, live, stored, row, run>>

NoRow == [status |-> "none", from |-> -1, to |-> -1, cursor |-> -1, pool |-> -1]
Idle == [pc |-> "idle", token |-> [graduated |-> FALSE, pool |-> FALSE], cursor |-> -1, pool |-> -1,
         target |-> -1, stopped |-> FALSE]

Init ==
  /\ graduation \in (Launch + 1)..(MaxHead + 1)
  /\ boundary \in Boundaries
  /\ head = IF boundary > Launch THEN boundary ELSE Launch
  /\ token = [graduated |-> FALSE, pool |-> FALSE]
  /\ live = boundary
  /\ stored = {} /\ row = NoRow
  /\ run = [r \in Runners |-> Idle]

chainVars == <<graduation, boundary, head>>
sharedVars == <<graduation, boundary, head, token, live>>

Curve(heights) == {h \in heights : h < graduation}
Pool(heights) == {h \in heights : h >= graduation}
At(r, pc) == run[r].pc = pc
Becomes(r, next) == run' = [run EXCEPT ![r] = next]
Ends(r) == Becomes(r, Idle)

-----------------------------------------------------------------------------
(* What goes on beside a run *)

Block == head < MaxHead /\ head' = head + 1 /\ UNCHANGED <<graduation, boundary, token, live, stored, row, run>>

\* Discovery commits the graduation, with the pool's identity or without it.
Graduate(resolved) ==
  /\ head >= graduation /\ token # [graduated |-> TRUE, pool |-> TRUE]
  /\ token.graduated => resolved
  /\ token' = [graduated |-> TRUE, pool |-> resolved]
  /\ UNCHANGED <<chainVars, live, stored, row, run>>

\* The listeners follow behind discovery, and know only pools that are resolved.
Follow(h) ==
  /\ live < h /\ h <= head
  /\ h >= graduation => token.pool
  /\ live' = h /\ stored' = stored \cup ((live + 1)..h)
  /\ UNCHANGED <<chainVars, token, row, run>>

-----------------------------------------------------------------------------
(* backfillTokenTrades *)

Start(r) ==
  /\ At(r, "idle")
  /\ Becomes(r, [Idle EXCEPT !.pc = "row", !.token = token])
  /\ UNCHANGED <<sharedVars, stored, row>>

ReadRow(r) ==
  /\ At(r, "row")
  /\ Becomes(r, [run[r] EXCEPT !.pc = "head", !.pool = row.pool,
                        !.cursor = IF row.status = "none" THEN Launch - 1 ELSE row.cursor])
  /\ UNCHANGED <<sharedVars, stored, row>>

\* Nothing is left above the cursors as they were read: answered without touching the row.
UpToDate(r, target) ==
  run[r].cursor >= target /\ (~run[r].token.graduated \/ (run[r].pool # -1 /\ run[r].pool >= target))

\* Nodes may differ by a block over the head; without an answer the run fails.
ReadHead(r, target) ==
  /\ At(r, "head")
  /\ IF UpToDate(r, target)
     THEN Ends(r) /\ UNCHANGED row
     ELSE /\ row' = IF row.status = "none"
                    THEN [status |-> "RUNNING", from |-> Launch, to |-> target, cursor |-> run[r].cursor, pool |-> -1]
                    ELSE [row EXCEPT !.status = "RUNNING", !.to = target]
          /\ Becomes(r, [run[r] EXCEPT !.pc = "curve", !.target = target])
  /\ UNCHANGED <<sharedVars, stored>>

HeadFails(r) == At(r, "head") /\ Ends(r) /\ UNCHANGED <<sharedVars, stored, row>>

\* A window: up to MaxRange heights, fewer when a node refused a wider one.
Windows(cursor, r) == {to \in (cursor + 1)..(cursor + MaxRange) : to <= run[r].target}

\* A window's rows, then its cursor.
CurveWindow(r, to) ==
  /\ At(r, "curve") /\ to \in Windows(run[r].cursor, r)
  /\ stored' = stored \cup Curve((run[r].cursor + 1)..to)
  /\ row' = [row EXCEPT !.cursor = to]
  /\ Becomes(r, [run[r] EXCEPT !.cursor = to])
  /\ UNCHANGED sharedVars

\* Written in chunks: the process may die between two of them, the cursor not moved.
DiesInWindow(r, to) ==
  /\ \/ At(r, "curve") /\ to \in Windows(run[r].cursor, r) /\ stored' = stored \cup Curve((run[r].cursor + 1)..to)
     \/ At(r, "pool") /\ to \in Windows(run[r].pool, r) /\ stored' = stored \cup Pool((run[r].pool + 1)..to)
  /\ Ends(r)
  /\ UNCHANGED <<sharedVars, row>>

\* No log at the narrowest window, no timestamps, or a failure that is no matter of width.
CurveFails(r) ==
  /\ At(r, "curve") /\ run[r].cursor < run[r].target
  /\ \E status \in {"FAILED", "PARTIAL"} : row' = [row EXCEPT !.status = status, !.cursor = run[r].cursor]
  /\ Ends(r)
  /\ UNCHANGED <<sharedVars, stored>>

\* The deadline or the block budget has passed.
OutOfBudget(r) ==
  /\ At(r, "curve") /\ run[r].cursor < run[r].target
  /\ Becomes(r, [run[r] EXCEPT !.pc = "finish", !.stopped = TRUE])
  /\ UNCHANGED <<sharedVars, stored, row>>

\* From the pool's own cursor, or from the graduation.
PoolStarts(r) == IF run[r].pool # -1 THEN run[r].pool ELSE graduation - 1

\* The curve leg has reached its target: the pool is next, if the token as read has one.
CurveEnds(r) ==
  /\ At(r, "curve") /\ run[r].cursor >= run[r].target
  /\ Becomes(r, [run[r] EXCEPT !.pc = IF run[r].token.pool THEN "pool" ELSE "finish",
                        !.pool = PoolStarts(r),
                        !.stopped = run[r].token.graduated /\ ~run[r].token.pool])
  /\ UNCHANGED <<sharedVars, stored, row>>

Reached(r, to) == to

PoolWindow(r, to) ==
  /\ At(r, "pool") /\ to \in Windows(run[r].pool, r)
  /\ stored' = stored \cup Pool((run[r].pool + 1)..to)
  /\ row' = [row EXCEPT !.pool = Reached(r, to)]
  /\ Becomes(r, [run[r] EXCEPT !.pool = Reached(r, to)])
  /\ UNCHANGED sharedVars

\* Covered; or stopped short by the budget or a failed read, which without a factory or its pool
\* manager comes before the cursor is looked at.
PoolEnds(r) ==
  /\ At(r, "pool")
  /\ \/ run[r].pool >= run[r].target /\ Becomes(r, [run[r] EXCEPT !.pc = "finish"])
     \/ Becomes(r, [run[r] EXCEPT !.pc = "finish", !.stopped = TRUE])
  /\ UNCHANGED <<sharedVars, stored, row>>

Done(r) == run[r].cursor >= run[r].target /\ ~run[r].stopped

Finish(r) ==
  /\ At(r, "finish")
  /\ row' = [row EXCEPT !.status = IF Done(r) THEN "COMPLETE" ELSE "PARTIAL", !.cursor = run[r].cursor]
  /\ Ends(r)
  /\ UNCHANGED <<sharedVars, stored>>

\* A failed status update is ignored; a process may also die anywhere.
Dies(r) == ~At(r, "idle") /\ Ends(r) /\ UNCHANGED <<sharedVars, stored, row>>

-----------------------------------------------------------------------------
Next ==
  \/ Block \/ \E b \in BOOLEAN : Graduate(b) \/ \E h \in 0..MaxHead : Follow(h)
  \/ \E r \in Runners :
       \/ Start(r) \/ ReadRow(r) \/ HeadFails(r) \/ \E lag \in {0, 1} : ReadHead(r, head - lag)
       \/ \E h \in 0..MaxHead : CurveWindow(r, h) \/ PoolWindow(r, h) \/ DiesInWindow(r, h)
       \/ CurveFails(r) \/ OutOfBudget(r) \/ CurveEnds(r) \/ PoolEnds(r) \/ Finish(r) \/ Dies(r)

Spec == Init /\ [][Next]_vars

-----------------------------------------------------------------------------
\* Mutant: the pool's cursor is not asked for.
BridgesByCurve ==
  /\ row.status = "COMPLETE" /\ row.cursor >= row.to
  /\ row.to >= live \/ row.to >= boundary

\* backfillBridgesLiveCoverage: the history reaches the session's boundary, or what it has indexed.
Bridges ==
  /\ row.status = "COMPLETE" /\ row.from <= Launch
  /\ row.cursor >= row.to /\ row.pool # -1 /\ row.pool >= row.to
  /\ row.to >= live \/ row.to >= boundary

\* The two cursors never pass a trade that is not stored, whichever runs race, fail or die.
CursorsAreCovered ==
  /\ Curve(Launch..row.cursor) \subseteq stored
  /\ Pool(Launch..row.pool) \subseteq stored

\* A market page that counts the history as whole back to the launch has every trade of it.
BridgeIsReal == token.graduated /\ Bridges => Launch..live \subseteq stored

\* A run about to answer COMPLETE has every trade up to its target, of the pool too if it knew of one.
CompleteIsCovered ==
  \A r \in Runners : At(r, "finish") /\ Done(r) =>
    /\ Curve(Launch..run[r].target) \subseteq stored
    /\ run[r].token.graduated => Pool(Launch..run[r].target) \subseteq stored

\* What the API says of a token's history is so.
HistoryIsHonest == CursorsAreCovered /\ BridgeIsReal /\ CompleteIsCovered
=============================================================================
