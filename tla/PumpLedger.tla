------------------------------- MODULE PumpLedger -------------------------------
(***************************************************************************)
(* The rows kept for one pump.fun mint.  Its transactions are persisted in *)
(* any order and more than once, each in one database transaction, from    *)
(* confirmed blocks that may still be dropped; the finality reconciler     *)
(* settles the lifecycle events behind the finalized head.  Transaction n  *)
(* is in slot n, and Kinds[n] says what it carries.                        *)
(***************************************************************************)
EXTENDS Integers, Sequences, FiniteSetsExt

CONSTANTS
  Kinds,       \* the mint's transactions: create, buy, complete, migrate
  Fetchers,    \* processes that fetch and persist
  MaxDropped   \* bound: transactions a fork drops

VARIABLES
  head, finalized,  \* the confirmed and the finalized slot
  dropped,          \* transactions that are on no finalized chain
  known,            \* the engine's finalizedSlot
  held,             \* held[f]: the transaction f has fetched, 0 if none
  events,           \* events[t]: PumpLifecycleEvent.status, or none
  trades,           \* trades[t]: ChainTrade.canonicalStatus, or none
  token,            \* DiscoveredToken: [row, graduated]
  phase,            \* TokenLifecycleState: [rank, slot]
  snap,             \* TokenMarketSnapshot: [at, ready, graduated]
  rec,              \* the reconciliation: [todo, settled]
  clock,            \* lastHeightTimestamp, as a slot
  raced             \* history: transactions dropped while they were held

chain == <<head, finalized, dropped>>
rows == <<events, trades, token, phase, snap>>
vars == <<chain, known, held, rows, rec, clock, raced>>

Txs == DOMAIN Kinds
Lifecycle == {t \in Txs : Kinds[t] # "buy"}
Trading == {t \in Txs : Kinds[t] \in {"create", "buy", "complete"}}  \* a create brings its dev buy

\* PHASE_RANK of the phase a transaction's event proves.
Rank(t) == CASE Kinds[t] = "create" -> 0 [] Kinds[t] = "complete" -> 1 [] Kinds[t] = "migrate" -> 3

NoRec == [todo |-> {}, settled |-> 0]

Init ==
  /\ head = 0 /\ finalized = 0 /\ dropped = {} /\ known = 0
  /\ held = [f \in Fetchers |-> 0]
  /\ events = [t \in Lifecycle |-> "none"] /\ trades = [t \in Trading |-> "none"]
  /\ token = [row |-> "none", graduated |-> FALSE]
  /\ phase = [rank |-> -1, slot |-> 0]
  /\ snap = [at |-> 0, ready |-> FALSE, graduated |-> FALSE]
  /\ rec = NoRec /\ clock = 0 /\ raced = {}

-----------------------------------------------------------------------------
(* The chain. *)

Confirm ==
  /\ head + 1 \in Txs /\ head' = head + 1
  /\ UNCHANGED <<finalized, dropped, known, held, rows, rec, clock, raced>>

Finalize ==
  /\ finalized < head /\ finalized' = finalized + 1
  /\ UNCHANGED <<head, dropped, known, held, rows, rec, clock, raced>>

\* Another fork wins; who has fetched the transaction does not learn of it.
Drop(t) ==
  /\ finalized < t /\ t <= head /\ t \notin dropped /\ Cardinality(dropped) < MaxDropped
  /\ dropped' = dropped \cup {t}
  /\ raced' = raced \cup {held[f] : f \in {g \in Fetchers : held[g] = t}}
  /\ UNCHANGED <<head, finalized, known, held, rows, rec, clock>>

RefreshHeads ==
  /\ known # finalized /\ known' = finalized
  /\ UNCHANGED <<chain, held, rows, rec, clock, raced>>

-----------------------------------------------------------------------------
(* persistPumpfunBatch: token, trade, snapshot and lifecycle in one transaction. *)

Fetch(f, t) ==
  /\ held[f] = 0 /\ t <= head /\ t \notin dropped
  /\ held' = [held EXCEPT ![f] = t]
  /\ UNCHANGED <<chain, known, rows, rec, clock, raced>>

\* An RPC call or the database fails.
GiveUp(f) ==
  /\ held[f] # 0 /\ held' = [held EXCEPT ![f] = 0]
  /\ UNCHANGED <<chain, known, rows, rec, clock, raced>>

Created(t) == IF Kinds[t] = "create" /\ token.row = "none" THEN [token EXCEPT !.row = "CANONICAL"] ELSE token

\* A trade of a mint without a row is not stored.
Trades(t, known_) == t \in Trading /\ known_.row # "none"

\* Forward only in (slot, sourceIndex); readyToGraduate is or-ed.
Snapshot(t) ==
  IF snap.at < t THEN [snap EXCEPT !.at = t, !.ready = @ \/ Kinds[t] = "complete"] ELSE snap

\* Mutant: a stored event's status is written again.
EventAgain(t) == TRUE

\* skipDuplicates
EventIsNew(t) == events[t] = "none"

\* advanceLifecycleState; of the same phase only a new event of a later slot counts.
Advances(t) ==
  \/ phase.rank < Rank(t)
  \/ phase.rank = Rank(t) /\ EventIsNew(t) /\ phase.slot < t

\* mirrorPhaseOntoToken: updateMany, which finds nothing when there is no row yet.
MirrorToken(t, k) == IF k.row # "none" /\ Rank(t) = 3 THEN [k EXCEPT !.graduated = TRUE] ELSE k

MirrorSnapshot(t, s) ==
  IF s.at = 0 THEN s
  ELSE CASE Rank(t) = 3 -> [s EXCEPT !.graduated = TRUE, !.ready = FALSE]
         [] Rank(t) = 1 -> [s EXCEPT !.ready = TRUE]
         [] OTHER -> s

Persist(f) ==
  LET t == held[f]
      created == Created(t)
      moves == t \in Lifecycle /\ Advances(t)
      traded == IF Trades(t, created) THEN Snapshot(t) ELSE snap
  IN /\ t # 0
     /\ trades' = IF Trades(t, created) /\ trades[t] = "none" THEN [trades EXCEPT ![t] = "CANONICAL"] ELSE trades
     /\ events' = IF t \in Lifecycle /\ EventIsNew(t)
                  THEN [events EXCEPT ![t] = IF t <= known THEN "final" ELSE "provisional"] ELSE events
     /\ token' = IF moves THEN MirrorToken(t, created) ELSE created
     /\ snap' = IF moves THEN MirrorSnapshot(t, traded) ELSE traded
     /\ phase' = IF moves THEN [rank |-> Rank(t), slot |-> t] ELSE phase
     /\ held' = [held EXCEPT ![f] = 0]
     /\ UNCHANGED <<chain, known, rec, clock, raced>>

-----------------------------------------------------------------------------
(* reconcilePumpfunFinality. *)

\* Mutant: events of slots not finalized are judged as well.
PendingConfirmed == {t \in Lifecycle : events[t] = "provisional" /\ t <= head}

Pending == {t \in Lifecycle : events[t] = "provisional" /\ t <= finalized}

Reconcile ==
  /\ rec.todo = {} /\ Pending # {}
  /\ rec' = [todo |-> Pending, settled |-> 0]
  /\ UNCHANGED <<chain, known, held, rows, clock, raced>>

\* When the last one is through, the clock moves to the highest promoted slot, forward only.
Through(todo, settled) ==
  /\ rec' = IF todo = {} THEN NoRec ELSE [todo |-> todo, settled |-> settled]
  /\ clock' = IF todo = {} /\ clock < settled THEN settled ELSE clock

\* The signature resolves at finalized commitment.
Promote ==
  \E t \in rec.todo :
    /\ t = Min(rec.todo) /\ t \notin dropped
    /\ events' = [events EXCEPT ![t] = "final"]
    /\ Through(rec.todo \ {t}, t)
    /\ UNCHANGED <<chain, known, held, trades, token, phase, snap, raced>>

\* It is gone, and so is everything its transaction brought.
Orphan ==
  \E t \in rec.todo :
    /\ t = Min(rec.todo) /\ t \in dropped
    /\ events' = [events EXCEPT ![t] = "orphaned"]
    /\ trades' = IF t \in Trading /\ trades[t] # "none" THEN [trades EXCEPT ![t] = "ORPHANED"] ELSE trades
    /\ token' = IF Kinds[t] = "create" THEN [token EXCEPT !.row = "ORPHANED"] ELSE token
    /\ Through(rec.todo \ {t}, rec.settled)
    /\ UNCHANGED <<chain, known, held, phase, snap, raced>>

\* The call fails: the event stays provisional until a later tick.
Unanswered ==
  \E t \in rec.todo :
    /\ t = Min(rec.todo) /\ Through(rec.todo \ {t}, rec.settled)
    /\ UNCHANGED <<chain, known, held, rows, raced>>

-----------------------------------------------------------------------------
Next ==
  \/ Confirm \/ Finalize \/ RefreshHeads \/ Reconcile \/ Promote \/ Orphan \/ Unanswered
  \/ \E t \in Txs : Drop(t)
  \/ \E f \in Fetchers : Persist(f) \/ GiveUp(f) \/ \E t \in Txs : Fetch(f, t)

Spec == Init /\ [][Next]_vars

-----------------------------------------------------------------------------
\* What the theorems assume.
KnownKinds == Kinds \in Seq({"create", "buy", "complete", "migrate"})

TypeOK ==
  /\ head \in 0..Len(Kinds) /\ finalized \in 0..head /\ dropped \subseteq 1..head /\ known \in 0..finalized
  /\ held \in [Fetchers -> 0..head]
  /\ events \in [Lifecycle -> {"none", "provisional", "final", "orphaned"}]
  /\ trades \in [Trading -> {"none", "CANONICAL", "ORPHANED"}]
  /\ token \in [row: {"none", "CANONICAL", "ORPHANED"}, graduated: BOOLEAN]
  /\ phase \in [rank: {-1, 0, 1, 3}, slot: 0..head]
  /\ snap \in [at: 0..head, ready: BOOLEAN, graduated: BOOLEAN]
  /\ rec \in [todo: SUBSET Lifecycle, settled: 0..finalized] /\ clock \in 0..finalized

Stored == {t \in Lifecycle : events[t] # "none"}

\* Whatever order history is replayed in, the phase is the furthest any stored event proves.
PhaseIsTheFurthest == phase.rank = Max({Rank(t) : t \in Stored} \cup {-1})

\* And the snapshot is that of the newest stored trade.
SnapshotIsTheNewest == snap.at = Max({t \in Trading : trades[t] # "none"} \cup {0})

\* An event is final only if its transaction is on the finalized chain, unless it was dropped
\* between the fetch and the write.
FinalIsOnTheChain == \A t \in Lifecycle : events[t] = "final" => t \notin dropped \ raced /\ t <= finalized

\* With the same exception, a transaction's trade is canonical no longer than its event.
OrphansLeaveTogether ==
  \A t \in (Lifecycle \cap Trading) \ raced : trades[t] = "CANONICAL" => events[t] # "orphaned"

\* What is settled stays settled, however often the transaction is processed again.
SettledStays ==
  [][\A t \in Lifecycle : events[t] \in {"final", "orphaned"} => events'[t] = events[t]]_events

\* "carries a PROVEN phase onto the rows discovery reads".
ProvenPhaseIsMirrored == phase.rank = 3 /\ token.row # "none" => token.graduated
=============================================================================
