-------------------------------- MODULE MCLedgers --------------------------------
(* Rows that concurrent requests and workers write, in one run: trade backfill, pump.fun      *)
(* lifecycle, practice trades, vanity reservations, wallet proofs and card purchases.  They   *)
(* share no state, so a behaviour is one of a single part.                                    *)
EXTENDS Backfill

CONSTANTS Kinds, Fetchers, MaxDropped,
          Requests, Keys, Quotes, Currencies, Start_, MaxTries, eth, sol,
          Clients, Users, Stock, Launches, UserKeys, TTL, MaxClock, MaxAsks,
          Wallets, Challenges, NoValue,
          Orders, Checkouts, Payments, References, Statuses, Clicks, Asks, Pollers, MaxUpdates, o1, c1, c2

VARIABLES part,
  slot, finalized, dropped, known, held, events, chainTrades, mint, phase, snap, rec, clock, raced,
  cash, holding, trades, req,
  address, call, granted, rids, now,
  challenge, wallet, verify, links,
  order, recorded, recent, payment, stated, updates, checkout, poll

L == INSTANCE PumpLedger WITH head <- slot, trades <- chainTrades, token <- mint
T == INSTANCE Practice
V == INSTANCE Vanity WITH Requests <- Clients, Keys <- UserKeys, row <- address, clock <- now
W == INSTANCE WalletVerification WITH Requests <- Clients, Addresses <- Wallets, None <- NoValue
M == INSTANCE MoonPay_proofs WITH Requests <- Clicks, req <- checkout, None <- NoValue

pumpfun == <<slot, finalized, dropped, known, held, events, chainTrades, mint, phase, snap, rec, clock, raced>>
practice == <<cash, holding, trades, req>>
vanity == <<address, call, granted, rids, now>>
proofs == <<challenge, wallet, verify, links>>
moonpay == <<order, recorded, recent, payment, stated, updates, checkout, poll>>

\* The mint is created, fills, is bought on the way and migrates.
PumpKinds == <<"create", "complete", "buy", "migrate">>
Fill(s, c, i, o) == [side |-> s, currency |-> c, input |-> i, output |-> o]
Fills == {Fill("buy", eth, 2, 3), Fill("buy", sol, 3, 1), Fill("sell", eth, 3, 1), Fill("sell", sol, 1, 4)}
\* Two clicks on the same button, and one request that reuses the key for another amount.
TwoClicks == [r \in Clicks |-> {<<o1, c1>>} \cup IF r = 1 THEN {} ELSE {<<o1, c2>>}]
\* CANCELLED is treated like FAILED everywhere, so one of them is enough.
Reported == {"PENDING", "COMPLETED", "FAILED", "unheard-of"}

\* What the theorems about the parts assume.
ASSUME LedgersConstants ==
  L!KnownKinds /\ T!QuotesOK /\ V!NamesApart /\ W!NoneIsNobody /\ M!ConstantsOK

LedgersInit ==
  /\ part \in {"backfill", "pumpfun", "practice", "vanity", "wallet", "moonpay"}
  /\ Init /\ (part # "backfill" => graduation = MaxHead + 1)
  /\ L!Init /\ T!Init /\ V!Init /\ W!Init /\ M!Init

LedgersNext ==
  /\ part' = part
  /\ \/ part = "backfill" /\ Next /\ UNCHANGED <<pumpfun, practice, vanity, proofs, moonpay>>
     \/ part = "pumpfun" /\ L!Next /\ UNCHANGED <<vars, practice, vanity, proofs, moonpay>>
     \/ part = "practice" /\ T!Next /\ UNCHANGED <<vars, pumpfun, vanity, proofs, moonpay>>
     \/ part = "vanity" /\ V!Next /\ UNCHANGED <<vars, pumpfun, practice, proofs, moonpay>>
     \/ part = "wallet" /\ W!Next /\ UNCHANGED <<vars, pumpfun, practice, vanity, moonpay>>
     \/ part = "moonpay" /\ M!Next /\ UNCHANGED <<vars, pumpfun, practice, vanity, proofs>>

LedgersSpec == LedgersInit /\ [][LedgersNext]_<<part, vars, pumpfun, practice, vanity, proofs, moonpay>>

-----------------------------------------------------------------------------
\* pump.fun: the phase is the furthest any stored event proves, one orphaned since included, and the
\* snapshot is that of the newest stored trade, in whatever order events arrive; a final event is of
\* a finalized transaction, unless a fork dropped it between fetch and write; and an orphaned
\* transaction loses its trade with its event.
LifecycleIsHonest == part = "pumpfun" =>
  /\ L!TypeOK /\ L!PhaseIsTheFurthest /\ L!SnapshotIsTheNewest
  /\ L!FinalIsOnTheChain /\ L!OrphansLeaveTogether

\* Practice trades: cash and tokens are what the stored trades add up to, whichever requests
\* raced for the portfolio or replayed a key.
BooksBalance == part = "practice" => T!TypeOK /\ T!BooksBalance /\ T!BasisFollowsTheTokens

\* However requests race, a user holds at most one live reservation, and an address goes to one
\* launch, under one reservation.
VanityIsExclusive == part = "vanity" => V!VanityIsExclusive

\* A signed challenge links at most once, and every linked owner has proved the address.
ProofsAreUsedOnce == part = "wallet" => W!ProofsAreUsedOnce

\* An order follows one payment, the newest statement about it wins, and a key has one order.
OrdersFollowMoonPay == part = "moonpay" =>
  M!TypeOK /\ M!FollowsOnePayment /\ M!NewestStatementWins /\ M!OneOrderPerKey

\* A settled event stays settled however often it is processed again, and while a reservation is
\* live its address goes to nobody else.
WhatIsSettledStays == L!SettledStays /\ V!LiveIsKept
=============================================================================
