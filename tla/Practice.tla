-------------------------------- MODULE Practice --------------------------------
(***************************************************************************)
(* placePracticeTrade: the fills of one paper portfolio in one token.      *)
(* Requests look their idempotency key up, then run a serializable         *)
(* transaction that locks the balance of the quote's currency and the      *)
(* holding, if there is one yet, and is retried when it loses.             *)
(***************************************************************************)
EXTENDS Integers, Functions

CONSTANTS
  Requests,
  Keys,          \* idempotency keys
  Quotes,        \* records [side, currency, input, output]: what a fill would take and give
  Currencies,
  Start_,        \* the starting amount of each currency
  MaxTries       \* attempts of a transaction

VARIABLES
  cash,     \* PracticeBalance
  holding,  \* PracticeHolding: [exists, currency, amount, basis, pnl]
  trades,   \* trades[k]: the PracticeTrade of key k: [done, quote, realized]
  req       \* req[r]: [pc, key, quote, tries, cash, holding], the last two as read

vars == <<cash, holding, trades, req>>

\* A quote that gives nothing is refused (quoteService.ts, curveQuote.ts), and nobody trades nothing.
QuotesOK ==
  /\ Start_ \in Nat /\ MaxTries \in Nat \ {0}
  /\ Keys # {} /\ Quotes # {} /\ Currencies # {}
  /\ Quotes \subseteq [side: {"buy", "sell"}, currency: Currencies, input: Nat \ {0}, output: Nat \ {0}]

NoHolding == [exists |-> FALSE, currency |-> CHOOSE c \in Currencies : TRUE, amount |-> 0, basis |-> 0, pnl |-> 0]
NoTrade == [done |-> FALSE, quote |-> CHOOSE q \in Quotes : TRUE, realized |-> 0]
NoRequest == [pc |-> "new", key |-> CHOOSE k \in Keys : TRUE, quote |-> CHOOSE q \in Quotes : TRUE,
              tries |-> 0, cash |-> 0, holding |-> NoHolding]

Init ==
  /\ cash = [c \in Currencies |-> Start_]
  /\ holding = NoHolding
  /\ trades = [k \in Keys |-> NoTrade]
  /\ req = [r \in Requests |-> NoRequest]

Goes(r, pc) == req' = [req EXCEPT ![r].pc = pc]

-----------------------------------------------------------------------------
Start(r, k, q) ==
  /\ req[r].pc = "new"
  /\ req' = [req EXCEPT ![r] = [NoRequest EXCEPT !.pc = "lookup", !.key = k, !.quote = q]]
  /\ UNCHANGED <<cash, holding, trades>>

\* replay: a trade of this key answers the request, whether it is the same one or not.
Lookup(r) ==
  /\ req[r].pc = "lookup"
  /\ Goes(r, IF trades[req[r].key].done THEN "answered" ELSE "run")
  /\ UNCHANGED <<cash, holding, trades>>

\* The rows of the fill are locked by no transaction under way.
Free(r) ==
  \A o \in Requests \ {r} :
    req[o].pc = "locked" =>
      /\ req[o].quote.currency # req[r].quote.currency
      /\ ~(holding.exists /\ req[o].holding.exists)

\* After a lost transaction: replayed, or tried again.
WayOut(r, tries) ==
  IF trades[req[r].key].done THEN "answered" ELSE IF tries < MaxTries THEN "run" ELSE "failed"

\* SELECT ... FOR UPDATE; a holding that is not there cannot be locked.
Lock(r) ==
  /\ req[r].pc = "run" /\ Free(r)
  /\ req' = [req EXCEPT ![r].pc = "locked", ![r].cash = cash[req[r].quote.currency],
                        ![r].holding = holding, ![r].tries = @ + 1]
  /\ UNCHANGED <<cash, holding, trades>>

\* The rows were held by a transaction that then changed them: 40001, and the same way out.
LoseLock(r) ==
  /\ req[r].pc = "run" /\ ~Free(r)
  /\ req' = [req EXCEPT ![r].tries = @ + 1, ![r].pc = WayOut(r, req[r].tries + 1)]
  /\ UNCHANGED <<cash, holding, trades>>

Bought(q, h) ==
  [h EXCEPT !.exists = TRUE, !.currency = IF h.exists THEN @ ELSE q.currency,
            !.amount = @ + q.output, !.basis = @ + q.input]

\* Mutant: the average cost is rounded before it is multiplied.
RemovedByAverage(q, h) == (h.basis \div h.amount) * q.input

\* Cost basis leaves in proportion to the tokens sold.
Removed(q, h) == (h.basis * q.input) \div h.amount

Sold(q, h) ==
  [h EXCEPT !.amount = @ - q.input, !.basis = @ - Removed(q, h),
            !.pnl = @ + q.output - Removed(q, h)]

\* Enough cash, or enough tokens; only a purchase looks at the holding's currency.
Covers(q, c, h) ==
  IF q.side = "buy" THEN c >= q.input /\ (h.exists => h.currency = q.currency)
  ELSE h.amount > 0 /\ h.amount >= q.input

Refuse(r) ==
  /\ req[r].pc = "locked" /\ ~Covers(req[r].quote, req[r].cash, req[r].holding)
  /\ Goes(r, "answered")
  /\ UNCHANGED <<cash, holding, trades>>

\* What was read has changed: only a first purchase in another currency can do that.
Conflicts(r) == holding # req[r].holding

Fill(r) ==
  LET q == req[r].quote  h == req[r].holding  buy == q.side = "buy"
  IN /\ req[r].pc = "locked" /\ Covers(q, req[r].cash, h)
     /\ ~Conflicts(r) /\ ~trades[req[r].key].done
     /\ cash' = [cash EXCEPT ![q.currency] = req[r].cash + IF buy THEN -q.input ELSE q.output]
     /\ holding' = IF buy THEN Bought(q, h) ELSE Sold(q, h)
     /\ trades' = [trades EXCEPT ![req[r].key] =
                     [done |-> TRUE, quote |-> q, realized |-> IF buy THEN 0 ELSE q.output - Removed(q, h)]]
     /\ Goes(r, "answered")

\* The key was taken meanwhile, or the transaction lost.
RollBack(r) ==
  /\ req[r].pc = "locked" /\ Covers(req[r].quote, req[r].cash, req[r].holding)
  /\ trades[req[r].key].done \/ Conflicts(r)
  /\ Goes(r, WayOut(r, req[r].tries))
  /\ UNCHANGED <<cash, holding, trades>>

-----------------------------------------------------------------------------
Step(r) == Lookup(r) \/ Lock(r) \/ LoseLock(r) \/ Refuse(r) \/ Fill(r) \/ RollBack(r)

Next == \E r \in Requests : Step(r) \/ \E k \in Keys, q \in Quotes : Start(r, k, q)

Spec == Init /\ [][Next]_vars

-----------------------------------------------------------------------------
TypeOK ==
  /\ \A c \in Currencies : cash[c] \in Nat
  /\ holding \in [exists: BOOLEAN, currency: Currencies, amount: Int, basis: Int, pnl: Int]
  /\ \A r \in Requests :
       /\ req[r].pc \in {"new", "lookup", "run", "locked", "answered", "failed"}
       /\ req[r].key \in Keys /\ req[r].quote \in Quotes /\ req[r].tries \in 0..MaxTries

Done(side) == {k \in Keys : trades[k].done /\ trades[k].quote.side = side}
Total(amount, K) == FoldFunctionOnSet(+, 0, amount, K)
In == [k \in Keys |-> trades[k].quote.input]
Out == [k \in Keys |-> trades[k].quote.output]
Realized == [k \in Keys |-> trades[k].realized]

\* Whatever requests race, the balances and the holding are those of the recorded trades.
BooksBalance ==
  /\ \A c \in Currencies :
       LET inC(side) == {k \in Done(side) : trades[k].quote.currency = c}
       IN cash[c] = Start_ - Total(In, inC("buy")) + Total(Out, inC("sell"))
  /\ holding.amount = Total(Out, Done("buy")) - Total(In, Done("sell"))
  /\ holding.pnl = Total(Realized, Done("sell"))
  /\ holding.basis = Total(In, Done("buy")) - Total(Out, Done("sell")) + holding.pnl

\* No token is held without its cost, and none is left of it when all are sold.
BasisFollowsTheTokens ==
  /\ holding.amount >= 0 /\ holding.basis >= 0
  /\ holding.amount = 0 => holding.basis = 0
=============================================================================
