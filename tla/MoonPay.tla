-------------------------------- MODULE MoonPay --------------------------------
(***************************************************************************)
(* Card purchases: checkouts, MoonPay's webhooks and the recovery polls.   *)
(*                                                                         *)
(* MoonPay states what became of a payment in webhooks that arrive in any  *)
(* order, more than once, or never; the same statements can be fetched.    *)
(* Both ways end in one transaction that holds the order's row lock, so a  *)
(* statement is applied in one action; everything around it (the claim,    *)
(* the fetch, the error note) is a step of its own.                        *)
(***************************************************************************)
EXTENDS Integers, FiniteSets

CONSTANTS
  Orders,      \* one per (userId, environment, idempotencyKey)
  Checkouts,   \* the fields a reused key must agree on
  Payments,    \* MoonPay's transactions
  References,  \* delivery transaction ids
  Statuses,    \* what MoonPay may report, recognised or not
  Requests,    \* POST /moonpay/checkouts
  Asks,        \* Asks[r]: the pairs <<order, checkout>> r may ask for
  Pollers,     \* recovery workers, and order reads that reconcile
  MaxUpdates,  \* bound: how often MoonPay changes a payment
  None         \* no row, no value

VARIABLES
  order,     \* MoonPayOrder
  recorded,  \* MoonPayWebhookEvent: the statements kept, by semanticHash
  recent,    \* orders whose lastReconciledAt is less than a minute old
  payment,   \* MoonPay's own record of each payment
  stated,    \* every statement MoonPay ever made
  updates,   \* how often it changed one
  req,       \* the checkout requests
  poll       \* the reconciliations in flight

rows     == <<order, recorded, recent>>
provider == <<payment, stated, updates>>
vars     == <<rows, provider, req, poll>>

Recognised == {"PENDING", "COMPLETED", "FAILED", "CANCELLED"}
Terminal   == {"COMPLETED", "FAILED", "CANCELLED"}
NoTime     == -1

NewOrder(c) == [checkout |-> c, status |-> "PENDING", payment |-> None, at |-> NoTime,
                reference |-> None, error |-> FALSE]

Exists(k) == order[k] # None

IdleRequest == [pc |-> "idle", order |-> None, checkout |-> None, reply |-> None, link |-> FALSE]
IdlePoll    == [pc |-> "idle", order |-> None, found |-> None, failure |-> FALSE]

Init ==
  /\ order = [k \in Orders |-> None]
  /\ recorded = {} /\ recent = {}
  /\ payment = [p \in Payments |-> None]
  /\ stated = {} /\ updates = 0
  /\ req = [r \in Requests |-> IdleRequest]
  /\ poll = [w \in Pollers |-> IdlePoll]

-----------------------------------------------------------------------------
(* POST /moonpay/checkouts: createCheckout. *)

StartCheckout(r, k, c) ==
  /\ req[r].pc = "idle"
  /\ <<k, c>> \in Asks[r]
  /\ req' = [req EXCEPT ![r] = [IdleRequest EXCEPT !.pc = "lookup", !.order = k, !.checkout = c]]
  /\ UNCHANGED <<rows, provider, poll>>

\* The field comparison, and the link, which is not offered once a payment is bound.
Answer(r, o, reply) ==
  IF o.checkout = req[r].checkout
  THEN [req[r] EXCEPT !.pc = "done", !.reply = reply,
                      !.link = o.status = "PENDING" /\ o.payment = None]
  ELSE [req[r] EXCEPT !.pc = "done", !.reply = "DIFFERENT_CHECKOUT"]

CheckoutLookup(r) ==
  LET k == req[r].order
  IN /\ req[r].pc = "lookup"
     /\ req' = [req EXCEPT ![r] = IF Exists(k) THEN Answer(r, order[k], "REUSED")
                                               ELSE [@ EXCEPT !.pc = "create"]]
     /\ UNCHANGED <<rows, provider, poll>>

\* The insert; the unique key makes the loser read the winner's row.
CheckoutCreate(r) ==
  LET k == req[r].order
      o == NewOrder(req[r].checkout)
  IN /\ req[r].pc = "create"
     /\ \/ /\ ~Exists(k)
           /\ order' = [order EXCEPT ![k] = o]
           /\ req' = [req EXCEPT ![r] = Answer(r, o, "CREATED")]
        \/ /\ Exists(k)
           /\ req' = [req EXCEPT ![r] = Answer(r, order[k], "REUSED")]
           /\ UNCHANGED order
     /\ UNCHANGED <<recorded, recent, provider, poll>>

-----------------------------------------------------------------------------
(* MoonPay. *)

State(s) ==
  /\ payment' = [payment EXCEPT ![s.payment] = s]
  /\ stated' = stated \cup {s}
  /\ UNCHANGED <<rows, req, poll>>

\* Whoever got a link may pay with it, and may do so twice.
Pay(p, k) ==
  /\ payment[p] = None
  /\ \E r \in Requests : req[r].link /\ req[r].order = k
  /\ State([payment |-> p, order |-> k, at |-> 0, status |-> "PENDING", reference |-> None])
  /\ UNCHANGED updates

\* The payment moves on, possibly within one clock tick; a delivery has a reference at some time.
Update(p, status, reference, tick) ==
  LET s == [payment[p] EXCEPT !.at = @ + tick, !.status = status, !.reference = reference]
  IN /\ payment[p] # None /\ updates < MaxUpdates
     /\ status # "COMPLETED" => reference = None
     /\ s # payment[p]
     /\ State(s)
     /\ updates' = updates + 1

-----------------------------------------------------------------------------
(* applyTransaction: one statement, under the order's row lock. *)

\* Mutant: a check that is missing.
Unchecked(s) == FALSE

Mismatched(s) == order[s.order].payment \notin {None, s.payment}

Unrecognised(s) == s.status \notin Recognised

Stale(s) == s.at < order[s.order].at

Regressing(s) == order[s.order].status \in Terminal /\ order[s.order].status # s.status

Conflicting(s) ==
  LET o == order[s.order]
  IN \/ s.at = o.at /\ o.status # s.status
     \/ o.reference # None /\ s.reference \notin {None, o.reference}

\* The early returns, in their order.
Verdict(s) ==
  IF Mismatched(s) THEN "mismatch"
  ELSE IF Unrecognised(s) THEN "unrecognised"
  ELSE IF s \in recorded THEN "duplicate"
  ELSE IF Stale(s) THEN "stale"
  ELSE IF Regressing(s) THEN "terminal"
  ELSE IF Conflicting(s) THEN "conflict"
  ELSE "applied"

\* What is refused after the insert is kept; what is refused before it leaves no trace.
Apply(s) ==
  /\ recorded' = IF Verdict(s) \in {"mismatch", "unrecognised"} THEN recorded
                                                                ELSE recorded \cup {s}
  /\ order' = IF Verdict(s) # "applied" THEN order
              ELSE [order EXCEPT ![s.order].payment = s.payment, ![s.order].status = s.status,
                      ![s.order].at = s.at, ![s.order].error = FALSE,
                      ![s.order].reference = IF s.reference # None THEN s.reference ELSE @]

\* A webhook: any statement, at any time, any number of times.
Deliver ==
  /\ \E s \in stated : Apply(s)
  /\ UNCHANGED <<recent, provider, req, poll>>

-----------------------------------------------------------------------------
(* startMoonPayRecovery, and GET /moonpay/orders/:id: reconcile. *)

\* Mutant: an order counts as finished when it is paid, delivered or not.
RecoverableUnpaid == {k \in Orders : Exists(k) /\ order[k].status = "PENDING"}

Recoverable ==
  {k \in Orders : Exists(k) /\ (\/ order[k].status = "PENDING"
                                \/ order[k].status = "COMPLETED" /\ order[k].reference = None)}

Pick(w, k) ==
  /\ poll[w].pc = "idle"
  /\ k \in Recoverable
  /\ poll' = [poll EXCEPT ![w].pc = "claim", ![w].order = k]
  /\ UNCHANGED <<rows, provider, req>>

\* The conditional update of lastReconciledAt lets one reconciliation a minute through.
Claim(w) ==
  LET k == poll[w].order
  IN /\ poll[w].pc = "claim" /\ k \notin recent
     /\ recent' = recent \cup {k}
     /\ poll' = [poll EXCEPT ![w].pc = "fetch"]
     /\ UNCHANGED <<order, recorded, provider, req>>

ClaimRefused(w) ==
  /\ poll[w].pc = "claim" /\ poll[w].order \in recent
  /\ poll' = [poll EXCEPT ![w] = IdlePoll]
  /\ UNCHANGED <<rows, provider, req>>

Minute(k) ==
  /\ k \in recent
  /\ recent' = recent \ {k}
  /\ UNCHANGED <<order, recorded, provider, req, poll>>

PaymentsOf(k) == {p \in Payments : payment[p] # None /\ payment[p].order = k}

\* The lookup by externalTransactionId: none (an error once the checkout is old), one, several.
Fetch(w, old) ==
  LET found == PaymentsOf(poll[w].order)
  IN /\ poll[w].pc = "fetch"
     /\ \/ \E p \in found :
             /\ found = {p}
             /\ poll' = [poll EXCEPT ![w].pc = "apply", ![w].found = payment[p]]
        \/ /\ Cardinality(found) # 1
           /\ poll' = [poll EXCEPT ![w].pc = "note", ![w].failure = found # {} \/ old]
     /\ UNCHANGED <<rows, provider, req>>

ApplyFound(w) ==
  /\ poll[w].pc = "apply"
  /\ Apply(poll[w].found)
  /\ poll' = [poll EXCEPT ![w].pc = "note", ![w].found = None,
                ![w].failure = Verdict(poll[w].found) \in {"mismatch", "unrecognised", "conflict"}]
  /\ UNCHANGED <<recent, provider, req>>

\* An outage, a timeout or a database error.
LookupFails(w) ==
  /\ poll[w].pc \in {"fetch", "apply"}
  /\ poll' = [poll EXCEPT ![w].pc = "note", ![w].found = None, ![w].failure = TRUE]
  /\ UNCHANGED <<rows, provider, req>>

\* reconciliationError is overwritten whatever happened to the row since.
Note(w) ==
  /\ poll[w].pc = "note"
  /\ order' = [order EXCEPT ![poll[w].order].error = poll[w].failure]
  /\ poll' = [poll EXCEPT ![w] = IdlePoll]
  /\ UNCHANGED <<recorded, recent, provider, req>>

\* The process stops.
PollLost(w) ==
  /\ poll[w].pc # "idle"
  /\ poll' = [poll EXCEPT ![w] = IdlePoll]
  /\ UNCHANGED <<rows, provider, req>>

-----------------------------------------------------------------------------
CheckoutStep(r) ==
  \/ \E k \in Orders, c \in Checkouts : StartCheckout(r, k, c)
  \/ CheckoutLookup(r)
  \/ CheckoutCreate(r)

ProviderStep ==
  \/ \E p \in Payments, k \in Orders : Pay(p, k)
  \/ \E p \in Payments, status \in Statuses, reference \in References \cup {None}, tick \in {0, 1} :
       Update(p, status, reference, tick)

PollStep(w) ==
  \/ \E k \in Orders : Pick(w, k)
  \/ Claim(w)
  \/ ClaimRefused(w)
  \/ \E old \in BOOLEAN : Fetch(w, old)
  \/ ApplyFound(w)
  \/ LookupFails(w)
  \/ Note(w)
  \/ PollLost(w)

Next ==
  \/ \E r \in Requests : CheckoutStep(r)
  \/ ProviderStep
  \/ Deliver
  \/ \E w \in Pollers : PollStep(w)
  \/ \E k \in Orders : Minute(k)

Spec == Init /\ [][Next]_vars

\* The recovery timer keeps firing and a lookup tried forever gets through at times; no webhook
\* needs ever to arrive.
FairSpec ==
  /\ Spec
  /\ \A k \in Orders : WF_vars(Minute(k))
  /\ \A w \in Pollers :
       /\ \A k \in Orders : SF_vars(Pick(w, k))
       /\ WF_vars(ClaimRefused(w)) /\ SF_vars(Claim(w))
       /\ SF_vars(Fetch(w, TRUE)) /\ SF_vars(ApplyFound(w)) /\ SF_vars(Note(w))

-----------------------------------------------------------------------------
Statements ==
  [payment: Payments, order: Orders, at: Nat, status: Statuses, reference: References \cup {None}]

OrderRows ==
  [checkout: Checkouts, status: Recognised, payment: Payments \cup {None}, at: Nat \cup {NoTime},
   reference: References \cup {None}, error: BOOLEAN]

RequestRecords ==
  [pc: {"idle", "lookup", "create", "done"}, order: Orders \cup {None},
   checkout: Checkouts \cup {None},
   reply: {"CREATED", "REUSED", "DIFFERENT_CHECKOUT", None}, link: BOOLEAN]

PollRecords ==
  [pc: {"idle", "claim", "fetch", "apply", "note"}, order: Orders \cup {None},
   found: Statements \cup {None}, failure: BOOLEAN]

\* What the theorems assume: None is none of the values it stands beside, and a payment starts
\* with a status MoonPay has.
ConstantsOK ==
  /\ Asks \in [Requests -> SUBSET (Orders \X Checkouts)]
  /\ MaxUpdates \in Nat /\ "PENDING" \in Statuses
  /\ None \notin Checkouts \cup Payments \cup References \cup {"CREATED"}
  /\ None \notin OrderRows \cup Statements

TypeOK ==
  /\ order \in [Orders -> OrderRows \cup {None}]
  /\ recorded \subseteq stated /\ stated \subseteq Statements
  /\ recent \subseteq Orders
  /\ payment \in [Payments -> Statements \cup {None}]
  /\ updates \in 0..MaxUpdates
  /\ req \in [Requests -> RequestRecords]
  /\ poll \in [Pollers -> PollRecords]

\* toOrderStatus: what the user is shown.
Shown(k) ==
  LET o == order[k]
  IN IF o.status = "COMPLETED" THEN (IF o.reference # None THEN "COMPLETED" ELSE "SUBMITTED")
     ELSE IF o.status \in Terminal THEN o.status
     ELSE IF o.error THEN "UNCERTAIN" ELSE o.status

\* An order tells the story of one payment: its status, its time and its delivery reference
\* were all stated by MoonPay about that payment, and nothing is shown as COMPLETED before
\* MoonPay said both that it is and under which transaction it was delivered.
About(k) == {s \in recorded : s.order = k /\ s.payment = order[k].payment}

FollowsOnePayment ==
  \A k \in Orders : Exists(k) =>
    /\ order[k].payment # None =>
         \E s \in About(k) : s.status = order[k].status /\ s.at = order[k].at
    /\ order[k].reference # None => \E s \in About(k) : s.reference = order[k].reference
    /\ \A s \in recorded : s.order = k => s.payment = order[k].payment

\* However webhooks and lookups are reordered, no recorded statement is newer than the row,
\* unless it contradicts what the row has settled.
NewestStatementWins ==
  \A k \in Orders : Exists(k) =>
    \A s \in About(k) : s.at > order[k].at => Regressing(s) \/ Conflicting(s)

\* Double clicks and retries buy once: one request creates the order, and a link is only
\* handed out for the checkout the key stands for.
OneOrderPerKey ==
  \A r \in Requests :
    /\ req[r].reply = "CREATED" =>
         \A q \in Requests \ {r} : ~(req[q].reply = "CREATED" /\ req[q].order = req[r].order)
    /\ req[r].link => order[req[r].order].checkout = req[r].checkout

\* "Completion never regresses": a finished order stays what it is, and a delivery reference
\* never changes.
FinishedStaysFinished ==
  [][\A k \in Orders : Exists(k) =>
       /\ order[k].status \in Terminal => Shown(k)' \in {Shown(k), order[k].status}
       /\ order[k].reference # None => order'[k].reference = order[k].reference]_vars

\* recoveryWorker.ts: even if every webhook is lost, an order with one payment ends up as
\* MoonPay's last word on it, unless the code has to refuse that word.
Agrees(k, s) ==
  /\ order[k].payment = s.payment /\ order[k].status = s.status
  /\ s.reference # None => order[k].reference = s.reference

MissedEventsAreRecovered ==
  \A k \in Orders, p \in Payments :
    [](PaymentsOf(k) = {p} =>
         <>(\/ PaymentsOf(k) # {p} \/ Agrees(k, payment[p]) \/ Unrecognised(payment[p])
            \/ Regressing(payment[p]) \/ Conflicting(payment[p])))
=============================================================================
