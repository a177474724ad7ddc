----------------------------- MODULE MoonPay_proofs -----------------------------
(***************************************************************************)
(* Card purchases, for any orders, checkouts, payments, requests and       *)
(* pollers, whatever MoonPay states, however often and in which order it   *)
(* is heard.  A statement is about an order that exists, because a link    *)
(* came before the payment; so an order nobody paid has heard nothing, and *)
(* one that was paid has heard of one payment only.                        *)
(***************************************************************************)
EXTENDS MoonPay, TLAPS

\* MoonPay's records are its own statements, and every statement is about an existing order.
StatementsOK ==
  /\ stated \subseteq Statements
  /\ payment \in [Payments -> Statements \cup {None}]
  /\ \A p \in Payments : payment[p] # None => payment[p] \in stated /\ payment[p].payment = p
  /\ \A s \in stated : Exists(s.order)

\* An order without a payment is as it was created, but for the error note.
UnpaidIsFresh ==
  \A k \in Orders : Exists(k) /\ order[k].payment = None =>
    order[k].status = "PENDING" /\ order[k].at = NoTime /\ order[k].reference = None

RowsOK ==
  /\ order \in [Orders -> OrderRows \cup {None}] /\ recorded \subseteq stated
  /\ UnpaidIsFresh /\ FollowsOnePayment /\ NewestStatementWins

\* What a request under way or answered can rely on.
RequestKnows(r) ==
  /\ req[r].pc \in {"lookup", "create"} =>
       req[r].order \in Orders /\ req[r].checkout \in Checkouts /\ req[r].reply = None /\ ~req[r].link
  /\ req[r].reply = "CREATED" => req[r].order \in Orders /\ Exists(req[r].order)
  /\ req[r].link => req[r].order \in Orders /\ Exists(req[r].order)

RequestsOK == req \in [Requests -> RequestRecords] /\ \A r \in Requests : RequestKnows(r)

\* A reconciliation is of an existing order, and what it found was stated.
PollKnows(w) ==
  /\ poll[w].pc # "idle" => poll[w].order \in Orders /\ Exists(poll[w].order)
  /\ poll[w].pc = "apply" => poll[w].found \in stated

PollsOK == poll \in [Pollers -> PollRecords] /\ \A w \in Pollers : PollKnows(w)

CountersOK == recent \subseteq Orders /\ updates \in 0..MaxUpdates

MInv ==
  /\ ConstantsOK /\ StatementsOK /\ RowsOK /\ RequestsOK /\ PollsOK /\ CountersOK
  /\ OneOrderPerKey

-----------------------------------------------------------------------------
LEMMA PurchaseInit == ConstantsOK /\ Init => MInv
<1> SUFFICES ASSUME ConstantsOK, Init PROVE MInv
  OBVIOUS
<1>1. StatementsOK /\ CountersOK
  BY DEF Init, StatementsOK, CountersOK, ConstantsOK
<1>2. RowsOK
  BY DEF Init, RowsOK, UnpaidIsFresh, FollowsOnePayment, NewestStatementWins, Exists
<1>3. IdleRequest \in RequestRecords /\ IdlePoll \in PollRecords
  BY DEF IdleRequest, RequestRecords, IdlePoll, PollRecords
<1>4. RequestsOK /\ OneOrderPerKey
  BY <1>3 DEF Init, RequestsOK, RequestKnows, OneOrderPerKey, IdleRequest, ConstantsOK
<1>5. PollsOK
  BY <1>3 DEF Init, PollsOK, PollKnows, IdlePoll
<1> QED
  BY <1>1, <1>2, <1>4, <1>5 DEF MInv

-----------------------------------------------------------------------------
(* The rows. *)

\* Orders are never deleted; they keep their checkout, and what they have settled.
Kept ==
  \A k \in Orders : Exists(k) =>
    /\ Exists(k)' /\ order'[k].checkout = order[k].checkout
    /\ order[k].status \in Terminal => order'[k].status = order[k].status
    /\ order[k].reference # None => order'[k].reference = order[k].reference

\* What applying a statement leaves of each order.
LEMMA AppliedRow ==
  ASSUME MInv, NEW s \in stated, Apply(s)
  PROVE  /\ \A k \in Orders \ {s.order} : order'[k] = order[k]
         /\ s.order \in Orders /\ order[s.order] \in OrderRows
         /\ Verdict(s) # "applied" => order' = order
         /\ Verdict(s) = "applied" =>
              order'[s.order] = [order[s.order] EXCEPT
                 !.payment = s.payment, !.status = s.status, !.at = s.at, !.error = FALSE,
                 !.reference = IF s.reference # None THEN s.reference ELSE order[s.order].reference]
<1>1. s \in Statements /\ Exists(s.order) /\ order \in [Orders -> OrderRows \cup {None}]
  BY DEF MInv, StatementsOK, RowsOK
<1>2. s.order \in Orders /\ order[s.order] \in OrderRows
  BY <1>1 DEF Statements, Exists
<1> QED
  BY <1>1, <1>2 DEF Apply

\* Before its first statement an order is bound to no payment and refuses nothing about it.
LEMMA FirstStatement ==
  ASSUME MInv, NEW s \in stated, order[s.order].payment = None, s.status \in Recognised
  PROVE  /\ Verdict(s) = "applied"
         /\ \A t \in recorded : t.order # s.order
<1>1. s \in Statements /\ Exists(s.order) /\ s.order \in Orders
  BY DEF MInv, StatementsOK, Statements
<1>2. /\ order[s.order].status = "PENDING" /\ order[s.order].at = -1
      /\ order[s.order].reference = None
  BY <1>1 DEF MInv, RowsOK, UnpaidIsFresh, NoTime
<1>3. \A t \in recorded : t.order # s.order
  <2> SUFFICES ASSUME NEW t \in recorded, t.order = s.order PROVE FALSE
    OBVIOUS
  <2>1. t \in Statements /\ t.payment = None
    BY <1>1 DEF MInv, RowsOK, StatementsOK, FollowsOnePayment
  <2> QED
    BY <2>1 DEF Statements, MInv, ConstantsOK
<1>4. s \notin recorded /\ s.at \in Nat
  BY <1>1, <1>3 DEF Statements
<1> QED
  BY <1>2, <1>3, <1>4 DEF Verdict, Mismatched, Unrecognised, Stale, Regressing, Conflicting, Terminal

\* One statement, applied under the row lock, whatever the verdict is.
LEMMA ApplyKeeps ==
  ASSUME MInv, NEW s \in stated, Apply(s), UNCHANGED stated
  PROVE  RowsOK' /\ Kept
<1> DEFINE k == s.order
           o == order[k]
           bound == IF s.reference # None THEN s.reference ELSE o.reference
<1>1. /\ \A j \in Orders \ {k} : order'[j] = order[j]
      /\ k \in Orders /\ o \in OrderRows
      /\ Verdict(s) # "applied" => order' = order
      /\ Verdict(s) = "applied" =>
           order'[k] = [o EXCEPT !.payment = s.payment, !.status = s.status, !.at = s.at,
                                 !.error = FALSE, !.reference = bound]
  BY AppliedRow
<1>2. /\ s \in Statements /\ order \in [Orders -> OrderRows \cup {None}] /\ recorded \subseteq stated
      /\ stated \subseteq Statements /\ None \notin OrderRows /\ None \notin Payments /\ None \notin References
  BY DEF MInv, RowsOK, StatementsOK, ConstantsOK
<1>3. recorded' \subseteq stated' /\ recorded \subseteq recorded' /\ recorded' \subseteq recorded \cup {s}
  BY <1>2 DEF Apply
<1>4. CASE Verdict(s) # "applied"
  <2>1. order' = order
    BY <1>1, <1>4
  <2>2. s \in recorded' \ recorded =>
          o.payment = s.payment /\ (Stale(s) \/ Regressing(s) \/ Conflicting(s))
    <3> SUFFICES ASSUME s \in recorded', s \notin recorded
                 PROVE  o.payment = s.payment /\ (Stale(s) \/ Regressing(s) \/ Conflicting(s))
      OBVIOUS
    <3>1. Verdict(s) \notin {"mismatch", "unrecognised", "applied", "duplicate"}
      BY <1>4 DEF Apply, Verdict
    <3>2. ~Mismatched(s) /\ ~Unrecognised(s) /\ (Stale(s) \/ Regressing(s) \/ Conflicting(s))
      BY <3>1 DEF Verdict
    <3>3. o.payment # None
      BY <1>4, <3>2, FirstStatement DEF Unrecognised
    <3> QED BY <3>2, <3>3 DEF Mismatched
  <2>3. UnpaidIsFresh' /\ Kept /\ order' \in [Orders -> OrderRows \cup {None}]
    BY <1>2, <2>1 DEF MInv, RowsOK, UnpaidIsFresh, Kept, Exists
  <2>4. FollowsOnePayment'
    BY <1>3, <2>1, <2>2 DEF MInv, RowsOK, FollowsOnePayment, About, Exists
  <2>5. NewestStatementWins'
    <3> SUFFICES ASSUME NEW j \in Orders, Exists(j), NEW t \in recorded', t.order = j,
                        t.payment = order[j].payment, t.at > order[j].at
                 PROVE  Regressing(t) \/ Conflicting(t)
      BY <2>1 DEF NewestStatementWins, About, Exists, Regressing, Conflicting
    <3>1. CASE t \in recorded
      BY <3>1 DEF MInv, RowsOK, NewestStatementWins, About
    <3>2. CASE t = s /\ s \notin recorded
      <4>1. ~Stale(s)
        BY <1>2, <3>2, <1>1 DEF Stale, Statements, OrderRows, NoTime
      <4> QED BY <2>2, <3>2, <4>1
    <3> QED BY <1>3, <3>1, <3>2
  <2> QED BY <1>3, <2>3, <2>4, <2>5 DEF RowsOK
<1>5. CASE Verdict(s) = "applied"
  <2>1. /\ o.payment \in {None, s.payment} /\ s.status \in Recognised
        /\ ~Stale(s) /\ ~Regressing(s) /\ ~Conflicting(s)
    BY <1>5 DEF Verdict, Mismatched, Unrecognised
  <2>2. s \in recorded'
    BY <1>5 DEF Apply
  <2>3. bound \in References \cup {None}
    BY <1>1, <1>2 DEF Statements, OrderRows
  <2>4. /\ order'[k].payment = s.payment /\ order'[k].status = s.status /\ order'[k].at = s.at
        /\ order'[k].reference = bound /\ order'[k].checkout = o.checkout
        /\ order'[k] \in OrderRows
    <3>1. DEFINE row == [o EXCEPT !.payment = s.payment, !.status = s.status, !.at = s.at,
                                  !.error = FALSE, !.reference = bound]
    <3>2. order'[k] = row
      BY <1>1, <1>5
    <3>3. s.payment \in Payments /\ s.at \in Nat
      BY <1>2 DEF Statements
    <3> HIDE DEF bound, o, k
    <3>4. /\ row.payment = s.payment /\ row.status = s.status /\ row.at = s.at
          /\ row.reference = bound /\ row.checkout = o.checkout /\ row \in OrderRows
      BY <1>1, <2>1, <2>3, <3>3 DEF OrderRows
    <3> QED BY <3>2, <3>4
  <2>5. order' \in [Orders -> OrderRows \cup {None}]
    BY <1>1, <1>2, <1>5, <2>4 DEF Apply
  <2>6. Kept
    <3>1. o.status \in Terminal => order'[k].status = o.status
      BY <2>1, <2>4 DEF Regressing
    <3>2. o.reference # None => order'[k].reference = o.reference
      BY <2>1, <2>4 DEF Conflicting
    <3> QED BY <1>1, <1>2, <2>4, <3>1, <3>2 DEF Kept, Exists
  <2>7. s.payment # None
    BY <1>2 DEF Statements
  <2>8. UnpaidIsFresh'
    BY <1>1, <2>4, <2>7 DEF MInv, RowsOK, UnpaidIsFresh, Exists
  <2>9. \A t \in recorded : t.order = k => o.payment = s.payment /\ t.payment = s.payment
    <3> SUFFICES ASSUME NEW t \in recorded, t.order = k
                 PROVE  o.payment = s.payment /\ t.payment = s.payment
      OBVIOUS
    <3>1. t.payment = o.payment
      BY <1>1, <1>2 DEF MInv, RowsOK, FollowsOnePayment, Exists
    <3>2. t.payment # None
      BY <1>2 DEF Statements
    <3> QED BY <2>1, <3>1, <3>2
  <2>10. FollowsOnePayment'
    <3>1. ASSUME NEW j \in Orders \ {k}, Exists(j)'
          PROVE  /\ order'[j].payment # None =>
                      \E t \in About(j)' : t.status = order'[j].status /\ t.at = order'[j].at
                 /\ order'[j].reference # None => \E t \in About(j)' : t.reference = order'[j].reference
                 /\ \A t \in recorded' : t.order = j => t.payment = order'[j].payment
      BY <1>1, <1>3, <3>1 DEF MInv, RowsOK, FollowsOnePayment, About, Exists
    <3>2. \A t \in recorded' : t.order = k => t.payment = order'[k].payment
      BY <1>3, <2>4, <2>9
    <3>3. \E t \in About(k)' : t.status = order'[k].status /\ t.at = order'[k].at
      BY <2>2, <2>4 DEF About
    <3>4. order'[k].reference # None => \E t \in About(k)' : t.reference = order'[k].reference
      <4>1. CASE s.reference # None
        BY <2>2, <2>4, <4>1 DEF About
      <4>2. CASE s.reference = None
        <5> SUFFICES ASSUME o.reference # None
                     PROVE  \E t \in About(k)' : t.reference = o.reference
          BY <2>4, <4>2
        <5>1. PICK t \in About(k) : t.reference = o.reference
          BY <1>1, <1>2 DEF MInv, RowsOK, FollowsOnePayment, Exists
        <5> QED BY <1>3, <2>4, <2>9, <5>1 DEF About
      <4> QED BY <4>1, <4>2
    <3> QED BY <3>1, <3>2, <3>3, <3>4 DEF FollowsOnePayment
  <2>11. NewestStatementWins'
    <3> SUFFICES ASSUME NEW j \in Orders, Exists(j)', NEW t \in About(j)', t.at > order'[j].at
                 PROVE  Regressing(t)' \/ Conflicting(t)'
      BY DEF NewestStatementWins
    <3>0. t \in recorded' /\ t.order = j /\ t.payment = order'[j].payment
      BY DEF About
    <3>1. CASE j # k
      <4>1. order'[j] = order[j] /\ t \in About(j) /\ Exists(j)
        BY <1>1, <1>3, <3>0, <3>1 DEF About, Exists
      <4>2. Regressing(t) \/ Conflicting(t)
        BY <4>1 DEF MInv, RowsOK, NewestStatementWins
      <4> QED BY <3>0, <4>1, <4>2 DEF Regressing, Conflicting
    <3>2. CASE j = k
      <4>1. t # s
        BY <1>2, <2>4, <3>2 DEF Statements
      <4>2. t \in recorded /\ o.payment = s.payment /\ t \in About(k)
        BY <1>3, <2>9, <3>0, <3>2, <4>1 DEF About
      <4>3. o.at \in Int /\ s.at \in Int /\ t.at \in Int /\ s.at >= o.at
        BY <1>1, <1>2, <2>1, <4>2 DEF Stale, OrderRows, Statements, NoTime
      <4>4. t.at > o.at
        BY <2>4, <3>2, <4>3
      <4>5. Regressing(t) \/ Conflicting(t)
        BY <1>1, <1>2, <4>2, <4>4 DEF MInv, RowsOK, NewestStatementWins, Exists
      <4>6. CASE Regressing(t)
        BY <2>1, <2>4, <3>0, <3>2, <4>6 DEF Regressing
      <4>7. CASE Conflicting(t)
        BY <1>2, <2>1, <2>4, <3>0, <3>2, <4>3, <4>4, <4>7 DEF Conflicting, Statements
      <4> QED BY <4>5, <4>6, <4>7
    <3> QED BY <3>1, <3>2
  <2> QED BY <1>3, <2>5, <2>6, <2>8, <2>10, <2>11 DEF RowsOK
<1> QED BY <1>4, <1>5

\* A note on the reconciliation's failure changes nothing else.
LEMMA NoteKeeps ==
  ASSUME MInv, NEW k \in Orders, Exists(k), NEW failure \in BOOLEAN,
         order' = [order EXCEPT ![k].error = failure], UNCHANGED <<recorded, stated>>
  PROVE  RowsOK' /\ Kept
<1>1. order \in [Orders -> OrderRows \cup {None}] /\ None \notin OrderRows /\ order[k] \in OrderRows
  BY DEF MInv, RowsOK, ConstantsOK, Exists
<1>2. /\ \A j \in Orders \ {k} : order'[j] = order[j]
      /\ order'[k] = [order[k] EXCEPT !.error = failure]
  BY <1>1
<1>3. /\ order'[k].payment = order[k].payment /\ order'[k].status = order[k].status
      /\ order'[k].at = order[k].at /\ order'[k].reference = order[k].reference
      /\ order'[k].checkout = order[k].checkout /\ order'[k] \in OrderRows
  BY <1>1, <1>2 DEF OrderRows
<1>4. \A j \in Orders : /\ Exists(j)' <=> Exists(j)
                        /\ order'[j].payment = order[j].payment /\ order'[j].status = order[j].status
                        /\ order'[j].at = order[j].at /\ order'[j].reference = order[j].reference
                        /\ order'[j].checkout = order[j].checkout
  BY <1>1, <1>2, <1>3 DEF Exists
<1>5. order' \in [Orders -> OrderRows \cup {None}]
  BY <1>1, <1>3
<1>6. UnpaidIsFresh' /\ Kept
  BY <1>4 DEF MInv, RowsOK, UnpaidIsFresh, Kept
<1>7. \A j \in Orders : About(j)' = About(j)
  BY <1>4 DEF About
<1>8. FollowsOnePayment'
  BY <1>4, <1>7 DEF MInv, RowsOK, FollowsOnePayment
<1>9. NewestStatementWins'
  <2> SUFFICES ASSUME NEW j \in Orders, Exists(j), NEW t \in About(j), t.at > order[j].at
               PROVE  Regressing(t)' \/ Conflicting(t)'
    BY <1>4, <1>7 DEF NewestStatementWins
  <2>1. (Regressing(t) \/ Conflicting(t)) /\ t.order = j
    BY DEF MInv, RowsOK, NewestStatementWins, About
  <2> QED BY <1>4, <2>1 DEF Regressing, Conflicting
<1> QED BY <1>5, <1>6, <1>8, <1>9 DEF RowsOK, MInv

\* A new order has heard of no payment.
LEMMA NewOrderKeeps ==
  ASSUME MInv, NEW k \in Orders, ~Exists(k), NEW c \in Checkouts,
         order' = [order EXCEPT ![k] = NewOrder(c)], UNCHANGED <<recorded, stated>>
  PROVE  RowsOK' /\ Kept
<1>1. order \in [Orders -> OrderRows \cup {None}] /\ None \notin OrderRows
  BY DEF MInv, RowsOK, ConstantsOK
<1>2. /\ \A j \in Orders \ {k} : order'[j] = order[j]
      /\ order'[k] = NewOrder(c) /\ NewOrder(c) \in OrderRows
      /\ NewOrder(c).payment = None /\ NewOrder(c).reference = None
      /\ NewOrder(c).status = "PENDING" /\ NewOrder(c).at = NoTime
  BY <1>1 DEF NewOrder, OrderRows, Recognised
<1>3. \A t \in recorded : t.order # k
  BY DEF MInv, RowsOK, StatementsOK
<1>4. order' \in [Orders -> OrderRows \cup {None}] /\ UnpaidIsFresh' /\ Kept
  BY <1>1, <1>2 DEF MInv, RowsOK, UnpaidIsFresh, Kept, Exists
<1>5. FollowsOnePayment'
  BY <1>2, <1>3 DEF MInv, RowsOK, FollowsOnePayment, About, Exists
<1>6. NewestStatementWins'
  BY <1>2, <1>3 DEF MInv, RowsOK, NewestStatementWins, About, Exists, Regressing, Conflicting
<1> QED BY <1>4, <1>5, <1>6 DEF RowsOK, MInv

-----------------------------------------------------------------------------
(* What a step leaves alone stays true when no order and no statement is lost. *)

LEMMA RowsStay == ASSUME MInv, UNCHANGED <<order, recorded>>, stated \subseteq stated'
                  PROVE  RowsOK' /\ Kept
<1>1. Kept
  BY DEF Kept, Exists
<1>2. UnpaidIsFresh' /\ FollowsOnePayment'
  BY DEF MInv, RowsOK, UnpaidIsFresh, FollowsOnePayment, About, Exists
<1>3. NewestStatementWins'
  BY DEF MInv, RowsOK, NewestStatementWins, About, Exists, Regressing, Conflicting
<1> QED BY <1>1, <1>2, <1>3 DEF RowsOK, MInv

LEMMA StatementsStay == ASSUME MInv, UNCHANGED <<payment, stated>>, Kept
                        PROVE  StatementsOK'
<1>1. \A s \in stated : s.order \in Orders
  BY DEF MInv, StatementsOK, Statements
<1> QED BY <1>1 DEF MInv, StatementsOK, Kept

LEMMA RequestsStay == ASSUME MInv, UNCHANGED req, Kept
                      PROVE  RequestsOK' /\ OneOrderPerKey'
<1>1. RequestsOK'
  BY DEF MInv, RequestsOK, RequestKnows, Kept
<1>2. OneOrderPerKey'
  BY DEF MInv, RequestsOK, RequestKnows, OneOrderPerKey, Kept
<1> QED BY <1>1, <1>2

LEMMA PollsStay == ASSUME MInv, UNCHANGED poll, Kept, stated \subseteq stated'
                   PROVE  PollsOK'
  BY DEF MInv, PollsOK, PollKnows, Kept

\* A reconciliation whose record changed, and what the new record must know.
LEMMA PollMoves ==
  ASSUME MInv, NEW w \in Pollers, NEW record \in PollRecords, poll' = [poll EXCEPT ![w] = record],
         Kept, stated \subseteq stated',
         record.pc # "idle" => record.order \in Orders /\ Exists(record.order),
         record.pc = "apply" => record.found \in stated
  PROVE  PollsOK'
<1>1. /\ poll' \in [Pollers -> PollRecords] /\ poll'[w] = record
      /\ \A v \in Pollers \ {w} : poll'[v] = poll[v]
  BY DEF MInv, PollsOK
<1>2. PollKnows(w)'
  BY <1>1 DEF PollKnows, Kept
<1>3. \A v \in Pollers \ {w} : PollKnows(v)'
  BY <1>1 DEF MInv, PollsOK, PollKnows, Kept
<1> QED BY <1>1, <1>2, <1>3 DEF PollsOK

\* A request whose record changed.
LEMMA RequestMoves ==
  ASSUME MInv, NEW r \in Requests, NEW record \in RequestRecords, req' = [req EXCEPT ![r] = record],
         Kept,
         record.pc \in {"lookup", "create"} =>
           record.order \in Orders /\ record.checkout \in Checkouts /\ record.reply = None /\ ~record.link,
         record.reply = "CREATED" =>
           /\ record.order \in Orders /\ order'[record.order] # None
           /\ \A q \in Requests \ {r} : ~(req[q].reply = "CREATED" /\ req[q].order = record.order),
         record.link => /\ record.order \in Orders /\ order'[record.order] # None
                        /\ order'[record.order].checkout = record.checkout
  PROVE  RequestsOK' /\ OneOrderPerKey'
<1>1. /\ req' \in [Requests -> RequestRecords] /\ req'[r] = record
      /\ \A q \in Requests \ {r} : req'[q] = req[q]
  BY DEF MInv, RequestsOK
<1>2. RequestKnows(r)'
  BY <1>1 DEF RequestKnows, Exists
<1>3. \A q \in Requests \ {r} : RequestKnows(q)'
  BY <1>1 DEF MInv, RequestsOK, RequestKnows, Kept
<1>4. \A q \in Requests \ {r} : req'[q].link => order'[req'[q].order].checkout = req'[q].checkout
  BY <1>1 DEF MInv, RequestsOK, RequestKnows, OneOrderPerKey, Kept
<1>5. OneOrderPerKey'
  BY <1>1, <1>4 DEF MInv, OneOrderPerKey
<1> QED BY <1>1, <1>2, <1>3, <1>5 DEF RequestsOK

-----------------------------------------------------------------------------
(* The requests. *)

LEMMA StartCheckoutKeeps ==
  ASSUME MInv, NEW r \in Requests, NEW k \in Orders, NEW c \in Checkouts, StartCheckout(r, k, c)
  PROVE  MInv' /\ Kept
<1> DEFINE record == [IdleRequest EXCEPT !.pc = "lookup", !.order = k, !.checkout = c]
<1>1. /\ record \in RequestRecords /\ record.pc = "lookup" /\ record.order = k
      /\ record.checkout = c /\ record.reply = None /\ record.link = FALSE
  BY DEF IdleRequest, RequestRecords
<1>2. UNCHANGED <<order, recorded, recent, payment, stated, updates, poll>>
  BY DEF StartCheckout, rows, provider
<1>3. RowsOK' /\ Kept
  BY <1>2, RowsStay
<1>4. StatementsOK' /\ PollsOK'
  BY <1>2, <1>3, StatementsStay, PollsStay
<1>5. req' = [req EXCEPT ![r] = record] /\ None # "CREATED"
  BY DEF StartCheckout, MInv, ConstantsOK
<1>6. RequestsOK' /\ OneOrderPerKey'
  <2> HIDE DEF record
  <2> QED BY <1>1, <1>3, <1>5, RequestMoves
<1> QED BY <1>2, <1>3, <1>4, <1>6 DEF MInv, CountersOK

\* The answer about a row the order has after the step.
LEMMA AnswerKnows ==
  ASSUME MInv, NEW r \in Requests, req[r].pc \in {"lookup", "create"},
         NEW reply \in {"CREATED", "REUSED"}, NEW o \in OrderRows, order'[req[r].order] = o,
         order'[req[r].order] # None, Kept,
         reply = "CREATED" => ~Exists(req[r].order),
         req' = [req EXCEPT ![r] = Answer(r, o, reply)]
  PROVE  RequestsOK' /\ OneOrderPerKey'
<1> DEFINE record == Answer(r, o, reply)
<1>1. /\ req[r] \in RequestRecords /\ req[r].order \in Orders /\ req[r].checkout \in Checkouts
      /\ req[r].reply = None /\ req[r].link = FALSE
  BY DEF MInv, RequestsOK, RequestKnows, RequestRecords
<1>2. /\ record \in RequestRecords /\ record.order = req[r].order
      /\ record.checkout = req[r].checkout /\ record.pc = "done"
      /\ record.reply = "CREATED" => reply = "CREATED"
      /\ record.link => o.checkout = req[r].checkout
  BY <1>1 DEF Answer, RequestRecords
<1>3. \A q \in Requests : req[q].reply = "CREATED" => Exists(req[q].order)
  BY DEF MInv, RequestsOK, RequestKnows
<1>4. record.reply = "CREATED" =>
        \A q \in Requests \ {r} : ~(req[q].reply = "CREATED" /\ req[q].order = record.order)
  BY <1>2, <1>3
<1> HIDE DEF record
<1>5. req' = [req EXCEPT ![r] = record]
  BY DEF record
<1>6. record.order \in Orders /\ order'[record.order] # None
  BY <1>1, <1>2
<1>7. record.link => order'[record.order].checkout = record.checkout
  BY <1>1, <1>2
<1> QED BY <1>2, <1>4, <1>5, <1>6, <1>7, RequestMoves

LEMMA CheckoutLookupKeeps ==
  ASSUME MInv, NEW r \in Requests, CheckoutLookup(r)
  PROVE  MInv' /\ Kept
<1>1. UNCHANGED <<order, recorded, recent, payment, stated, updates, poll>> /\ req[r].pc = "lookup"
  BY DEF CheckoutLookup, rows, provider
<1>2. RowsOK' /\ Kept
  BY <1>1, RowsStay
<1>3. StatementsOK' /\ PollsOK'
  BY <1>1, <1>2, StatementsStay, PollsStay
<1>4. /\ req[r] \in RequestRecords /\ req[r].order \in Orders /\ req[r].checkout \in Checkouts
      /\ req[r].reply = None /\ req[r].link = FALSE
      /\ order \in [Orders -> OrderRows \cup {None}] /\ None # "CREATED"
  BY <1>1 DEF MInv, RequestsOK, RequestKnows, RequestRecords, RowsOK, ConstantsOK
<1>5. RequestsOK' /\ OneOrderPerKey'
  <2>1. CASE Exists(req[r].order)
    <3>1. order[req[r].order] \in OrderRows
      BY <1>4, <2>1 DEF Exists
    <3>2. order'[req[r].order] = order[req[r].order] /\ order'[req[r].order] # None
      BY <1>1, <2>1 DEF Exists
    <3>3. req' = [req EXCEPT ![r] = Answer(r, order[req[r].order], "REUSED")]
      BY <2>1 DEF CheckoutLookup
    <3> QED BY <1>1, <1>2, <3>1, <3>2, <3>3, AnswerKnows
  <2>2. CASE ~Exists(req[r].order)
    <3> DEFINE record == [req[r] EXCEPT !.pc = "create"]
    <3>1. /\ record \in RequestRecords /\ record.pc = "create" /\ record.order = req[r].order
          /\ record.checkout = req[r].checkout /\ record.reply = None /\ record.link = FALSE
      BY <1>4 DEF RequestRecords
    <3>2. req' = [req EXCEPT ![r] = record]
      BY <2>2 DEF CheckoutLookup
    <3> HIDE DEF record
    <3> QED BY <1>2, <1>4, <3>1, <3>2, RequestMoves
  <2> QED BY <2>1, <2>2
<1> QED BY <1>1, <1>2, <1>3, <1>5 DEF MInv, CountersOK

LEMMA CheckoutCreateKeeps ==
  ASSUME MInv, NEW r \in Requests, CheckoutCreate(r)
  PROVE  MInv' /\ Kept
<1> DEFINE k == req[r].order
<1>1. UNCHANGED <<recorded, recent, payment, stated, updates, poll>> /\ req[r].pc = "create"
  BY DEF CheckoutCreate, provider
<1>2. k \in Orders /\ req[r].checkout \in Checkouts /\ order \in [Orders -> OrderRows \cup {None}]
      /\ None \notin OrderRows
  BY <1>1 DEF MInv, RequestsOK, RequestKnows, RowsOK, ConstantsOK
<1>3. CASE /\ ~Exists(k)
           /\ order' = [order EXCEPT ![k] = NewOrder(req[r].checkout)]
           /\ req' = [req EXCEPT ![r] = Answer(r, NewOrder(req[r].checkout), "CREATED")]
  <2>1. RowsOK' /\ Kept
    BY <1>1, <1>2, <1>3, NewOrderKeeps
  <2>2. NewOrder(req[r].checkout) \in OrderRows
    BY <1>2 DEF NewOrder, OrderRows, Recognised
  <2>4. order'[k] = NewOrder(req[r].checkout) /\ order'[k] # None
    BY <1>2, <1>3, <2>2
  <2>3. RequestsOK' /\ OneOrderPerKey'
    BY <1>1, <1>3, <2>1, <2>2, <2>4, AnswerKnows
  <2> QED BY <1>1, <2>1, <2>3, StatementsStay, PollsStay DEF MInv, CountersOK
<1>4. CASE /\ Exists(k)
           /\ req' = [req EXCEPT ![r] = Answer(r, order[k], "REUSED")]
           /\ UNCHANGED order
  <2>1. RowsOK' /\ Kept
    BY <1>1, <1>4, RowsStay
  <2>2. order[k] \in OrderRows /\ order'[k] = order[k] /\ order'[k] # None
    BY <1>2, <1>4 DEF Exists
  <2>3. RequestsOK' /\ OneOrderPerKey'
    BY <1>1, <1>4, <2>1, <2>2, AnswerKnows
  <2> QED BY <1>1, <2>1, <2>3, StatementsStay, PollsStay DEF MInv, CountersOK
<1> QED BY <1>3, <1>4 DEF CheckoutCreate

-----------------------------------------------------------------------------
(* MoonPay. *)

LEMMA StateKeeps ==
  ASSUME MInv, NEW s \in Statements, Exists(s.order), State(s), updates' \in 0..MaxUpdates
  PROVE  MInv' /\ Kept
<1>1. UNCHANGED <<order, recorded, recent, req, poll>> /\ stated' = stated \cup {s}
  BY DEF State, rows
<1>2. RowsOK' /\ Kept
  BY <1>1, RowsStay
<1>3. RequestsOK' /\ OneOrderPerKey' /\ PollsOK'
  BY <1>1, <1>2, RequestsStay, PollsStay
<1>4. s.payment \in Payments /\ payment' = [payment EXCEPT ![s.payment] = s]
  BY DEF State, Statements
<1>5. StatementsOK'
  BY <1>1, <1>4 DEF MInv, StatementsOK, Exists
<1> QED BY <1>1, <1>2, <1>3, <1>5 DEF MInv, CountersOK

LEMMA PayKeeps == ASSUME MInv, NEW p \in Payments, NEW k \in Orders, Pay(p, k)
                  PROVE  MInv' /\ Kept
<1> DEFINE s == [payment |-> p, order |-> k, at |-> 0, status |-> "PENDING", reference |-> None]
<1>1. s \in Statements /\ s.order = k
  BY DEF Statements, MInv, ConstantsOK
<1>2. Exists(k)
  BY DEF Pay, MInv, RequestsOK, RequestKnows
<1>3. State(s) /\ updates' \in 0..MaxUpdates
  BY DEF Pay, MInv, CountersOK
<1> HIDE DEF s
<1> QED BY <1>1, <1>2, <1>3, StateKeeps

LEMMA UpdateKeeps ==
  ASSUME MInv, NEW p \in Payments, NEW status \in Statuses, NEW reference \in References \cup {None},
         NEW tick \in {0, 1}, Update(p, status, reference, tick)
  PROVE  MInv' /\ Kept
<1> DEFINE s == [payment[p] EXCEPT !.at = @ + tick, !.status = status, !.reference = reference]
<1>1. payment[p] \in Statements /\ payment[p] \in stated
  BY DEF Update, MInv, StatementsOK
<1>2. s \in Statements /\ s.order = payment[p].order
  <2>1. ASSUME NEW q \in Statements
        PROVE  LET t == [q EXCEPT !.at = @ + tick, !.status = status, !.reference = reference]
               IN t \in Statements /\ t.order = q.order
    <3>1. q.at + tick \in Nat
      BY DEF Statements
    <3> QED BY <3>1 DEF Statements
  <2> QED BY <1>1, <2>1
<1>3. Exists(s.order)
  BY <1>1, <1>2 DEF MInv, StatementsOK
<1>4. State(s) /\ updates' \in 0..MaxUpdates
  BY DEF Update, MInv, CountersOK, ConstantsOK
<1> HIDE DEF s
<1> QED BY <1>2, <1>3, <1>4, StateKeeps

LEMMA DeliverKeeps == ASSUME MInv, Deliver PROVE MInv' /\ Kept
<1>1. UNCHANGED <<recent, payment, stated, updates, req, poll>>
  BY DEF Deliver, provider
<1>2. PICK s \in stated : Apply(s)
  BY DEF Deliver
<1>3. RowsOK' /\ Kept
  BY <1>1, <1>2, ApplyKeeps
<1>4. StatementsOK' /\ RequestsOK' /\ OneOrderPerKey' /\ PollsOK'
  BY <1>1, <1>3, StatementsStay, RequestsStay, PollsStay
<1> QED BY <1>1, <1>3, <1>4 DEF MInv, CountersOK

-----------------------------------------------------------------------------
(* The reconciliations. *)

\* A step of a reconciliation that leaves rows and statements alone.
LEMMA PollOnlyKeeps ==
  ASSUME MInv, NEW w \in Pollers, NEW record \in PollRecords, poll' = [poll EXCEPT ![w] = record],
         UNCHANGED <<order, recorded, payment, stated, updates, req>>, recent' \subseteq Orders,
         record.pc # "idle" => record.order \in Orders /\ Exists(record.order),
         record.pc = "apply" => record.found \in stated
  PROVE  MInv' /\ Kept
<1>1. RowsOK' /\ Kept
  BY RowsStay
<1>2. StatementsOK' /\ RequestsOK' /\ OneOrderPerKey'
  BY <1>1, StatementsStay, RequestsStay
<1>3. PollsOK'
  BY <1>1, PollMoves
<1> QED BY <1>1, <1>2, <1>3 DEF MInv, CountersOK

LEMMA IdleIsPoll == IdlePoll \in PollRecords /\ IdlePoll.pc = "idle"
  BY DEF IdlePoll, PollRecords

\* What is known of a reconciliation under way.
LEMMA PollFacts ==
  ASSUME MInv, NEW w \in Pollers, poll[w].pc # "idle"
  PROVE  /\ poll[w] \in PollRecords /\ poll[w].order \in Orders /\ Exists(poll[w].order)
         /\ poll[w].pc = "apply" => poll[w].found \in stated
  BY DEF MInv, PollsOK, PollKnows

LEMMA PickKeeps == ASSUME MInv, NEW w \in Pollers, NEW k \in Orders, Pick(w, k)
                   PROVE  MInv' /\ Kept
<1> DEFINE record == [[poll[w] EXCEPT !.pc = "claim"] EXCEPT !.order = k]
<1>1. poll \in [Pollers -> PollRecords] /\ poll[w] \in PollRecords
  BY DEF MInv, PollsOK
<1>2. record \in PollRecords /\ record.pc = "claim" /\ record.order = k
  BY <1>1 DEF PollRecords
<1>3. poll' = [poll EXCEPT ![w] = record]
  BY <1>1 DEF Pick
<1>4. /\ UNCHANGED <<order, recorded, payment, stated, updates, req>> /\ recent' \subseteq Orders
      /\ Exists(k)
  BY DEF Pick, Recoverable, rows, provider, MInv, CountersOK
<1> HIDE DEF record
<1> QED BY <1>2, <1>3, <1>4, PollOnlyKeeps

LEMMA ClaimKeeps == ASSUME MInv, NEW w \in Pollers, Claim(w)
                    PROVE  MInv' /\ Kept
<1> DEFINE record == [poll[w] EXCEPT !.pc = "fetch"]
<1>1. poll[w] \in PollRecords /\ poll[w].order \in Orders /\ Exists(poll[w].order)
  BY PollFacts DEF Claim
<1>2. record \in PollRecords /\ record.pc = "fetch" /\ record.order = poll[w].order
  BY <1>1 DEF PollRecords
<1>3. poll' = [poll EXCEPT ![w] = record]
  BY DEF Claim
<1>4. UNCHANGED <<order, recorded, payment, stated, updates, req>> /\ recent' \subseteq Orders
  BY <1>1 DEF Claim, provider, MInv, CountersOK
<1> HIDE DEF record
<1> QED BY <1>1, <1>2, <1>3, <1>4, PollOnlyKeeps

\* The reconciliation is over: refused, noted without a change of the row, or lost.
LEMMA OverKeeps == ASSUME MInv, NEW w \in Pollers, ClaimRefused(w) \/ PollLost(w)
                   PROVE  MInv' /\ Kept
<1>1. poll' = [poll EXCEPT ![w] = IdlePoll]
  BY DEF ClaimRefused, PollLost
<1>2. UNCHANGED <<order, recorded, payment, stated, updates, req>> /\ recent' \subseteq Orders
  BY DEF ClaimRefused, PollLost, rows, provider, MInv, CountersOK
<1> QED BY <1>1, <1>2, IdleIsPoll, PollOnlyKeeps

LEMMA FetchKeeps == ASSUME MInv, NEW w \in Pollers, NEW old \in BOOLEAN, Fetch(w, old)
                    PROVE  MInv' /\ Kept
<1> DEFINE found == PaymentsOf(poll[w].order)
<1>1. poll[w] \in PollRecords /\ poll[w].order \in Orders /\ Exists(poll[w].order)
  BY PollFacts DEF Fetch
<1>2. UNCHANGED <<order, recorded, payment, stated, updates, req>> /\ recent' \subseteq Orders
  BY DEF Fetch, rows, provider, MInv, CountersOK
<1>3. ASSUME NEW p \in found,
             poll' = [poll EXCEPT ![w] = [[poll[w] EXCEPT !.pc = "apply"] EXCEPT !.found = payment[p]]]
      PROVE  MInv' /\ Kept
  <2> DEFINE record == [[poll[w] EXCEPT !.pc = "apply"] EXCEPT !.found = payment[p]]
  <2>1. payment[p] \in stated /\ payment[p] \in Statements
    BY DEF PaymentsOf, MInv, StatementsOK
  <2>2. record \in PollRecords /\ record.order = poll[w].order /\ record.found = payment[p]
    BY <1>1, <2>1 DEF PollRecords
  <2>3. poll' = [poll EXCEPT ![w] = record]
    BY <1>3
  <2> HIDE DEF record
  <2> QED BY <1>1, <1>2, <2>1, <2>2, <2>3, PollOnlyKeeps
<1>4. ASSUME poll' = [poll EXCEPT ![w] = [[poll[w] EXCEPT !.pc = "note"] EXCEPT
                                             !.failure = found # {} \/ old]]
      PROVE  MInv' /\ Kept
  <2> DEFINE record == [[poll[w] EXCEPT !.pc = "note"] EXCEPT !.failure = found # {} \/ old]
  <2>0. (found # {} \/ old) \in BOOLEAN
    OBVIOUS
  <2>1. record \in PollRecords /\ record.order = poll[w].order /\ record.pc = "note"
    <3> HIDE DEF found
    <3> QED BY <1>1, <2>0 DEF PollRecords
  <2>2. poll' = [poll EXCEPT ![w] = record]
    BY <1>4
  <2> HIDE DEF record
  <2> QED BY <1>1, <1>2, <2>1, <2>2, PollOnlyKeeps
<1>5. \/ \E p \in found : poll' = [poll EXCEPT ![w].pc = "apply", ![w].found = payment[p]]
      \/ poll' = [poll EXCEPT ![w].pc = "note", ![w].failure = found # {} \/ old]
  BY DEF Fetch
<1>6. poll \in [Pollers -> PollRecords]
  BY DEF MInv, PollsOK
<1>7. CASE \E p \in found : poll' = [poll EXCEPT ![w].pc = "apply", ![w].found = payment[p]]
  <2>1. PICK p \in found : poll' = [poll EXCEPT ![w].pc = "apply", ![w].found = payment[p]]
    BY <1>7
  <2>2. poll' = [poll EXCEPT ![w] = [[poll[w] EXCEPT !.pc = "apply"] EXCEPT !.found = payment[p]]]
    BY <1>6, <2>1
  <2> QED BY <1>3, <2>2
<1>8. CASE poll' = [poll EXCEPT ![w].pc = "note", ![w].failure = found # {} \/ old]
  <2>1. poll' = [poll EXCEPT ![w] = [[poll[w] EXCEPT !.pc = "note"] EXCEPT
                                        !.failure = found # {} \/ old]]
    BY <1>6, <1>8
  <2> QED BY <1>4, <2>1
<1> QED BY <1>5, <1>7, <1>8

\* The record of a reconciliation that goes on to its note.
LEMMA ToNote ==
  ASSUME MInv, NEW w \in Pollers, poll[w].pc # "idle", NEW failure \in BOOLEAN,
         poll' = [poll EXCEPT ![w].pc = "note", ![w].found = None, ![w].failure = failure],
         Kept, stated \subseteq stated'
  PROVE  PollsOK'
<1> DEFINE record == [[[poll[w] EXCEPT !.pc = "note"] EXCEPT !.found = None] EXCEPT !.failure = failure]
<1>1. /\ poll \in [Pollers -> PollRecords] /\ poll[w] \in PollRecords
      /\ poll[w].order \in Orders /\ Exists(poll[w].order)
  BY PollFacts DEF MInv, PollsOK
<1>2. record \in PollRecords /\ record.order = poll[w].order /\ record.pc = "note"
  BY <1>1 DEF PollRecords
<1>3. poll' = [poll EXCEPT ![w] = record]
  BY <1>1
<1> HIDE DEF record
<1> QED BY <1>1, <1>2, <1>3, PollMoves

LEMMA ApplyFoundKeeps == ASSUME MInv, NEW w \in Pollers, ApplyFound(w)
                         PROVE  MInv' /\ Kept
<1>1. UNCHANGED <<recent, payment, stated, updates, req>>
  BY DEF ApplyFound, provider
<1>2. poll[w].found \in stated /\ Apply(poll[w].found) /\ poll[w].pc # "idle"
  BY PollFacts DEF ApplyFound
<1>3. RowsOK' /\ Kept
  BY <1>1, <1>2, ApplyKeeps
<1>4. StatementsOK' /\ RequestsOK' /\ OneOrderPerKey'
  BY <1>1, <1>3, StatementsStay, RequestsStay
<1>5. PollsOK'
  <2> DEFINE failure == Verdict(poll[w].found) \in {"mismatch", "unrecognised", "conflict"}
  <2>1. failure \in BOOLEAN
    OBVIOUS
  <2>2. poll' = [poll EXCEPT ![w].pc = "note", ![w].found = None, ![w].failure = failure]
    BY DEF ApplyFound
  <2> HIDE DEF failure
  <2> QED BY <1>1, <1>2, <1>3, <2>1, <2>2, ToNote
<1> QED BY <1>1, <1>3, <1>4, <1>5 DEF MInv, CountersOK

LEMMA LookupFailsKeeps == ASSUME MInv, NEW w \in Pollers, LookupFails(w)
                          PROVE  MInv' /\ Kept
<1>1. UNCHANGED <<order, recorded, recent, payment, stated, updates, req>> /\ poll[w].pc # "idle"
  BY DEF LookupFails, rows, provider
<1>2. RowsOK' /\ Kept
  BY <1>1, RowsStay
<1>3. StatementsOK' /\ RequestsOK' /\ OneOrderPerKey'
  BY <1>1, <1>2, StatementsStay, RequestsStay
<1>4. PollsOK'
  BY <1>1, <1>2, ToNote DEF LookupFails
<1> QED BY <1>1, <1>2, <1>3, <1>4 DEF MInv, CountersOK

LEMMA NoteStepKeeps == ASSUME MInv, NEW w \in Pollers, Note(w)
                       PROVE  MInv' /\ Kept
<1>1. UNCHANGED <<recorded, recent, payment, stated, updates, req>>
  BY DEF Note, provider
<1>2. /\ poll[w] \in PollRecords /\ poll[w].order \in Orders /\ Exists(poll[w].order)
      /\ order' = [order EXCEPT ![poll[w].order].error = poll[w].failure]
  BY PollFacts DEF Note
<1>3. poll[w].failure \in BOOLEAN
  BY <1>2 DEF PollRecords
<1>4. RowsOK' /\ Kept
  BY <1>1, <1>2, <1>3, NoteKeeps
<1>5. StatementsOK' /\ RequestsOK' /\ OneOrderPerKey'
  BY <1>1, <1>4, StatementsStay, RequestsStay
<1>6. PollsOK'
  BY <1>1, <1>4, IdleIsPoll, PollMoves DEF Note
<1> QED BY <1>1, <1>4, <1>5, <1>6 DEF MInv, CountersOK

LEMMA MinuteKeeps == ASSUME MInv, NEW k \in Orders, Minute(k)
                     PROVE  MInv' /\ Kept
<1>1. UNCHANGED <<order, recorded, payment, stated, updates, req, poll>> /\ recent' \subseteq Orders
  BY DEF Minute, provider, MInv, CountersOK
<1>2. RowsOK' /\ Kept
  BY <1>1, RowsStay
<1> QED BY <1>1, <1>2, StatementsStay, RequestsStay, PollsStay DEF MInv, CountersOK

-----------------------------------------------------------------------------
LEMMA PurchaseStep == MInv /\ [Next]_vars => MInv' /\ Kept
<1> SUFFICES ASSUME MInv, [Next]_vars PROVE MInv' /\ Kept
  OBVIOUS
<1>1. ASSUME NEW r \in Requests, CheckoutStep(r) PROVE MInv' /\ Kept
  BY <1>1, StartCheckoutKeeps, CheckoutLookupKeeps, CheckoutCreateKeeps DEF CheckoutStep
<1>2. CASE ProviderStep
  BY <1>2, PayKeeps, UpdateKeeps DEF ProviderStep
<1>3. CASE Deliver
  BY <1>3, DeliverKeeps
<1>4. ASSUME NEW w \in Pollers, PollStep(w) PROVE MInv' /\ Kept
  BY <1>4, PickKeeps, ClaimKeeps, OverKeeps, FetchKeeps, ApplyFoundKeeps, LookupFailsKeeps,
     NoteStepKeeps DEF PollStep
<1>5. ASSUME NEW k \in Orders, Minute(k) PROVE MInv' /\ Kept
  BY <1>5, MinuteKeeps
<1>6. CASE UNCHANGED vars
  <2>1. UNCHANGED <<order, recorded, recent, payment, stated, updates, req, poll>>
    BY <1>6 DEF vars, rows, provider
  <2>2. RowsOK' /\ Kept
    BY <2>1, RowsStay
  <2> QED BY <2>1, <2>2, StatementsStay, RequestsStay, PollsStay DEF MInv, CountersOK
<1> QED BY <1>1, <1>2, <1>3, <1>4, <1>5, <1>6 DEF Next

\* The inductive invariant: an order unpaid is as created, a statement is about an order that
\* exists, and the three properties below.
THEOREM PurchaseInvariant == ASSUME ConstantsOK PROVE Spec => []MInv
  BY PurchaseInit, PurchaseStep, PTL DEF Spec

LEMMA InvariantTypes == MInv => TypeOK
<1>1. MInv => stated \subseteq Statements /\ payment \in [Payments -> Statements \cup {None}]
  BY DEF MInv, StatementsOK
<1>2. MInv => order \in [Orders -> OrderRows \cup {None}] /\ recorded \subseteq stated
  BY DEF MInv, RowsOK
<1>3. MInv => /\ recent \subseteq Orders /\ updates \in 0..MaxUpdates
              /\ req \in [Requests -> RequestRecords] /\ poll \in [Pollers -> PollRecords]
  BY DEF MInv, CountersOK, RequestsOK, PollsOK
<1> QED BY <1>1, <1>2, <1>3 DEF TypeOK

\* Type correctness of the card purchases.
THEOREM PurchaseTypeCorrect == ASSUME ConstantsOK PROVE Spec => []TypeOK
  BY PurchaseInvariant, InvariantTypes, PTL

\* applyTransaction: an order tells the story of one payment, whatever arrives in which order.
THEOREM OneStoryPerOrder == ASSUME ConstantsOK PROVE Spec => []FollowsOnePayment
<1>1. MInv => FollowsOnePayment
  BY DEF MInv, RowsOK
<1> QED BY <1>1, PurchaseInvariant, PTL

\* No recorded statement about the order's payment is newer than the row, unless it
\* contradicts what the row has settled.
THEOREM NewestIsApplied == ASSUME ConstantsOK PROVE Spec => []NewestStatementWins
<1>1. MInv => NewestStatementWins
  BY DEF MInv, RowsOK
<1> QED BY <1>1, PurchaseInvariant, PTL

\* createCheckout: however many requests race on a key, one creates the order.
THEOREM DoubleClicksBuyOnce == ASSUME ConstantsOK PROVE Spec => []OneOrderPerKey
<1>1. MInv => OneOrderPerKey
  BY DEF MInv
<1> QED BY <1>1, PurchaseInvariant, PTL

LEMMA KeptIsFinished ==
  ASSUME MInv, MInv', Kept, NEW k \in Orders, Exists(k)
  PROVE  /\ order[k].status \in Terminal => Shown(k)' \in {Shown(k), order[k].status}
         /\ order[k].reference # None => order'[k].reference = order[k].reference
<1>1. order[k].reference # None => order'[k].reference = order[k].reference
  BY DEF Kept
<1>2. ASSUME order[k].status \in Terminal PROVE Shown(k)' \in {Shown(k), order[k].status}
  <2>1. order'[k].status = order[k].status
    BY <1>2 DEF Kept
  <2>2. CASE order[k].status = "COMPLETED"
    BY <1>1, <2>1, <2>2 DEF Shown
  <2>3. CASE order[k].status # "COMPLETED"
    BY <1>2, <2>1, <2>3 DEF Shown
  <2> QED BY <2>2, <2>3
<1> QED BY <1>1, <1>2

\* "Completion never regresses", whatever webhooks and lookups say afterwards.
THEOREM CompletionNeverRegresses == ASSUME ConstantsOK PROVE Spec => FinishedStaysFinished
<1> DEFINE Finished ==
      \A k \in Orders : Exists(k) =>
        /\ order[k].status \in Terminal => Shown(k)' \in {Shown(k), order[k].status}
        /\ order[k].reference # None => order'[k].reference = order[k].reference
<1>1. MInv /\ MInv' /\ [Next]_vars => [Finished]_vars
  BY PurchaseStep, KeptIsFinished
<1>2. [][Finished]_vars <=> FinishedStaysFinished
  BY PTL DEF FinishedStaysFinished
<1> HIDE DEF Finished
<1> QED BY <1>1, <1>2, PurchaseInvariant, PTL DEF Spec

-----------------------------------------------------------------------------
(* What a lost webhook leaves behind. *)

\* A payment stays that of its order, and only a delivery has a reference.
StatedOK ==
  \A s \in stated :
    /\ payment[s.payment] # None /\ payment[s.payment].order = s.order
    /\ s.status # "COMPLETED" => s.reference = None

LEMMA StateKeepsStated ==
  ASSUME MInv, StatedOK, NEW s \in Statements, State(s), s.status # "COMPLETED" => s.reference = None,
         payment[s.payment] = None \/ payment[s.payment].order = s.order
  PROVE  StatedOK'
<1>1. s.payment \in Payments /\ s # None /\ stated \subseteq Statements
  BY DEF Statements, MInv, StatementsOK, ConstantsOK
<1>2. payment' = [payment EXCEPT ![s.payment] = s] /\ stated' = stated \cup {s}
  BY DEF State
<1>3. payment'[s.payment] = s /\ \A p \in Payments \ {s.payment} : payment'[p] = payment[p]
  BY <1>1, <1>2 DEF MInv, StatementsOK
<1>4. ASSUME NEW t \in stated
      PROVE  /\ payment'[t.payment] # None /\ payment'[t.payment].order = t.order
             /\ t.status # "COMPLETED" => t.reference = None
  <2>1. t.payment \in Payments /\ payment[t.payment] # None /\ payment[t.payment].order = t.order
    BY <1>1 DEF Statements, StatedOK
  <2>2. CASE t.payment = s.payment
    BY <1>1, <1>3, <2>1, <2>2 DEF StatedOK
  <2>3. CASE t.payment # s.payment
    BY <1>3, <2>1, <2>3 DEF StatedOK
  <2> QED BY <2>2, <2>3
<1> QED
  BY <1>1, <1>2, <1>3, <1>4 DEF StatedOK

LEMMA StatedStep == MInv /\ StatedOK /\ [Next]_vars => StatedOK'
<1> SUFFICES ASSUME MInv, StatedOK, [Next]_vars PROVE StatedOK'
  OBVIOUS
<1>1. CASE UNCHANGED <<payment, stated>>
  BY <1>1 DEF StatedOK
<1>2. ASSUME NEW p \in Payments, NEW k \in Orders, Pay(p, k) PROVE StatedOK'
  <2> DEFINE s == [payment |-> p, order |-> k, at |-> 0, status |-> "PENDING", reference |-> None]
  <2>1. s \in Statements /\ s.payment = p /\ s.order = k /\ s.reference = None
    BY DEF Statements, MInv, ConstantsOK
  <2>2. State(s) /\ payment[p] = None
    BY <1>2 DEF Pay
  <2> HIDE DEF s
  <2> QED
    BY <2>1, <2>2, StateKeepsStated
<1>3. ASSUME NEW p \in Payments, NEW status \in Statuses, NEW reference \in References \cup {None},
             NEW tick \in {0, 1}, Update(p, status, reference, tick)
      PROVE  StatedOK'
  <2> DEFINE s == [payment[p] EXCEPT !.at = @ + tick, !.status = status, !.reference = reference]
  <2>1. payment[p] \in Statements /\ payment[p].payment = p
    BY <1>3 DEF Update, MInv, StatementsOK
  <2>2. ASSUME NEW q \in Statements
        PROVE  LET t == [q EXCEPT !.at = @ + tick, !.status = status, !.reference = reference]
               IN t \in Statements /\ t.payment = q.payment /\ t.order = q.order
                  /\ t.status = status /\ t.reference = reference
    <3>1. q.at + tick \in Nat
      BY DEF Statements
    <3> QED BY <3>1 DEF Statements
  <2>3. /\ s \in Statements /\ s.payment = p /\ s.order = payment[p].order
        /\ s.status = status /\ s.reference = reference
    BY <2>1, <2>2
  <2>4. State(s) /\ (status # "COMPLETED" => reference = None)
    BY <1>3 DEF Update
  <2> HIDE DEF s
  <2> QED
    BY <2>3, <2>4, StateKeepsStated
<1>4. ASSUME NEW r \in Requests, CheckoutStep(r) PROVE UNCHANGED <<payment, stated>>
  BY <1>4 DEF CheckoutStep, StartCheckout, CheckoutLookup, CheckoutCreate, provider
<1>5. Deliver => UNCHANGED <<payment, stated>>
  BY DEF Deliver, provider
<1>6. ASSUME NEW w \in Pollers, PollStep(w) PROVE UNCHANGED <<payment, stated>>
  BY <1>6 DEF PollStep, Pick, Claim, ClaimRefused, Fetch, ApplyFound, LookupFails, Note, PollLost, provider
<1>7. ASSUME NEW k \in Orders, Minute(k) PROVE UNCHANGED <<payment, stated>>
  BY <1>7 DEF Minute, provider
<1>8. UNCHANGED vars => UNCHANGED <<payment, stated>>
  BY DEF vars, provider
<1> QED
  BY <1>1, <1>2, <1>3, <1>4, <1>5, <1>6, <1>7, <1>8 DEF Next, ProviderStep

\* An order with one payment that the recovery worker passes over.
Refused(s) == Unrecognised(s) \/ Regressing(s) \/ Conflicting(s)

\* What the recovery worker does not list has nothing more to learn, or nothing it may believe.
OpenOrdersAreRecoverable ==
  \A k \in Orders, p \in Payments :
    PaymentsOf(k) = {p} => k \in Recoverable \/ Agrees(k, payment[p]) \/ Refused(payment[p])

LEMMA RecoverableUnlessTold == MInv /\ StatedOK => OpenOrdersAreRecoverable
<1> SUFFICES ASSUME MInv, StatedOK, NEW k \in Orders, NEW p \in Payments, PaymentsOf(k) = {p}, k \notin Recoverable
             PROVE  Agrees(k, payment[p]) \/ Refused(payment[p])
  BY DEF OpenOrdersAreRecoverable
<1> DEFINE o == order[k]
           s == payment[p]
<1>1. s # None /\ s.order = k /\ s \in stated /\ s.payment = p /\ s \in Statements
  BY DEF PaymentsOf, MInv, StatementsOK
<1>2. Exists(k) /\ o \in OrderRows
  BY <1>1 DEF MInv, StatementsOK, RowsOK, Exists
<1>3. o.status \in Terminal /\ (o.status = "COMPLETED" => o.reference # None)
  BY <1>2 DEF Recoverable, OrderRows, Recognised, Terminal
<1>4. o.payment = p
  <2>1. o.payment # None
    BY <1>2, <1>3 DEF MInv, RowsOK, UnpaidIsFresh, Terminal
  <2>2. PICK t \in About(k) : TRUE
    BY <1>2, <2>1 DEF MInv, RowsOK, FollowsOnePayment
  <2>3. t \in stated /\ t.order = k /\ t.payment = o.payment
    BY <2>2 DEF About, MInv, RowsOK
  <2>4. o.payment \in PaymentsOf(k)
    BY <1>2, <2>1, <2>3 DEF PaymentsOf, StatedOK, OrderRows
  <2> QED
    BY <2>4
<1>5. CASE s.status # o.status
  BY <1>1, <1>3, <1>5 DEF Refused, Regressing
<1>6. CASE s.status = o.status /\ s.reference \notin {None, o.reference}
  <2>1. o.status = "COMPLETED"
    BY <1>1, <1>6 DEF StatedOK
  <2> QED
    BY <1>1, <1>3, <1>6, <2>1 DEF Refused, Conflicting
<1>7. CASE s.status = o.status /\ s.reference \in {None, o.reference}
  BY <1>1, <1>4, <1>7 DEF Agrees
<1> QED
  BY <1>5, <1>6, <1>7

\* recoveryWorker.ts: an order whose payment MoonPay says something else about is one the worker
\* still polls, unless the code has to refuse that word: however many webhooks are lost, no order
\* is left behind.
THEOREM NoOrderIsLeftBehind == ASSUME ConstantsOK PROVE Spec => []OpenOrdersAreRecoverable
<1>1. Init => StatedOK
  BY DEF Init, StatedOK
<1> QED
  BY <1>1, PurchaseInvariant, StatedStep, RecoverableUnlessTold, PTL DEF Spec
=============================================================================
