------------------------------ MODULE Ledgers_proofs ------------------------------
(***************************************************************************)
(* What the ledgers promise, for every value of the constants, part by     *)
(* part and then together, as the run composes them.                       *)
(***************************************************************************)
EXTENDS MCLedgers, Sequences, FiniteSetTheorems, TLAPS

-----------------------------------------------------------------------------
(* Vanity addresses.  A user's reservations take turns, so the one that    *)
(* found nothing live at the time it read stays right about that until it  *)
(* writes; and a consumed row never changes, so what was granted can be    *)
(* read off it.                                                            *)

RowType == [status: {"AVAILABLE", "RESERVED", "CONSUMED", "RETIRED"}, rid: Nat, by: Users \cup {V!None},
            expires: Nat, key: UserKeys \cup {V!None}, launch: Launches \cup {V!None}]
CallType == [pc: {"idle", "start", "pick", "picked"}, kind: {"none", "reserve", "release", "consume"},
             by: Users \cup {V!None}, key: UserKeys \cup Launches \cup {V!None}, rid: Nat, now: Nat, pick: Stock \cup {0}]

Types ==
  /\ address \in [Stock -> RowType] /\ call \in [Clients -> CallType]
  /\ rids \in Nat /\ now \in Nat

Picking(r) == call[r].pc \in {"pick", "picked"}

\* A call knows who asks, for what, and read a time that has come.
CallsOK ==
  \A r \in Clients :
    /\ call[r].now <= now
    /\ Picking(r) => call[r].kind = "reserve"
    /\ call[r].pc # "idle" /\ call[r].kind = "reserve" => call[r].by \in Users /\ call[r].key \in UserKeys
    /\ call[r].pc # "idle" /\ call[r].kind = "consume" => call[r].key \in Launches

\* One reservation of a user at a time, and nothing of theirs outlives the time it has read.
TakesTurns ==
  \A r \in Clients : Picking(r) =>
    /\ \A o \in Clients : Picking(o) /\ call[o].by = call[r].by => o = r
    /\ \A a \in Stock : address[a].status = "RESERVED" /\ address[a].by = call[r].by => address[a].expires <= call[r].now

\* A picked row is locked: it is one request's, and still in stock.
PickedIsLocked ==
  \A r \in Clients : call[r].pc = "picked" =>
    /\ call[r].pick \in Stock /\ address[call[r].pick].status \in {"AVAILABLE", "RESERVED"}
    /\ \A o \in Clients : call[o].pc = "picked" /\ call[o].pick = call[r].pick => o = r

\* What was handed out is on a consumed row.
GrantedIsConsumed ==
  \A g \in granted : /\ g[1] \in Stock /\ address[g[1]].status = "CONSUMED"
                     /\ g = <<g[1], address[g[1]].rid, address[g[1]].launch>>

IdsAreIssued == \A a \in Stock : address[a].rid <= rids

VanityInv ==
  /\ V!NamesApart /\ Types /\ CallsOK /\ TakesTurns /\ PickedIsLocked /\ GrantedIsConsumed /\ IdsAreIssued
  /\ V!TypeOK /\ V!OneLivePerUser

-----------------------------------------------------------------------------
LEMMA VanityInit == V!NamesApart /\ V!Init => VanityInv
BY DEF V!Init, VanityInv, V!NamesApart, V!Fresh, V!NoCall, V!None, Types, RowType, CallType, CallsOK, Picking, TakesTurns,
       PickedIsLocked, GrantedIsConsumed, IdsAreIssued, V!TypeOK, V!OneLivePerUser, V!Live

\* What the invariant says of the rows alone.
RowsOK == GrantedIsConsumed /\ IdsAreIssued /\ V!TypeOK /\ V!OneLivePerUser

LEMMA RowsStay ==
  ASSUME RowsOK, UNCHANGED <<address, granted, rids, now>>
  PROVE  RowsOK'
BY DEF RowsOK, GrantedIsConsumed, IdsAreIssued, V!TypeOK, V!OneLivePerUser, V!Live

\* A request ends or has not begun: the others keep their turns and their locks.
LEMMA CallRests ==
  ASSUME VanityInv, NEW r \in Clients, NEW next \in CallType, call' = [call EXCEPT ![r] = next],
         next.pc \in {"idle", "start"}, next.now <= now,
         next.pc # "idle" /\ next.kind = "reserve" => next.by \in Users /\ next.key \in UserKeys,
         next.pc # "idle" /\ next.kind = "consume" => next.key \in Launches,
         UNCHANGED <<address, granted, rids, now>>
  PROVE  VanityInv'
<1> USE DEF VanityInv
<1>1. V!NamesApart' /\ Types'
  BY DEF V!NamesApart, Types
<1>2. CallsOK'
  BY DEF Types, CallsOK, Picking
<1>3. \A o \in Clients : Picking(o)' => o # r /\ call'[o] = call[o] /\ Picking(o)
  BY DEF Types, Picking
<1>4. TakesTurns'
  BY <1>3 DEF TakesTurns
<1>5. PickedIsLocked'
  BY <1>3 DEF PickedIsLocked, Picking
<1>6. RowsOK'
  BY RowsStay DEF RowsOK
<1>7. QED
  BY <1>1, <1>2, <1>4, <1>5, <1>6 DEF RowsOK

LEMMA NoCallType == V!NamesApart => V!NoCall \in CallType /\ V!NoCall.pc = "idle" /\ V!NoCall.now = 0
BY DEF V!NoCall, CallType, V!None

LEMMA EndKeeps ==
  ASSUME VanityInv, NEW r \in Clients, V!Ends(r), UNCHANGED <<address, granted, rids, now>>
  PROVE  VanityInv'
<1>1. V!NoCall \in CallType /\ V!NoCall.pc = "idle" /\ V!NoCall.now <= now
  BY NoCallType DEF VanityInv, Types
<1>2. QED
  BY <1>1, CallRests DEF V!Ends

LEMMA AskKeeps ==
  ASSUME VanityInv, NEW r \in Clients, NEW kind \in {"reserve", "release", "consume"}, NEW by \in Users \cup {V!None},
         NEW key \in UserKeys \cup Launches \cup {V!None}, NEW rid \in Nat, V!Ask(r, kind, by, key, rid),
         kind = "reserve" => by \in Users /\ key \in UserKeys, kind = "consume" => key \in Launches
  PROVE  VanityInv'
<1> DEFINE next == [pc |-> "start", kind |-> kind, by |-> by, key |-> key, rid |-> rid, now |-> now,
                    pick |-> 0]
<1>1. /\ next \in CallType /\ next.pc = "start" /\ next.kind = kind /\ next.by = by /\ next.key = key
      /\ next.now <= now
  BY DEF CallType, VanityInv, Types
<1>2. call' = [call EXCEPT ![r] = next] /\ UNCHANGED <<address, granted, rids, now>>
  BY DEF V!Ask
<1> HIDE DEF next
<1>3. QED
  BY <1>1, <1>2, CallRests

LEMMA EnterKeeps ==
  ASSUME VanityInv, NEW r \in Clients, V!Enter(r)
  PROVE  VanityInv'
<1> USE DEF VanityInv
<1>1. CASE V!Known(call[r])
  BY <1>1, EndKeeps DEF V!Enter
<1>2. CASE ~V!Known(call[r])
  <2>1. /\ call[r].pc = "start" /\ call[r].kind = "reserve" /\ V!Alone(r)
        /\ call' = [call EXCEPT ![r].pc = "pick"] /\ UNCHANGED <<address, granted, rids, now>>
    BY <1>2 DEF V!Enter
  <2>2. call[r].by \in Users /\ call[r].by # V!None
    BY <2>1 DEF CallsOK, V!NamesApart
  <2>3. \A a \in Stock : address[a].status = "RESERVED" /\ address[a].by = call[r].by => address[a].expires <= call[r].now
    BY <1>2, <2>2 DEF V!Known, Types, RowType, CallType
  <2>4. /\ \A o \in Clients \ {r} : call'[o] = call[o]
        /\ call'[r].pc = "pick" /\ call'[r].kind = "reserve" /\ call'[r].by = call[r].by
        /\ call'[r].now = call[r].now /\ call'[r].key = call[r].key
    BY <2>1 DEF Types, CallType
  <2>5. V!NamesApart' /\ Types'
    BY <2>1 DEF V!NamesApart, Types, CallType
  <2>6. CallsOK'
    BY <2>1, <2>4 DEF CallsOK, Picking
  <2>7. TakesTurns'
    BY <2>1, <2>3, <2>4 DEF TakesTurns, Picking, V!Alone
  <2>8. PickedIsLocked'
    BY <2>1, <2>4 DEF PickedIsLocked
  <2>9. RowsOK'
    BY <2>1, RowsStay DEF RowsOK
  <2>10. QED
    BY <2>5, <2>6, <2>7, <2>8, <2>9 DEF RowsOK
<1>3. QED
  BY <1>1, <1>2

LEMMA PickKeeps ==
  ASSUME VanityInv, NEW r \in Clients, V!Pick(r)
  PROVE  VanityInv'
<1> USE DEF VanityInv
<1> DEFINE free == {a \in Stock : V!InStock(a, call[r].now) /\ ~V!Locked(a)}
<1>1. CASE free = {}
  BY <1>1, EndKeeps DEF V!Pick
<1>2. CASE free # {}
  <2>1. PICK a \in free : call' = [call EXCEPT ![r].pc = "picked", ![r].pick = a]
    BY <1>2 DEF V!Pick
  <2>2. call[r].pc = "pick" /\ UNCHANGED <<address, granted, rids, now>>
    BY DEF V!Pick
  <2>3. a \in Stock /\ address[a].status \in {"AVAILABLE", "RESERVED"}
        /\ \A o \in Clients : call[o].pc = "picked" => call[o].pick # a
    BY <2>1 DEF V!InStock, V!Locked
  <2>4. /\ \A o \in Clients \ {r} : call'[o] = call[o]
        /\ call'[r].pc = "picked" /\ call'[r].kind = call[r].kind /\ call'[r].by = call[r].by
        /\ call'[r].now = call[r].now /\ call'[r].key = call[r].key /\ call'[r].pick = a
    BY <2>1 DEF Types, CallType
  <2>5. V!NamesApart' /\ Types'
    <3> DEFINE m == [call[r] EXCEPT !.pc = "picked"]
               k == [m EXCEPT !.pick = a]
    <3>1. m \in CallType
      BY DEF Types, CallType
    <3>2. k \in CallType
      BY <2>3, <3>1 DEF CallType
    <3>3. call' = [call EXCEPT ![r] = k]
      BY <2>1 DEF Types
    <3> HIDE DEF k
    <3>4. QED
      BY <2>2, <3>2, <3>3 DEF V!NamesApart, Types
  <2>6. CallsOK'
    BY <2>2, <2>4 DEF CallsOK, Picking
  <2>7. TakesTurns'
    BY <2>2, <2>4 DEF TakesTurns, Picking
  <2>8. PickedIsLocked'
    BY <2>2, <2>3, <2>4 DEF PickedIsLocked
  <2>9. RowsOK'
    BY <2>2, RowsStay DEF RowsOK
  <2>10. QED
    BY <2>5, <2>6, <2>7, <2>8, <2>9 DEF RowsOK
<1>3. QED
  BY <1>1, <1>2

LEMMA ReserveKeeps ==
  ASSUME VanityInv, NEW r \in Clients, V!Reserve(r)
  PROVE  VanityInv'
<1> USE DEF VanityInv
<1> DEFINE p == call[r].pick
           n == [status |-> "RESERVED", rid |-> rids + 1, by |-> call[r].by,
                 expires |-> call[r].now + TTL, key |-> call[r].key, launch |-> address[p].launch]
<1>1. /\ call[r].pc = "picked" /\ p \in Stock /\ address[p].status \in {"AVAILABLE", "RESERVED"}
      /\ call[r].by \in Users /\ call[r].by # V!None /\ call[r].key \in UserKeys /\ call[r].now <= now
  BY DEF V!Reserve, PickedIsLocked, CallsOK, Picking, V!NamesApart
<1>2. /\ address' = [address EXCEPT ![p] = n] /\ rids' = rids + 1 /\ call' = [call EXCEPT ![r] = V!NoCall]
      /\ UNCHANGED <<granted, now>>
  BY DEF V!Reserve, V!Ends
<1>3. /\ n \in RowType /\ n.status = "RESERVED" /\ n.rid = rids + 1 /\ n.by = call[r].by
      /\ n.launch = address[p].launch
  <2>1. rids + 1 \in Nat /\ call[r].now + TTL \in Nat
    BY DEF Types, CallType, V!NamesApart
  <2>2. address[p].launch \in Launches \cup {V!None}
    BY <1>1 DEF Types, RowType
  <2>3. n \in RowType
    BY <1>1, <2>1, <2>2 DEF RowType
  <2>4. QED
    BY <2>3
<1>4. address'[p] = n /\ \A a \in Stock \ {p} : address'[a] = address[a]
  BY <1>1, <1>2 DEF Types
<1> HIDE DEF n
<1>5. V!NamesApart' /\ Types'
  BY <1>1, <1>2, <1>3, NoCallType DEF V!NamesApart, Types
<1>6. \A o \in Clients : call'[o].pc # "idle" => o # r /\ call'[o] = call[o]
  BY <1>2 DEF Types, V!NoCall
<1>7. \A o \in Clients : call'[o].now <= now
  BY <1>2 DEF Types, V!NoCall, CallsOK
<1>8. CallsOK'
  BY <1>2, <1>6, <1>7 DEF CallsOK, Picking
<1>9. TakesTurns'
  BY <1>1, <1>3, <1>4, <1>6 DEF TakesTurns, Picking
<1>10. PickedIsLocked'
  BY <1>1, <1>4, <1>6 DEF PickedIsLocked
<1>11. GrantedIsConsumed'
  BY <1>1, <1>2, <1>4 DEF GrantedIsConsumed
<1>12. IdsAreIssued'
  BY <1>2, <1>3, <1>4 DEF IdsAreIssued, Types, RowType
<1>13. V!TypeOK'
  <2>1. \A a \in Stock : address[a].rid # rids + 1
    BY DEF IdsAreIssued, Types, RowType
  <2>2. address[p].launch = V!None
    BY <1>1 DEF V!TypeOK
  <2>3. QED
    BY <1>1, <1>2, <1>3, <1>4, <2>1, <2>2 DEF V!TypeOK
<1>14. V!OneLivePerUser'
  <2>1. \A a \in Stock : address[a].status = "RESERVED" /\ address[a].by = call[r].by => address[a].expires <= now
    BY <1>1 DEF TakesTurns, Picking, Types, RowType, CallType
  <2>2. \A a \in Stock \ {p} : V!Live(a)' => V!Live(a) /\ address[a].by # call[r].by
    BY <1>2, <1>4, <2>1 DEF V!Live, Types, RowType
  <2>3. QED
    BY <1>3, <1>4, <2>2 DEF V!OneLivePerUser
<1>15. QED
  BY <1>5, <1>8, <1>9, <1>10, <1>11, <1>12, <1>13, <1>14

\* Rows that are neither consumed nor locked are put back or retired.
LEMMA FreedKeeps ==
  ASSUME VanityInv, NEW freed, NEW status \in {"AVAILABLE", "RETIRED"},
         \A a \in freed : ~V!Locked(a) /\ address[a].status # "CONSUMED",
         address' = [a \in Stock |-> IF a \in freed THEN V!Fresh(status) ELSE address[a]],
         call' = call \/ \E r \in Clients : call' = [call EXCEPT ![r] = V!NoCall],
         UNCHANGED <<granted, rids, now>>
  PROVE  VanityInv'
<1> USE DEF VanityInv
<1>1. /\ V!Fresh(status) \in RowType /\ V!Fresh(status).rid = 0 /\ V!Fresh(status).by = V!None
      /\ V!Fresh(status).status = status /\ V!Fresh(status).launch = V!None
  BY DEF V!Fresh, RowType, V!None
<1>2. \A a \in Stock : address'[a] = IF a \in freed THEN V!Fresh(status) ELSE address[a]
  OBVIOUS
<1>3. V!NamesApart' /\ Types'
  BY <1>1, NoCallType DEF V!NamesApart, Types
<1>4. \A o \in Clients : /\ call'[o].pc # "idle" => call'[o] = call[o]
                         /\ call'[o].now <= now
  BY DEF Types, V!NoCall, CallsOK
<1>5. CallsOK'
  BY <1>4 DEF CallsOK, Picking
<1>6. TakesTurns'
  BY <1>1, <1>2, <1>4 DEF TakesTurns, Picking
<1>7. PickedIsLocked'
  BY <1>2, <1>4 DEF PickedIsLocked, V!Locked
<1>8. GrantedIsConsumed'
  BY <1>2 DEF GrantedIsConsumed
<1>9. IdsAreIssued' /\ V!TypeOK'
  BY <1>1, <1>2 DEF IdsAreIssued, V!TypeOK, Types
<1>10. V!OneLivePerUser'
  BY <1>1, <1>2 DEF V!OneLivePerUser, V!Live
<1>11. QED
  BY <1>3, <1>5, <1>6, <1>7, <1>8, <1>9, <1>10

LEMMA ReleaseKeeps ==
  ASSUME VanityInv, NEW r \in Clients, V!Release(r)
  PROVE  VanityInv'
<1> USE DEF VanityInv
<1> DEFINE freed == {a \in V!Under(call[r].rid) : V!Releasable(a, call[r].by)}
<1>1. /\ address' = [a \in Stock |-> IF a \in freed THEN V!Fresh("AVAILABLE") ELSE address[a]]
      /\ call' = [call EXCEPT ![r] = V!NoCall] /\ UNCHANGED <<granted, rids, now>>
      /\ \A a \in freed : ~V!Locked(a) /\ address[a].status # "CONSUMED"
  BY DEF V!Release, V!Ends, V!Releasable, V!Under
<1> HIDE DEF freed
<1>2. \A a \in Stock : IF a \in freed THEN address'[a] = V!Fresh("AVAILABLE") ELSE address'[a] = address[a]
  BY <1>1
<1>3. QED
  BY <1>1, <1>2, FreedKeeps

LEMMA RetireKeeps ==
  ASSUME VanityInv, NEW x \in Stock, V!Retire(x)
  PROVE  VanityInv'
<1> USE DEF VanityInv
<1>1. /\ address' = [address EXCEPT ![x] = V!Fresh("RETIRED")] /\ UNCHANGED <<call, granted, rids, now>>
      /\ address[x].status # "CONSUMED" /\ ~V!Locked(x)
  BY DEF V!Retire
<1>2. \A a \in Stock : address'[a] = IF a = x THEN V!Fresh("RETIRED") ELSE address[a]
  BY <1>1 DEF Types
<1>3. address' = [a \in Stock |-> IF a \in {x} THEN V!Fresh("RETIRED") ELSE address[a]]
  BY <1>1, <1>2 DEF Types
<1>4. QED
  BY <1>1, <1>3, FreedKeeps

LEMMA ConsumeKeeps ==
  ASSUME VanityInv, NEW r \in Clients, V!Consume(r)
  PROVE  VanityInv'
<1> USE DEF VanityInv
<1> DEFINE c == call[r]
           hit == {a \in V!Under(c.rid) : V!MayConsume(a, c)}
<1>1. /\ c.key \in Launches /\ c.key # V!None
      /\ address' = [a \in Stock |-> IF a \in hit THEN [address[a] EXCEPT !.status = "CONSUMED", !.launch = c.key]
                                 ELSE address[a]]
      /\ granted' = granted \cup {<<a, c.rid, c.key>> : a \in hit}
      /\ call' = [call EXCEPT ![r] = V!NoCall] /\ UNCHANGED <<rids, now>>
      /\ \A a \in hit : ~V!Locked(a)
  BY DEF V!Consume, V!Ends, CallsOK, V!NamesApart
<1>0. c.key # V!None /\ rids' = rids
  BY <1>1
<1>2. \A a \in hit : /\ a \in Stock /\ address[a].rid = c.rid
                     /\ \/ address[a].status = "RESERVED"
                        \/ address[a].status = "CONSUMED" /\ address[a].launch = c.key
  BY DEF V!Under, V!MayConsume
<1>3. \A a \in Stock :
        /\ address'[a].rid = address[a].rid /\ address'[a].by = address[a].by /\ address'[a].expires = address[a].expires
        /\ a \in hit => address'[a].status = "CONSUMED" /\ address'[a].launch = c.key
        /\ a \notin hit => address'[a] = address[a]
        /\ address'[a] \in RowType
  <2> SUFFICES ASSUME NEW a \in Stock
               PROVE  /\ address'[a].rid = address[a].rid /\ address'[a].by = address[a].by /\ address'[a].expires = address[a].expires
                      /\ a \in hit => address'[a].status = "CONSUMED" /\ address'[a].launch = c.key
                      /\ a \notin hit => address'[a] = address[a]
                      /\ address'[a] \in RowType
    OBVIOUS
  <2>1. CASE a \in hit
    <3> DEFINE m == [address[a] EXCEPT !.status = "CONSUMED"]
               k == [m EXCEPT !.launch = c.key]
    <3>1. m \in RowType /\ m.status = "CONSUMED" /\ m.rid = address[a].rid /\ m.by = address[a].by
          /\ m.expires = address[a].expires
      BY DEF Types, RowType
    <3> HIDE DEF m
    <3>2. k \in RowType /\ k.status = "CONSUMED" /\ k.rid = address[a].rid /\ k.by = address[a].by
          /\ k.expires = address[a].expires /\ k.launch = c.key
      BY <1>1, <3>1 DEF RowType
    <3>3. address'[a] = k
      BY <1>1, <2>1 DEF m
    <3>4. QED
      BY <2>1, <3>2, <3>3
  <2>2. CASE a \notin hit
    BY <1>1, <2>2 DEF Types
  <2>3. QED
    BY <2>1, <2>2
<1> HIDE DEF hit
<1>4. V!NamesApart' /\ Types'
  BY <1>1, <1>3, NoCallType DEF V!NamesApart, Types
<1>5. /\ \A o \in Clients : call'[o].pc # "idle" => o # r /\ call'[o] = call[o]
      /\ \A o \in Clients : call'[o].now <= now
  <2>1. \A o \in Clients : call'[o] = IF o = r THEN V!NoCall ELSE call[o]
    BY <1>1 DEF Types
  <2>2. V!NoCall.pc = "idle" /\ V!NoCall.now <= now
    BY NoCallType DEF Types
  <2>3. QED
    BY <2>1, <2>2 DEF CallsOK
<1>6. CallsOK'
  BY <1>1, <1>5 DEF CallsOK, Picking
<1>7. TakesTurns'
  BY <1>3, <1>5 DEF TakesTurns, Picking
<1>8. PickedIsLocked'
  <2>1. \A o \in Clients : call'[o].pc = "picked" =>
          call'[o] = call[o] /\ call[o].pick \notin hit /\ call[o].pick \in Stock
    BY <1>1, <1>5 DEF PickedIsLocked, V!Locked
  <2>2. QED
    BY <1>3, <2>1 DEF PickedIsLocked
<1>9. GrantedIsConsumed'
  <2>1. \A g \in granted : address'[g[1]].launch = address[g[1]].launch /\ address'[g[1]].status = "CONSUMED"
    BY <1>2, <1>3 DEF GrantedIsConsumed
  <2>2. \A g \in granted : /\ g[1] \in Stock /\ address'[g[1]].status = "CONSUMED"
                           /\ g = <<g[1], address'[g[1]].rid, address'[g[1]].launch>>
    BY <1>3, <2>1 DEF GrantedIsConsumed
  <2>3. \A a \in hit : <<a, c.rid, c.key>> = <<a, address'[a].rid, address'[a].launch>> /\ address'[a].status = "CONSUMED"
    BY <1>2, <1>3
  <2>4. \A g \in granted' : g \in granted \/ \E a \in hit : g = <<a, c.rid, c.key>>
    BY <1>1
  <2>5. \A a \in hit : LET g == <<a, c.rid, c.key>>
                      IN  /\ g[1] \in Stock /\ address'[g[1]].status = "CONSUMED"
                          /\ g = <<g[1], address'[g[1]].rid, address'[g[1]].launch>>
    BY <1>2, <2>3
  <2>6. QED
    BY <2>2, <2>4, <2>5 DEF GrantedIsConsumed
<1>10. IdsAreIssued' /\ V!TypeOK'
  <2>1. IdsAreIssued'
    BY <1>0, <1>3 DEF IdsAreIssued
  <2>2. \A a \in hit : address[a].by # V!None
    BY <1>2 DEF V!TypeOK
  <2>3. \A a \in Stock : /\ address'[a].status \in {"AVAILABLE", "RESERVED", "CONSUMED", "RETIRED"}
                         /\ (address'[a].by = V!None) <=> (address'[a].status \in {"AVAILABLE", "RETIRED"})
                         /\ (address'[a].launch # V!None) <=> (address'[a].status = "CONSUMED")
    BY <1>0, <1>3, <2>2 DEF V!TypeOK
  <2>4. \A a, b \in Stock : a # b /\ address'[a].rid = address'[b].rid => address'[a].rid = 0
    BY <1>3 DEF V!TypeOK
  <2>5. QED
    BY <2>1, <2>3, <2>4 DEF V!TypeOK
<1>11. V!OneLivePerUser'
  BY <1>1, <1>3 DEF V!OneLivePerUser, V!Live
<1>12. QED
  BY <1>4, <1>6, <1>7, <1>8, <1>9, <1>10, <1>11

LEMMA VanityStep == VanityInv /\ [V!Next]_(V!vars) => VanityInv'
<1> SUFFICES ASSUME VanityInv, [V!Next]_(V!vars) PROVE VanityInv'
  OBVIOUS
<1>1. ASSUME NEW r \in Clients, NEW u \in Users, NEW k \in UserKeys, V!AskReserve(r, u, k) PROVE VanityInv'
  BY <1>1, AskKeeps DEF V!AskReserve
<1>2. ASSUME NEW r \in Clients, NEW u \in Users, NEW rid \in 1..rids, V!AskRelease(r, u, rid) PROVE VanityInv'
  <2>1. rid \in Nat
    BY DEF VanityInv, Types
  <2>2. QED
    BY <1>2, <2>1, AskKeeps DEF V!AskRelease
<1>3. ASSUME NEW r \in Clients, NEW l \in Launches, NEW rid \in 1..rids, V!AskConsume(r, l, rid) PROVE VanityInv'
  <2>1. rid \in Nat
    BY DEF VanityInv, Types
  <2>2. QED
    BY <1>3, <2>1, AskKeeps DEF V!AskConsume
<1>4. ASSUME NEW r \in Clients, V!Enter(r) PROVE VanityInv'
  BY <1>4, EnterKeeps
<1>5. ASSUME NEW r \in Clients, V!Pick(r) PROVE VanityInv'
  BY <1>5, PickKeeps
<1>6. ASSUME NEW r \in Clients, V!Reserve(r) PROVE VanityInv'
  BY <1>6, ReserveKeeps
<1>7. ASSUME NEW r \in Clients, V!Release(r) PROVE VanityInv'
  BY <1>7, ReleaseKeeps
<1>8. ASSUME NEW r \in Clients, V!Consume(r) PROVE VanityInv'
  BY <1>8, ConsumeKeeps
<1>9. ASSUME NEW a \in Stock, V!Retire(a) PROVE VanityInv'
  BY <1>9, RetireKeeps
<1>10. CASE V!Tick
  BY <1>10 DEF V!Tick, VanityInv, V!NamesApart, Types, RowType, CallType, CallsOK, Picking, TakesTurns, PickedIsLocked,
               GrantedIsConsumed, IdsAreIssued, V!TypeOK, V!OneLivePerUser, V!Live
<1>11. CASE UNCHANGED V!vars
  BY <1>11 DEF V!vars, VanityInv, V!NamesApart, Types, CallsOK, Picking, TakesTurns, PickedIsLocked,
               GrantedIsConsumed, IdsAreIssued, V!TypeOK, V!OneLivePerUser, V!Live
<1>12. QED
  BY <1>1, <1>2, <1>3, <1>4, <1>5, <1>6, <1>7, <1>8, <1>9, <1>10, <1>11 DEF V!Next

\* The strengthening holds in every reachable state.
THEOREM VanityInvariant == V!NamesApart /\ V!Spec => []VanityInv
<1>1. QED
  BY VanityInit, VanityStep, PTL DEF V!Spec

LEMMA VanityMeans == VanityInv => V!VanityIsExclusive
BY DEF VanityInv, V!VanityIsExclusive, V!OneLaunchPerAddress, GrantedIsConsumed

\* vanityService: whatever a user's requests, expiries, releases and launches race for, one live
\* reservation is theirs at most, and the secret of an address is handed to one launch.
THEOREM AddressesAreExclusive == V!NamesApart /\ V!Spec => []V!VanityIsExclusive
BY VanityMeans, VanityInvariant, PTL

-----------------------------------------------------------------------------
(* Wallet verification.  Any number of requests may race over any number   *)
(* of challenges: what keeps a challenge from linking twice is that the    *)
(* one request that has consumed it and not yet linked is alone with it,   *)
(* and that nothing was linked by it before.                               *)

ChallengeType == [user: Users \cup {NoValue}, address: Wallets \cup {NoValue}, consumed: BOOLEAN, expired: BOOLEAN]

VerifyType == [pc: {"idle", "read", "consume", "link", "conflict"}, user: Users \cup {NoValue},
               challenge: Challenges \cup {NoValue}, address: Wallets \cup {NoValue}]

\* Past the read, a request carries the user and the address its challenge was issued for.
Answers(v) ==
  /\ v.challenge \in Challenges /\ v.user \in Users /\ v.address \in Wallets
  /\ challenge[v.challenge].user = v.user /\ challenge[v.challenge].address = v.address

CarriesItsProof ==
  \A r \in Clients :
    /\ verify[r].pc # "idle" =>
         verify[r].challenge \in Challenges /\ verify[r].user \in Users /\ verify[r].address \in Wallets
    /\ verify[r].pc \in {"consume", "link"} => Answers(verify[r])

\* Who is about to link has consumed a challenge that has linked nothing, and is alone with it.
LinksAlone ==
  \A r \in Clients : verify[r].pc = "link" =>
    /\ challenge[verify[r].challenge].consumed /\ links[verify[r].challenge] = 0
    /\ \A o \in Clients :
         verify[o].pc = "link" /\ verify[o].challenge = verify[r].challenge => o = r

\* Only a consumed challenge has linked anything.
LinkedIsConsumed ==
  \A c \in Challenges : links[c] <= 1 /\ (links[c] > 0 => challenge[c].consumed)

WalletInv ==
  /\ W!NoneIsNobody
  /\ W!TypeOK /\ CarriesItsProof /\ LinksAlone /\ LinkedIsConsumed /\ W!OwnersHaveProof

-----------------------------------------------------------------------------
LEMMA WalletInit == W!NoneIsNobody /\ W!Init => WalletInv
BY DEF WalletInv, W!Init, W!NoneIsNobody, W!TypeOK, CarriesItsProof, LinksAlone, LinkedIsConsumed, W!OwnersHaveProof,
       W!NoChallenge, W!NoVerify

\* A request that gives up leaves the others what they had.
LEMMA EndsKeeps ==
  ASSUME WalletInv, NEW r \in Clients, W!Ends(r), UNCHANGED <<challenge, wallet, links>>
  PROVE  WalletInv'
BY DEF WalletInv, W!Ends, W!NoneIsNobody, W!TypeOK, CarriesItsProof, Answers, LinksAlone, LinkedIsConsumed,
       W!OwnersHaveProof, W!NoVerify

LEMMA IssueKeeps ==
  ASSUME WalletInv, NEW c \in Challenges, NEW u \in Users, NEW a \in Wallets, W!Issue(c, u, a)
  PROVE  WalletInv'
<1> USE DEF WalletInv, W!Issue, W!NoneIsNobody, W!NoChallenge
<1>1. W!TypeOK' /\ W!NoneIsNobody'
  BY DEF W!TypeOK
<1>2. links[c] = 0
  BY DEF W!TypeOK, LinkedIsConsumed
<1>3. \A r \in Clients : verify[r].pc \in {"consume", "link"} => verify[r].challenge # c
  BY DEF W!TypeOK, CarriesItsProof, Answers
<1>4. CarriesItsProof'
  BY <1>3 DEF W!TypeOK, CarriesItsProof, Answers
<1>5. LinksAlone'
  BY <1>3 DEF W!TypeOK, LinksAlone
<1>6. LinkedIsConsumed'
  BY <1>2 DEF W!TypeOK, LinkedIsConsumed
<1>7. W!OwnersHaveProof'
  BY <1>2 DEF W!TypeOK, W!OwnersHaveProof
<1>8. QED
  BY <1>1, <1>4, <1>5, <1>6, <1>7

LEMMA ExpireKeeps ==
  ASSUME WalletInv, NEW c \in Challenges, W!Expire(c)
  PROVE  WalletInv'
<1> USE DEF WalletInv, W!Expire
<1>1. challenge' \in [Challenges -> ChallengeType]
  <2>1. challenge \in [Challenges -> ChallengeType]
    BY DEF W!TypeOK, ChallengeType
  <2>2. [challenge[c] EXCEPT !.expired = TRUE] \in ChallengeType
    BY <2>1 DEF ChallengeType
  <2>3. QED
    BY <2>1, <2>2
<1>2. W!TypeOK' /\ W!NoneIsNobody'
  BY <1>1 DEF W!TypeOK, ChallengeType, W!NoneIsNobody
<1>3. \A d \in Challenges : /\ challenge'[d].user = challenge[d].user
                            /\ challenge'[d].address = challenge[d].address
                            /\ challenge'[d].consumed = challenge[d].consumed
  BY DEF W!TypeOK
<1>4. CarriesItsProof'
  BY <1>3 DEF CarriesItsProof, Answers
<1>5. LinksAlone' /\ LinkedIsConsumed'
  BY <1>3 DEF LinksAlone, LinkedIsConsumed, CarriesItsProof
<1>6. W!OwnersHaveProof'
  BY <1>3 DEF W!OwnersHaveProof
<1>7. QED
  BY <1>2, <1>4, <1>5, <1>6

LEMMA VerifyKeeps ==
  ASSUME WalletInv, NEW r \in Clients, NEW u \in Users, NEW c \in Challenges, NEW a \in Wallets,
         W!Verify(r, u, c, a)
  PROVE  WalletInv'
<1> USE DEF WalletInv, W!Verify
<1>1. W!TypeOK' /\ W!NoneIsNobody' /\ LinkedIsConsumed' /\ W!OwnersHaveProof'
  BY DEF W!NoneIsNobody, W!TypeOK, LinkedIsConsumed, W!OwnersHaveProof
<1>2. \A o \in Clients : verify'[o].pc \in {"consume", "link"} => verify'[o] = verify[o]
  BY DEF W!TypeOK
<1>3. CarriesItsProof'
  BY <1>2 DEF W!TypeOK, CarriesItsProof, Answers
<1>4. LinksAlone'
  BY <1>2 DEF W!TypeOK, LinksAlone
<1>5. QED
  BY <1>1, <1>3, <1>4

LEMMA ConsumeProofKeeps ==
  ASSUME WalletInv, NEW r \in Clients, W!Consume(r)
  PROVE  WalletInv'
<1> DEFINE c == verify[r].challenge
<1> USE DEF WalletInv
<1>1. c \in Challenges /\ verify[r].pc = "consume" /\ Answers(verify[r])
  BY DEF W!Consume, CarriesItsProof
<1>2. challenge' = [challenge EXCEPT ![c] = [challenge[c] EXCEPT !.consumed = TRUE]]
      /\ UNCHANGED <<wallet, links>>
  BY DEF W!Consume
<1>3. W!TypeOK' /\ W!NoneIsNobody' /\ LinkedIsConsumed' /\ W!OwnersHaveProof'
  <2>1. challenge' \in [Challenges -> ChallengeType]
    <3>1. challenge \in [Challenges -> ChallengeType]
      BY DEF W!TypeOK, ChallengeType
    <3>2. [challenge[c] EXCEPT !.consumed = TRUE] \in ChallengeType
      BY <1>1, <3>1 DEF ChallengeType
    <3>3. QED
      BY <1>2, <3>1, <3>2
  <2>2. W!TypeOK' /\ W!NoneIsNobody'
    <3>1. verify' = [verify EXCEPT ![r] = W!NoVerify] \/ verify' = [verify EXCEPT ![r].pc = "link"]
      BY DEF W!Consume, W!Ends, W!Goes
    <3>2. DOMAIN verify = Clients /\ \A o \in Clients : verify[o] \in VerifyType
      BY DEF W!TypeOK, VerifyType
    <3>3. W!NoVerify \in VerifyType /\ [verify[r] EXCEPT !.pc = "link"] \in VerifyType
      BY <3>2 DEF W!NoVerify, VerifyType
    <3>4. verify' \in [Clients -> VerifyType]
      BY <3>1, <3>2, <3>3 DEF W!TypeOK
    <3>5. QED
      BY <1>2, <2>1, <3>4 DEF ChallengeType, VerifyType, W!NoneIsNobody, W!TypeOK
  <2>3. LinkedIsConsumed'
    BY <1>1, <1>2 DEF W!TypeOK, LinkedIsConsumed
  <2>4. W!OwnersHaveProof'
    BY <1>1, <1>2 DEF W!TypeOK, W!OwnersHaveProof
  <2>5. QED
    BY <2>2, <2>3, <2>4
<1>4. CarriesItsProof'
  BY <1>1, <1>2 DEF W!Consume, W!Ends, W!Goes, W!NoVerify, W!NoneIsNobody, W!TypeOK, CarriesItsProof, Answers
<1>5. LinksAlone'
  <2>1. CASE W!Taken(c)
    BY <1>1, <1>2, <2>1 DEF W!Consume, W!Ends, W!NoVerify, W!TypeOK, LinksAlone, CarriesItsProof, Answers
  <2>2. CASE ~W!Taken(c)
    <3>1. links[c] = 0 /\ \A o \in Clients : verify[o].pc = "link" => verify[o].challenge # c
      BY <1>1, <2>2 DEF W!Taken, W!TypeOK, LinksAlone, LinkedIsConsumed
    <3>2. QED
      BY <1>1, <1>2, <2>2, <3>1 DEF W!Consume, W!Goes, W!TypeOK, LinksAlone, CarriesItsProof, Answers
  <2>3. QED
    BY <2>1, <2>2
<1>6. QED
  BY <1>3, <1>4, <1>5

LEMMA LinkKeeps ==
  ASSUME WalletInv, NEW r \in Clients, W!Link(r)
  PROVE  WalletInv'
<1> DEFINE v == verify[r]
<1> USE DEF WalletInv
<1>1. /\ v.pc = "link" /\ Answers(v) /\ challenge' = challenge
      /\ challenge[v.challenge].consumed /\ links[v.challenge] = 0
  BY DEF W!Link, CarriesItsProof, LinksAlone
<1>2. CASE wallet[v.address] = NoValue
  <2>1. /\ wallet' = [wallet EXCEPT ![v.address] = v.user]
        /\ links' = [links EXCEPT ![v.challenge] = @ + 1]
        /\ verify' = [verify EXCEPT ![r] = W!NoVerify]
    BY <1>1, <1>2 DEF W!Link, W!Ends
  <2>2. wallet' \in [Wallets -> Users \cup {NoValue}] /\ links' \in [Challenges -> Nat]
    BY <1>1, <2>1 DEF W!TypeOK, Answers
  <2>3. W!TypeOK' /\ W!NoneIsNobody'
    BY <1>1, <2>1, <2>2 DEF W!NoVerify, W!NoneIsNobody, W!TypeOK
  <2>4. CarriesItsProof'
    BY <1>1, <2>1 DEF W!NoVerify, W!TypeOK, CarriesItsProof, Answers
  <2>5. \A o \in Clients : verify'[o].pc = "link" =>
          verify'[o] = verify[o] /\ verify[o].challenge # v.challenge /\ verify[o].challenge \in Challenges
    BY <1>1, <2>1 DEF W!NoVerify, W!TypeOK, LinksAlone, CarriesItsProof
  <2>6. LinksAlone'
    BY <1>1, <2>1, <2>5 DEF W!TypeOK, LinksAlone
  <2>7. LinkedIsConsumed'
    BY <1>1, <2>1 DEF W!TypeOK, LinkedIsConsumed, Answers
  <2>8. W!OwnersHaveProof'
    <3> SUFFICES ASSUME NEW a \in Wallets, wallet'[a] # NoValue
                 PROVE  \E c \in Challenges : /\ challenge[c].user = wallet'[a] /\ challenge[c].address = a
                                              /\ challenge[c].consumed /\ links'[c] > 0
      BY <1>1 DEF W!OwnersHaveProof
    <3>1. CASE a = v.address
      BY <1>1, <2>1, <3>1 DEF W!TypeOK, Answers
    <3>2. CASE a # v.address
      BY <1>1, <2>1, <3>2 DEF W!TypeOK, W!OwnersHaveProof, Answers
    <3>3. QED
      BY <3>1, <3>2
  <2>9. QED
    BY <2>3, <2>4, <2>6, <2>7, <2>8
<1>3. CASE wallet[v.address] # NoValue
  <2>1. verify' = [verify EXCEPT ![r].pc = "conflict"] /\ UNCHANGED <<challenge, wallet, links>>
    BY <1>1, <1>3 DEF W!Link, W!Goes
  <2>2. W!TypeOK' /\ W!NoneIsNobody' /\ LinkedIsConsumed' /\ W!OwnersHaveProof'
    BY <2>1 DEF W!NoneIsNobody, W!TypeOK, LinkedIsConsumed, W!OwnersHaveProof
  <2>3. CarriesItsProof' /\ LinksAlone'
    BY <1>1, <2>1 DEF W!TypeOK, CarriesItsProof, Answers, LinksAlone
  <2>4. QED
    BY <2>2, <2>3
<1>4. QED
  BY <1>2, <1>3

LEMMA WalletStep == WalletInv /\ [W!Next]_(W!vars) => WalletInv'
<1> SUFFICES ASSUME WalletInv, [W!Next]_(W!vars) PROVE WalletInv'
  OBVIOUS
<1>1. ASSUME NEW c \in Challenges, NEW u \in Users, NEW a \in Wallets, W!Issue(c, u, a) PROVE WalletInv'
  BY <1>1, IssueKeeps
<1>2. ASSUME NEW c \in Challenges, W!Expire(c) PROVE WalletInv'
  BY <1>2, ExpireKeeps
<1>3. ASSUME NEW r \in Clients, NEW u \in Users, NEW c \in Challenges, NEW a \in Wallets, W!Verify(r, u, c, a)
      PROVE WalletInv'
  BY <1>3, VerifyKeeps
<1>4. ASSUME NEW r \in Clients, W!Read(r) PROVE WalletInv'
  <2>1. CASE W!Accepts(verify[r])
    <3>1. /\ verify[r].pc = "read" /\ verify' = [verify EXCEPT ![r].pc = "consume"]
          /\ UNCHANGED <<challenge, wallet, links>>
      BY <1>4, <2>1 DEF W!Read, W!Goes
    <3>2. verify[r].challenge \in Challenges /\ Answers(verify[r])
      BY <2>1, <3>1 DEF WalletInv, CarriesItsProof, W!Accepts, Answers
    <3>3. W!TypeOK' /\ W!NoneIsNobody'
      BY <3>1 DEF WalletInv, W!NoneIsNobody, W!TypeOK
    <3>4. LinkedIsConsumed' /\ W!OwnersHaveProof'
      BY <3>1 DEF WalletInv, LinkedIsConsumed, W!OwnersHaveProof
    <3>5. CarriesItsProof' /\ LinksAlone'
      BY <3>1, <3>2 DEF WalletInv, W!TypeOK, CarriesItsProof, Answers, LinksAlone
    <3>6. QED
      BY <3>3, <3>4, <3>5 DEF WalletInv
  <2>2. CASE ~W!Accepts(verify[r])
    BY <1>4, <2>2, EndsKeeps DEF W!Read
  <2>3. QED
    BY <2>1, <2>2
<1>5. ASSUME NEW r \in Clients, W!Consume(r) PROVE WalletInv'
  BY <1>5, ConsumeProofKeeps
<1>6. ASSUME NEW r \in Clients, W!Link(r) PROVE WalletInv'
  BY <1>6, LinkKeeps
<1>7. ASSUME NEW r \in Clients, W!Existing(r) \/ W!CutOff(r) PROVE WalletInv'
  BY <1>7, EndsKeeps DEF W!Existing, W!CutOff
<1>8. ASSUME NEW u \in Users, NEW a \in Wallets, W!Unlink(u, a) PROVE WalletInv'
  BY <1>8 DEF W!Unlink, WalletInv, W!NoneIsNobody, W!TypeOK, CarriesItsProof, Answers, LinksAlone, LinkedIsConsumed,
              W!OwnersHaveProof
<1>9. CASE UNCHANGED W!vars
  BY <1>9 DEF W!vars, WalletInv, W!NoneIsNobody, W!TypeOK, CarriesItsProof, Answers, LinksAlone, LinkedIsConsumed,
              W!OwnersHaveProof
<1>10. QED
  BY <1>1, <1>2, <1>3, <1>4, <1>5, <1>6, <1>7, <1>8, <1>9 DEF W!Next

\* The strengthening holds in every reachable state.
THEOREM WalletInvariant == W!NoneIsNobody /\ W!Spec => []WalletInv
<1>1. QED
  BY WalletInit, WalletStep, PTL DEF W!Spec

LEMMA WalletMeans == WalletInv => W!ProofsAreUsedOnce
BY DEF WalletInv, W!ProofsAreUsedOnce, W!OneLinkPerChallenge, LinkedIsConsumed

\* verifyWalletChallenge: however requests with one signed answer race, are cut off or are repeated
\* after an unlink, a challenge creates one row at most, and who holds an address was issued a
\* challenge for it, which is consumed.
THEOREM SignedAnswersLinkOnce == W!NoneIsNobody /\ W!Spec => []W!ProofsAreUsedOnce
BY WalletMeans, WalletInvariant, PTL

-----------------------------------------------------------------------------
(* Vanity addresses, over a step: what is picked stays free until it is    *)
(* taken, so no reservation takes an address from a live one.              *)

PickedIsFree == \A r \in Clients : call[r].pc = "picked" => V!InStock(call[r].pick, call[r].now)

\* Whose row was live keeps it, or the row goes back.
KeepsLive == \A a \in Stock : V!Live(a) => address'[a].by \in {address[a].by, V!None}

\* The rows rest, and a call rests, ends or begins.
LEMMA CallFree ==
  ASSUME VanityInv, PickedIsFree, UNCHANGED address, NEW r \in Clients, NEW next,
         call' = [call EXCEPT ![r] = next], next.pc = "picked" => V!InStock(next.pick, next.now)
  PROVE  PickedIsFree' /\ KeepsLive
<1>1. call \in [Clients -> CallType] /\ call'[r] = next /\ \A o \in Clients \ {r} : call'[o] = call[o]
  BY DEF VanityInv, Types
<1>2. PickedIsFree'
  BY <1>1 DEF PickedIsFree, V!InStock
<1> QED
  BY <1>2 DEF KeepsLive

\* A row nobody has picked changes, to the same owner's or to nobody's.
LEMMA RowFree ==
  ASSUME VanityInv, PickedIsFree, NEW r \in Clients, call' = [call EXCEPT ![r] = V!NoCall] \/ call' = call,
         \A a \in Stock : address'[a] # address[a] =>
           ~V!Locked(a) /\ address'[a].by \in {address[a].by, V!None}
  PROVE  PickedIsFree' /\ KeepsLive
<1>1. \A o \in Clients : call'[o].pc = "picked" => call'[o] = call[o]
  BY DEF VanityInv, Types, V!NoCall
<1>2. PickedIsFree'
  <2> SUFFICES ASSUME NEW o \in Clients, call'[o].pc = "picked"
               PROVE  V!InStock(call[o].pick, call[o].now)'
    BY <1>1 DEF PickedIsFree, V!InStock
  <2>1. call'[o] = call[o] /\ call[o].pick \in Stock /\ V!InStock(call[o].pick, call[o].now)
    BY <1>1 DEF VanityInv, PickedIsLocked, PickedIsFree
  <2>2. address'[call[o].pick] = address[call[o].pick]
    BY <2>1 DEF V!Locked
  <2> QED
    BY <2>1, <2>2 DEF V!InStock
<1>3. KeepsLive
  BY DEF KeepsLive
<1> QED
  BY <1>2, <1>3

LEMMA ReserveFree ==
  ASSUME VanityInv, PickedIsFree, NEW r \in Clients, V!Reserve(r)
  PROVE  PickedIsFree' /\ KeepsLive
<1> DEFINE p == call[r].pick
<1>1. /\ call[r].pc = "picked" /\ p \in Stock /\ call' = [call EXCEPT ![r] = V!NoCall]
      /\ \A o \in Clients : call[o].pc = "picked" /\ call[o].pick = p => o = r
      /\ V!InStock(p, call[r].now) /\ call[r].now <= now
      /\ \A a \in Stock \ {p} : address'[a] = address[a]
  BY DEF V!Reserve, V!Ends, VanityInv, Types, PickedIsLocked, CallsOK, PickedIsFree
<1>2. ~V!Live(p)
  <2>1. call[r].now \in Nat /\ now \in Nat /\ address[p].expires \in Nat
    BY <1>1 DEF VanityInv, Types, CallType, RowType
  <2> QED
    BY <1>1, <2>1 DEF V!InStock, V!Live
<1>3. \A o \in Clients : call'[o].pc = "picked" => o # r /\ call'[o] = call[o]
  BY <1>1 DEF VanityInv, Types, V!NoCall
<1>4. PickedIsFree'
  <2> SUFFICES ASSUME NEW o \in Clients, call'[o].pc = "picked"
               PROVE  V!InStock(call[o].pick, call[o].now)'
    BY <1>3 DEF PickedIsFree, V!InStock
  <2>1. /\ o # r /\ call'[o] = call[o] /\ call[o].pick \in Stock \ {p}
        /\ V!InStock(call[o].pick, call[o].now)
    BY <1>1, <1>3 DEF VanityInv, PickedIsLocked, PickedIsFree
  <2>2. address'[call[o].pick] = address[call[o].pick]
    BY <1>1, <2>1
  <2> QED
    BY <2>1, <2>2 DEF V!InStock
<1>5. KeepsLive
  BY <1>1, <1>2 DEF KeepsLive
<1> QED
  BY <1>4, <1>5

LEMMA FreeInit == V!NamesApart /\ V!Init => PickedIsFree
BY DEF V!Init, V!NoCall, PickedIsFree

LEMMA FreeStep == VanityInv /\ PickedIsFree /\ [V!Next]_(V!vars) => PickedIsFree' /\ KeepsLive
<1> SUFFICES ASSUME VanityInv, PickedIsFree, [V!Next]_(V!vars) PROVE PickedIsFree' /\ KeepsLive
  OBVIOUS
<1>1. ASSUME NEW r \in Clients, NEW kind, NEW by, NEW key, NEW rid, V!Ask(r, kind, by, key, rid)
      PROVE  PickedIsFree' /\ KeepsLive
  BY <1>1, CallFree DEF V!Ask
<1>2. ASSUME NEW r \in Clients, V!Enter(r)
      PROVE  PickedIsFree' /\ KeepsLive
  <2>1. CASE call' = [call EXCEPT ![r] = V!NoCall]
    BY <1>2, <2>1, CallFree DEF V!Enter, V!NoCall
  <2>2. CASE call' = [call EXCEPT ![r].pc = "pick"]
    <3>1. call' = [call EXCEPT ![r] = [call[r] EXCEPT !.pc = "pick"]] /\ [call[r] EXCEPT !.pc = "pick"].pc = "pick"
      BY <2>2 DEF VanityInv, Types, CallType
    <3> QED
      BY <1>2, <3>1, CallFree DEF V!Enter
  <2> QED
    BY <1>2, <2>1, <2>2 DEF V!Enter, V!Ends
<1>3. ASSUME NEW r \in Clients, V!Pick(r)
      PROVE  PickedIsFree' /\ KeepsLive
  <2>1. CASE call' = [call EXCEPT ![r] = V!NoCall]
    BY <1>3, <2>1, CallFree DEF V!Pick, V!NoCall
  <2>2. ASSUME NEW a \in Stock, V!InStock(a, call[r].now),
               call' = [call EXCEPT ![r].pc = "picked", ![r].pick = a]
        PROVE  PickedIsFree' /\ KeepsLive
    <3> DEFINE next == [[call[r] EXCEPT !.pc = "picked"] EXCEPT !.pick = a]
    <3>1. call' = [call EXCEPT ![r] = next]
      BY <2>2 DEF VanityInv, Types
    <3>2. call[r] \in CallType
      BY DEF VanityInv, Types
    <3>3. next.pick = a /\ next.now = call[r].now
      BY <3>2 DEF CallType
    <3> HIDE DEF next
    <3> QED
      BY <1>3, <2>2, <3>1, <3>3, CallFree DEF V!Pick
  <2> QED
    BY <1>3, <2>1, <2>2 DEF V!Pick, V!Ends
<1>4. ASSUME NEW r \in Clients, V!Release(r)
      PROVE  PickedIsFree' /\ KeepsLive
  BY <1>4, RowFree DEF V!Release, V!Ends, V!Fresh
<1>5. ASSUME NEW r \in Clients, V!Consume(r)
      PROVE  PickedIsFree' /\ KeepsLive
  <2>1. call' = [call EXCEPT ![r] = V!NoCall]
    BY <1>5 DEF V!Consume, V!Ends
  <2>2. \A a \in Stock : address'[a] # address[a] => ~V!Locked(a) /\ address'[a].by = address[a].by
    BY <1>5 DEF V!Consume, VanityInv, Types, RowType
  <2> QED
    BY <2>1, <2>2, RowFree
<1>6. ASSUME NEW a \in Stock, V!Retire(a)
      PROVE  PickedIsFree' /\ KeepsLive
  <2>1. call' = call /\ ~V!Locked(a) /\ address' = [address EXCEPT ![a] = V!Fresh("RETIRED")]
    BY <1>6 DEF V!Retire
  <2>2. \A b \in Stock : address'[b] # address[b] => ~V!Locked(b) /\ address'[b].by = V!None
    BY <2>1 DEF VanityInv, Types, V!Fresh
  <2>3. CASE Clients = {}
    BY <2>2, <2>3 DEF PickedIsFree, KeepsLive
  <2>4. CASE Clients # {}
    BY <2>1, <2>2, <2>4, RowFree
  <2> QED
    BY <2>3, <2>4
<1>7. CASE UNCHANGED <<address, call>>
  BY <1>7 DEF PickedIsFree, V!InStock, KeepsLive
<1> QED
  BY <1>1, <1>2, <1>3, <1>4, <1>5, <1>6, <1>7, ReserveFree
     DEF V!Next, V!AskReserve, V!AskRelease, V!AskConsume, V!Tick, V!vars

-----------------------------------------------------------------------------
(* pump.fun.  A transaction is settled once, and whoever still holds one   *)
(* that a fork dropped had fetched it before; the phase and the snapshot   *)
(* are each that of something stored and behind nothing that is.           *)

\* The reconciliation holds provisional events of finalized slots.
TodoIsPending == \A t \in rec.todo : events[t] = "provisional" /\ t <= finalized

\* Who still holds a dropped transaction had fetched it before the fork.
HeldAreRaced == \A f \in Fetchers : held[f] \in dropped => held[f] \in raced

OrphansAreDropped == \A t \in L!Lifecycle : events[t] = "orphaned" => t \in dropped

\* The phase is that of a stored event and behind none; the snapshot likewise.
PhaseFollowsEvents ==
  /\ \A t \in L!Stored : L!Rank(t) <= phase.rank
  /\ phase.rank = -1 \/ \E t \in L!Stored : L!Rank(t) = phase.rank

StoredTrades == {t \in L!Trading : chainTrades[t] # "none"}

SnapshotFollowsTrades ==
  /\ \A t \in StoredTrades : t <= snap.at
  /\ snap.at = 0 \/ snap.at \in StoredTrades

PumpInv ==
  /\ L!KnownKinds /\ L!TypeOK /\ TodoIsPending /\ HeldAreRaced /\ OrphansAreDropped
  /\ PhaseFollowsEvents /\ SnapshotFollowsTrades /\ L!FinalIsOnTheChain /\ L!OrphansLeaveTogether

-----------------------------------------------------------------------------
LEMMA PumpKindsAre ==
  ASSUME L!KnownKinds
  PROVE  /\ Len(Kinds) \in Nat /\ L!Txs = 1..Len(Kinds)
         /\ \A t \in L!Txs : Kinds[t] \in {"create", "buy", "complete", "migrate"}
         /\ L!Lifecycle \subseteq L!Txs /\ L!Trading \subseteq L!Txs
         /\ \A t \in L!Lifecycle : L!Rank(t) \in {0, 1, 3}
<1>1. /\ Len(Kinds) \in Nat /\ DOMAIN Kinds = 1..Len(Kinds)
      /\ \A t \in DOMAIN Kinds : Kinds[t] \in {"create", "buy", "complete", "migrate"}
  BY DEF L!KnownKinds
<1>2. \A t \in L!Lifecycle : Kinds[t] \in {"create", "complete", "migrate"}
  BY <1>1 DEF L!Lifecycle, L!Txs
<1> QED BY <1>1, <1>2 DEF L!Txs, L!Lifecycle, L!Trading, L!Rank

LEMMA PumpInit == L!KnownKinds /\ L!Init => PumpInv
<1> SUFFICES ASSUME L!KnownKinds, L!Init PROVE PumpInv
  OBVIOUS
<1>1. Len(Kinds) \in Nat
  BY PumpKindsAre
<1>2. L!TypeOK
  BY <1>1 DEF L!Init, L!TypeOK, L!NoRec
<1>3. TodoIsPending /\ HeldAreRaced /\ OrphansAreDropped
  BY DEF L!Init, TodoIsPending, HeldAreRaced, OrphansAreDropped, L!NoRec
<1>4. PhaseFollowsEvents /\ SnapshotFollowsTrades
  BY DEF L!Init, PhaseFollowsEvents, SnapshotFollowsTrades, L!Stored, StoredTrades
<1>5. L!FinalIsOnTheChain /\ L!OrphansLeaveTogether
  BY DEF L!Init, L!FinalIsOnTheChain, L!OrphansLeaveTogether
<1> QED BY <1>2, <1>3, <1>4, <1>5 DEF PumpInv

-----------------------------------------------------------------------------
\* The rows, the phase and the snapshot are as they were.
LEMMA RowsRest ==
  ASSUME PumpInv, UNCHANGED L!rows, L!TypeOK', TodoIsPending', HeldAreRaced',
         dropped \subseteq dropped', raced \subseteq raced', finalized <= finalized',
         \A t \in dropped' \ dropped : finalized < t
  PROVE  PumpInv'
<1>0. UNCHANGED <<events, chainTrades, mint, phase, snap>>
  BY DEF L!rows
<1>1. L!KnownKinds'
  BY DEF PumpInv, L!KnownKinds
<1>2. OrphansAreDropped'
  BY <1>0 DEF PumpInv, OrphansAreDropped
<1>3. PhaseFollowsEvents' /\ SnapshotFollowsTrades'
  BY <1>0 DEF PumpInv, PhaseFollowsEvents, SnapshotFollowsTrades, L!Stored, StoredTrades, L!Rank
<1>4. L!FinalIsOnTheChain'
  <2> SUFFICES ASSUME NEW t \in L!Lifecycle, events[t] = "final"
               PROVE  t \notin dropped' \ raced' /\ t <= finalized'
    BY <1>0 DEF L!FinalIsOnTheChain
  <2>1. t \notin dropped \ raced /\ t <= finalized
    BY DEF PumpInv, L!FinalIsOnTheChain
  <2>2. t \in Int /\ finalized \in Int /\ finalized' \in Int
    BY PumpKindsAre DEF PumpInv, L!TypeOK
  <2>3. t \notin dropped' \ dropped
    BY <2>1, <2>2
  <2> QED BY <2>1, <2>2, <2>3
<1>5. L!OrphansLeaveTogether'
  BY <1>0 DEF PumpInv, L!OrphansLeaveTogether
<1> QED BY <1>1, <1>2, <1>3, <1>4, <1>5 DEF PumpInv

LEMMA ChainKeeps ==
  ASSUME PumpInv, L!Confirm \/ L!Finalize \/ L!RefreshHeads
  PROVE  PumpInv'
<1>1. /\ UNCHANGED <<dropped, held, events, chainTrades, mint, phase, snap, rec, clock, raced>>
      /\ slot' \in 0..Len(Kinds) /\ finalized' \in 0..slot' /\ known' \in 0..finalized'
      /\ slot <= slot' /\ finalized <= finalized'
  BY PumpKindsAre DEF L!Confirm, L!Finalize, L!RefreshHeads, PumpInv, L!TypeOK, L!rows, L!chain
<1>2. L!TypeOK'
  <2>1. slot \in Int /\ slot' \in Int /\ finalized \in Int /\ finalized' \in Int
    BY <1>1, PumpKindsAre DEF PumpInv, L!TypeOK
  <2>2. 0..slot \subseteq 0..slot' /\ 1..slot \subseteq 1..slot' /\ 0..finalized \subseteq 0..finalized'
    BY <1>1, <2>1
  <2>3. held' \in [Fetchers -> 0..slot'] /\ dropped' \subseteq 1..slot'
    BY <1>1, <2>2 DEF PumpInv, L!TypeOK
  <2>4. /\ phase' \in [rank: {-1, 0, 1, 3}, slot: 0..slot']
        /\ snap' \in [at: 0..slot', ready: BOOLEAN, graduated: BOOLEAN]
        /\ rec' \in [todo: SUBSET L!Lifecycle, settled: 0..finalized'] /\ clock' \in 0..finalized'
    BY <1>1, <2>2 DEF PumpInv, L!TypeOK
  <2> QED BY <1>1, <2>3, <2>4 DEF PumpInv, L!TypeOK
<1>3. TodoIsPending'
  <2>1. \A t \in rec.todo : t \in Int
    BY PumpKindsAre DEF PumpInv, L!TypeOK
  <2> QED BY <1>1, <2>1 DEF PumpInv, TodoIsPending, L!TypeOK
<1>4. HeldAreRaced'
  BY <1>1 DEF PumpInv, HeldAreRaced
<1> QED BY <1>1, <1>2, <1>3, <1>4, RowsRest DEF L!rows

LEMMA DropKeeps == ASSUME PumpInv, NEW t \in L!Txs, L!Drop(t) PROVE PumpInv'
<1>1. /\ UNCHANGED <<slot, finalized, known, held, events, chainTrades, mint, phase, snap, rec, clock>>
      /\ dropped' = dropped \cup {t} /\ raced \subseteq raced' /\ finalized < t /\ t <= slot
      /\ raced' = raced \cup {held[f] : f \in {g \in Fetchers : held[g] = t}}
  BY DEF L!Drop, L!rows
<1>2. L!TypeOK'
  <2>1. t \in 1..slot
    BY <1>1, PumpKindsAre DEF PumpInv, L!TypeOK
  <2>2. dropped' \subseteq 1..slot'
    BY <1>1, <2>1 DEF PumpInv, L!TypeOK
  <2> QED BY <1>1, <2>2 DEF PumpInv, L!TypeOK
<1>3. TodoIsPending'
  BY <1>1 DEF PumpInv, TodoIsPending
<1>4. HeldAreRaced'
  BY <1>1 DEF PumpInv, HeldAreRaced
<1> QED BY <1>1, <1>2, <1>3, <1>4, RowsRest DEF L!rows, PumpInv, L!TypeOK

\* A fetch, and a fetch that is given up.
LEMMA HeldKeeps ==
  ASSUME PumpInv, NEW f \in Fetchers, NEW t \in 0..slot, t \notin dropped, held' = [held EXCEPT ![f] = t],
         UNCHANGED <<L!chain, known, L!rows, rec, clock, raced>>
  PROVE  PumpInv'
<1>1. UNCHANGED <<slot, finalized, dropped, known, events, chainTrades, mint, phase, snap, rec, clock, raced>>
  BY DEF L!chain, L!rows
<1>2. held' \in [Fetchers -> 0..slot']
  BY <1>1 DEF PumpInv, L!TypeOK
<1>3. L!TypeOK' /\ TodoIsPending'
  BY <1>1, <1>2 DEF PumpInv, L!TypeOK, TodoIsPending
<1>4. HeldAreRaced'
  BY <1>1 DEF PumpInv, HeldAreRaced, L!TypeOK
<1> QED BY <1>1, <1>3, <1>4, RowsRest DEF PumpInv, L!TypeOK

LEMMA ReconcileKeeps == ASSUME PumpInv, L!Reconcile PROVE PumpInv'
<1>1. /\ UNCHANGED <<slot, finalized, dropped, known, held, events, chainTrades, mint, phase, snap, clock, raced>>
      /\ rec' = [todo |-> L!Pending, settled |-> 0]
  BY DEF L!Reconcile, L!chain, L!rows
<1>2. L!Pending \subseteq L!Lifecycle /\ 0 \in 0..finalized
  BY PumpKindsAre DEF L!Pending, PumpInv, L!TypeOK
<1>3. L!TypeOK' /\ TodoIsPending'
  BY <1>1, <1>2 DEF PumpInv, L!TypeOK, TodoIsPending, L!Pending
<1>4. HeldAreRaced'
  BY <1>1 DEF PumpInv, HeldAreRaced
<1> QED BY <1>1, <1>3, <1>4, RowsRest DEF PumpInv, L!TypeOK, L!rows

-----------------------------------------------------------------------------
(* persistPumpfunBatch. *)

LEMMA PersistKeeps ==
  ASSUME PumpInv, NEW f \in Fetchers, L!Persist(f)
  PROVE  /\ PumpInv'
         /\ \A t \in L!Lifecycle : events[t] \in {"final", "orphaned"} => events'[t] = events[t]
<1> DEFINE t == held[f]
           created == L!Created(t)
           moves == t \in L!Lifecycle /\ L!Advances(t)
           traded == IF L!Trades(t, created) THEN L!Snapshot(t) ELSE snap
<1>1. /\ UNCHANGED <<slot, finalized, dropped, known, rec, clock, raced>> /\ t # 0
      /\ chainTrades' = IF L!Trades(t, created) /\ chainTrades[t] = "none" THEN [chainTrades EXCEPT ![t] = "CANONICAL"] ELSE chainTrades
      /\ events' = IF t \in L!Lifecycle /\ L!EventIsNew(t)
                   THEN [events EXCEPT ![t] = IF t <= known THEN "final" ELSE "provisional"] ELSE events
      /\ mint' = IF moves THEN L!MirrorToken(t, created) ELSE created
      /\ snap' = IF moves THEN L!MirrorSnapshot(t, traded) ELSE traded
      /\ phase' = IF moves THEN [rank |-> L!Rank(t), slot |-> t] ELSE phase
      /\ held' = [held EXCEPT ![f] = 0]
  BY DEF L!Persist, L!chain
<1>2. /\ t \in 0..slot /\ slot \in Nat /\ finalized \in 0..slot /\ known \in 0..finalized
      /\ \A u \in L!Lifecycle \cup L!Trading : u \in Nat /\ u > 0
      /\ t \in L!Lifecycle => L!Rank(t) \in {0, 1, 3}
  BY PumpKindsAre DEF PumpInv, L!TypeOK
<1>3. /\ events \in [L!Lifecycle -> {"none", "provisional", "final", "orphaned"}]
      /\ chainTrades \in [L!Trading -> {"none", "CANONICAL", "ORPHANED"}]
      /\ mint \in [row: {"none", "CANONICAL", "ORPHANED"}, graduated: BOOLEAN]
      /\ phase \in [rank: {-1, 0, 1, 3}, slot: 0..slot]
      /\ snap \in [at: 0..slot, ready: BOOLEAN, graduated: BOOLEAN]
  BY DEF PumpInv, L!TypeOK
<1>4. /\ events' \in [L!Lifecycle -> {"none", "provisional", "final", "orphaned"}]
      /\ chainTrades' \in [L!Trading -> {"none", "CANONICAL", "ORPHANED"}]
      /\ held' \in [Fetchers -> 0..slot]
  <2>1. events' \in [L!Lifecycle -> {"none", "provisional", "final", "orphaned"}]
    BY <1>1, <1>3
  <2>2. chainTrades' \in [L!Trading -> {"none", "CANONICAL", "ORPHANED"}]
    BY <1>1, <1>3
  <2>3. held' \in [Fetchers -> 0..slot]
    BY <1>1, <1>2 DEF PumpInv, L!TypeOK
  <2> QED BY <2>1, <2>2, <2>3
<1>5. phase' \in [rank: {-1, 0, 1, 3}, slot: 0..slot]
  BY <1>1, <1>2, <1>3
<1>6. created \in [row: {"none", "CANONICAL", "ORPHANED"}, graduated: BOOLEAN]
  BY <1>3 DEF L!Created
<1>7. mint' \in [row: {"none", "CANONICAL", "ORPHANED"}, graduated: BOOLEAN]
  <2> HIDE DEF created, moves
  <2> QED BY <1>1, <1>6 DEF L!MirrorToken
<1>8. /\ traded \in [at: 0..slot, ready: BOOLEAN, graduated: BOOLEAN]
      /\ ~L!Trades(t, created) => traded.at = snap.at
      /\ L!Trades(t, created) => traded.at = IF snap.at < t THEN t ELSE snap.at
  <2>1. [[snap EXCEPT !.at = t] EXCEPT !.ready = snap.ready \/ Kinds[t] = "complete"]
          \in [at: 0..slot, ready: BOOLEAN, graduated: BOOLEAN]
    BY <1>2, <1>3
  <2> QED BY <1>2, <1>3, <2>1 DEF L!Snapshot
<1>9. snap' \in [at: 0..slot, ready: BOOLEAN, graduated: BOOLEAN] /\ snap'.at = traded.at
  <2> HIDE DEF traded, moves
  <2> QED BY <1>1, <1>8 DEF L!MirrorSnapshot
<1> HIDE DEF created, traded
<1>10. L!TypeOK'
  BY <1>1, <1>4, <1>5, <1>7, <1>9 DEF PumpInv, L!TypeOK
<1>11. \A u \in L!Lifecycle : u # t \/ events[u] # "none" => events'[u] = events[u]
  BY <1>1, <1>3 DEF L!EventIsNew
<1>12. \A u \in L!Trading : u # t \/ chainTrades[u] # "none" => chainTrades'[u] = chainTrades[u]
  BY <1>1, <1>3
<1>13. TodoIsPending' /\ HeldAreRaced' /\ L!KnownKinds'
  BY <1>1, <1>2, <1>11 DEF PumpInv, L!TypeOK, TodoIsPending, HeldAreRaced, L!KnownKinds
<1>14. t \in L!Lifecycle /\ events[t] = "none" => events'[t] = IF t <= known THEN "final" ELSE "provisional"
  BY <1>1, <1>3 DEF L!EventIsNew
<1>15. OrphansAreDropped'
  BY <1>1, <1>11, <1>14 DEF PumpInv, OrphansAreDropped
<1>16. L!FinalIsOnTheChain'
  <2> SUFFICES ASSUME NEW u \in L!Lifecycle, events'[u] = "final"
               PROVE  u \notin dropped \ raced /\ u <= finalized
    BY <1>1 DEF L!FinalIsOnTheChain
  <2>1. CASE u # t \/ events[u] # "none"
    BY <1>11, <2>1 DEF PumpInv, L!FinalIsOnTheChain
  <2>2. CASE u = t /\ events[u] = "none"
    <3>1. t <= known
      BY <1>14, <2>2
    <3> QED BY <1>2, <2>2, <3>1 DEF PumpInv, HeldAreRaced
  <2> QED BY <2>1, <2>2
<1>17. L!OrphansLeaveTogether'
  <2> SUFFICES ASSUME NEW u \in (L!Lifecycle \cap L!Trading) \ raced, chainTrades'[u] = "CANONICAL",
                      events'[u] = "orphaned"
               PROVE  FALSE
    BY <1>1 DEF L!OrphansLeaveTogether
  <2>1. u \in dropped /\ events[u] = "orphaned"
    BY <1>1, <1>11, <1>14, <1>15 DEF OrphansAreDropped
  <2>2. u # t
    BY <2>1 DEF PumpInv, HeldAreRaced
  <2> QED BY <1>12, <2>1, <2>2 DEF PumpInv, L!OrphansLeaveTogether
<1>18. L!Stored' = L!Stored \cup (IF t \in L!Lifecycle THEN {t} ELSE {})
  BY <1>11, <1>14 DEF L!Stored
<1>19. PhaseFollowsEvents'
  <2>1. \A u \in L!Lifecycle : L!Rank(u)' = L!Rank(u) /\ L!Rank(u) \in {0, 1, 3}
    BY PumpKindsAre DEF L!Rank, PumpInv
  <2>2. /\ \A u \in L!Stored : u \in L!Lifecycle /\ L!Rank(u) <= phase.rank
        /\ phase.rank = -1 \/ \E u \in L!Stored : L!Rank(u) = phase.rank
    BY DEF PumpInv, PhaseFollowsEvents, L!Stored
  <2>3. phase.rank \in Int
    BY <1>3
  <2>4. CASE moves
    <3>1. phase'.rank = L!Rank(t) /\ t \in L!Stored' /\ phase.rank <= L!Rank(t)
      BY <1>1, <1>2, <1>18, <2>3, <2>4 DEF L!Advances
    <3>2. \A u \in L!Stored' : L!Rank(u) <= L!Rank(t)
      BY <1>2, <1>18, <2>1, <2>2, <2>3, <3>1
    <3> QED BY <2>1, <2>2, <1>18, <3>1, <3>2 DEF PhaseFollowsEvents
  <2>5. CASE ~moves
    <3>1. phase' = phase
      BY <1>1, <2>5
    <3>2. t \in L!Lifecycle => L!Rank(t) <= phase.rank
      BY <1>2, <2>3, <2>5 DEF L!Advances
    <3>3. \A u \in L!Stored' : u \in L!Lifecycle /\ L!Rank(u) <= phase.rank
      BY <1>18, <2>2, <3>2
    <3>4. L!Stored \subseteq L!Stored'
      BY <1>18
    <3> QED BY <2>1, <2>2, <3>1, <3>3, <3>4 DEF PhaseFollowsEvents
  <2> QED BY <2>4, <2>5
<1>20. SnapshotFollowsTrades'
  <2>1. /\ \A u \in StoredTrades : u \in L!Trading /\ u <= snap.at
        /\ snap.at = 0 \/ snap.at \in StoredTrades
    BY DEF PumpInv, SnapshotFollowsTrades, StoredTrades
  <2>2. snap.at \in Int /\ t \in Int
    BY <1>2, <1>3
  <2>3. CASE L!Trades(t, created)
    <3>1. t \in L!Trading
      BY <2>3 DEF L!Trades
    <3>2. StoredTrades' = StoredTrades \cup {t}
      BY <1>1, <1>3, <1>12, <2>3, <3>1 DEF StoredTrades
    <3>3. snap'.at = IF snap.at < t THEN t ELSE snap.at
      BY <1>8, <1>9, <2>3
    <3> QED BY <2>1, <2>2, <3>2, <3>3, <1>2, <3>1 DEF SnapshotFollowsTrades
  <2>4. CASE ~L!Trades(t, created)
    <3>1. StoredTrades' = StoredTrades /\ snap'.at = snap.at
      BY <1>1, <1>8, <1>9, <2>4 DEF StoredTrades
    <3> QED BY <2>1, <3>1 DEF SnapshotFollowsTrades
  <2> QED BY <2>3, <2>4
<1> QED BY <1>10, <1>11, <1>13, <1>15, <1>16, <1>17, <1>19, <1>20 DEF PumpInv

-----------------------------------------------------------------------------
(* reconcilePumpfunFinality. *)

\* What is common to the three answers about a transaction of the reconciliation.
LEMMA SettleKeeps ==
  ASSUME PumpInv, NEW t \in rec.todo, NEW settled \in 0..finalized,
         NEW verdict \in {"provisional", "final", "orphaned"},
         events' = [events EXCEPT ![t] = verdict],
         verdict = "final" => t \notin dropped,
         verdict = "orphaned" => t \in dropped /\ (t \in L!Trading => chainTrades'[t] # "CANONICAL"),
         \/ chainTrades' = chainTrades
         \/ t \in L!Trading /\ chainTrades[t] # "none" /\ chainTrades' = [chainTrades EXCEPT ![t] = "ORPHANED"],
         mint' \in {mint, [mint EXCEPT !.row = "ORPHANED"]},
         L!Through(rec.todo \ {t}, settled),
         UNCHANGED <<slot, finalized, dropped, known, held, phase, snap, raced>>
  PROVE  /\ PumpInv'
         /\ \A u \in L!Lifecycle : events[u] \in {"final", "orphaned"} => events'[u] = events[u]
<1>1. /\ events \in [L!Lifecycle -> {"none", "provisional", "final", "orphaned"}]
      /\ chainTrades \in [L!Trading -> {"none", "CANONICAL", "ORPHANED"}]
      /\ mint \in [row: {"none", "CANONICAL", "ORPHANED"}, graduated: BOOLEAN]
      /\ rec \in [todo: SUBSET L!Lifecycle, settled: 0..finalized] /\ clock \in 0..finalized
      /\ finalized \in Nat
  BY PumpKindsAre DEF PumpInv, L!TypeOK
<1>2. t \in L!Lifecycle /\ t \in L!Txs /\ events[t] = "provisional" /\ t <= finalized
  BY <1>1, PumpKindsAre DEF PumpInv, TodoIsPending
<1>3. /\ events' \in [L!Lifecycle -> {"none", "provisional", "final", "orphaned"}]
      /\ chainTrades' \in [L!Trading -> {"none", "CANONICAL", "ORPHANED"}]
      /\ mint' \in [row: {"none", "CANONICAL", "ORPHANED"}, graduated: BOOLEAN]
  <2>1. events' \in [L!Lifecycle -> {"none", "provisional", "final", "orphaned"}]
    BY <1>1
  <2>2. chainTrades' \in [L!Trading -> {"none", "CANONICAL", "ORPHANED"}]
    BY <1>1
  <2>3. mint' \in [row: {"none", "CANONICAL", "ORPHANED"}, graduated: BOOLEAN]
    BY <1>1
  <2> QED BY <2>1, <2>2, <2>3
<1>4. /\ rec' \in [todo: SUBSET L!Lifecycle, settled: 0..finalized] /\ rec'.todo \subseteq rec.todo \ {t}
      /\ clock' \in 0..finalized
  <2> DEFINE rest == rec.todo \ {t}
  <2>1. rest \in SUBSET L!Lifecycle
    BY <1>1
  <2>2. rec' = IF rest = {} THEN L!NoRec ELSE [todo |-> rest, settled |-> settled]
    BY DEF L!Through
  <2>3. clock' \in 0..finalized
    BY <1>1 DEF L!Through
  <2> HIDE DEF rest
  <2>4. rec' \in [todo: SUBSET L!Lifecycle, settled: 0..finalized] /\ rec'.todo \subseteq rest
    BY <1>1, <2>1, <2>2 DEF L!NoRec
  <2> QED BY <2>3, <2>4 DEF rest
<1>5. L!TypeOK'
  BY <1>3, <1>4 DEF PumpInv, L!TypeOK
<1>6. events'[t] = verdict /\ \A u \in L!Lifecycle \ {t} : events'[u] = events[u]
  BY <1>1, <1>2
<1>7. TodoIsPending'
  <2>1. \A u \in rec'.todo : u \in rec.todo /\ u # t /\ u \in L!Lifecycle
    BY <1>1, <1>4
  <2> QED BY <1>6, <2>1 DEF PumpInv, TodoIsPending
<1>8. L!KnownKinds' /\ HeldAreRaced' /\ OrphansAreDropped'
  BY <1>6 DEF PumpInv, L!KnownKinds, HeldAreRaced, OrphansAreDropped
<1>9. L!FinalIsOnTheChain'
  BY <1>2, <1>6 DEF PumpInv, L!FinalIsOnTheChain
<1>10. \A u \in L!Trading : chainTrades'[u] # chainTrades[u] => u = t /\ chainTrades[u] # "none" /\ chainTrades'[u] = "ORPHANED"
  BY <1>1
<1>11. L!OrphansLeaveTogether'
  <2> SUFFICES ASSUME NEW u \in (L!Lifecycle \cap L!Trading) \ raced, chainTrades'[u] = "CANONICAL",
                      events'[u] = "orphaned"
               PROVE  FALSE
    BY DEF L!OrphansLeaveTogether
  <2>1. u # t
    BY <1>6
  <2> QED BY <1>6, <1>10, <2>1 DEF PumpInv, L!OrphansLeaveTogether
<1>12. L!Stored' = L!Stored /\ StoredTrades' = StoredTrades
  <2>1. L!Stored' = L!Stored
    BY <1>2, <1>6 DEF L!Stored
  <2>2. StoredTrades' = StoredTrades
    BY <1>10 DEF StoredTrades
  <2> QED BY <2>1, <2>2
<1>13. PhaseFollowsEvents' /\ SnapshotFollowsTrades'
  <2>1. \A u : L!Rank(u)' = L!Rank(u)
    BY DEF L!Rank
  <2> QED BY <1>12, <2>1 DEF PumpInv, PhaseFollowsEvents, SnapshotFollowsTrades
<1> QED BY <1>2, <1>5, <1>6, <1>7, <1>8, <1>9, <1>11, <1>13 DEF PumpInv

LEMMA PromoteKeeps ==
  ASSUME PumpInv, L!Promote
  PROVE  /\ PumpInv'
         /\ \A u \in L!Lifecycle : events[u] \in {"final", "orphaned"} => events'[u] = events[u]
<1>1. PICK t \in rec.todo :
        /\ t \notin dropped /\ events' = [events EXCEPT ![t] = "final"] /\ L!Through(rec.todo \ {t}, t)
        /\ UNCHANGED <<L!chain, known, held, chainTrades, mint, phase, snap, raced>>
  BY DEF L!Promote
<1>2. t \in 0..finalized
  BY PumpKindsAre DEF PumpInv, L!TypeOK, TodoIsPending
<1> QED BY <1>1, <1>2, SettleKeeps DEF L!chain

LEMMA OrphanKeeps ==
  ASSUME PumpInv, L!Orphan
  PROVE  /\ PumpInv'
         /\ \A u \in L!Lifecycle : events[u] \in {"final", "orphaned"} => events'[u] = events[u]
<1>1. PICK t \in rec.todo :
        /\ t \in dropped /\ events' = [events EXCEPT ![t] = "orphaned"]
        /\ chainTrades' = IF t \in L!Trading /\ chainTrades[t] # "none" THEN [chainTrades EXCEPT ![t] = "ORPHANED"] ELSE chainTrades
        /\ mint' = IF Kinds[t] = "create" THEN [mint EXCEPT !.row = "ORPHANED"] ELSE mint
        /\ L!Through(rec.todo \ {t}, rec.settled)
        /\ UNCHANGED <<L!chain, known, held, phase, snap, raced>>
  BY DEF L!Orphan
<1>2. rec.settled \in 0..finalized /\ chainTrades \in [L!Trading -> {"none", "CANONICAL", "ORPHANED"}]
  BY DEF PumpInv, L!TypeOK
<1>3. \/ chainTrades' = chainTrades
      \/ t \in L!Trading /\ chainTrades[t] # "none" /\ chainTrades' = [chainTrades EXCEPT ![t] = "ORPHANED"]
  BY <1>1
<1>4. t \in L!Trading => chainTrades'[t] # "CANONICAL"
  BY <1>1, <1>2
<1>5. mint' \in {mint, [mint EXCEPT !.row = "ORPHANED"]}
  BY <1>1
<1> QED BY <1>1, <1>2, <1>3, <1>4, <1>5, SettleKeeps DEF L!chain

LEMMA UnansweredKeeps == ASSUME PumpInv, L!Unanswered PROVE PumpInv'
<1>1. PICK t \in rec.todo :
        L!Through(rec.todo \ {t}, rec.settled) /\ UNCHANGED <<L!chain, known, held, L!rows, raced>>
  BY DEF L!Unanswered
<1>2. /\ rec.settled \in 0..finalized /\ t \in L!Lifecycle /\ events[t] = "provisional"
      /\ events \in [L!Lifecycle -> {"none", "provisional", "final", "orphaned"}]
  BY DEF PumpInv, L!TypeOK, TodoIsPending
<1>3. events' = [events EXCEPT ![t] = "provisional"]
  BY <1>1, <1>2 DEF L!rows
<1> QED BY <1>1, <1>2, <1>3, SettleKeeps DEF L!chain, L!rows

-----------------------------------------------------------------------------
LEMMA PumpStep ==
  PumpInv /\ [L!Next]_(L!vars) =>
    /\ PumpInv'
    /\ \A t \in L!Lifecycle : events[t] \in {"final", "orphaned"} => events'[t] = events[t]
<1> SUFFICES ASSUME PumpInv, [L!Next]_(L!vars)
             PROVE  /\ PumpInv'
                    /\ \A t \in L!Lifecycle : events[t] \in {"final", "orphaned"} => events'[t] = events[t]
  OBVIOUS
<1>1. CASE L!Confirm \/ L!Finalize \/ L!RefreshHeads
  BY <1>1, ChainKeeps DEF L!Confirm, L!Finalize, L!RefreshHeads, L!rows
<1>2. ASSUME NEW t \in L!Txs, L!Drop(t)
      PROVE  PumpInv' /\ UNCHANGED events
  BY <1>2, DropKeeps DEF L!Drop, L!rows
<1>3. ASSUME NEW f \in Fetchers, NEW t \in L!Txs, L!Fetch(f, t)
      PROVE  PumpInv' /\ UNCHANGED events
  <2>1. t \in 0..slot
    BY <1>3, PumpKindsAre DEF L!Fetch, PumpInv, L!TypeOK
  <2> QED BY <1>3, <2>1, HeldKeeps DEF L!Fetch, L!rows
<1>4. ASSUME NEW f \in Fetchers, L!GiveUp(f)
      PROVE  PumpInv' /\ UNCHANGED events
  <2>1. 0 \in 0..slot /\ 0 \notin dropped
    BY PumpKindsAre DEF PumpInv, L!TypeOK
  <2> QED BY <1>4, <2>1, HeldKeeps DEF L!GiveUp, L!rows
<1>5. CASE L!Reconcile
  BY <1>5, ReconcileKeeps DEF L!Reconcile, L!rows
<1>6. CASE L!Unanswered
  BY <1>6, UnansweredKeeps DEF L!Unanswered, L!rows
<1>7. CASE UNCHANGED L!vars
  <2>1. UNCHANGED <<slot, finalized, dropped, known, held, events, chainTrades, mint, phase, snap, rec, clock, raced>>
    BY <1>7 DEF L!vars, L!chain, L!rows
  <2>2. L!TypeOK' /\ TodoIsPending' /\ HeldAreRaced'
    BY <2>1 DEF PumpInv, L!TypeOK, TodoIsPending, HeldAreRaced
  <2> QED BY <2>1, <2>2, RowsRest DEF L!rows, PumpInv, L!TypeOK
<1> QED BY <1>1, <1>2, <1>3, <1>4, <1>5, <1>6, <1>7, PersistKeeps, PromoteKeeps, OrphanKeeps DEF L!Next

\* A set of numbers with a greatest element has that one as its maximum.
LEMMA MaxIs ==
  ASSUME NEW S, NEW m \in S, \A x \in S : x \in Int /\ x <= m
  PROVE  L!Max(S) = m
<1>1. \E x \in S : \A y \in S : x >= y
  BY DEF L!Max
<1>2. L!Max(S) \in S /\ \A y \in S : L!Max(S) >= y
  BY <1>1 DEF L!Max
<1> QED BY <1>2

LEMMA PumpMeans == PumpInv => L!TypeOK /\ L!PhaseIsTheFurthest /\ L!SnapshotIsTheNewest
                              /\ L!FinalIsOnTheChain /\ L!OrphansLeaveTogether
<1> SUFFICES ASSUME PumpInv PROVE L!PhaseIsTheFurthest /\ L!SnapshotIsTheNewest
  BY DEF PumpInv
<1>1. L!PhaseIsTheFurthest
  <2> DEFINE Ranks == {L!Rank(t) : t \in L!Stored} \cup {-1}
  <2>1. phase.rank \in {-1, 0, 1, 3} /\ \A t \in L!Stored : L!Rank(t) \in {0, 1, 3}
    BY PumpKindsAre DEF PumpInv, L!TypeOK, L!Stored
  <2>2. phase.rank \in Ranks /\ \A x \in Ranks : x \in Int /\ x <= phase.rank
    BY <2>1 DEF PumpInv, PhaseFollowsEvents
  <2> HIDE DEF Ranks
  <2>3. L!Max(Ranks) = phase.rank
    BY <2>2, MaxIs
  <2> QED BY <2>3 DEF L!PhaseIsTheFurthest, Ranks
<1>2. L!SnapshotIsTheNewest
  <2> DEFINE Ats == {t \in L!Trading : chainTrades[t] # "none"} \cup {0}
  <2>1. snap.at \in Nat /\ \A t \in L!Trading : t \in Int
    BY PumpKindsAre DEF PumpInv, L!TypeOK
  <2>2. snap.at \in Ats /\ \A x \in Ats : x \in Int /\ x <= snap.at
    BY <2>1 DEF PumpInv, SnapshotFollowsTrades, StoredTrades
  <2> HIDE DEF Ats
  <2>3. L!Max(Ats) = snap.at
    BY <2>2, MaxIs
  <2> QED BY <2>3 DEF L!SnapshotIsTheNewest, Ats
<1> QED BY <1>1, <1>2

\* The strengthening holds in every reachable state.
THEOREM PumpInvariant == L!KnownKinds /\ L!Spec => []PumpInv
BY PumpInit, PumpStep, PTL DEF L!Spec

\* persistPumpfunBatch and reconcilePumpfunFinality, in whatever order transactions are fetched,
\* dropped and judged: the phase is the furthest that was proven, the snapshot the newest, what is
\* final is on the chain, and a dropped transaction loses its trade with its event.
THEOREM LedgerIsHonest ==
  L!KnownKinds /\ L!Spec => [](/\ L!TypeOK /\ L!PhaseIsTheFurthest /\ L!SnapshotIsTheNewest
                             /\ L!FinalIsOnTheChain /\ L!OrphansLeaveTogether)
BY PumpMeans, PumpInvariant, PTL

-----------------------------------------------------------------------------
(* Backfill.  What is stored only grows, so it is enough that each copy of *)
(* a cursor - the row's, and every run's - was covered when it was taken   *)
(* or moved.                                                               *)

BackfillToken == [graduated: BOOLEAN, pool: BOOLEAN]
BackfillRow == [status: {"none", "RUNNING", "COMPLETE", "PARTIAL", "FAILED"}, from: Int, to: Int, cursor: Int, pool: Int]
BackfillRun == [pc: {"idle", "row", "head", "curve", "pool", "finish"}, token: BackfillToken,
            cursor: Int, pool: Int, target: Int, stopped: BOOLEAN]

BackfillTypes ==
  /\ graduation \in Int /\ graduation > Launch
  /\ boundary \in Int /\ head \in Int /\ live \in Int
  /\ token \in BackfillToken /\ row \in BackfillRow /\ run \in [Runners -> BackfillRun]

\* Every trade up to the two cursors is in the set of stored heights s, with graduation at g.
Covered(s, g, cursor, pool) ==
  \A h \in Int : Launch <= h => /\ h < g /\ h <= cursor => h \in s
                                /\ h >= g /\ h <= pool => h \in s

\* A run that has reached its end unstopped, and knew of a pool, has covered it up to its target.
RunOK(s, g, u) ==
  /\ Covered(s, g, u.cursor, u.pool)
  /\ u.pc = "finish" /\ ~u.stopped /\ u.token.graduated => u.pool >= u.target

LiveIsStored == \A h \in Int : boundary < h /\ h <= live => h \in stored

BackfillInv ==
  /\ BackfillTypes
  /\ Covered(stored, graduation, row.cursor, row.pool)
  /\ \A r \in Runners : RunOK(stored, graduation, run[r])
  /\ LiveIsStored

-----------------------------------------------------------------------------
\* More stored, or lower cursors: what is covered stays covered.
LEMMA CoveredStays ==
  ASSUME NEW s, NEW t, s \subseteq t, NEW g, NEW c \in Int, NEW p \in Int, Covered(s, g, c, p)
  PROVE  Covered(t, g, c, p)
BY DEF Covered

\* Nothing is covered by cursors that have not set out.
LEMMA NothingCovered ==
  ASSUME NEW s, NEW g \in Int, g > Launch
  PROVE  Covered(s, g, Launch - 1, -1)
BY LaunchAssumption DEF LaunchAssumption, Covered

\* A step of one run, beside runs that stand still.
LEMMA OneRunMoves ==
  ASSUME BackfillTypes, \A q \in Runners : RunOK(stored, graduation, run[q]),
         stored \subseteq stored', graduation' = graduation,
         NEW r \in Runners, NEW next \in BackfillRun, RunOK(stored', graduation, next), Becomes(r, next)
  PROVE  run' \in [Runners -> BackfillRun] /\ \A q \in Runners : RunOK(stored', graduation', run'[q])
<1>1. run' \in [Runners -> BackfillRun] /\ \A q \in Runners : run'[q] = IF q = r THEN next ELSE run[q]
  BY Zenon DEF BackfillTypes, Becomes
<1>2. ASSUME NEW q \in Runners, q # r PROVE RunOK(stored', graduation', run'[q])
  <2>1. run[q].cursor \in Int /\ run[q].pool \in Int
    BY DEF BackfillTypes, BackfillRun
  <2>2. Covered(stored', graduation, run[q].cursor, run[q].pool)
    BY <2>1, CoveredStays DEF RunOK
  <2>3. QED
    BY <1>1, <1>2, <2>2 DEF RunOK
<1>3. QED
  BY <1>1, <1>2

LEMMA BackfillInit == Init => BackfillInv
<1> SUFFICES ASSUME Init PROVE BackfillInv
  OBVIOUS
<1> USE LaunchAssumption, BoundariesAssumption, BoundsAssumption DEF LaunchAssumption, BoundariesAssumption, BoundsAssumption
<1>1. NoRow \in BackfillRow /\ Idle \in BackfillRun /\ [graduated |-> FALSE, pool |-> FALSE] \in BackfillToken
  BY DEF NoRow, Idle, BackfillRow, BackfillRun, BackfillToken
<1>2. BackfillTypes
  BY <1>1 DEF Init, BackfillTypes
<1>3. Covered(stored, graduation, NoRow.cursor, NoRow.pool)
  BY DEF Init, Covered, NoRow
<1>4. RunOK(stored, graduation, Idle)
  BY <1>3 DEF RunOK, NoRow, Idle
<1>5. LiveIsStored
  BY <1>2 DEF Init, BackfillTypes, LiveIsStored
<1>6. QED
  BY <1>2, <1>3, <1>4, <1>5 DEF BackfillInv, Init

-----------------------------------------------------------------------------
LEMMA RunStep ==
  ASSUME BackfillInv, UNCHANGED sharedVars, stored \subseteq stored',
         row' \in BackfillRow, Covered(stored', graduation, row'.cursor, row'.pool),
         NEW r \in Runners, NEW next \in BackfillRun, RunOK(stored', graduation, next), Becomes(r, next)
  PROVE  BackfillInv'
<1>1. run' \in [Runners -> BackfillRun] /\ \A q \in Runners : RunOK(stored', graduation', run'[q])
  BY OneRunMoves DEF BackfillInv, sharedVars
<1>2. BackfillTypes'
  BY <1>1 DEF BackfillInv, BackfillTypes, sharedVars
<1>3. LiveIsStored'
  BY DEF BackfillInv, LiveIsStored, sharedVars
<1>4. QED
  BY <1>1, <1>2, <1>3 DEF BackfillInv, sharedVars

\* The same for a step that leaves the table and the row alone.
LEMMA QuietStep ==
  ASSUME BackfillInv, UNCHANGED <<sharedVars, stored, row>>,
         NEW r \in Runners, NEW next \in BackfillRun, RunOK(stored, graduation, next), Becomes(r, next)
  PROVE  BackfillInv'
<1>1. row' \in BackfillRow /\ Covered(stored', graduation, row'.cursor, row'.pool)
  BY DEF BackfillInv, BackfillTypes
<1>2. QED
  BY <1>1, RunStep DEF BackfillInv

LEMMA IdleIsOK == BackfillInv => Idle \in BackfillRun /\ RunOK(stored, graduation, Idle) /\ RunOK(stored', graduation, Idle)
<1>1. Idle \in BackfillRun
  BY DEF Idle, BackfillRun, BackfillToken
<1>2. ASSUME BackfillInv, NEW s PROVE Covered(s, graduation, Idle.cursor, Idle.pool)
  BY <1>2, LaunchAssumption DEF LaunchAssumption, BackfillInv, BackfillTypes, Covered, Idle
<1>3. QED
  BY <1>1, <1>2 DEF RunOK, Idle

\* The window just read joins what is covered below it.
LEMMA CurveWindowStep == ASSUME BackfillInv, NEW r \in Runners, NEW h \in Int, CurveWindow(r, h) PROVE BackfillInv'
<1> DEFINE next == [run[r] EXCEPT !.cursor = h]
<1>1. run[r] \in BackfillRun /\ RunOK(stored, graduation, run[r]) /\ graduation \in Int
  BY DEF BackfillInv, BackfillTypes
<1>2. next \in BackfillRun /\ next.pool = run[r].pool /\ next.cursor = h /\ next.pc = "curve"
  BY <1>1 DEF CurveWindow, At, BackfillRun
<1>3. stored \subseteq stored' /\ UNCHANGED sharedVars /\ Becomes(r, next)
  BY DEF CurveWindow
<1>4. Covered(stored', graduation, h, run[r].pool)
  BY <1>1 DEF CurveWindow, Curve, RunOK, BackfillRun, Covered
<1>5. RunOK(stored', graduation, next)
  BY <1>2, <1>4 DEF RunOK
<1>6. row' \in BackfillRow /\ row'.cursor = h /\ row'.pool = row.pool
  BY DEF CurveWindow, BackfillInv, BackfillTypes, BackfillRow
<1>7. Covered(stored', graduation, row'.cursor, row'.pool)
  BY <1>3, <1>4, <1>6 DEF BackfillInv, Covered
<1>8. QED
  BY <1>2, <1>3, <1>5, <1>6, <1>7, RunStep

LEMMA PoolWindowStep == ASSUME BackfillInv, NEW r \in Runners, NEW h \in Int, PoolWindow(r, h) PROVE BackfillInv'
<1> DEFINE next == [run[r] EXCEPT !.pool = h]
<1>1. run[r] \in BackfillRun /\ RunOK(stored, graduation, run[r]) /\ graduation \in Int
  BY DEF BackfillInv, BackfillTypes
<1>2. next \in BackfillRun /\ next.pool = h /\ next.cursor = run[r].cursor /\ next.pc = "pool"
  BY <1>1 DEF PoolWindow, At, BackfillRun
<1>3. stored \subseteq stored' /\ UNCHANGED sharedVars /\ Becomes(r, next)
  BY DEF PoolWindow, Reached
<1>4. Covered(stored', graduation, run[r].cursor, h)
  BY <1>1 DEF PoolWindow, Pool, RunOK, BackfillRun, Covered
<1>5. RunOK(stored', graduation, next)
  BY <1>2, <1>4 DEF RunOK
<1>6. row' \in BackfillRow /\ row'.cursor = row.cursor /\ row'.pool = h
  BY DEF PoolWindow, Reached, BackfillInv, BackfillTypes, BackfillRow
<1>7. Covered(stored', graduation, row'.cursor, row'.pool)
  BY <1>3, <1>4, <1>6 DEF BackfillInv, Covered
<1>8. QED
  BY <1>2, <1>3, <1>5, <1>6, <1>7, RunStep

\* Reading, giving up, running out of budget, turning to the pool: the row stays as it is.
LEMMA StartStep == ASSUME BackfillInv, NEW r \in Runners, Start(r) PROVE BackfillInv'
<1> DEFINE next == [Idle EXCEPT !.pc = "row", !.token = token]
<1>1. next \in BackfillRun /\ next.cursor = Idle.cursor /\ next.pool = Idle.pool /\ next.pc = "row"
  BY IdleIsOK DEF Idle, BackfillInv, BackfillTypes, BackfillRun
<1>2. RunOK(stored, graduation, next)
  BY <1>1, IdleIsOK DEF RunOK
<1>3. QED
  BY <1>1, <1>2, QuietStep DEF Start

LEMMA ReadRowStep == ASSUME BackfillInv, NEW r \in Runners, ReadRow(r) PROVE BackfillInv'
<1> DEFINE cursor == IF row.status = "none" THEN Launch - 1 ELSE row.cursor
           next == [run[r] EXCEPT !.pc = "head", !.pool = row.pool, !.cursor = cursor]
<1>1. run[r] \in BackfillRun /\ row \in BackfillRow /\ cursor \in Int
  BY LaunchAssumption DEF LaunchAssumption, BackfillInv, BackfillTypes, BackfillRow
<1>2. next \in BackfillRun /\ next.cursor = cursor /\ next.pool = row.pool /\ next.pc = "head"
  BY <1>1 DEF BackfillRun, BackfillRow
<1>3. Covered(stored, graduation, cursor, row.pool)
  BY <1>1, LaunchAssumption DEF LaunchAssumption, BackfillInv, Covered
<1>4. QED
  BY <1>2, <1>3, QuietStep DEF ReadRow, RunOK

LEMMA ReadHeadStep == ASSUME BackfillInv, NEW r \in Runners, NEW target \in Int, ReadHead(r, target) PROVE BackfillInv'
<1>1. CASE UpToDate(r, target)
  BY <1>1, IdleIsOK, QuietStep DEF ReadHead, Ends
<1>2. CASE ~UpToDate(r, target)
  <2> DEFINE next == [run[r] EXCEPT !.pc = "curve", !.target = target]
  <2>1. run[r] \in BackfillRun /\ row \in BackfillRow /\ RunOK(stored, graduation, run[r])
    BY DEF BackfillInv, BackfillTypes
  <2>2. next \in BackfillRun /\ next.cursor = run[r].cursor /\ next.pool = run[r].pool /\ next.pc = "curve"
    BY <2>1 DEF BackfillRun
  <2>3. RunOK(stored, graduation, next)
    BY <2>1, <2>2 DEF RunOK
  <2>4. Becomes(r, next) /\ UNCHANGED <<sharedVars, stored>>
    BY <1>2 DEF ReadHead
  <2>5. CASE row.status = "none"
    <3>1. row' \in BackfillRow /\ row'.cursor = run[r].cursor /\ row'.pool = -1
      BY <1>2, <2>1, <2>5, LaunchAssumption DEF LaunchAssumption, ReadHead, BackfillRow, BackfillRun
    <3>2. Covered(stored', graduation, row'.cursor, row'.pool)
      BY <2>1, <2>4, <3>1, LaunchAssumption DEF LaunchAssumption, BackfillInv, BackfillTypes, RunOK, Covered
    <3>3. QED
      BY <2>2, <2>3, <2>4, <3>1, <3>2, RunStep
  <2>6. CASE row.status # "none"
    <3>1. row' \in BackfillRow /\ row'.cursor = row.cursor /\ row'.pool = row.pool
      BY <1>2, <2>1, <2>6 DEF ReadHead, BackfillRow
    <3>2. QED
      BY <2>2, <2>3, <2>4, <3>1, RunStep DEF BackfillInv
  <2>7. QED
    BY <2>5, <2>6
<1>3. QED
  BY <1>1, <1>2

LEMMA DiesInWindowStep == ASSUME BackfillInv, NEW r \in Runners, NEW h \in Int, DiesInWindow(r, h) PROVE BackfillInv'
<1>1. stored \subseteq stored' /\ UNCHANGED <<sharedVars, row>> /\ Becomes(r, Idle)
  BY DEF DiesInWindow, Ends
<1>2. row' \in BackfillRow /\ Covered(stored', graduation, row'.cursor, row'.pool)
  BY <1>1, CoveredStays DEF BackfillInv, BackfillTypes, BackfillRow
<1>3. QED
  BY <1>1, <1>2, IdleIsOK, RunStep

\* The cursor of a run that fails or finishes is written back: it is covered, and so is the row's pool.
LEMMA WrittenBack ==
  ASSUME BackfillInv, NEW r \in Runners, NEW status \in {"COMPLETE", "PARTIAL", "FAILED"},
         row' = [row EXCEPT !.status = status, !.cursor = run[r].cursor],
         Ends(r), UNCHANGED <<sharedVars, stored>>
  PROVE  BackfillInv'
<1>1. run[r] \in BackfillRun /\ row \in BackfillRow /\ RunOK(stored, graduation, run[r])
  BY DEF BackfillInv, BackfillTypes
<1>2. row' \in BackfillRow /\ row'.cursor = run[r].cursor /\ row'.pool = row.pool
  BY <1>1 DEF BackfillRow, BackfillRun
<1>3. Covered(stored', graduation, row'.cursor, row'.pool)
  BY <1>1, <1>2 DEF BackfillInv, RunOK, Covered
<1>4. QED
  BY <1>2, <1>3, IdleIsOK, RunStep DEF Ends

LEMMA OutOfBudgetStep == ASSUME BackfillInv, NEW r \in Runners, OutOfBudget(r) PROVE BackfillInv'
<1> DEFINE next == [run[r] EXCEPT !.pc = "finish", !.stopped = TRUE]
<1>1. run[r] \in BackfillRun /\ RunOK(stored, graduation, run[r])
  BY DEF BackfillInv, BackfillTypes
<1>2. next \in BackfillRun /\ next.cursor = run[r].cursor /\ next.pool = run[r].pool /\ next.stopped
  BY <1>1 DEF BackfillRun
<1>3. QED
  BY <1>1, <1>2, QuietStep DEF OutOfBudget, RunOK

LEMMA CurveEndsStep == ASSUME BackfillInv, NEW r \in Runners, CurveEnds(r) PROVE BackfillInv'
<1> DEFINE pc == IF run[r].token.pool THEN "pool" ELSE "finish"
           stopped == run[r].token.graduated /\ ~run[r].token.pool
           next == [run[r] EXCEPT !.pc = pc, !.pool = PoolStarts(r), !.stopped = stopped]
<1>1. run[r] \in BackfillRun /\ RunOK(stored, graduation, run[r]) /\ PoolStarts(r) \in Int
  BY DEF BackfillInv, BackfillTypes, BackfillRun, PoolStarts
<1>2. run[r].token.graduated \in BOOLEAN /\ run[r].token.pool \in BOOLEAN
  BY <1>1 DEF BackfillRun, BackfillToken
<1>3. pc \in {"pool", "finish"} /\ stopped \in BOOLEAN
  BY <1>2
<1>4. next \in BackfillRun /\ next.cursor = run[r].cursor /\ next.pool = PoolStarts(r)
  <2> HIDE DEF pc, stopped
  <2> QED BY <1>1, <1>3 DEF BackfillRun
<1>5. next.token = run[r].token /\ next.pc = pc /\ next.stopped = stopped
  <2> HIDE DEF pc, stopped
  <2> QED BY <1>1 DEF BackfillRun
<1>6. Covered(stored, graduation, run[r].cursor, PoolStarts(r))
  BY <1>1 DEF BackfillInv, BackfillTypes, RunOK, BackfillRun, Covered, PoolStarts
<1>7. ~(next.pc = "finish" /\ ~next.stopped /\ next.token.graduated)
  <2> HIDE DEF next
  <2> QED BY <1>2, <1>5
<1>8. RunOK(stored, graduation, next)
  BY <1>4, <1>6, <1>7 DEF RunOK
<1>9. QED
  BY <1>4, <1>8, QuietStep DEF CurveEnds

LEMMA PoolEndsStep == ASSUME BackfillInv, NEW r \in Runners, PoolEnds(r) PROVE BackfillInv'
<1> USE DEF PoolEnds
<1>1. run[r] \in BackfillRun /\ RunOK(stored, graduation, run[r])
  BY DEF BackfillInv, BackfillTypes
<1>2. CASE run[r].pool >= run[r].target /\ Becomes(r, [run[r] EXCEPT !.pc = "finish"])
  <2> DEFINE next == [run[r] EXCEPT !.pc = "finish"]
  <2>1. next \in BackfillRun /\ next.cursor = run[r].cursor /\ next.pool = run[r].pool /\ next.target = run[r].target
    BY <1>1 DEF BackfillRun
  <2>2. RunOK(stored, graduation, next)
    BY <1>1, <1>2, <2>1 DEF RunOK
  <2>3. QED
    BY <1>2, <2>1, <2>2, QuietStep
<1>3. CASE Becomes(r, [run[r] EXCEPT !.pc = "finish", !.stopped = TRUE])
  <2> DEFINE next == [run[r] EXCEPT !.pc = "finish", !.stopped = TRUE]
  <2>1. next \in BackfillRun /\ next.cursor = run[r].cursor /\ next.pool = run[r].pool /\ next.stopped
    BY <1>1 DEF BackfillRun
  <2>2. RunOK(stored, graduation, next)
    BY <1>1, <2>1 DEF RunOK
  <2>3. QED
    BY <1>3, <2>1, <2>2, QuietStep
<1>4. QED
  BY <1>2, <1>3

\* What runs beside: more stored above the boundary, nothing taken back.
LEMMA BesideStep ==
  ASSUME BackfillInv, Block \/ (\E b \in BOOLEAN : Graduate(b)) \/ \E h \in 0..MaxHead : Follow(h)
  PROVE  BackfillInv'
<1>1. stored \subseteq stored' /\ UNCHANGED <<graduation, boundary, row, run>>
  BY DEF Block, Graduate, Follow, chainVars
<1>2. BackfillTypes'
  <2>1. CASE Block
    BY <2>1 DEF Block, BackfillInv, BackfillTypes
  <2>2. ASSUME NEW b \in BOOLEAN, Graduate(b) PROVE BackfillTypes'
    <3>1. token' \in BackfillToken
      BY <2>2, Zenon DEF Graduate, BackfillToken
    <3>2. QED
      BY <2>2, <3>1 DEF Graduate, chainVars, BackfillInv, BackfillTypes
  <2>3. ASSUME NEW h \in 0..MaxHead, Follow(h) PROVE BackfillTypes'
    BY <2>3, BoundsAssumption DEF BoundsAssumption, Follow, chainVars, BackfillInv, BackfillTypes
  <2>4. QED
    BY <2>1, <2>2, <2>3
<1>3. LiveIsStored'
  BY <1>1 DEF BackfillInv, BackfillTypes, LiveIsStored, Block, Graduate, Follow, chainVars
<1>4. Covered(stored', graduation', row'.cursor, row'.pool)
  BY <1>1, CoveredStays DEF BackfillInv, BackfillTypes, BackfillRow
<1>5. ASSUME NEW r \in Runners PROVE RunOK(stored', graduation', run'[r])
  <2>1. run[r] \in BackfillRun /\ RunOK(stored, graduation, run[r])
    BY DEF BackfillInv, BackfillTypes
  <2>2. Covered(stored', graduation, run[r].cursor, run[r].pool)
    BY <1>1, <2>1, CoveredStays DEF RunOK, BackfillRun
  <2>3. QED
    BY <1>1, <2>1, <2>2 DEF RunOK
<1>6. QED
  BY <1>2, <1>3, <1>4, <1>5 DEF BackfillInv

LEMMA BackfillStep == BackfillInv /\ [Next]_vars => BackfillInv'
<1> SUFFICES ASSUME BackfillInv, [Next]_vars PROVE BackfillInv'
  OBVIOUS
<1>1. ASSUME Block \/ (\E b \in BOOLEAN : Graduate(b)) \/ \E h \in 0..MaxHead : Follow(h) PROVE BackfillInv'
  BY <1>1, BesideStep
<1>2. ASSUME NEW r \in Runners, Start(r) \/ ReadRow(r) PROVE BackfillInv'
  BY <1>2, StartStep, ReadRowStep
<1>3. ASSUME NEW r \in Runners, NEW lag \in {0, 1}, ReadHead(r, head - lag) PROVE BackfillInv'
  <2>1. head - lag \in Int
    BY DEF BackfillInv, BackfillTypes
  <2>2. QED
    BY <1>3, <2>1, ReadHeadStep
<1>4. ASSUME NEW r \in Runners, NEW h \in 0..MaxHead, CurveWindow(r, h) \/ PoolWindow(r, h) \/ DiesInWindow(r, h) PROVE BackfillInv'
  <2>1. h \in Int
    BY BoundsAssumption DEF BoundsAssumption
  <2>2. QED
    BY <1>4, <2>1, CurveWindowStep, PoolWindowStep, DiesInWindowStep
<1>5. ASSUME NEW r \in Runners, OutOfBudget(r) \/ CurveEnds(r) \/ PoolEnds(r) PROVE BackfillInv'
  BY <1>5, OutOfBudgetStep, CurveEndsStep, PoolEndsStep
<1>6. ASSUME NEW r \in Runners, CurveFails(r) PROVE BackfillInv'
  BY <1>6, WrittenBack DEF CurveFails
<1>7. ASSUME NEW r \in Runners, Finish(r) PROVE BackfillInv'
  <2>1. (IF Done(r) THEN "COMPLETE" ELSE "PARTIAL") \in {"COMPLETE", "PARTIAL", "FAILED"}
    OBVIOUS
  <2>2. QED
    BY <1>7, <2>1, WrittenBack DEF Finish
<1>8. ASSUME NEW r \in Runners, HeadFails(r) \/ Dies(r) PROVE BackfillInv'
  BY <1>8, IdleIsOK, QuietStep DEF HeadFails, Dies, Ends
<1>9. CASE UNCHANGED vars
  BY <1>9 DEF vars, BackfillInv, BackfillTypes, LiveIsStored
<1>10. QED
  BY <1>1, <1>2, <1>3, <1>4, <1>5, <1>6, <1>7, <1>8, <1>9 DEF Next

LEMMA BackfillInvariant == Spec => []BackfillInv
<1>1. QED
  BY BackfillInit, BackfillStep, PTL DEF Spec

-----------------------------------------------------------------------------
(* What the invariant gives *)

LEMMA BackfillMeans == BackfillInv => HistoryIsHonest
<1> SUFFICES ASSUME BackfillInv PROVE HistoryIsHonest
  OBVIOUS
<1> USE LaunchAssumption DEF LaunchAssumption
<1>1. row \in BackfillRow /\ Covered(stored, graduation, row.cursor, row.pool)
  BY DEF BackfillInv, BackfillTypes
<1>2. CursorsAreCovered
  BY <1>1 DEF CursorsAreCovered, Curve, Pool, Covered, BackfillRow
<1>3. CompleteIsCovered
  <2> SUFFICES ASSUME NEW r \in Runners, At(r, "finish"), Done(r)
               PROVE  /\ Curve(Launch..run[r].target) \subseteq stored
                      /\ run[r].token.graduated => Pool(Launch..run[r].target) \subseteq stored
    BY DEF CompleteIsCovered
  <2>1. run[r] \in BackfillRun /\ RunOK(stored, graduation, run[r])
    BY DEF BackfillInv, BackfillTypes
  <2>2. Curve(Launch..run[r].target) \subseteq stored
    BY <2>1 DEF Done, RunOK, BackfillRun, Covered, Curve
  <2>3. ASSUME run[r].token.graduated PROVE run[r].pool >= run[r].target
    BY <2>1, <2>3 DEF Done, At, RunOK
  <2>4. ASSUME run[r].token.graduated PROVE Pool(Launch..run[r].target) \subseteq stored
    BY <2>1, <2>3, <2>4 DEF RunOK, BackfillRun, Covered, Pool
  <2>5. QED
    BY <2>2, <2>4
<1>4. BridgeIsReal
  <2> SUFFICES ASSUME Bridges, NEW h \in Launch..live PROVE h \in stored
    BY DEF BridgeIsReal
  <2>1. CASE h <= row.to
    BY <1>1, <2>1 DEF Bridges, BackfillRow, Covered, BackfillInv, BackfillTypes
  <2>2. CASE h > row.to
    BY <1>1, <2>2 DEF Bridges, BackfillRow, LiveIsStored, BackfillInv, BackfillTypes
  <2>3. QED
    BY <1>1, <2>1, <2>2 DEF BackfillRow
<1>5. QED
  BY <1>2, <1>3, <1>4 DEF HistoryIsHonest

\* Every cursor is a height, every status and step one the code has, under any schedule.
THEOREM BackfillTypesHold == Spec => []BackfillTypes
<1>1. QED
  BY BackfillInvariant, PTL DEF BackfillInv

\* tokenTradeBackfill's cursors never pass a trade that is not stored; a run that answers COMPLETE
\* has every trade up to its target; and backfillBridgesLiveCoverage says yes only when the history
\* is whole from the launch to the listeners' height - whatever runs race, fail or die.
THEOREM HistoryHonest == Spec => []HistoryIsHonest
<1>1. QED
  BY BackfillInvariant, BackfillMeans, PTL

-----------------------------------------------------------------------------
(* Practice trades.  A transaction that holds the lock of a balance is     *)
(* alone with that currency, so what it read is what it overwrites; the    *)
(* holding it overwrites is compared.                                      *)

HoldingType == [exists: BOOLEAN, currency: Currencies, amount: Nat, basis: Nat, pnl: Int]
TradeType == [done: BOOLEAN, quote: Quotes, realized: Int]
FillType == [pc: {"new", "lookup", "run", "locked", "answered", "failed"}, key: Keys, quote: Quotes,
             tries: 0..MaxTries, cash: Nat, holding: HoldingType]

BooksTyped ==
  /\ cash \in [Currencies -> Nat] /\ holding \in HoldingType
  /\ trades \in [Keys -> TradeType] /\ req \in [Requests -> FillType]

LocksExclude ==
  \A r \in Requests : req[r].pc = "locked" =>
    /\ req[r].cash = cash[req[r].quote.currency]
    /\ \A o \in Requests \ {r} :
         req[o].pc = "locked" => req[o].quote.currency # req[r].quote.currency

TriesAreLeft == \A r \in Requests : req[r].pc \in {"lookup", "run"} => req[r].tries < MaxTries

PracticeInv ==
  /\ T!QuotesOK /\ BooksTyped /\ LocksExclude /\ TriesAreLeft
  /\ holding.amount = 0 => holding.basis = 0

\* The basis that leaves with the tokens sold is no more than there is, and all of it with the
\* last of them.
LEMMA BasisLeaves ==
  ASSUME NEW basis \in Nat, NEW input \in Nat, NEW amount \in Nat \ {0}, input <= amount
  PROVE  /\ (basis * input) \div amount \in Nat /\ (basis * input) \div amount <= basis
         /\ input = amount => (basis * input) \div amount = basis
<1>1. basis * input \in Nat /\ basis * amount \in Nat /\ basis * input <= basis * amount
  BY SMT
<1>2. (basis * amount) \div amount = basis
  BY SMT
<1>3. (basis * input) \div amount \in Nat
  BY <1>1, SMT
<1>4. (basis * input) \div amount <= (basis * amount) \div amount
  BY <1>1, SMT
<1> QED BY <1>2, <1>3, <1>4

LEMMA QuotesGiven ==
  ASSUME T!QuotesOK
  PROVE  /\ (CHOOSE c \in Currencies : TRUE) \in Currencies
         /\ (CHOOSE q \in Quotes : TRUE) \in Quotes
         /\ (CHOOSE k \in Keys : TRUE) \in Keys
BY DEF T!QuotesOK

LEMMA PracticeInit == T!QuotesOK /\ T!Init => PracticeInv
<1> SUFFICES ASSUME T!QuotesOK, T!Init PROVE PracticeInv
  OBVIOUS
<1>2. T!NoHolding \in HoldingType /\ T!NoTrade \in TradeType
  BY QuotesGiven DEF T!NoHolding, T!NoTrade, HoldingType, TradeType
<1>3. T!NoRequest \in FillType /\ T!NoRequest.pc = "new"
  BY <1>2, QuotesGiven DEF T!NoRequest, FillType, T!QuotesOK
<1>4. BooksTyped
  BY <1>2, <1>3 DEF T!Init, BooksTyped, T!QuotesOK
<1> QED BY <1>3, <1>4 DEF T!Init, PracticeInv, LocksExclude, TriesAreLeft, T!NoHolding

\* A request that moves without the rows.
LEMMA RequestMoves ==
  ASSUME PracticeInv, NEW r \in Requests, NEW n \in FillType,
         req' = [req EXCEPT ![r] = n], UNCHANGED <<cash, holding, trades>>,
         n.pc \in {"lookup", "run"} => n.tries < MaxTries,
         n.pc = "locked" =>
           /\ n.cash = cash[n.quote.currency]
           /\ \A o \in Requests \ {r} : req[o].pc = "locked" => req[o].quote.currency # n.quote.currency
  PROVE  PracticeInv'
<1>1. req \in [Requests -> FillType]
  BY DEF PracticeInv, BooksTyped
<1>2. req'[r] = n /\ \A o \in Requests \ {r} : req'[o] = req[o]
  BY <1>1
<1>3. BooksTyped'
  BY <1>1 DEF PracticeInv, BooksTyped
<1>4. LocksExclude'
  BY <1>2 DEF PracticeInv, LocksExclude
<1>5. TriesAreLeft'
  BY <1>2 DEF PracticeInv, TriesAreLeft
<1> QED BY <1>3, <1>4, <1>5 DEF PracticeInv

\* The trade of key k is recorded, and the balance and the holding change by what it says.
Booked(k) ==
  LET q == trades'[k].quote
  IN /\ ~trades[k].done /\ trades'[k].done
     /\ \A j \in Keys \ {k} : trades'[j] = trades[j]
     /\ \A c \in Currencies \ {q.currency} : cash'[c] = cash[c]
     /\ q.side = "buy" =>
          /\ cash'[q.currency] = cash[q.currency] - q.input
          /\ holding'.amount = holding.amount + q.output
          /\ holding'.basis = holding.basis + q.input
          /\ holding'.pnl = holding.pnl
     /\ q.side = "sell" =>
          /\ cash'[q.currency] = cash[q.currency] + q.output
          /\ holding'.amount = holding.amount - q.input
          /\ holding'.basis = holding.basis - (q.output - trades'[k].realized)
          /\ holding'.pnl = holding.pnl + trades'[k].realized

LEMMA FillKeeps ==
  ASSUME PracticeInv, NEW r \in Requests, T!Fill(r)
  PROVE  PracticeInv' /\ \E k \in Keys : Booked(k)
<1> DEFINE q == req[r].quote
           k == req[r].key
<1>1. /\ req \in [Requests -> FillType] /\ trades \in [Keys -> TradeType]
      /\ cash \in [Currencies -> Nat] /\ holding \in HoldingType
  BY DEF PracticeInv, BooksTyped
<1>2. q \in Quotes /\ k \in Keys
  BY <1>1 DEF FillType
<1>3. /\ q.side \in {"buy", "sell"} /\ q.currency \in Currencies
      /\ q.input \in Nat \ {0} /\ q.output \in Nat \ {0}
  BY <1>2 DEF PracticeInv, T!QuotesOK
<1>4. req[r].pc = "locked" /\ req[r].cash = cash[q.currency] /\ req[r].holding = holding
  BY DEF T!Fill, T!Conflicts, PracticeInv, LocksExclude
<1>5. \A o \in Requests \ {r} :
        req[o].pc = "locked" => /\ req[o].cash = cash[req[o].quote.currency]
                                /\ req[o].quote.currency # q.currency
  BY <1>4 DEF PracticeInv, LocksExclude
<1>6. /\ T!Covers(q, cash[q.currency], holding) /\ ~trades[k].done
      /\ req' = [req EXCEPT ![r].pc = "answered"]
      /\ cash' = [cash EXCEPT ![q.currency] =
                    cash[q.currency] + IF q.side = "buy" THEN -q.input ELSE q.output]
      /\ holding' = (IF q.side = "buy" THEN T!Bought(q, holding) ELSE T!Sold(q, holding))
      /\ trades' = [trades EXCEPT ![k] =
                      [done |-> TRUE, quote |-> q,
                       realized |-> IF q.side = "buy" THEN 0 ELSE q.output - T!Removed(q, holding)]]
  BY <1>4 DEF T!Fill, T!Goes
<1> HIDE DEF q, k
<1>7. /\ holding.exists \in BOOLEAN /\ holding.currency \in Currencies
      /\ holding.amount \in Nat /\ holding.basis \in Nat /\ holding.pnl \in Int
  BY <1>1 DEF HoldingType
<1>8. q.side = "sell" =>
        /\ holding.amount \in Nat \ {0} /\ q.input <= holding.amount
        /\ T!Removed(q, holding) \in Nat /\ T!Removed(q, holding) <= holding.basis
        /\ q.input = holding.amount => T!Removed(q, holding) = holding.basis
  <2> SUFFICES ASSUME q.side = "sell"
               PROVE  /\ holding.amount \in Nat \ {0} /\ q.input <= holding.amount
                      /\ T!Removed(q, holding) \in Nat /\ T!Removed(q, holding) <= holding.basis
                      /\ q.input = holding.amount => T!Removed(q, holding) = holding.basis
    OBVIOUS
  <2>1. holding.amount \in Nat \ {0} /\ q.input <= holding.amount /\ q.input \in Nat
    BY <1>3, <1>6, <1>7 DEF T!Covers
  <2> QED BY <1>7, <2>1, BasisLeaves DEF T!Removed
<1>9. /\ holding' \in HoldingType
      /\ holding'.amount = 0 => holding'.basis = 0
      /\ q.side = "buy" => /\ holding'.amount = holding.amount + q.output
                           /\ holding'.basis = holding.basis + q.input
                           /\ holding'.pnl = holding.pnl
      /\ q.side = "sell" => /\ holding'.amount = holding.amount - q.input
                            /\ holding'.basis = holding.basis - T!Removed(q, holding)
                            /\ holding'.pnl = holding.pnl + q.output - T!Removed(q, holding)
  <2>1. CASE q.side = "buy"
    <3>1. holding' = [exists |-> TRUE,
                      currency |-> IF holding.exists THEN holding.currency ELSE q.currency,
                      amount |-> holding.amount + q.output, basis |-> holding.basis + q.input,
                      pnl |-> holding.pnl]
      BY <1>1, <1>6, <2>1 DEF T!Bought, HoldingType
    <3> QED BY <1>3, <1>7, <2>1, <3>1 DEF HoldingType
  <2>2. CASE q.side = "sell"
    <3>1. holding' = [exists |-> holding.exists, currency |-> holding.currency,
                      amount |-> holding.amount - q.input,
                      basis |-> holding.basis - T!Removed(q, holding),
                      pnl |-> holding.pnl + q.output - T!Removed(q, holding)]
      BY <1>1, <1>6, <2>2 DEF T!Sold, HoldingType
    <3> QED BY <1>3, <1>7, <1>8, <2>2, <3>1 DEF HoldingType
  <2> QED BY <1>3, <2>1, <2>2
<1>10. /\ cash' \in [Currencies -> Nat]
       /\ \A c \in Currencies \ {q.currency} : cash'[c] = cash[c]
       /\ q.side = "buy" => cash'[q.currency] = cash[q.currency] - q.input
       /\ q.side = "sell" => cash'[q.currency] = cash[q.currency] + q.output
  <2>1. cash[q.currency] \in Nat /\ (q.side = "buy" => q.input <= cash[q.currency])
    BY <1>1, <1>3, <1>6 DEF T!Covers
  <2> QED BY <1>1, <1>3, <1>6, <2>1
<1>11. /\ trades' \in [Keys -> TradeType]
       /\ trades'[k].done /\ trades'[k].quote = q
       /\ q.side = "sell" => trades'[k].realized = q.output - T!Removed(q, holding)
       /\ \A j \in Keys \ {k} : trades'[j] = trades[j]
  <2> DEFINE new == [done |-> TRUE, quote |-> q,
                     realized |-> IF q.side = "buy" THEN 0 ELSE q.output - T!Removed(q, holding)]
  <2>1. new \in TradeType
    BY <1>2, <1>3, <1>8 DEF TradeType, q
  <2>2. trades' = [trades EXCEPT ![k] = new]
    BY <1>6
  <2>3. /\ new.done /\ new.quote = q
        /\ q.side = "sell" => new.realized = q.output - T!Removed(q, holding)
    OBVIOUS
  <2> HIDE DEF new
  <2> QED BY <1>1, <1>2, <2>1, <2>2, <2>3 DEF k
<1>12. /\ req' \in [Requests -> FillType] /\ req'[r].pc = "answered"
       /\ \A o \in Requests \ {r} : req'[o] = req[o]
  BY <1>1, <1>6 DEF FillType
<1>13. BooksTyped'
  BY <1>9, <1>10, <1>11, <1>12 DEF BooksTyped
<1>14. LocksExclude'
  <2> SUFFICES ASSUME NEW o \in Requests, req'[o].pc = "locked"
               PROVE  /\ req'[o].cash = cash'[req'[o].quote.currency]
                      /\ \A p \in Requests \ {o} :
                           req'[p].pc = "locked" => req'[p].quote.currency # req'[o].quote.currency
    BY DEF LocksExclude
  <2>1. o # r /\ req'[o] = req[o]
    BY <1>12
  <2>2. req[o].quote \in Quotes
    BY <1>1 DEF FillType
  <2>3. req[o].quote.currency \in Currencies \ {q.currency}
    BY <1>5, <2>1, <2>2 DEF PracticeInv, T!QuotesOK
  <2> QED BY <1>5, <1>10, <1>12, <2>1, <2>3 DEF PracticeInv, LocksExclude
<1>15. TriesAreLeft'
  BY <1>12 DEF PracticeInv, TriesAreLeft
<1>16. Booked(k)
  BY <1>3, <1>6, <1>7, <1>8, <1>9, <1>10, <1>11 DEF Booked
<1> QED BY <1>2, <1>9, <1>13, <1>14, <1>15, <1>16 DEF PracticeInv, k

LEMMA PracticeStep ==
  ASSUME PracticeInv, [T!Next]_(T!vars)
  PROVE  PracticeInv' /\ (UNCHANGED <<cash, holding, trades>> \/ \E k \in Keys : Booked(k))
<1>1. req \in [Requests -> FillType] /\ cash \in [Currencies -> Nat] /\ holding \in HoldingType
  BY DEF PracticeInv, BooksTyped
<1>2. MaxTries \in Nat \ {0} /\ \A q \in Quotes : q.currency \in Currencies
  BY DEF PracticeInv, T!QuotesOK
<1>3. ASSUME NEW r \in Requests, NEW k \in Keys, NEW q \in Quotes, T!Start(r, k, q)
      PROVE  PracticeInv' /\ UNCHANGED <<cash, holding, trades>>
  <2> DEFINE n == [T!NoRequest EXCEPT !.pc = "lookup", !.key = k, !.quote = q]
  <2>1. T!NoHolding \in HoldingType
    BY QuotesGiven DEF T!NoHolding, HoldingType, PracticeInv
  <2>2. T!NoRequest \in FillType /\ T!NoRequest.tries = 0
    BY <1>2, <2>1, QuotesGiven DEF T!NoRequest, FillType, PracticeInv
  <2>3. n \in FillType /\ n.pc = "lookup" /\ n.tries < MaxTries
    <3> DEFINE asked  == [T!NoRequest EXCEPT !.pc = "lookup"]
               keyed  == [asked EXCEPT !.key = k]
               quoted == [keyed EXCEPT !.quote = q]
    <3>1. asked \in FillType /\ asked.pc = "lookup" /\ asked.tries = 0
      BY <2>2 DEF FillType
    <3> HIDE DEF asked
    <3>2. keyed \in FillType /\ keyed.pc = "lookup" /\ keyed.tries = 0
      BY <3>1 DEF FillType
    <3> HIDE DEF keyed
    <3>3. quoted \in FillType /\ quoted.pc = "lookup" /\ quoted.tries = 0
      BY <3>2 DEF FillType
    <3> QED BY <1>2, <3>3 DEF asked, keyed
  <2>4. req' = [req EXCEPT ![r] = n] /\ UNCHANGED <<cash, holding, trades>>
    BY <1>3 DEF T!Start
  <2> HIDE DEF n
  <2> QED BY <2>3, <2>4, RequestMoves
<1>4. ASSUME NEW r \in Requests, T!Lookup(r) \/ T!Refuse(r) \/ T!RollBack(r) \/ T!LoseLock(r)
      PROVE  PracticeInv' /\ UNCHANGED <<cash, holding, trades>>
  <2>1. req[r] \in FillType /\ (req[r].pc \in {"lookup", "run"} => req[r].tries < MaxTries)
    BY <1>1 DEF PracticeInv, TriesAreLeft
  <2>2. PICK pc \in {"answered", "run", "failed"}, tries \in 0..MaxTries :
          /\ req' = [req EXCEPT ![r].pc = pc, ![r].tries = tries]
          /\ pc = "run" => tries < MaxTries
    <3>1. CASE T!Lookup(r)
      <4> DEFINE pc == IF trades[req[r].key].done THEN "answered" ELSE "run"
      <4>1. req' = [req EXCEPT ![r].pc = pc, ![r].tries = req[r].tries]
        BY <1>1, <2>1, <3>1 DEF T!Lookup, T!Goes, FillType
      <4>2. req[r].tries \in 0..MaxTries /\ req[r].tries < MaxTries
        BY <2>1, <3>1 DEF T!Lookup, FillType
      <4> QED BY <4>1, <4>2
    <3>2. CASE T!Refuse(r)
      <4>1. req' = [req EXCEPT ![r].pc = "answered", ![r].tries = req[r].tries]
        BY <1>1, <2>1, <3>2 DEF T!Refuse, T!Goes, FillType
      <4> QED BY <2>1, <4>1 DEF FillType
    <3>3. CASE T!RollBack(r)
      <4> DEFINE pc == T!WayOut(r, req[r].tries)
      <4>1. req' = [req EXCEPT ![r].pc = pc, ![r].tries = req[r].tries]
        BY <1>1, <2>1, <3>3 DEF T!RollBack, T!Goes, FillType
      <4>2. pc \in {"answered", "run", "failed"} /\ (pc = "run" => req[r].tries < MaxTries)
        BY DEF T!WayOut
      <4> QED BY <2>1, <4>1, <4>2 DEF FillType
    <3>4. CASE T!LoseLock(r)
      <4> DEFINE tries == req[r].tries + 1
                 pc    == T!WayOut(r, tries)
      <4>1. tries \in 0..MaxTries
        BY <1>2, <2>1, <3>4 DEF T!LoseLock, FillType
      <4>2. req' = [req EXCEPT ![r].pc = pc, ![r].tries = tries]
        BY <1>1, <2>1, <3>4 DEF T!LoseLock, FillType
      <4>3. pc \in {"answered", "run", "failed"} /\ (pc = "run" => tries < MaxTries)
        BY DEF T!WayOut
      <4> QED BY <4>1, <4>2, <4>3
    <3> QED BY <1>4, <3>1, <3>2, <3>3, <3>4
  <2> DEFINE n == [req[r] EXCEPT !.pc = pc, !.tries = tries]
  <2>3. n \in FillType /\ n.pc = pc /\ n.tries = tries
    BY <2>1 DEF FillType
  <2>4. req' = [req EXCEPT ![r] = n]
    BY <1>1, <2>1, <2>2 DEF FillType
  <2> HIDE DEF n
  <2>5. UNCHANGED <<cash, holding, trades>>
    BY <1>4 DEF T!Lookup, T!Refuse, T!RollBack, T!LoseLock
  <2> QED BY <2>2, <2>3, <2>4, <2>5, RequestMoves
<1>5. ASSUME NEW r \in Requests, T!Lock(r)
      PROVE  PracticeInv' /\ UNCHANGED <<cash, holding, trades>>
  <2>1. req[r] \in FillType /\ req[r].tries < MaxTries
    BY <1>1, <1>5 DEF PracticeInv, TriesAreLeft, T!Lock
  <2>2. cash[req[r].quote.currency] \in Nat
    BY <1>1, <1>2, <2>1 DEF FillType
  <2> DEFINE n == [pc |-> "locked", key |-> req[r].key, quote |-> req[r].quote,
                   tries |-> req[r].tries + 1, cash |-> cash[req[r].quote.currency],
                   holding |-> holding]
  <2>3. /\ n \in FillType /\ n.pc = "locked" /\ n.quote = req[r].quote
        /\ n.cash = cash[req[r].quote.currency]
    BY <1>1, <1>2, <2>1, <2>2 DEF FillType
  <2>4. req' = [req EXCEPT ![r] = n] /\ UNCHANGED <<cash, holding, trades>>
    BY <1>1, <1>5, <2>1 DEF T!Lock, FillType
  <2> HIDE DEF n
  <2>5. \A o \in Requests \ {r} : req[o].pc = "locked" => req[o].quote.currency # n.quote.currency
    BY <1>5, <2>3 DEF T!Lock, T!Free
  <2> QED BY <2>3, <2>4, <2>5, RequestMoves
<1>6. CASE UNCHANGED T!vars
  BY <1>6 DEF T!vars, PracticeInv, BooksTyped, LocksExclude, TriesAreLeft
<1>7. CASE T!Next
  BY <1>3, <1>4, <1>5, <1>7, FillKeeps DEF T!Next, T!Step
<1> QED BY <1>6, <1>7 DEF T!vars

THEOREM PracticeInvariant == T!QuotesOK /\ T!Spec => []PracticeInv
<1>1. PracticeInv /\ [T!Next]_(T!vars) => PracticeInv'
  BY PracticeStep
<1> QED BY PracticeInit, <1>1, PTL DEF T!Spec

\* placePracticeTrade, whichever requests race for a portfolio or replay a key: cash, tokens and
\* basis are never negative, and no basis is left when all tokens are sold.
THEOREM BasisIsOrderly == T!QuotesOK /\ T!Spec => [](T!TypeOK /\ T!BasisFollowsTheTokens)
<1>1. PracticeInv => T!TypeOK /\ T!BasisFollowsTheTokens
  BY DEF PracticeInv, BooksTyped, T!TypeOK, T!BasisFollowsTheTokens, HoldingType, FillType
<1> QED
  BY <1>1, PracticeInvariant, PTL

\* And no update is lost: whatever changes the balances or the holding records one new trade, and
\* changes them, as they are then, by what that trade says.
THEOREM EveryFillIsBooked ==
  T!QuotesOK /\ T!Spec =>
    [][UNCHANGED <<cash, holding, trades>> \/ \E k \in Keys : Booked(k)]_(T!vars)
<1>1. PracticeInv /\ [T!Next]_(T!vars) =>
        [UNCHANGED <<cash, holding, trades>> \/ \E k \in Keys : Booked(k)]_(T!vars)
  BY PracticeStep
<1> QED
  BY <1>1, PracticeInvariant, PTL DEF T!Spec

-----------------------------------------------------------------------------
(* Totals.  The fold takes one element out after the other; there is such  *)
(* a recursion on every finite set, and whichever element it takes first,  *)
(* each adds its amount once.                                              *)
One(S) == CHOOSE k \in S : TRUE

Adds(sum, amount, Ks) ==
  sum = [S \in Ks |-> IF S = {} THEN 0 ELSE amount[One(S)] + sum[S \ {One(S)}]]

Sums(amount, K) == CHOOSE sum : Adds(sum, amount, SUBSET K)

LEMMA LeastNumber ==
  ASSUME NEW S \in SUBSET Nat, S # {}
  PROVE  \E x \in S : \A y \in S : x <= y
<1>1. IsWellFoundedOn(OpToRel(<, Nat), Nat)
  BY NatLessThanWellFounded, Zenon
<1>2. PICK x \in S : \A y \in S : ~(<<y, x>> \in OpToRel(<, Nat))
  BY <1>1, WFMin, Zenon
<1>3. \A y \in S : ~(y < x)
  BY <1>2, Zenon DEF OpToRel
<1> QED BY <1>3

\* Of the sets with a property one has no smaller one below it.
LEMMA SmallestSet ==
  ASSUME NEW K, IsFiniteSet(K), NEW Sets \in SUBSET SUBSET K, Sets # {}
  PROVE  \E S \in Sets : IsFiniteSet(S) /\ \A k \in S : S \ {k} \notin Sets
<1>1. \A S \in Sets : IsFiniteSet(S) /\ Cardinality(S) \in Nat
  BY FS_Subset, FS_CardinalityType
<1> DEFINE Sizes == {Cardinality(S) : S \in Sets}
<1>2. Sizes \in SUBSET Nat /\ Sizes # {}
  BY <1>1
<1>3. PICK n \in Sizes : \A m \in Sizes : n <= m
  BY <1>2, LeastNumber
<1>4. PICK S \in Sets : Cardinality(S) = n
  OBVIOUS
<1>5. ASSUME NEW k \in S, S \ {k} \in Sets PROVE FALSE
  <2>1. Cardinality(S \ {k}) = Cardinality(S) - 1
    BY <1>1, FS_RemoveElement
  <2>2. n <= Cardinality(S \ {k})
    BY <1>3, <1>5
  <2> QED BY <1>1, <1>4, <2>1, <2>2
<1> QED BY <1>1, <1>5

\* The recursion has a solution, size by size.
LEMMA SumsExist ==
  ASSUME NEW K, IsFiniteSet(K), NEW amount
  PROVE  \E sum : Adds(sum, amount, SUBSET K)
<1> DEFINE Upto(n)   == {S \in SUBSET K : Cardinality(S) <= n}
           Without   == {n \in Nat : ~\E sum : Adds(sum, amount, Upto(n))}
<1>1. \A S \in SUBSET K : IsFiniteSet(S) /\ Cardinality(S) \in Nat /\ Cardinality(S) <= Cardinality(K)
  BY FS_Subset, FS_CardinalityType
<1>2. \A S \in SUBSET K : S # {} =>
        /\ One(S) \in S /\ S \ {One(S)} \in SUBSET K
        /\ Cardinality(S \ {One(S)}) = Cardinality(S) - 1
  <2> SUFFICES ASSUME NEW S \in SUBSET K, S # {}
               PROVE  One(S) \in S /\ Cardinality(S \ {One(S)}) = Cardinality(S) - 1
    OBVIOUS
  <2>1. One(S) \in S
    BY DEF One
  <2> QED BY <1>1, <2>1, FS_RemoveElement
<1>3. 0 \notin Without
  <2> DEFINE sum == [S \in Upto(0) |-> 0]
  <2>1. \A S \in Upto(0) : S = {}
    BY <1>1, FS_EmptySet
  <2>2. Adds(sum, amount, Upto(0))
    BY <2>1 DEF Adds
  <2> QED BY <2>2
<1>4. ASSUME NEW n \in Nat, n \notin Without PROVE n + 1 \notin Without
  <2>1. PICK sum : Adds(sum, amount, Upto(n))
    BY <1>4
  <2> DEFINE next == [S \in Upto(n + 1) |-> IF S = {} THEN 0 ELSE amount[One(S)] + sum[S \ {One(S)}]]
  <2>2. \A S \in Upto(n) : next[S] = sum[S]
    <3> TAKE S \in Upto(n)
    <3>1. S \in Upto(n + 1)
      BY <1>1
    <3>2. next[S] = IF S = {} THEN 0 ELSE amount[One(S)] + sum[S \ {One(S)}]
      BY <3>1
    <3>3. sum[S] = IF S = {} THEN 0 ELSE amount[One(S)] + sum[S \ {One(S)}]
      BY <2>1 DEF Adds
    <3> QED BY <3>2, <3>3
  <2>3. \A S \in Upto(n + 1) : S # {} => S \ {One(S)} \in Upto(n)
    BY <1>1, <1>2
  <2>4. \A S \in Upto(n + 1) :
          next[S] = IF S = {} THEN 0 ELSE amount[One(S)] + next[S \ {One(S)}]
    BY <2>2, <2>3
  <2> HIDE DEF Upto
  <2>5. DOMAIN next = Upto(n + 1)
    OBVIOUS
  <2>6. next = [S \in Upto(n + 1) |-> next[S]]
    OBVIOUS
  <2> HIDE DEF next
  <2>7. Adds(next, amount, Upto(n + 1))
    BY <2>4, <2>6 DEF Adds
  <2> QED BY <2>7
<1>5. Without \in SUBSET Nat
  OBVIOUS
<1> HIDE DEF Without
<1>6. Without = {}
  <2> SUFFICES ASSUME Without # {} PROVE FALSE
    OBVIOUS
  <2>1. PICK n \in Without : \A m \in Without : n <= m
    BY <1>5, LeastNumber
  <2>2. n \in Nat /\ n # 0
    BY <1>3, <1>5
  <2>3. n - 1 \in Nat /\ ~(n <= n - 1)
    BY <2>2
  <2>4. n - 1 \notin Without /\ (n - 1) + 1 = n
    BY <2>1, <2>2, <2>3
  <2> QED BY <1>4, <2>3, <2>4
<1>7. Upto(Cardinality(K)) = SUBSET K
  BY <1>1
<1>8. \E sum : Adds(sum, amount, Upto(Cardinality(K)))
  BY <1>6, FS_CardinalityType DEF Without
<1> QED BY <1>7, <1>8

\* The sums are a solution.
LEMMA SumsAreOne ==
  ASSUME NEW K, IsFiniteSet(K), NEW amount
  PROVE  Adds(Sums(amount, K), amount, SUBSET K)
BY SumsExist DEF Sums

LEMMA AddsOne ==
  ASSUME NEW K, NEW amount, NEW sum, Adds(sum, amount, SUBSET K)
  PROVE  /\ sum[{}] = 0
         /\ \A S \in SUBSET K : S # {} => sum[S] = amount[One(S)] + sum[S \ {One(S)}]
<1>1. \A S \in SUBSET K : sum[S] = IF S = {} THEN 0 ELSE amount[One(S)] + sum[S \ {One(S)}]
  BY DEF Adds
<1> QED BY <1>1

\* A total depends on the amounts of its elements only.
LEMMA SumsAgree ==
  ASSUME NEW K, IsFiniteSet(K), NEW J, IsFiniteSet(J), NEW a, NEW b,
         NEW S \in SUBSET (K \cap J), \A k \in S : a[k] = b[k]
  PROVE  Sums(a, K)[S] = Sums(b, J)[S]
<1> DEFINE f == Sums(a, K)
           g == Sums(b, J)
           Sets == {D \in SUBSET S : f[D] # g[D]}
<1>1. Adds(f, a, SUBSET K) /\ Adds(g, b, SUBSET J)
  BY SumsAreOne
<1> HIDE DEF f, g
<1>2. f[{}] = 0 /\ g[{}] = 0
  BY <1>1, AddsOne
<1>3. \A D \in SUBSET S : D # {} => f[D] = a[One(D)] + f[D \ {One(D)}]
  BY <1>1, AddsOne
<1>4. \A D \in SUBSET S : D # {} => g[D] = b[One(D)] + g[D \ {One(D)}]
  BY <1>1, AddsOne
<1>5. Sets = {}
  <2> SUFFICES ASSUME Sets # {} PROVE FALSE
    OBVIOUS
  <2>1. IsFiniteSet(S)
    BY FS_Subset
  <2>2. PICK D \in Sets : \A k \in D : D \ {k} \notin Sets
    BY <2>1, SmallestSet
  <2>3. D \in SUBSET S /\ D # {}
    BY <1>2
  <2>4. One(D) \in D
    BY <2>3 DEF One
  <2>5. f[D \ {One(D)}] = g[D \ {One(D)}] /\ a[One(D)] = b[One(D)]
    BY <2>2, <2>3, <2>4
  <2> QED BY <1>3, <1>4, <2>2, <2>3, <2>5
<1> QED BY <1>5 DEF f, g

LEMMA SumsAreIntegers ==
  ASSUME NEW K, IsFiniteSet(K), NEW amount, \A k \in K : amount[k] \in Int, NEW S \in SUBSET K
  PROVE  Sums(amount, K)[S] \in Int
<1> DEFINE sum  == Sums(amount, K)
           Sets == {D \in SUBSET K : sum[D] \notin Int}
<1>1. Adds(sum, amount, SUBSET K)
  BY SumsAreOne
<1> HIDE DEF sum
<1>2. sum[{}] = 0
  BY <1>1, AddsOne
<1>3. \A D \in SUBSET K : D # {} => sum[D] = amount[One(D)] + sum[D \ {One(D)}]
  BY <1>1, AddsOne
<1>4. Sets = {}
  <2> SUFFICES ASSUME Sets # {} PROVE FALSE
    OBVIOUS
  <2>1. PICK D \in Sets : \A k \in D : D \ {k} \notin Sets
    BY SmallestSet
  <2>2. D \in SUBSET K /\ sum[D] \notin Int
    OBVIOUS
  <2>3. D # {}
    BY <1>2, <2>2
  <2>4. One(D) \in D
    BY <2>3 DEF One
  <2>5. sum[D] = amount[One(D)] + sum[D \ {One(D)}]
    BY <1>3, <2>2, <2>3
  <2>6. sum[D \ {One(D)}] \in Int /\ amount[One(D)] \in Int
    BY <2>1, <2>2, <2>4
  <2> QED BY <2>2, <2>5, <2>6
<1> QED BY <1>4 DEF sum

\* Whichever element is taken out first, the total is the same.
LEMMA SumsTakeOut ==
  ASSUME NEW K, IsFiniteSet(K), NEW amount, \A k \in K : amount[k] \in Int,
         NEW S \in SUBSET K, NEW k \in S
  PROVE  Sums(amount, K)[S] = amount[k] + Sums(amount, K)[S \ {k}]
<1> DEFINE sum  == Sums(amount, K)
           Sets == {D \in SUBSET K : \E j \in D : sum[D] # amount[j] + sum[D \ {j}]}
<1>1. Adds(sum, amount, SUBSET K) /\ \A D \in SUBSET K : sum[D] \in Int
  BY SumsAreOne, SumsAreIntegers
<1> HIDE DEF sum
<1>2. \A D \in SUBSET K : D # {} => sum[D] = amount[One(D)] + sum[D \ {One(D)}]
  BY <1>1, AddsOne
<1>3. Sets = {}
  <2> SUFFICES ASSUME Sets # {} PROVE FALSE
    OBVIOUS
  <2>1. PICK D \in Sets : \A j \in D : D \ {j} \notin Sets
    BY SmallestSet
  <2>2. PICK j \in D : sum[D] # amount[j] + sum[D \ {j}]
    OBVIOUS
  <2> DEFINE c == One(D)
  <2>3. c \in D
    BY <2>2 DEF One
  <2>4. sum[D] = amount[c] + sum[D \ {c}]
    BY <1>2, <2>3
  <2> HIDE DEF c
  <2>5. j # c
    BY <2>2, <2>4
  <2>6. sum[D \ {c}] = amount[j] + sum[(D \ {c}) \ {j}]
    BY <2>1, <2>3, <2>5
  <2>7. sum[D \ {j}] = amount[c] + sum[(D \ {j}) \ {c}]
    BY <2>1, <2>3, <2>5
  <2>8. (D \ {j}) \ {c} = (D \ {c}) \ {j}
    OBVIOUS
  <2>9. sum[(D \ {c}) \ {j}] \in Int /\ amount[j] \in Int /\ amount[c] \in Int
    BY <1>1, <2>3
  <2> DEFINE rest == sum[(D \ {c}) \ {j}]
  <2>10. sum[D] = amount[c] + (amount[j] + rest) /\ sum[D \ {j}] = amount[c] + rest
    BY <2>4, <2>6, <2>7, <2>8
  <2> HIDE DEF rest
  <2>11. rest \in Int => amount[c] + (amount[j] + rest) = amount[j] + (amount[c] + rest)
    BY <2>9
  <2> QED BY <2>2, <2>9, <2>10, <2>11 DEF rest
<1> QED BY <1>3 DEF sum

LEMMA TotalIsASum == \A amount, K : T!Total(amount, K) = Sums(amount, K)[K]
BY DEF T!Total, T!FoldFunctionOnSet, T!MapThenFoldSet, Sums, Adds, One

\* A total is unchanged where its amounts are, and grows by what is added.
LEMMA TotalIsKept ==
  ASSUME NEW K, IsFiniteSet(K), NEW a, NEW b, \A j \in K : a[j] \in Int /\ b[j] = a[j]
  PROVE  T!Total(a, K) \in Int /\ T!Total(b, K) = T!Total(a, K)
<1>1. K \in SUBSET K /\ K \in SUBSET (K \cap K)
  OBVIOUS
<1>2. Sums(a, K)[K] \in Int
  BY <1>1, SumsAreIntegers
<1>3. Sums(b, K)[K] = Sums(a, K)[K]
  BY <1>1, SumsAgree
<1> QED BY <1>2, <1>3, TotalIsASum

LEMMA TotalGrows ==
  ASSUME NEW K, IsFiniteSet(K), NEW k, k \notin K, NEW a, NEW b,
         \A j \in K : a[j] \in Int /\ b[j] = a[j], b[k] \in Int
  PROVE  T!Total(b, K \cup {k}) = T!Total(a, K) + b[k]
<1> DEFINE J == K \cup {k}
<1>1. IsFiniteSet(J) /\ J \in SUBSET J /\ k \in J /\ J \ {k} = K /\ K \in SUBSET (J \cap K)
  BY FS_AddElement
<1>2. \A j \in J : b[j] \in Int
  OBVIOUS
<1> HIDE DEF J
<1>3. Sums(b, J)[J] = b[k] + Sums(b, J)[K]
  BY <1>1, <1>2, SumsTakeOut
<1>4. Sums(b, J)[K] = Sums(b, K)[K]
  BY <1>1, SumsAgree
<1>5. T!Total(b, J) = b[k] + T!Total(b, K)
  BY <1>3, <1>4, TotalIsASum
<1>6. T!Total(a, K) \in Int /\ T!Total(b, K) = T!Total(a, K)
  BY TotalIsKept
<1> QED BY <1>5, <1>6 DEF J

LEMMA TotalOfNone == \A amount : T!Total(amount, {}) = 0
<1>1. ASSUME NEW amount PROVE Sums(amount, {})[{}] = 0
  <2>1. Adds(Sums(amount, {}), amount, SUBSET {})
    BY SumsAreOne, FS_EmptySet
  <2> QED BY <2>1, AddsOne
<1> QED BY <1>1, TotalIsASum

-----------------------------------------------------------------------------
(* The books.  A fill adds one trade to the sums of its side and its       *)
(* currency, and the same amounts to the balances.                         *)

DoneKeys == {k \in Keys : trades[k].done}
InCurrency(side, c) == {k \in T!Done(side) : trades[k].quote.currency = c}

BooksInv == PracticeInv /\ IsFiniteSet(DoneKeys) /\ T!BooksBalance

\* What the one new trade adds to the total of the trades of a side, or of a side and a currency.
LEMMA BookedInTotals ==
  ASSUME BooksInv, BooksTyped', NEW k \in Keys, Booked(k), NEW side \in {"buy", "sell"}
  PROVE  LET new     == trades'[k]
             ours(c) == new.quote.side = side /\ new.quote.currency = c
         IN /\ IsFiniteSet(DoneKeys')
            /\ \A c \in Currencies :
                 /\ T!Total(T!In, InCurrency(side, c)) \in Int
                 /\ T!Total(T!Out, InCurrency(side, c)) \in Int
                 /\ T!Total(T!In, InCurrency(side, c))'
                      = T!Total(T!In, InCurrency(side, c)) + IF ours(c) THEN new.quote.input ELSE 0
                 /\ T!Total(T!Out, InCurrency(side, c))'
                      = T!Total(T!Out, InCurrency(side, c)) + IF ours(c) THEN new.quote.output ELSE 0
            /\ T!Total(T!In, T!Done(side)) \in Int
            /\ T!Total(T!Out, T!Done(side)) \in Int
            /\ T!Total(T!Realized, T!Done(side)) \in Int
            /\ T!Total(T!In, T!Done(side))'
                 = T!Total(T!In, T!Done(side)) + IF new.quote.side = side THEN new.quote.input ELSE 0
            /\ T!Total(T!Out, T!Done(side))'
                 = T!Total(T!Out, T!Done(side)) + IF new.quote.side = side THEN new.quote.output ELSE 0
            /\ T!Total(T!Realized, T!Done(side))'
                 = T!Total(T!Realized, T!Done(side)) + IF new.quote.side = side THEN new.realized ELSE 0
<1> DEFINE new == trades'[k]
<1>1. /\ trades \in [Keys -> TradeType] /\ trades' \in [Keys -> TradeType]
      /\ \A q \in Quotes : q.input \in Nat /\ q.output \in Nat
  BY DEF BooksInv, PracticeInv, BooksTyped, T!QuotesOK
<1>2. \A j \in Keys : /\ trades[j].quote \in Quotes /\ trades'[j].quote \in Quotes
                      /\ trades[j].realized \in Int /\ trades'[j].realized \in Int
  BY <1>1 DEF TradeType
<1>3. ~trades[k].done /\ new.done /\ \A j \in Keys \ {k} : trades'[j] = trades[j]
  BY DEF Booked
<1>4. k \notin DoneKeys /\ DoneKeys' = DoneKeys \cup {k} /\ IsFiniteSet(DoneKeys)
  BY <1>3 DEF DoneKeys, BooksInv
<1>5. IsFiniteSet(DoneKeys')
  BY <1>4, FS_AddElement
<1>6. \A j \in Keys : /\ T!In[j] \in Int /\ T!Out[j] \in Int /\ T!Realized[j] \in Int
                      /\ T!In'[j] \in Int /\ T!Out'[j] \in Int /\ T!Realized'[j] \in Int
  BY <1>1, <1>2 DEF T!In, T!Out, T!Realized
<1>7. /\ \A j \in Keys \ {k} : T!In'[j] = T!In[j] /\ T!Out'[j] = T!Out[j] /\ T!Realized'[j] = T!Realized[j]
      /\ T!In'[k] = new.quote.input /\ T!Out'[k] = new.quote.output /\ T!Realized'[k] = new.realized
  BY <1>3 DEF T!In, T!Out, T!Realized
<1> HIDE DEF new
<1> DEFINE Extends(a, b) == /\ \A j \in Keys : a[j] \in Int /\ b[j] \in Int
                            /\ \A j \in Keys \ {k} : b[j] = a[j]
<1>8. ASSUME NEW a, NEW b, Extends(a, b), NEW K \in SUBSET DoneKeys
      PROVE  /\ T!Total(a, K) \in Int
             /\ T!Total(b, K) = T!Total(a, K)
             /\ T!Total(b, K \cup {k}) = T!Total(a, K) + b[k]
  <2>1. IsFiniteSet(K) /\ k \notin K /\ K \in SUBSET (Keys \ {k})
    BY <1>4, FS_Subset DEF DoneKeys
  <2>2. (\A j \in K : a[j] \in Int /\ b[j] = a[j]) /\ b[k] \in Int
    BY <1>8, <2>1
  <2>3. T!Total(a, K) \in Int /\ T!Total(b, K) = T!Total(a, K)
    BY <2>1, <2>2, TotalIsKept
  <2>4. T!Total(b, K \cup {k}) = T!Total(a, K) + b[k]
    BY <2>1, <2>2, TotalGrows
  <2> QED BY <2>3, <2>4
<1>80. Extends(T!In, T!In') /\ Extends(T!Out, T!Out') /\ Extends(T!Realized, T!Realized')
  BY <1>6, <1>7
<1> HIDE DEF Extends
<1>9. /\ T!Done(side) \in SUBSET DoneKeys
      /\ T!Done(side)' = IF new.quote.side = side THEN T!Done(side) \cup {k} ELSE T!Done(side)
  BY <1>3 DEF T!Done, DoneKeys, new
<1>10. ASSUME NEW c \in Currencies
       PROVE  /\ InCurrency(side, c) \in SUBSET DoneKeys
              /\ InCurrency(side, c)' = IF new.quote.side = side /\ new.quote.currency = c
                                        THEN InCurrency(side, c) \cup {k} ELSE InCurrency(side, c)
  BY <1>3 DEF T!Done, DoneKeys, InCurrency, new
<1> DEFINE mine == new.quote.side = side
           ours(c) == new.quote.side = side /\ new.quote.currency = c
<1>11. /\ T!Total(T!In, T!Done(side)) \in Int
       /\ T!Total(T!In', T!Done(side)') = T!Total(T!In, T!Done(side)) + IF mine THEN T!In'[k] ELSE 0
  BY <1>80, <1>8, <1>9
<1>12. /\ T!Total(T!Out, T!Done(side)) \in Int
       /\ T!Total(T!Out', T!Done(side)') = T!Total(T!Out, T!Done(side)) + IF mine THEN T!Out'[k] ELSE 0
  BY <1>80, <1>8, <1>9
<1>13. /\ T!Total(T!Realized, T!Done(side)) \in Int
       /\ T!Total(T!Realized', T!Done(side)')
            = T!Total(T!Realized, T!Done(side)) + IF mine THEN T!Realized'[k] ELSE 0
  BY <1>80, <1>8, <1>9
<1>14. ASSUME NEW c \in Currencies
       PROVE  /\ T!Total(T!In, InCurrency(side, c)) \in Int
              /\ T!Total(T!In', InCurrency(side, c)')
                   = T!Total(T!In, InCurrency(side, c)) + IF ours(c) THEN T!In'[k] ELSE 0
  <2>1. InCurrency(side, c) \in SUBSET DoneKeys
    BY <1>10
  <2>2. /\ T!Total(T!In, InCurrency(side, c)) \in Int
        /\ T!Total(T!In', InCurrency(side, c)) = T!Total(T!In, InCurrency(side, c))
        /\ T!Total(T!In', InCurrency(side, c) \cup {k}) = T!Total(T!In, InCurrency(side, c)) + T!In'[k]
    BY <1>8, <1>80, <2>1
  <2>3. InCurrency(side, c)' = IF ours(c) THEN InCurrency(side, c) \cup {k} ELSE InCurrency(side, c)
    BY <1>10
  <2> QED BY <2>2, <2>3
<1>15. ASSUME NEW c \in Currencies
       PROVE  /\ T!Total(T!Out, InCurrency(side, c)) \in Int
              /\ T!Total(T!Out', InCurrency(side, c)')
                   = T!Total(T!Out, InCurrency(side, c)) + IF ours(c) THEN T!Out'[k] ELSE 0
  <2>1. InCurrency(side, c) \in SUBSET DoneKeys
    BY <1>10
  <2>2. /\ T!Total(T!Out, InCurrency(side, c)) \in Int
        /\ T!Total(T!Out', InCurrency(side, c)) = T!Total(T!Out, InCurrency(side, c))
        /\ T!Total(T!Out', InCurrency(side, c) \cup {k}) = T!Total(T!Out, InCurrency(side, c)) + T!Out'[k]
    BY <1>8, <1>80, <2>1
  <2>3. InCurrency(side, c)' = IF ours(c) THEN InCurrency(side, c) \cup {k} ELSE InCurrency(side, c)
    BY <1>10
  <2> QED BY <2>2, <2>3
<1> QED BY <1>5, <1>7, <1>11, <1>12, <1>13, <1>14, <1>15 DEF new

LEMMA BooksInit == T!QuotesOK /\ T!Init => BooksInv
<1> SUFFICES ASSUME T!QuotesOK, T!Init PROVE BooksInv
  OBVIOUS
<1>1. DoneKeys = {} /\ \A side \in {"buy", "sell"} : T!Done(side) = {}
  BY DEF T!Init, T!NoTrade, T!Done, DoneKeys
<1>2. \A side \in {"buy", "sell"}, c \in Currencies : InCurrency(side, c) = {}
  BY <1>1 DEF InCurrency
<1>3. Start_ \in Nat /\ \A c \in Currencies : cash[c] = Start_
  BY DEF T!Init, T!QuotesOK
<1>4. holding.amount = 0 /\ holding.basis = 0 /\ holding.pnl = 0
  BY DEF T!Init, T!NoHolding
<1>5. T!BooksBalance
  BY <1>1, <1>2, <1>3, <1>4, TotalOfNone DEF T!BooksBalance, InCurrency
<1> QED BY <1>1, <1>5, PracticeInit, FS_EmptySet DEF BooksInv

LEMMA BooksStep ==
  ASSUME BooksInv, [T!Next]_(T!vars)
  PROVE  BooksInv'
<1>1. PracticeInv' /\ (UNCHANGED <<cash, holding, trades>> \/ \E k \in Keys : Booked(k))
  BY PracticeStep DEF BooksInv
<1>2. CASE UNCHANGED <<cash, holding, trades>>
  BY <1>1, <1>2 DEF BooksInv, DoneKeys, T!BooksBalance, T!Done, T!In, T!Out, T!Realized
<1>3. ASSUME NEW k \in Keys, Booked(k) PROVE BooksInv'
  <2> DEFINE q == trades'[k].quote
             gain == trades'[k].realized
  <2>1. BooksTyped'
    BY <1>1 DEF PracticeInv
  <2>2. /\ q.side \in {"buy", "sell"} /\ q.currency \in Currencies
        /\ q.input \in Nat /\ q.output \in Nat /\ gain \in Int
    BY <1>1, <2>1 DEF PracticeInv, BooksTyped, TradeType, T!QuotesOK
  <2>3. /\ cash \in [Currencies -> Nat]
        /\ holding.amount \in Int /\ holding.basis \in Int /\ holding.pnl \in Int
    BY DEF BooksInv, PracticeInv, BooksTyped, HoldingType
  <2>4. /\ \A c \in Currencies :
             cash[c] = Start_ - T!Total(T!In, InCurrency("buy", c)) + T!Total(T!Out, InCurrency("sell", c))
        /\ holding.amount = T!Total(T!Out, T!Done("buy")) - T!Total(T!In, T!Done("sell"))
        /\ holding.pnl = T!Total(T!Realized, T!Done("sell"))
        /\ holding.basis = T!Total(T!In, T!Done("buy")) - T!Total(T!Out, T!Done("sell")) + holding.pnl
    BY DEF BooksInv, T!BooksBalance, InCurrency
  <2>5. Start_ \in Nat
    BY DEF BooksInv, PracticeInv, T!QuotesOK
  <2>6. IsFiniteSet(DoneKeys')
    BY <1>3, <2>1, BookedInTotals
  \* The totals before, and what the trade adds to them.
  <2>7. ASSUME NEW c \in Currencies
        PROVE  cash'[c] = Start_ - T!Total(T!In, InCurrency("buy", c))'
                            + T!Total(T!Out, InCurrency("sell", c))'
    <3>1. /\ T!Total(T!In, InCurrency("buy", c)) \in Int
          /\ T!Total(T!In, InCurrency("buy", c))' = T!Total(T!In, InCurrency("buy", c))
               + IF q.side = "buy" /\ q.currency = c THEN q.input ELSE 0
      BY <1>3, <2>1, BookedInTotals
    <3>2. /\ T!Total(T!Out, InCurrency("sell", c)) \in Int
          /\ T!Total(T!Out, InCurrency("sell", c))' = T!Total(T!Out, InCurrency("sell", c))
               + IF q.side = "sell" /\ q.currency = c THEN q.output ELSE 0
      BY <1>3, <2>1, BookedInTotals
    <3>3. cash'[c] = IF q.currency # c THEN cash[c]
                     ELSE IF q.side = "buy" THEN cash[c] - q.input ELSE cash[c] + q.output
      BY <1>3, <2>2 DEF Booked
    <3>4. cash[c] = Start_ - T!Total(T!In, InCurrency("buy", c)) + T!Total(T!Out, InCurrency("sell", c))
      BY <2>4
    <3> QED BY <2>2, <2>5, <3>1, <3>2, <3>3, <3>4
  <2>8. /\ T!Total(T!In, T!Done("buy")) \in Int /\ T!Total(T!Out, T!Done("buy")) \in Int
        /\ T!Total(T!In, T!Done("buy"))'
             = T!Total(T!In, T!Done("buy")) + IF q.side = "buy" THEN q.input ELSE 0
        /\ T!Total(T!Out, T!Done("buy"))'
             = T!Total(T!Out, T!Done("buy")) + IF q.side = "buy" THEN q.output ELSE 0
    BY <1>3, <2>1, BookedInTotals
  <2>9. /\ T!Total(T!In, T!Done("sell")) \in Int /\ T!Total(T!Out, T!Done("sell")) \in Int
        /\ T!Total(T!Realized, T!Done("sell")) \in Int
        /\ T!Total(T!In, T!Done("sell"))'
             = T!Total(T!In, T!Done("sell")) + IF q.side = "sell" THEN q.input ELSE 0
        /\ T!Total(T!Out, T!Done("sell"))'
             = T!Total(T!Out, T!Done("sell")) + IF q.side = "sell" THEN q.output ELSE 0
        /\ T!Total(T!Realized, T!Done("sell"))'
             = T!Total(T!Realized, T!Done("sell")) + IF q.side = "sell" THEN gain ELSE 0
    BY <1>3, <2>1, BookedInTotals
  <2>10. /\ q.side = "buy" => /\ holding'.amount = holding.amount + q.output
                              /\ holding'.basis = holding.basis + q.input
                              /\ holding'.pnl = holding.pnl
         /\ q.side = "sell" => /\ holding'.amount = holding.amount - q.input
                               /\ holding'.basis = holding.basis - (q.output - gain)
                               /\ holding'.pnl = holding.pnl + gain
    BY <1>3 DEF Booked
  <2> HIDE DEF q, gain
  <2>11. holding'.amount = T!Total(T!Out, T!Done("buy"))' - T!Total(T!In, T!Done("sell"))'
    BY <2>2, <2>3, <2>4, <2>8, <2>9, <2>10
  <2>12. holding'.pnl = T!Total(T!Realized, T!Done("sell"))'
    BY <2>2, <2>3, <2>4, <2>8, <2>9, <2>10
  <2>13. holding'.basis = T!Total(T!In, T!Done("buy"))' - T!Total(T!Out, T!Done("sell"))' + holding'.pnl
    BY <2>2, <2>3, <2>4, <2>8, <2>9, <2>10
  <2>14. T!BooksBalance'
    BY <2>7, <2>11, <2>12, <2>13 DEF T!BooksBalance, InCurrency
  <2> QED BY <1>1, <2>6, <2>14 DEF BooksInv
<1> QED BY <1>1, <1>2, <1>3

\* placePracticeTrade: the balances and the holding are what the stored trades add up to, however
\* many there are, whichever requests race and however often they are replayed.
THEOREM BooksAddUp == T!QuotesOK /\ T!Spec => []T!BooksBalance
<1>1. BooksInv => T!BooksBalance
  BY DEF BooksInv
<1>2. BooksInv /\ [T!Next]_(T!vars) => BooksInv'
  BY BooksStep
<1> QED BY <1>1, <1>2, BooksInit, PTL DEF T!Spec

-----------------------------------------------------------------------------
(* The proven phase and what shows it. *)

\* The token and the snapshot are shown as graduated only when a stored event proves it.
GraduatedIsProven == mint.graduated \/ snap.graduated => phase.rank = 3

\* advanceLifecycleState, mirrorPhaseOntoToken: what a step makes of the three.
LEMMA GraduationStep ==
  ASSUME PumpInv, [L!Next]_(L!vars)
  PROVE  /\ GraduatedIsProven => GraduatedIsProven'
         /\ mint.row # "none" /\ L!ProvenPhaseIsMirrored => L!ProvenPhaseIsMirrored'
<1>1. /\ mint \in [row: {"none", "CANONICAL", "ORPHANED"}, graduated: BOOLEAN]
      /\ snap \in [at: 0..slot, ready: BOOLEAN, graduated: BOOLEAN]
  BY DEF PumpInv, L!TypeOK
<1>2. CASE UNCHANGED <<mint, snap, phase>>
  BY <1>2 DEF GraduatedIsProven, L!ProvenPhaseIsMirrored
<1>3. CASE L!Orphan
  <2>1. UNCHANGED <<phase, snap>> /\ (mint' = mint \/ mint' = [mint EXCEPT !.row = "ORPHANED"])
    BY <1>3 DEF L!Orphan
  <2>2. mint'.graduated = mint.graduated
    BY <1>1, <2>1
  <2> QED
    BY <2>1, <2>2 DEF GraduatedIsProven, L!ProvenPhaseIsMirrored
<1>4. ASSUME NEW f \in Fetchers, L!Persist(f)
      PROVE  /\ GraduatedIsProven => GraduatedIsProven'
             /\ mint.row # "none" /\ L!ProvenPhaseIsMirrored => L!ProvenPhaseIsMirrored'
  <2> DEFINE t == held[f]
             created == L!Created(t)
             moves == t \in L!Lifecycle /\ L!Advances(t)
             traded == IF L!Trades(t, created) THEN L!Snapshot(t) ELSE snap
  <2>1. /\ mint' = IF moves THEN L!MirrorToken(t, created) ELSE created
        /\ snap' = IF moves THEN L!MirrorSnapshot(t, traded) ELSE traded
        /\ phase' = IF moves THEN [rank |-> L!Rank(t), slot |-> t] ELSE phase
    BY <1>4 DEF L!Persist
  <2>2. /\ created \in [row: {"none", "CANONICAL", "ORPHANED"}, graduated: BOOLEAN]
        /\ created.graduated = mint.graduated /\ (mint.row # "none" => created.row # "none")
    BY <1>1 DEF L!Created
  <2>3. traded.graduated = snap.graduated /\ DOMAIN traded = {"at", "ready", "graduated"}
    BY <1>1 DEF L!Snapshot
  <2>4. t \in L!Lifecycle => L!Rank(t) \in {0, 1, 3}
    BY PumpKindsAre DEF PumpInv
  <2>5. /\ L!MirrorToken(t, created).graduated = (created.graduated \/ (created.row # "none" /\ L!Rank(t) = 3))
        /\ L!MirrorToken(t, created).row = created.row
    BY <2>2 DEF L!MirrorToken
  <2>6. t \in L!Lifecycle /\ L!MirrorSnapshot(t, traded).graduated => traded.graduated \/ L!Rank(t) = 3
    <3>1. ASSUME NEW k \in [at: 0..slot, ready: BOOLEAN, graduated: BOOLEAN], t \in L!Lifecycle, L!Rank(t) # 3
          PROVE  L!MirrorSnapshot(t, k).graduated = k.graduated
      BY <2>4, <3>1 DEF L!MirrorSnapshot
    <3>2. t \in 0..slot
      BY <1>4 DEF PumpInv, L!TypeOK
    <3>3. traded \in [at: 0..slot, ready: BOOLEAN, graduated: BOOLEAN]
      BY <1>1, <3>2 DEF L!Snapshot
    <3> QED
      BY <3>1, <3>3
  <2>7. moves => phase.rank <= L!Rank(t)
    BY <2>4 DEF L!Advances, PumpInv, L!TypeOK
  <2> HIDE DEF created, traded, t
  <2>8. CASE moves
    <3>1. phase'.rank = L!Rank(t) /\ phase.rank <= L!Rank(t) /\ L!Rank(t) \in {0, 1, 3}
      BY <2>1, <2>4, <2>7, <2>8
    <3>2. /\ t \in L!Lifecycle
          /\ mint' = L!MirrorToken(t, created) /\ snap' = L!MirrorSnapshot(t, traded)
      BY <2>1, <2>8
    <3>3. /\ mint'.row = created.row
          /\ mint'.graduated = (mint.graduated \/ (created.row # "none" /\ L!Rank(t) = 3))
          /\ snap'.graduated => snap.graduated \/ L!Rank(t) = 3
      BY <2>2, <2>3, <2>5, <2>6, <3>2
    <3>4. CASE L!Rank(t) = 3
      BY <3>1, <3>3, <3>4 DEF GraduatedIsProven, L!ProvenPhaseIsMirrored
    <3>5. CASE L!Rank(t) # 3
      <4>1. phase.rank # 3 /\ phase'.rank # 3
        BY <3>1, <3>5
      <4> QED
        BY <3>3, <3>5, <4>1 DEF GraduatedIsProven, L!ProvenPhaseIsMirrored
    <3> QED
      BY <3>4, <3>5
  <2>9. CASE ~moves
    BY <2>1, <2>2, <2>3, <2>9 DEF GraduatedIsProven, L!ProvenPhaseIsMirrored
  <2> QED
    BY <2>8, <2>9
<1>5. CASE L!Confirm \/ L!Finalize \/ L!RefreshHeads \/ L!Reconcile \/ L!Promote \/ L!Unanswered
  BY <1>2, <1>5 DEF L!Confirm, L!Finalize, L!RefreshHeads, L!Reconcile, L!Promote, L!Unanswered, L!rows
<1>6. CASE (\E t \in L!Txs : L!Drop(t)) \/ \E f \in Fetchers : L!GiveUp(f) \/ \E t \in L!Txs : L!Fetch(f, t)
  BY <1>2, <1>6 DEF L!Drop, L!GiveUp, L!Fetch, L!rows
<1>7. CASE UNCHANGED L!vars
  BY <1>2, <1>7 DEF L!vars, L!rows
<1> QED
  BY <1>3, <1>4, <1>5, <1>6, <1>7 DEF L!Next

\* No mint is shown as graduated that no stored event proves, whatever order history comes in.
THEOREM GraduationIsProven == L!KnownKinds /\ L!Spec => []GraduatedIsProven
<1> SUFFICES ASSUME L!KnownKinds PROVE L!Spec => []GraduatedIsProven
  OBVIOUS
<1>1. L!Init => GraduatedIsProven
  BY DEF L!Init, GraduatedIsProven
<1> QED
  BY <1>1, PumpInvariant, GraduationStep, PTL DEF L!Spec

\* A proven phase is missed by no token row that is there when it is proven: the one way to what
\* the run pump_ungraduated shows is a row that is created afterwards.
THEOREM PhaseReachesTheRow ==
  L!KnownKinds /\ L!Spec => [][mint.row # "none" /\ L!ProvenPhaseIsMirrored => L!ProvenPhaseIsMirrored']_(L!vars)
<1> SUFFICES ASSUME L!KnownKinds
             PROVE  L!Spec => [][mint.row # "none" /\ L!ProvenPhaseIsMirrored => L!ProvenPhaseIsMirrored']_(L!vars)
  OBVIOUS
<1>1. PumpInv /\ [L!Next]_(L!vars) => [mint.row # "none" /\ L!ProvenPhaseIsMirrored => L!ProvenPhaseIsMirrored']_(L!vars)
  BY GraduationStep
<1> QED
  BY <1>1, PumpInvariant, PTL DEF L!Spec

-----------------------------------------------------------------------------
(* The composition. *)

everything == <<part, vars, pumpfun, practice, vanity, proofs, moonpay>>

\* A step of the ledgers is a step of one part, and the others rest.
LEMMA LedgersStep ==
  ASSUME [LedgersNext]_everything
  PROVE  /\ [Next]_vars /\ [L!Next]_(L!vars) /\ [T!Next]_(T!vars) /\ [V!Next]_(V!vars)
         /\ [W!Next]_(W!vars) /\ [M!Next]_(M!vars)
<1>1. /\ UNCHANGED practice => UNCHANGED T!vars
      /\ UNCHANGED pumpfun => UNCHANGED L!vars
      /\ UNCHANGED vanity => UNCHANGED V!vars
      /\ UNCHANGED proofs => UNCHANGED W!vars
      /\ UNCHANGED moonpay => UNCHANGED M!vars
  BY DEF L!vars, L!chain, L!rows, T!vars, V!vars, W!vars, M!vars, M!rows, M!provider, pumpfun,
         practice, vanity, proofs, moonpay
<1>2. CASE LedgersNext
  BY <1>1, <1>2 DEF LedgersNext
<1>3. CASE UNCHANGED everything
  BY <1>1, <1>3 DEF everything
<1> QED
  BY <1>2, <1>3

\* The invariants of the parts hold side by side.
LedgersInv ==
  BackfillInv /\ PumpInv /\ BooksInv /\ VanityInv /\ PickedIsFree /\ WalletInv /\ M!MInv

THEOREM LedgersInvariant == LedgersSpec => []LedgersInv
<1>1. LedgersInit => LedgersInv
  BY LedgersConstants, BackfillInit, PumpInit, BooksInit, VanityInit, FreeInit, WalletInit, M!PurchaseInit
     DEF LedgersInit, LedgersInv
<1>2. LedgersInv /\ [LedgersNext]_everything => LedgersInv'
  BY LedgersStep, BackfillStep, PumpStep, BooksStep, VanityStep, FreeStep, WalletStep,
     M!PurchaseStep DEF LedgersInv
<1> QED
  BY <1>1, <1>2, PTL DEF LedgersSpec, everything

\* Cursors never pass a trade that was not stored, also among the other ledgers.
THEOREM HistoriesAreHonest == LedgersSpec => []HistoryIsHonest
<1>1. LedgersInv => HistoryIsHonest
  BY BackfillMeans DEF LedgersInv
<1> QED
  BY <1>1, LedgersInvariant, PTL

\* pump.fun, whatever the order of storing, finalizing and orphaning: the phase is the furthest any
\* stored event proves, one orphaned since included, and the snapshot is that of the newest stored
\* trade; a final event is of a finalized transaction, unless a fork dropped it between fetch and
\* write; an orphaned transaction loses its trade with its event.
THEOREM LifecyclesAreHonest == LedgersSpec => []LifecycleIsHonest
<1>1. LedgersInv => LifecycleIsHonest
  BY PumpMeans DEF LedgersInv, LifecycleIsHonest
<1> QED
  BY <1>1, LedgersInvariant, PTL

\* No replay of a transaction changes an event that is final or orphaned, and no reservation
\* takes an address from a live one.
THEOREM WhatIsSettledIsKept == LedgersSpec => WhatIsSettledStays
<1> DEFINE Settled == \A t \in L!Lifecycle : events[t] \in {"final", "orphaned"} => events'[t] = events[t]
           Lives == \A a \in Stock : V!Live(a) => address'[a].by \in {address[a].by, V!None}
<1>1. LedgersInv /\ [LedgersNext]_everything => [Settled]_events /\ [Lives]_(V!vars)
  BY LedgersStep, PumpStep, FreeStep DEF LedgersInv, KeepsLive
<1>2. [][Settled]_events <=> L!SettledStays
  BY PTL DEF L!SettledStays
<1>3. [][Lives]_(V!vars) <=> V!LiveIsKept
  BY PTL DEF V!LiveIsKept
<1> HIDE DEF Settled, Lives
<1>4. LedgersSpec => [][Settled]_events /\ [][Lives]_(V!vars)
  BY <1>1, LedgersInvariant, PTL DEF LedgersSpec, everything
<1> QED
  BY <1>2, <1>3, <1>4 DEF WhatIsSettledStays

\* Practice portfolios among the other ledgers: the books balance, and basis follows the tokens.
THEOREM BooksAreBalanced == LedgersSpec => []BooksBalance
<1>1. PracticeInv => T!TypeOK /\ T!BasisFollowsTheTokens
  BY DEF PracticeInv, BooksTyped, T!TypeOK, T!BasisFollowsTheTokens, HoldingType, FillType
<1>2. LedgersInv => BooksBalance
  BY <1>1 DEF LedgersInv, BooksInv, BooksBalance
<1> QED
  BY <1>2, LedgersInvariant, PTL

\* Vanity addresses are exclusive in the composed run as they are alone.
THEOREM ReservationsAreExclusive == LedgersSpec => []VanityIsExclusive
<1>1. LedgersInv => VanityIsExclusive
  BY VanityMeans DEF LedgersInv, VanityIsExclusive
<1> QED
  BY <1>1, LedgersInvariant, PTL

\* And a signed challenge links at most once.
THEOREM ChallengesLinkOnce == LedgersSpec => []ProofsAreUsedOnce
<1>1. LedgersInv => ProofsAreUsedOnce
  BY WalletMeans DEF LedgersInv, ProofsAreUsedOnce
<1> QED
  BY <1>1, LedgersInvariant, PTL

\* Card purchases: an order follows one payment, the newest statement about it wins, and a key
\* has one order.
THEOREM OrdersAreMoonPays == LedgersSpec => []OrdersFollowMoonPay
<1>1. LedgersInv => OrdersFollowMoonPay
  BY M!InvariantTypes DEF LedgersInv, M!MInv, M!RowsOK, OrdersFollowMoonPay
<1> QED
  BY <1>1, LedgersInvariant, PTL
====================================================================================
