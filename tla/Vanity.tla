---------------------------------- MODULE Vanity ----------------------------------
(***************************************************************************)
(* vanityService: a stock of mint addresses that users reserve for a while *)
(* and a launch service consumes.  A request reads the time first; its     *)
(* transaction may wait for a lock long after.                             *)
(***************************************************************************)
EXTENDS Integers, FiniteSets

CONSTANTS
  Requests, Users,
  Stock,       \* addresses 1..n, in the order of import
  Launches,    \* idempotency keys of the launch service
  Keys,        \* idempotency keys of the users
  TTL,         \* VANITY_RESERVATION_TTL_MS
  MaxClock,    \* bound of the runs
  MaxAsks      \* bound: reservations made or asked for

VARIABLES
  row,      \* row[a]: VanityAddress: [status, rid, by, expires, key, launch]
  call,     \* call[r]: [pc, kind, by, key, rid, now, pick]: a request under way
  granted,  \* <<address, reservation, launch>> whose secret reference was handed out
  rids,     \* reservation ids issued so far
  clock

vars == <<row, call, granted, rids, clock>>

None == 0

\* What the theorems assume: 0 names nobody and nothing.
NamesApart == Stock \subseteq Nat /\ None \notin Users \cup Launches /\ TTL \in Nat

Fresh(status) == [status |-> status, rid |-> 0, by |-> None, expires |-> 0, key |-> None, launch |-> None]
NoCall == [pc |-> "idle", kind |-> "none", by |-> None, key |-> None, rid |-> 0, now |-> 0, pick |-> 0]

Init ==
  /\ row = [a \in Stock |-> Fresh("AVAILABLE")]
  /\ call = [r \in Requests |-> NoCall]
  /\ granted = {} /\ rids = 0 /\ clock = 0

Ends(r) == call' = [call EXCEPT ![r] = NoCall]

-----------------------------------------------------------------------------
Ask(r, kind, by, key, rid) ==
  /\ call[r].pc = "idle"
  /\ call' = [call EXCEPT ![r] = [pc |-> "start", kind |-> kind, by |-> by, key |-> key, rid |-> rid,
                                  now |-> clock, pick |-> 0]]
  /\ UNCHANGED <<row, granted, rids, clock>>

\* Mutant: no advisory lock.
AnyTime(r) == TRUE

\* pg_advisory_xact_lock: one reserve of a user at a time.
Alone(r) == \A o \in Requests \ {r} : call[o].pc \in {"pick", "picked"} => call[o].by # call[r].by

Locked(a) == \E o \in Requests : call[o].pc = "picked" /\ call[o].pick = a

\* A reservation of this key, expired or not, or the user's live one, answers.
Known(c) ==
  \E a \in Stock : row[a].by = c.by /\ row[a].by # None /\
    (row[a].key = c.key \/ (row[a].status = "RESERVED" /\ row[a].expires > c.now))

Enter(r) ==
  /\ call[r].pc = "start" /\ call[r].kind = "reserve" /\ Alone(r)
  /\ IF Known(call[r]) THEN Ends(r) ELSE call' = [call EXCEPT ![r].pc = "pick"]
  /\ UNCHANGED <<row, granted, rids, clock>>

InStock(a, now) == row[a].status = "AVAILABLE" \/ (row[a].status = "RESERVED" /\ row[a].expires <= now)

\* FOR UPDATE SKIP LOCKED: the oldest row no other pick has locked.
Pick(r) ==
  LET free == {a \in Stock : InStock(a, call[r].now) /\ ~Locked(a)}
  IN /\ call[r].pc = "pick"
     /\ IF free = {} THEN Ends(r)
        ELSE \E a \in free :
               /\ \A b \in free : a <= b
               /\ call' = [call EXCEPT ![r].pc = "picked", ![r].pick = a]
     /\ UNCHANGED <<row, granted, rids, clock>>

Reserve(r) ==
  LET c == call[r]
  IN /\ c.pc = "picked"
     /\ row' = [row EXCEPT ![c.pick] = [status |-> "RESERVED", rid |-> rids + 1, by |-> c.by,
                                        expires |-> c.now + TTL, key |-> c.key, launch |-> @.launch]]
     /\ rids' = rids + 1
     /\ Ends(r)
     /\ UNCHANGED <<granted, clock>>

-----------------------------------------------------------------------------
Under(rid) == {a \in Stock : row[a].rid = rid}

Releasable(a, user) == row[a].by = user /\ row[a].status # "CONSUMED"

\* releaseReservation: by its owner, unless it is consumed.
Release(r) ==
  LET c == call[r]
  IN /\ c.pc = "start" /\ c.kind = "release"
     /\ \A a \in Under(c.rid) : ~Locked(a)
     /\ row' = [a \in Stock |-> IF a \in Under(c.rid) /\ Releasable(a, c.by)
                                THEN Fresh("AVAILABLE") ELSE row[a]]
     /\ Ends(r)
     /\ UNCHANGED <<granted, rids, clock>>

\* A consumed address answers only its own launch; a reservation must be live by the request's time.
MayConsume(a, c) ==
  \/ row[a].status = "CONSUMED" /\ row[a].launch = c.key
  \/ row[a].status = "RESERVED" /\ row[a].expires > c.now

Consume(r) ==
  LET c == call[r]
      hit == {a \in Under(c.rid) : MayConsume(a, c)}
  IN /\ c.pc = "start" /\ c.kind = "consume"
     /\ \A a \in Under(c.rid) : ~Locked(a)
     /\ row' = [a \in Stock |-> IF a \in hit THEN [row[a] EXCEPT !.status = "CONSUMED", !.launch = c.key] ELSE row[a]]
     /\ granted' = granted \cup {<<a, c.rid, c.key>> : a \in hit}
     /\ Ends(r)
     /\ UNCHANGED <<rids, clock>>

\* retireAddresses: an exposed address leaves the stock, reserved or not.
Retire(a) ==
  /\ row[a].status \in {"AVAILABLE", "RESERVED"} /\ ~Locked(a)
  /\ row' = [row EXCEPT ![a] = Fresh("RETIRED")]
  /\ UNCHANGED <<call, granted, rids, clock>>

Tick == clock < MaxClock /\ clock' = clock + 1 /\ UNCHANGED <<row, call, granted, rids>>

-----------------------------------------------------------------------------
AskReserve(r, u, k) ==
  /\ rids + Cardinality({o \in Requests : call[o].kind = "reserve"}) < MaxAsks
  /\ Ask(r, "reserve", u, k, 0)

AskRelease(r, u, rid) == Ask(r, "release", u, None, rid)
AskConsume(r, launch, rid) == Ask(r, "consume", None, launch, rid)

Next ==
  \/ \E r \in Requests :
       \/ \E u \in Users, k \in Keys : AskReserve(r, u, k)
       \/ \E u \in Users, rid \in 1..rids : AskRelease(r, u, rid)
       \/ \E l \in Launches, rid \in 1..rids : AskConsume(r, l, rid)
       \/ Enter(r) \/ Pick(r) \/ Reserve(r) \/ Release(r) \/ Consume(r)
  \/ \E a \in Stock : Retire(a)
  \/ Tick

Spec == Init /\ [][Next]_vars

-----------------------------------------------------------------------------
Live(a) == row[a].status = "RESERVED" /\ row[a].expires > clock

\* Each row is well formed, and no reservation is on two addresses.
TypeOK ==
  /\ \A a \in Stock : /\ row[a].status \in {"AVAILABLE", "RESERVED", "CONSUMED", "RETIRED"}
                      /\ (row[a].by = None) <=> (row[a].status \in {"AVAILABLE", "RETIRED"})
                      /\ (row[a].launch # None) <=> (row[a].status = "CONSUMED")
  /\ \A a, b \in Stock : a # b /\ row[a].rid = row[b].rid => row[a].rid = 0

\* However many of a user's requests race, at most one live reservation is theirs.
OneLivePerUser == \A a, b \in Stock : Live(a) /\ Live(b) /\ row[a].by = row[b].by => a = b

\* The secret reference of an address goes to one launch, under one reservation.
OneLaunchPerAddress ==
  \A g, h \in granted : g[1] = h[1] => g = h

\* However requests race, a user holds at most one live reservation, and an address goes to one
\* launch, under one reservation.
VanityIsExclusive == TypeOK /\ OneLivePerUser /\ OneLaunchPerAddress

\* While a reservation is live, its address goes to nobody else.
LiveIsKept == [][\A a \in Stock : Live(a) => row'[a].by \in {row[a].by, None}]_vars
=============================================================================
