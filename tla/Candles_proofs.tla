------------------------------ MODULE Candles_proofs ------------------------------
(***************************************************************************)
(* The candles of Candles match the trades once no invalidation is open,   *)
(* for any streams, trades, resolutions, page cap and number of faults.    *)
(*                                                                         *)
(* The two loops may hold snapshots of the same invalidations, and one may *)
(* settle what the other still holds with a window that begins elsewhere.  *)
(* So an open invalidation counts for a trade only when every loop that    *)
(* would settle it also recomputes that trade (Pinned); whatever is wrong  *)
(* about a trade in its candles is covered by one that counts.             *)
(***************************************************************************)
EXTENDS Candles, FiniteSetTheorems, TLAPS

Pinned(i, t) ==
  /\ Aligned(i.from) <= TimeOf(t)
  /\ \A l \in Loops : i.id \in loop[l].ids => Aligned(loop[l].from) <= TimeOf(t)

Open(t)          == \E i \in pending : Pinned(i, t)
OpenBeside(l, t) == \E i \in pending : i.id \notin loop[l].ids /\ Pinned(i, t)

\* Ids are handed out in order.
IdsInOrder == \A i \in pending : i.id <= faults

\* A snapshot is of rows that existed, and held only while it is being recomputed; a page ends
\* where a bucket of the coarsest resolution does.
HoldsInOrder(l) ==
  /\ \A n \in loop[l].ids : n <= faults
  /\ loop[l].until # NoLimit => loop[l].until % Coarsest = 0
  /\ loop[l].mode # "invalidation" => loop[l].ids = {}
  /\ loop[l].pc \in {"idle", "invalidations", "forward", "check", "start", "promote"} =>
       loop[l].mode # "invalidation"
  /\ loop[l].pc = "claim" => loop[l].mode = "invalidation"

HasRead == {"persist", "prune", "advance", "settle"}

\* What a loop has read is the canonical trades of its window, but for what another invalidation
\* than those it is about to settle reports, and for trades after everything it has read.
ReadIsCanonical(l) ==
  /\ \A t \in loop[l].read : /\ Covers(l, TimeOf(t))
                             /\ t \in canonical \/ OpenBeside(l, t)
  /\ \A t \in canonical \ (skipped \cup loop[l].read) :
       Covers(l, TimeOf(t)) =>
         OpenBeside(l, t) \/ (t > mark /\ \A u \in loop[l].read : u < t)

\* What a loop has written so far.
WrittenAsRead(l) ==
  /\ loop[l].pc = "prune" =>
       \A b \in Buckets : loop[l].read \cap In(b) # {} => candle[b].trades = loop[l].read \cap In(b)
  /\ loop[l].pc \in {"advance", "settle"} =>
       \A b \in Buckets : Covers(l, Start(b)) => candle[b].trades = loop[l].read \cap In(b)

\* A forward window begins no later than the first trade the checkpoint has not passed.
StartsInTime(l) ==
  loop[l].mode = "forward" /\ loop[l].pc \in {"read", "complete"} \cup HasRead =>
    \A t \in canonical \ skipped : t > mark /\ TimeOf(t) < Aligned(loop[l].from) => Open(t)

\* A candle shows trades of its bucket, only canonical ones, and all that were passed, or an
\* invalidation is open for what is wrong.
CandlesMatchOrOpen ==
  \A b \in Buckets :
    /\ candle[b].trades \subseteq In(b)
    /\ \A t \in candle[b].trades \ canonical : Open(t)
    /\ \A t \in (canonical \ skipped) \cap In(b) : t <= mark /\ t \notin candle[b].trades => Open(t)

Recomputes(l) ==
  /\ loop[l].pc \in HasRead => ReadIsCanonical(l)
  /\ WrittenAsRead(l) /\ StartsInTime(l)

IInv ==
  /\ TypeOK /\ IdsInOrder
  /\ \A l \in Loops : HoldsInOrder(l) /\ Recomputes(l)
  /\ CandlesMatchOrOpen

-----------------------------------------------------------------------------
(* Least and greatest numbers. *)

\* A set of naturals that is not empty has a least element: the order on Nat is well-founded.
LEMMA LeastExists ==
  ASSUME NEW S \in SUBSET Nat, S # {}
  PROVE  Least(S) \in S /\ \A y \in S : Least(S) <= y
<1>1. IsWellFoundedOn(OpToRel(<, Nat), Nat)
  BY NatLessThanWellFounded, Zenon
<1>2. PICK x \in S : \A y \in S : ~(<<y, x>> \in OpToRel(<, Nat))
  BY <1>1, WFMin, Zenon
<1>3. \A y \in S : ~(y < x)
  BY <1>2, Zenon DEF OpToRel
<1>4. \A y \in S : x <= y
  BY <1>3
<1> QED BY <1>4 DEF Least

\* A bounded one has a greatest element: the least of its bounds.
LEMMA GreatestExists ==
  ASSUME NEW S \in SUBSET Nat, S # {}, NEW b \in Nat, \A x \in S : x <= b
  PROVE  Greatest(S) \in S /\ \A y \in S : y <= Greatest(S)
<1> DEFINE D == {n \in Nat : \A x \in S : x <= n}
<1>1. D \in SUBSET Nat /\ D # {}
  OBVIOUS
<1> HIDE DEF D
<1>2. Least(D) \in D /\ \A n \in D : Least(D) <= n
  BY <1>1, LeastExists
<1> DEFINE m == Least(D)
<1> HIDE DEF m
<1>3. m \in Nat /\ (\A x \in S : x <= m) /\ \A n \in Nat : (\A x \in S : x <= n) => m <= n
  BY <1>2 DEF m, D
<1>4. m \in S
  <2>1. SUFFICES ASSUME m \notin S PROVE FALSE
    OBVIOUS
  <2>2. PICK y \in S : TRUE
    OBVIOUS
  <2>3. m # 0
    BY <1>3, <2>1, <2>2
  <2>4. m - 1 \in Nat /\ \A x \in S : x <= m - 1
    BY <1>3, <2>1, <2>3
  <2> QED BY <2>4, <1>3
<1> QED BY <1>3, <1>4 DEF Greatest

\* A finite one is bounded: else a smallest unbounded subset stays unbounded without one element.
LEMMA FiniteIsBounded ==
  ASSUME NEW S \in SUBSET Nat, IsFiniteSet(S)
  PROVE  \E b \in Nat : \A x \in S : x <= b
<1> DEFINE Bounded(T) == \E b \in Nat : \A x \in T : x <= b
           Bad == {Cardinality(T) : T \in {U \in SUBSET S : ~Bounded(U)}}
<1>1. SUFFICES ASSUME ~Bounded(S) PROVE FALSE
  OBVIOUS
<1> HIDE DEF Bounded
<1>2. Cardinality(S) \in Bad
  BY <1>1
<1>3. \A T \in SUBSET S : IsFiniteSet(T) /\ Cardinality(T) \in Nat
  BY FS_Subset, FS_CardinalityType
<1>4. Bad \in SUBSET Nat
  BY <1>3
<1>5. PICK T \in SUBSET S : ~Bounded(T) /\ \A c \in Bad : Cardinality(T) <= c
  <2> HIDE DEF Bad
  <2>1. Least(Bad) \in Bad /\ \A c \in Bad : Least(Bad) <= c
    BY <1>2, <1>4, LeastExists
  <2> USE DEF Bad
  <2> QED BY <2>1
<1>6. PICK x \in T : TRUE
  BY <1>5 DEF Bounded
<1>7. Cardinality(T \ {x}) = Cardinality(T) - 1
  BY <1>3, <1>6, FS_RemoveElement
<1>8. T \ {x} \in SUBSET S /\ Cardinality(T) \in Nat
  BY <1>3
<1>9. Bounded(T \ {x})
  <2>1. SUFFICES ASSUME ~Bounded(T \ {x}) PROVE FALSE
    OBVIOUS
  <2>2. Cardinality(T \ {x}) \in Bad
    BY <2>1, <1>8
  <2> HIDE DEF Bad
  <2> QED BY <2>2, <1>5, <1>7, <1>8
<1>10. PICK b \in Nat : \A y \in T \ {x} : y <= b
  BY <1>9 DEF Bounded
<1>11. b + x \in Nat /\ \A y \in T : y <= b + x
  BY <1>10, <1>6
<1> QED BY <1>11, <1>5 DEF Bounded

\* A page that is full has a trade at which it is cut: the least one with Cap trades up to it.
LEMMA FullPageHasAnEnd ==
  ASSUME NEW P \in SUBSET Nat, IsFiniteSet(P), NEW c \in Nat \ {0}, Cardinality(P) > c
  PROVE  \E t \in P : Cardinality({u \in P : u <= t}) = c
<1> DEFINE Upto(t) == {u \in P : u <= t}
           D == {t \in P : Cardinality(Upto(t)) >= c}
<1>1. \A Q \in SUBSET P : IsFiniteSet(Q) /\ Cardinality(Q) \in Nat
  BY FS_Subset, FS_CardinalityType
<1>2. \A Q \in SUBSET P : Q # {} => Greatest(Q) \in Q /\ \A y \in Q : y <= Greatest(Q)
  <2>1. PICK b \in Nat : \A x \in P : x <= b
    BY FiniteIsBounded
  <2> QED BY <2>1, GreatestExists
<1>3. P # {}
  BY FS_EmptySet
<1>4. Greatest(P) \in D
  <2>1. Greatest(P) \in P /\ Upto(Greatest(P)) = P
    BY <1>2, <1>3
  <2> QED BY <2>1, <1>1
<1>5. D \in SUBSET Nat /\ D # {}
  BY <1>4
<1>6. PICK t \in D : \A s \in D : t <= s
  <2> HIDE DEF D
  <2> QED BY <1>5, LeastExists
<1>7. t \in P /\ Cardinality(Upto(t)) \in Nat /\ Cardinality(Upto(t)) >= c
  BY <1>6, <1>1
<1>8. SUFFICES ASSUME Cardinality(Upto(t)) > c PROVE FALSE
  BY <1>7
<1> DEFINE Q == Upto(t) \ {t}
<1>9. Cardinality(Q) = Cardinality(Upto(t)) - 1
  <2>1. t \in Upto(t) /\ IsFiniteSet(Upto(t))
    BY <1>1, <1>7
  <2> HIDE DEF Upto
  <2> QED BY <2>1, FS_RemoveElement
<1>10. Q # {}
  BY <1>7, <1>8, <1>9, FS_EmptySet
<1>11. Greatest(Q) \in Q /\ \A y \in Q : y <= Greatest(Q)
  BY <1>2, <1>10
<1> DEFINE s == Greatest(Q)
<1> HIDE DEF s
<1>12. s \in P /\ s < t /\ Upto(s) = Q
  <2>1. s \in P /\ s \in Nat /\ t \in Nat /\ s <= t /\ s # t
    BY <1>11, <1>7 DEF s
  <2>2. \A u \in P : u <= s => u <= t /\ u # t
    BY <2>1
  <2>3. \A u \in Q : u <= s
    BY <1>11 DEF s
  <2>4. Upto(s) \subseteq Q
    BY <2>2
  <2>5. Q \subseteq Upto(s)
    BY <2>3
  <2>6. s < t
    BY <2>1
  <2> QED BY <2>1, <2>4, <2>5, <2>6
<1>13. Cardinality(Upto(s)) >= c
  BY <1>7, <1>8, <1>9, <1>12
<1> QED BY <1>12, <1>13, <1>6

-----------------------------------------------------------------------------
(* Times and buckets. *)

LEMMA TimeMonotone ==
  ASSUME NEW x \in Nat, NEW y \in Nat, x <= y
  PROVE  TimeOf(x) \in Nat /\ TimeOf(x) <= TimeOf(y)
BY ChainAssumption DEF ChainAssumption, TimeOf

LEMMA CoarsestIsOne == Coarsest \in Widths /\ Coarsest \in Nat \ {0}
<1>1. Widths \in SUBSET Nat /\ Widths # {} /\ IsFiniteSet(Widths)
  BY WorkerAssumption DEF WorkerAssumption
<1>2. PICK b \in Nat : \A x \in Widths : x <= b
  BY <1>1, FiniteIsBounded
<1>3. Greatest(Widths) \in Widths
  BY <1>1, <1>2, GreatestExists
<1> QED BY <1>3, WorkerAssumption DEF WorkerAssumption, Coarsest

LEMMA AlignedBelow ==
  ASSUME NEW w \in Nat \ {0}, NEW x \in Nat
  PROVE  /\ AlignedTo(w, x) \in Nat /\ AlignedTo(w, x) <= x /\ x < AlignedTo(w, x) + w
         /\ AlignedTo(w, x) % w = 0
BY DEF AlignedTo

\* A time is past a boundary of the coarsest resolution when the start of its bucket is.
LEMMA BucketsNest ==
  ASSUME NEW w \in Widths, NEW a \in Nat, a % Coarsest = 0, NEW x \in Nat
  PROVE  a <= x <=> a <= AlignedTo(w, x)
<1>1. w \in Nat \ {0} /\ Coarsest % w = 0 /\ Coarsest \in Nat \ {0}
  BY WorkerAssumption, WidthsNest, CoarsestIsOne DEF WorkerAssumption
<1> DEFINE m == Coarsest \div w
           k == a \div Coarsest
           q == x \div w
<1>2. m \in Nat /\ k \in Nat /\ q \in Nat /\ m * k \in Nat
  BY <1>1
<1>3. Coarsest = w * m /\ a = Coarsest * k /\ AlignedTo(w, x) = w * q
  BY <1>1 DEF AlignedTo
<1>4. AlignedTo(w, x) \in Nat /\ AlignedTo(w, x) <= x /\ x < AlignedTo(w, x) + w
  BY <1>1, AlignedBelow
<1> HIDE DEF m, k, q
<1>5. a = w * (m * k)
  BY <1>1, <1>2, <1>3
<1>6. ASSUME a <= x PROVE a <= AlignedTo(w, x)
  <2>1. w * (m * k) < w * q + w
    <3>1. a < AlignedTo(w, x) + w
      BY <1>1, <1>4, <1>6
    <3> QED BY <3>1, <1>3, <1>5
  <2>2. w * (m * k) < w * (q + 1)
    BY <2>1, <1>1, <1>2
  <2>3. m * k < q + 1
    BY <2>2, <1>1, <1>2
  <2>4. m * k <= q
    BY <2>3, <1>2
  <2>5. w * (m * k) <= w * q
    BY <2>4, <1>1, <1>2
  <2> QED BY <2>5, <1>3, <1>5
<1> QED BY <1>4, <1>6

LEMMA AlignedTimes ==
  ASSUME NEW x \in Nat
  PROVE  /\ Aligned(x) \in Nat /\ Aligned(x) <= x /\ Aligned(x) % Coarsest = 0
         /\ Aligned(x) + Coarsest \in Nat /\ (Aligned(x) + Coarsest) % Coarsest = 0
         /\ x < Aligned(x) + Coarsest
<1>1. Coarsest \in Nat \ {0}
  BY CoarsestIsOne
<1>2. AlignedTo(Coarsest, x) \in Nat /\ AlignedTo(Coarsest, x) <= x
      /\ x < AlignedTo(Coarsest, x) + Coarsest /\ AlignedTo(Coarsest, x) % Coarsest = 0
  BY <1>1, AlignedBelow
<1> DEFINE a == AlignedTo(Coarsest, x)
<1> HIDE DEF a
<1>3. (a + Coarsest) % Coarsest = 0
  <2>1. a \in Nat /\ a % Coarsest = 0
    BY <1>2 DEF a
  <2>2. PICK k \in Nat : a = Coarsest * k
    BY <1>1, <2>1
  <2>3. a + Coarsest = Coarsest * (k + 1)
    BY <1>1, <2>2
  <2>4. (Coarsest * (k + 1)) % Coarsest = 0
    BY <1>1, <2>2
  <2> QED BY <2>3, <2>4
<1> QED BY <1>1, <1>2, <1>3 DEF Aligned, a

LEMMA AlignedMonotone ==
  ASSUME NEW x \in Nat, NEW y \in Nat, x <= y
  PROVE  Aligned(x) <= Aligned(y)
<1>1. Aligned(x) \in Nat /\ Aligned(x) % Coarsest = 0 /\ Aligned(x) <= y
  BY AlignedTimes
<1> QED BY <1>1, CoarsestIsOne, BucketsNest DEF Aligned

\* Every place has a time, and a page that ends after it ends within Times.
LEMMA PlacesHaveTimes ==
  ASSUME NEW h \in 0..MaxHeight
  PROVE  /\ TimeOf(h) \in Times /\ TimeOf(h) \in Nat
         /\ Aligned(TimeOf(h)) + Coarsest \in Times
<1>1. MaxHeight \in Nat /\ Coarsest \in Nat
  BY ChainAssumption, CoarsestIsOne DEF ChainAssumption
<1>2. TimeOf(h) \in Nat /\ TimeOf(h) <= TimeOf(MaxHeight) /\ TimeOf(MaxHeight) \in Nat
  BY <1>1, TimeMonotone
<1>3. Aligned(TimeOf(h)) \in Nat /\ Aligned(TimeOf(h)) <= TimeOf(h)
  BY <1>2, AlignedTimes
<1> QED BY <1>1, <1>2, <1>3 DEF Times

LEMMA TimesAreNat == Times \subseteq Nat /\ 0 \in Times
BY CoarsestIsOne, TimeMonotone, ChainAssumption DEF Times, ChainAssumption

-----------------------------------------------------------------------------
(* What a loop holds after a step. *)

PCs == {"idle", "invalidations", "claim", "forward", "check", "start", "read", "complete",
        "persist", "prune", "advance", "settle", "promote"}

OthersStay(l)  == \A q \in Loops \ {l} : loop'[q] = loop[q]
KeepsWindow(l) == /\ loop'[l].mode = loop[l].mode /\ loop'[l].ids = loop[l].ids
                  /\ loop'[l].from = loop[l].from /\ loop'[l].until = loop[l].until
                  /\ loop'[l].read = loop[l].read
DropsWindow(l) == /\ loop'[l].mode = "none" /\ loop'[l].ids = {} /\ loop'[l].from = 0
                  /\ loop'[l].until = NoLimit /\ loop'[l].read = {}

LEMMA GoMoves ==
  ASSUME loop \in [Loops -> LoopRecords], NEW l \in Loops, NEW pc \in PCs, Go(l, pc)
  PROVE  /\ loop' \in [Loops -> LoopRecords]
         /\ loop'[l].pc = pc /\ OthersStay(l) /\ KeepsWindow(l)
<1> DEFINE next == [loop[l] EXCEPT !.pc = pc]
<1>1. next \in LoopRecords
  BY DEF LoopRecords, PCs
<1>2. loop' = [loop EXCEPT ![l] = next]
  BY DEF Go
<1>3. loop'[l] = next
  BY <1>2
<1>4. /\ next.pc = pc /\ next.mode = loop[l].mode /\ next.ids = loop[l].ids
      /\ next.from = loop[l].from /\ next.until = loop[l].until /\ next.read = loop[l].read
  BY DEF LoopRecords
<1> HIDE DEF next
<1>5. loop' \in [Loops -> LoopRecords] /\ OthersStay(l)
  BY <1>1, <1>2 DEF OthersStay
<1> QED BY <1>3, <1>4, <1>5 DEF KeepsWindow

LEMMA IdleIsTyped == IdleLoop \in LoopRecords
<1>1. 0 \in Times
  BY TimesAreNat
<1> QED BY <1>1 DEF IdleLoop, LoopRecords

LEMMA PhaseMoves ==
  ASSUME loop \in [Loops -> LoopRecords], NEW l \in Loops, NEW pc \in PCs, Phase(l, pc)
  PROVE  /\ loop' \in [Loops -> LoopRecords]
         /\ loop'[l].pc = pc /\ OthersStay(l) /\ DropsWindow(l)
<1> DEFINE next == [IdleLoop EXCEPT !.pc = pc, !.finality = loop[l].finality]
<1>1. next \in LoopRecords
  <2>1. loop[l].finality \in Times \cup {NoTime}
    BY DEF LoopRecords
  <2> QED BY <2>1, IdleIsTyped DEF LoopRecords, PCs
<1>2. loop' = [loop EXCEPT ![l] = next]
  BY DEF Phase
<1>3. loop'[l] = next
  BY <1>2
<1>4. /\ next.pc = pc /\ next.mode = "none" /\ next.ids = {}
      /\ next.from = 0 /\ next.until = NoLimit /\ next.read = {}
  BY DEF IdleLoop
<1> HIDE DEF next
<1>5. loop' \in [Loops -> LoopRecords] /\ OthersStay(l)
  BY <1>1, <1>2 DEF OthersStay
<1> QED BY <1>3, <1>4, <1>5 DEF DropsWindow

LEMMA RestMoves ==
  ASSUME loop \in [Loops -> LoopRecords], NEW l \in Loops, loop' = [loop EXCEPT ![l] = IdleLoop]
  PROVE  /\ loop' \in [Loops -> LoopRecords]
         /\ loop'[l].pc = "idle" /\ OthersStay(l) /\ DropsWindow(l)
<1>1. loop'[l] = IdleLoop
  OBVIOUS
<1>2. /\ IdleLoop.pc = "idle" /\ IdleLoop.mode = "none" /\ IdleLoop.ids = {}
      /\ IdleLoop.from = 0 /\ IdleLoop.until = NoLimit /\ IdleLoop.read = {}
  BY DEF IdleLoop
<1>3. loop' \in [Loops -> LoopRecords] /\ OthersStay(l)
  BY IdleIsTyped DEF OthersStay
<1> QED BY <1>1, <1>2, <1>3 DEF DropsWindow

LEMMA DoneMoves ==
  ASSUME loop \in [Loops -> LoopRecords], NEW l \in Loops, Done(l)
  PROVE  /\ loop' \in [Loops -> LoopRecords]
         /\ loop'[l].pc \in {"idle", "promote"} /\ OthersStay(l) /\ DropsWindow(l)
<1>1. CASE Phase(l, "promote")
  BY <1>1, PhaseMoves DEF PCs
<1>2. CASE loop' = [loop EXCEPT ![l] = IdleLoop]
  BY <1>2, RestMoves
<1> QED BY <1>1, <1>2 DEF Done

LEMMA ConfirmedIsTime ==
  ASSUME TypeOK
  PROVE  Confirmed \in Times \cup {NoTime}
<1> DEFINE times == {confirmed[s] : s \in Streams}
<1>1. times # {} /\ times \subseteq Times \cup {NoTime}
  BY ChainAssumption DEF TypeOK, ChainAssumption
<1>2. CASE NoTime \in times
  BY <1>2 DEF Confirmed
<1>3. CASE NoTime \notin times
  <2>1. times \in SUBSET Nat /\ times \subseteq Times
    BY <1>1, <1>3, TimesAreNat
  <2> HIDE DEF times
  <2>2. Least(times) \in times
    BY <1>1, <2>1, LeastExists
  <2>3. Least(times) \in Times
    BY <2>1, <2>2
  <2> QED BY <2>3, <1>3 DEF Confirmed, times
<1> QED BY <1>2, <1>3

LEMMA BeginMoves ==
  ASSUME TypeOK, NEW l \in Loops, Begin(l)
  PROVE  /\ loop' \in [Loops -> LoopRecords]
         /\ loop'[l].pc = "invalidations" /\ OthersStay(l) /\ KeepsWindow(l)
<1> DEFINE next == [loop[l] EXCEPT !.pc = "invalidations", !.finality = Confirmed]
<1>1. loop \in [Loops -> LoopRecords]
  BY DEF TypeOK
<1>2. next \in LoopRecords
  BY <1>1, ConfirmedIsTime DEF LoopRecords
<1>3. loop' = [loop EXCEPT ![l] = next]
  BY DEF Begin
<1>4. loop'[l] = next
  BY <1>1, <1>3
<1>5. /\ next.pc = "invalidations" /\ next.mode = loop[l].mode /\ next.ids = loop[l].ids
      /\ next.from = loop[l].from /\ next.until = loop[l].until /\ next.read = loop[l].read
  BY <1>1 DEF LoopRecords
<1> HIDE DEF next
<1>6. loop' \in [Loops -> LoopRecords] /\ OthersStay(l)
  BY <1>1, <1>2, <1>3 DEF OthersStay
<1> QED BY <1>4, <1>5, <1>6 DEF KeepsWindow

\* A snapshot begins no later than any of its rows, and holds all of them.
LEMMA SelectMoves ==
  ASSUME TypeOK, NEW l \in Loops, SelectInvalidations(l), pending # {}
  PROVE  /\ loop' \in [Loops -> LoopRecords]
         /\ loop'[l].pc = "claim" /\ OthersStay(l)
         /\ loop'[l].mode = "invalidation" /\ loop'[l].until = loop[l].until
         /\ loop'[l].read = loop[l].read /\ loop'[l].ids = {i.id : i \in pending}
         /\ loop'[l].from \in Times /\ \A i \in pending : loop'[l].from <= i.from
<1> DEFINE ids   == {i.id : i \in pending}
           froms == {i.from : i \in pending}
           from  == Least(froms)
           next  == [loop[l] EXCEPT !.pc = "claim", !.mode = "invalidation",
                                    !.ids = ids, !.from = from]
<1>1. loop \in [Loops -> LoopRecords]
  BY DEF TypeOK
<1>2. froms \subseteq Times /\ froms \in SUBSET Nat /\ froms # {} /\ ids \subseteq 1..MaxFaults
  <2>1. \A i \in pending : i.id \in 1..MaxFaults /\ i.from \in Times
    BY DEF TypeOK
  <2>2. froms \subseteq Times /\ ids \subseteq 1..MaxFaults
    BY <2>1
  <2>3. froms # {}
    OBVIOUS
  <2> QED BY <2>2, <2>3, TimesAreNat
<1>3. loop' = [loop EXCEPT ![l] = next]
  BY DEF SelectInvalidations
<1>4. from \in Times /\ \A i \in pending : from <= i.from
  <2> HIDE DEF froms
  <2>1. from \in froms /\ \A x \in froms : from <= x
    BY <1>2, LeastExists
  <2> QED BY <2>1, <1>2 DEF froms
<1> HIDE DEF from, ids
<1>5. next \in LoopRecords
  BY <1>1, <1>2, <1>4 DEF LoopRecords
<1>6. loop'[l] = next
  BY <1>1, <1>3
<1>7. /\ next.pc = "claim" /\ next.mode = "invalidation" /\ next.ids = ids
      /\ next.from = from /\ next.until = loop[l].until /\ next.read = loop[l].read
  BY <1>1 DEF LoopRecords
<1> HIDE DEF next
<1>8. loop' \in [Loops -> LoopRecords] /\ OthersStay(l)
  BY <1>1, <1>3, <1>5 DEF OthersStay
<1> QED BY <1>4, <1>6, <1>7, <1>8 DEF ids

\* Going on with the token, in mode and from where the step says.
LEMMA ForwardMoves ==
  ASSUME loop \in [Loops -> LoopRecords], NEW l \in Loops,
         loop' = [loop EXCEPT ![l].pc = "check", ![l].mode = "forward"]
  PROVE  /\ loop' \in [Loops -> LoopRecords]
         /\ loop'[l].pc = "check" /\ OthersStay(l)
         /\ loop'[l].ids = loop[l].ids /\ loop'[l].from = loop[l].from
         /\ loop'[l].until = loop[l].until /\ loop'[l].read = loop[l].read
<1> DEFINE next == [loop[l] EXCEPT !.pc = "check", !.mode = "forward"]
<1>1. next \in LoopRecords
  BY DEF LoopRecords
<1>2. loop' = [loop EXCEPT ![l] = next]
  OBVIOUS
<1>3. loop'[l] = next
  BY <1>2
<1>4. /\ next.pc = "check" /\ next.ids = loop[l].ids
      /\ next.from = loop[l].from /\ next.until = loop[l].until /\ next.read = loop[l].read
  BY DEF LoopRecords
<1> HIDE DEF next
<1>5. loop' \in [Loops -> LoopRecords] /\ OthersStay(l)
  BY <1>1, <1>2 DEF OthersStay
<1> QED BY <1>3, <1>4, <1>5

LEMMA StartMoves ==
  ASSUME loop \in [Loops -> LoopRecords], NEW l \in Loops, NEW from \in Times,
         loop' = [loop EXCEPT ![l].pc = "read", ![l].from = from]
  PROVE  /\ loop' \in [Loops -> LoopRecords]
         /\ loop'[l].pc = "read" /\ OthersStay(l) /\ loop'[l].from = from
         /\ loop'[l].mode = loop[l].mode /\ loop'[l].ids = loop[l].ids
         /\ loop'[l].until = loop[l].until /\ loop'[l].read = loop[l].read
<1> DEFINE next == [loop[l] EXCEPT !.pc = "read", !.from = from]
<1>1. next \in LoopRecords
  BY DEF LoopRecords
<1>2. loop' = [loop EXCEPT ![l] = next]
  OBVIOUS
<1>3. loop'[l] = next
  BY <1>2
<1>4. /\ next.pc = "read" /\ next.mode = loop[l].mode /\ next.ids = loop[l].ids
      /\ next.from = from /\ next.until = loop[l].until /\ next.read = loop[l].read
  BY DEF LoopRecords
<1> HIDE DEF next
<1>5. loop' \in [Loops -> LoopRecords] /\ OthersStay(l)
  BY <1>1, <1>2 DEF OthersStay
<1> QED BY <1>3, <1>4, <1>5

LEMMA PageMoves ==
  ASSUME loop \in [Loops -> LoopRecords], NEW l \in Loops, NEW page \in SUBSET Trades,
         loop' = [loop EXCEPT ![l].pc = "persist", ![l].read = page]
  PROVE  /\ loop' \in [Loops -> LoopRecords]
         /\ loop'[l].pc = "persist" /\ OthersStay(l) /\ loop'[l].read = page
         /\ loop'[l].mode = loop[l].mode /\ loop'[l].ids = loop[l].ids
         /\ loop'[l].from = loop[l].from /\ loop'[l].until = loop[l].until
<1> DEFINE next == [loop[l] EXCEPT !.pc = "persist", !.read = page]
<1>1. next \in LoopRecords
  BY DEF LoopRecords
<1>2. loop' = [loop EXCEPT ![l] = next]
  OBVIOUS
<1>3. loop'[l] = next
  BY <1>2
<1>4. /\ next.pc = "persist" /\ next.mode = loop[l].mode /\ next.ids = loop[l].ids
      /\ next.from = loop[l].from /\ next.until = loop[l].until /\ next.read = page
  BY DEF LoopRecords
<1> HIDE DEF next
<1>5. loop' \in [Loops -> LoopRecords] /\ OthersStay(l)
  BY <1>1, <1>2 DEF OthersStay
<1> QED BY <1>3, <1>4, <1>5

LEMMA WidenMoves ==
  ASSUME loop \in [Loops -> LoopRecords], NEW l \in Loops, NEW until \in Times,
         loop' = [loop EXCEPT ![l].pc = "complete", ![l].until = until]
  PROVE  /\ loop' \in [Loops -> LoopRecords]
         /\ loop'[l].pc = "complete" /\ OthersStay(l) /\ loop'[l].until = until
         /\ loop'[l].mode = loop[l].mode /\ loop'[l].ids = loop[l].ids
         /\ loop'[l].from = loop[l].from /\ loop'[l].read = loop[l].read
<1> DEFINE next == [loop[l] EXCEPT !.pc = "complete", !.until = until]
<1>1. next \in LoopRecords
  BY DEF LoopRecords
<1>2. loop' = [loop EXCEPT ![l] = next]
  OBVIOUS
<1>3. loop'[l] = next
  BY <1>2
<1>4. /\ next.pc = "complete" /\ next.mode = loop[l].mode /\ next.ids = loop[l].ids
      /\ next.from = loop[l].from /\ next.until = until /\ next.read = loop[l].read
  BY DEF LoopRecords
<1> HIDE DEF next
<1>5. loop' \in [Loops -> LoopRecords] /\ OthersStay(l)
  BY <1>1, <1>2 DEF OthersStay
<1> QED BY <1>3, <1>4, <1>5

LEMMA CanonicalIsPlaces ==
  ASSUME TypeOK
  PROVE  canonical \subseteq Trades /\ canonical \subseteq 0..MaxHeight /\ canonical \subseteq Nat
<1>1. canonical \subseteq Trades
  BY DEF TypeOK
<1>2. Trades \subseteq 0..MaxHeight /\ Trades \subseteq Nat
  BY ChainAssumption DEF ChainAssumption
<1> QED BY <1>1, <1>2, Zenon

LEMMA NextHasATime ==
  ASSUME TypeOK, {t \in canonical : t > mark} # {}
  PROVE  LET first == Least({t \in canonical : t > mark})
         IN  /\ TimeOf(first) \in Times
             /\ \A t \in canonical : t > mark => TimeOf(first) <= TimeOf(t)
<1> DEFINE next == {t \in canonical : t > mark}
<1>1. next \subseteq 0..MaxHeight /\ next \in SUBSET Nat
  BY CanonicalIsPlaces
<1> HIDE DEF next
<1>2. Least(next) \in 0..MaxHeight /\ Least(next) \in Nat /\ \A t \in next : Least(next) <= t
  BY <1>1, LeastExists DEF next
<1>3. \A t \in next : TimeOf(Least(next)) <= TimeOf(t)
  BY <1>1, <1>2, TimeMonotone
<1> QED BY <1>2, <1>3, PlacesHaveTimes DEF next

LEMMA WindowIsFinite ==
  ASSUME TypeOK, NEW l \in Loops
  PROVE  /\ Window(l) \in SUBSET Nat /\ Window(l) \subseteq 0..MaxHeight
         /\ Window(l) \in SUBSET Trades
         /\ IsFiniteSet(Window(l)) /\ Cardinality(Window(l)) \in Nat
<1>1. Window(l) \subseteq canonical
  BY DEF Window
<1>2. canonical \subseteq Trades
  BY DEF TypeOK
<1>3. Trades \subseteq 0..MaxHeight /\ Trades \subseteq Nat
  BY ChainAssumption DEF ChainAssumption
<1>4. IsFiniteSet(0..MaxHeight)
  BY FS_Interval, ChainAssumption DEF ChainAssumption
<1>5. Window(l) \in SUBSET Nat /\ Window(l) \subseteq 0..MaxHeight /\ Window(l) \in SUBSET Trades
  BY <1>1, <1>2, <1>3, Zenon
<1> QED BY <1>4, <1>5, FS_Subset, FS_CardinalityType

\* A full page is cut at the end of the coarsest bucket of one of its trades.
LEMMA PageEndsAtABucket ==
  ASSUME TypeOK, NEW l \in Loops, Cardinality(Window(l)) > Cap,
         NEW last, last = CHOOSE t \in Window(l) : Cardinality({u \in Window(l) : u <= t}) = Cap
  PROVE  /\ Aligned(TimeOf(last)) + Coarsest \in Times
         /\ (Aligned(TimeOf(last)) + Coarsest) % Coarsest = 0
<1>1. Window(l) \in SUBSET Nat /\ Window(l) \subseteq 0..MaxHeight /\ IsFiniteSet(Window(l))
  BY WindowIsFinite
<1>2. Cap \in Nat \ {0}
  BY WorkerAssumption DEF WorkerAssumption
<1>3. \E t \in Window(l) : Cardinality({u \in Window(l) : u <= t}) = Cap
  BY <1>1, <1>2, FullPageHasAnEnd
<1>4. last \in 0..MaxHeight
  BY <1>1, <1>3
<1> QED BY <1>4, PlacesHaveTimes, AlignedTimes

-----------------------------------------------------------------------------
(* Types and the claim. *)

DataOK ==
  /\ live \subseteq Trades /\ canonical \subseteq Trades
  /\ position \in [Streams -> 0..MaxHeight]
  /\ confirmed \in [Streams -> Times \cup {NoTime}]
  /\ pending \subseteq [id: 1..MaxFaults, from: Times]
  /\ candle \in [Buckets -> [trades: SUBSET Trades, final: BOOLEAN]]
  /\ mark \in 0..MaxHeight /\ faults \in 0..MaxFaults
  /\ skipped \subseteq Trades

LoopsOK ==
  /\ loop \in [Loops -> LoopRecords] /\ busy \in Loops \cup {Nobody}
  /\ \A l \in Loops : loop[l].pc \in Claimed <=> busy = l

LEMMA TypesInTwo == TypeOK <=> DataOK /\ LoopsOK
BY DEF TypeOK, DataOK, LoopsOK

\* The claim is kept, taken from nobody, or given back by who had it.
LEMMA ClaimPasses ==
  ASSUME LoopsOK, NEW l \in Loops, loop' \in [Loops -> LoopRecords], OthersStay(l),
         \/ busy' = busy /\ (loop'[l].pc \in Claimed <=> loop[l].pc \in Claimed)
         \/ busy = Nobody /\ busy' = l /\ loop'[l].pc \in Claimed
         \/ loop[l].pc \in Claimed /\ busy' = Nobody /\ loop'[l].pc \notin Claimed
  PROVE  LoopsOK'
<1>1. \A q \in Loops \ {l} : loop'[q].pc \in Claimed <=> busy = q
  BY DEF LoopsOK, OthersStay
<1>2. Nobody \notin Loops
  BY DEF Nobody, Loops
<1>3. busy' \in Loops \cup {Nobody}
  BY DEF LoopsOK
<1>4. loop[l].pc \in Claimed <=> busy = l
  BY DEF LoopsOK
<1> QED BY <1>1, <1>2, <1>3, <1>4, Zenon DEF LoopsOK

LEMMA StepKeepsLoops ==
  ASSUME TypeOK, NEW l \in Loops, Step(l)
  PROVE  LoopsOK'
<1> USE DEF Claimed, PCs
<1>1. LoopsOK /\ loop \in [Loops -> LoopRecords]
  BY TypesInTwo DEF LoopsOK
<1>2. CASE SelectInvalidations(l)
  <2>1. CASE pending = {}
    BY <1>1, <1>2, <2>1, PhaseMoves, ClaimPasses DEF SelectInvalidations
  <2>2. CASE pending # {}
    BY <1>1, <1>2, <2>2, SelectMoves, ClaimPasses DEF SelectInvalidations
  <2> QED BY <2>1, <2>2
<1>3. CASE ClaimInvalidated(l)
  <2>1. CASE busy = Nobody /\ busy' = l /\ Go(l, "read")
    BY <1>1, <2>1, GoMoves, ClaimPasses
  <2>2. CASE Phase(l, "forward") /\ UNCHANGED busy
    BY <1>1, <1>3, <2>2, PhaseMoves, ClaimPasses DEF ClaimInvalidated
  <2> QED BY <1>3, <2>1, <2>2 DEF ClaimInvalidated
<1>4. CASE ClaimForward(l)
  <2>1. CASE busy = Nobody /\ busy' = l /\ loop' = [loop EXCEPT ![l].pc = "check", ![l].mode = "forward"]
    BY <1>1, <2>1, ForwardMoves, ClaimPasses
  <2>2. CASE Done(l) /\ UNCHANGED busy
    BY <1>1, <1>4, <2>2, DoneMoves, ClaimPasses DEF ClaimForward
  <2> QED BY <1>4, <2>1, <2>2 DEF ClaimForward
<1>5. CASE CheckInvalidations(l)
  <2>1. CASE Go(l, "start") /\ UNCHANGED busy
    BY <1>1, <1>5, <2>1, GoMoves, ClaimPasses DEF CheckInvalidations
  <2>2. CASE Done(l) /\ busy' = Nobody
    BY <1>1, <1>5, <2>2, DoneMoves, ClaimPasses DEF CheckInvalidations
  <2> QED BY <1>5, <2>1, <2>2 DEF CheckInvalidations
<1>6. CASE StartForward(l)
  <2> DEFINE next == {t \in canonical : t > mark}
  <2>1. CASE loop' = [loop EXCEPT ![l].pc = "read", ![l].from = 0] /\ UNCHANGED busy
    BY <1>1, <1>6, <2>1, TimesAreNat, StartMoves, ClaimPasses DEF StartForward
  <2>2. CASE /\ next # {} /\ UNCHANGED busy
             /\ loop' = [loop EXCEPT ![l].pc = "read", ![l].from = TimeOf(Least(next))]
    <3>1. TimeOf(Least(next)) \in Times
      BY <2>2, NextHasATime
    <3> QED BY <1>1, <1>6, <2>2, <3>1, StartMoves, ClaimPasses DEF StartForward
  <2>3. CASE Done(l) /\ busy' = Nobody
    BY <1>1, <1>6, <2>3, DoneMoves, ClaimPasses DEF StartForward
  <2> QED BY <1>6, <2>1, <2>2, <2>3 DEF StartForward
<1>7. CASE ReadPage(l)
  <2>1. CASE Cardinality(Window(l)) <= Cap
    <3>1. loop' = [loop EXCEPT ![l].pc = "persist", ![l].read = Window(l)]
      BY <1>7, <2>1 DEF ReadPage
    <3>2. Window(l) \in SUBSET Trades
      BY DEF Window, TypeOK
    <3> QED BY <1>1, <1>7, <3>1, <3>2, PageMoves, ClaimPasses DEF ReadPage
  <2>2. CASE ~(Cardinality(Window(l)) <= Cap)
    <3> DEFINE last  == CHOOSE t \in Window(l) : Cardinality({u \in Window(l) : u <= t}) = Cap
               until == Aligned(TimeOf(last)) + Coarsest
    <3>1. loop' = [loop EXCEPT ![l].pc = "complete", ![l].until = until]
      BY <1>7, <2>2 DEF ReadPage
    <3>2. until \in Times
      BY <2>2, WindowIsFinite, PageEndsAtABucket, WorkerAssumption DEF WorkerAssumption
    <3> HIDE DEF until
    <3> QED BY <1>1, <1>7, <3>1, <3>2, WidenMoves, ClaimPasses DEF ReadPage
  <2> QED BY <2>1, <2>2
<1>8. CASE CompletePage(l)
  <2>1. Window(l) \in SUBSET Trades
    BY DEF Window, TypeOK
  <2> QED BY <1>1, <1>8, <2>1, PageMoves, ClaimPasses DEF CompletePage
<1>9. CASE Persist(l)
  BY <1>1, <1>9, GoMoves, ClaimPasses DEF Persist
<1>10. CASE Prune(l)
  BY <1>1, <1>10, GoMoves, ClaimPasses DEF Prune
<1>11. CASE Advance(l)
  <2>1. CASE Go(l, "settle") /\ UNCHANGED busy
    BY <1>1, <1>11, <2>1, GoMoves, ClaimPasses DEF Advance
  <2>2. CASE Done(l) /\ busy' = Nobody
    BY <1>1, <1>11, <2>2, DoneMoves, ClaimPasses DEF Advance
  <2> QED BY <1>11, <2>1, <2>2 DEF Advance
<1>12. CASE Settle(l)
  BY <1>1, <1>12, PhaseMoves, ClaimPasses DEF Settle
<1>13. CASE Promote(l)
  BY <1>1, <1>13, RestMoves, ClaimPasses DEF Promote
<1> QED BY <1>2, <1>3, <1>4, <1>5, <1>6, <1>7, <1>8, <1>9, <1>10, <1>11, <1>12, <1>13 DEF Step

LEMMA BeginAndFailuresKeepLoops ==
  ASSUME TypeOK, NEW l \in Loops, Begin(l) \/ RecomputeFails(l) \/ TickFails(l)
  PROVE  LoopsOK'
<1>1. LoopsOK /\ loop \in [Loops -> LoopRecords] /\ (loop[l].pc \in Claimed <=> busy = l)
  BY TypesInTwo DEF LoopsOK
<1>2. CASE Begin(l)
  BY <1>1, <1>2, BeginMoves, ClaimPasses DEF Begin, Claimed
<1>3. CASE RecomputeFails(l)
  <2>1. loop[l].pc \in Claimed /\ busy' = Nobody
    BY <1>3 DEF RecomputeFails, Claimed
  <2>2. /\ loop' \in [Loops -> LoopRecords]
        /\ loop'[l].pc \in {"idle", "promote", "forward"} /\ OthersStay(l)
    <3>1. CASE Phase(l, "forward")
      BY <1>1, <3>1, PhaseMoves DEF PCs
    <3>2. CASE Done(l)
      BY <1>1, <3>2, DoneMoves
    <3> QED BY <1>3, <3>1, <3>2 DEF RecomputeFails
  <2> QED BY <1>1, <2>1, <2>2, ClaimPasses DEF Claimed
<1>4. CASE TickFails(l)
  <2>1. /\ loop' \in [Loops -> LoopRecords] /\ loop'[l].pc = "idle" /\ OthersStay(l)
    BY <1>1, <1>4, RestMoves DEF TickFails
  <2>2. busy' = IF busy = l THEN Nobody ELSE busy
    BY <1>4 DEF TickFails
  <2>3. loop'[l].pc \notin Claimed
    BY <2>1 DEF Claimed
  <2> QED BY <1>1, <2>1, <2>2, <2>3, ClaimPasses
<1> QED BY <1>2, <1>3, <1>4

LEMMA RestartKeepsLoops ==
  ASSUME TypeOK, loop' = [l \in Loops |-> IdleLoop], busy' = Nobody
  PROVE  LoopsOK'
<1>1. IdleLoop.pc = "idle"
  BY DEF IdleLoop
<1> QED BY <1>1, IdleIsTyped DEF LoopsOK, Claimed, Loops, Nobody

LEMMA StepKeepsData ==
  ASSUME TypeOK, [Next]_vars
  PROVE  DataOK'
<1>0. DataOK /\ LoopsOK
  BY TypesInTwo
<1>1. /\ MaxHeight \in Nat /\ MaxFaults \in Nat
      /\ Trades \subseteq 0..MaxHeight /\ Trades \subseteq Nat /\ \A t \in Trades : t <= MaxHeight
  BY ChainAssumption, WorkerAssumption DEF ChainAssumption, WorkerAssumption
<1>2. ASSUME NEW s \in Streams, NEW to \in 1..MaxHeight, Ingest(s, to) PROVE DataOK'
  <2>1. TimeOf(to) \in Times
    BY PlacesHaveTimes
  <2>2. canonical' \subseteq Trades
    BY <1>0, <1>2 DEF DataOK, Ingest
  <2>3. skipped' \subseteq Trades
    BY <1>0, <1>2, <2>2 DEF DataOK, Ingest
  <2>4. position' \in [Streams -> 0..MaxHeight] /\ confirmed' \in [Streams -> Times \cup {NoTime}]
    BY <1>0, <1>1, <1>2, <2>1 DEF DataOK, Ingest
  <2> QED BY <1>0, <1>2, <2>2, <2>3, <2>4 DEF DataOK, Ingest
<1>3. ASSUME NEW ancestor \in 0..MaxHeight, NEW fork \in SUBSET {t \in Trades : t > ancestor},
             RecoverReorg(ancestor, fork)
      PROVE  DataOK'
  <2>1. \A s \in Streams : Least({position[s], ancestor}) \in 0..MaxHeight
    <3>1. ASSUME NEW s \in Streams PROVE Least({position[s], ancestor}) \in 0..MaxHeight
      <4>1. position[s] \in 0..MaxHeight
        BY <1>0 DEF DataOK
      <4>2. {position[s], ancestor} \in SUBSET Nat /\ {position[s], ancestor} # {}
        BY <4>1
      <4>3. Least({position[s], ancestor}) \in {position[s], ancestor}
        BY <4>2, LeastExists
      <4> QED BY <4>1, <4>3
    <3> QED BY <3>1
  <2>2. pending' \subseteq [id: 1..MaxFaults, from: Times]
    <3>1. Invalidation(TimeOf(ancestor)) \in [id: 1..MaxFaults, from: Times]
      BY <1>0, <1>1, <1>3, PlacesHaveTimes DEF DataOK, RecoverReorg, Invalidation
    <3> QED BY <1>0, <1>3, <3>1, Zenon DEF DataOK, RecoverReorg
  <2>3. live' \subseteq Trades /\ canonical' \subseteq Trades
    BY <1>0, <1>3 DEF DataOK, RecoverReorg
  <2>4. position' \in [Streams -> 0..MaxHeight]
    BY <1>3, <2>1 DEF RecoverReorg
  <2>5. faults' \in 0..MaxFaults
    BY <1>0, <1>1, <1>3 DEF DataOK, RecoverReorg
  <2> QED BY <1>0, <1>3, <2>2, <2>3, <2>4, <2>5 DEF DataOK, RecoverReorg
<1>4. ASSUME NEW to \in 1..MaxHeight, Backfill(to) PROVE DataOK'
  <2> DEFINE new == {t \in live \ canonical : t <= to}
  <2>1. new \subseteq Trades /\ new # {}
    BY <1>0, <1>4 DEF DataOK, Backfill
  <2>2. Least(new) \in 0..MaxHeight
    <3>1. new \in SUBSET Nat
      BY <1>1, <2>1, Zenon
    <3> HIDE DEF new
    <3>2. Least(new) \in new
      BY <2>1, <3>1, LeastExists
    <3> QED BY <1>1, <2>1, <3>2, Zenon
  <2>3. Invalidation(TimeOf(Least(new))) \in [id: 1..MaxFaults, from: Times]
    <3>1. faults + 1 \in 1..MaxFaults
      BY <1>0, <1>1, <1>4 DEF DataOK, Backfill
    <3> QED BY <3>1, <2>2, PlacesHaveTimes DEF Invalidation
  <2>4. pending' = pending \cup {Invalidation(TimeOf(Least(new)))} /\ canonical' = canonical \cup new
    BY <1>4 DEF Backfill
  <2>5. pending' \subseteq [id: 1..MaxFaults, from: Times]
    BY <1>0, <2>3, <2>4, Zenon DEF DataOK
  <2>6. faults' \in 0..MaxFaults
    BY <1>0, <1>1, <1>4 DEF DataOK, Backfill
  <2> HIDE DEF new
  <2> QED BY <1>0, <1>4, <2>1, <2>4, <2>5, <2>6 DEF DataOK, Backfill
<1>5. ASSUME NEW l \in Loops, Begin(l) \/ RecomputeFails(l) \/ TickFails(l) PROVE DataOK'
  BY <1>0, <1>1, <1>5 DEF DataOK, Begin, RecomputeFails, TickFails, ingested
<1>6. ASSUME NEW l \in Loops, Step(l) PROVE DataOK'
  <2>1. loop[l] \in LoopRecords
    BY <1>0 DEF LoopsOK
  <2>2. CASE \/ SelectInvalidations(l) \/ ClaimInvalidated(l) \/ ClaimForward(l)
             \/ CheckInvalidations(l) \/ StartForward(l) \/ ReadPage(l) \/ CompletePage(l)
    BY <1>0, <2>2 DEF DataOK, SelectInvalidations, ClaimInvalidated, ClaimForward,
       CheckInvalidations, StartForward, ReadPage, CompletePage, ingested
  <2>3. CASE Persist(l)
    <3>1. candle' \in [Buckets -> [trades: SUBSET Trades, final: BOOLEAN]]
      <4>1. ASSUME NEW b \in Buckets
            PROVE  /\ candle[b] \in [trades: SUBSET Trades, final: BOOLEAN]
                   /\ [trades |-> loop[l].read \cap In(b), final |-> Final(b, loop[l].finality)]
                        \in [trades: SUBSET Trades, final: BOOLEAN]
        BY <1>0, <2>1 DEF DataOK, LoopRecords, Final
      <4> QED BY <2>3, <4>1 DEF Persist
    <3> QED BY <1>0, <2>3, <3>1 DEF DataOK, Persist, ingested
  <2>4. CASE Prune(l)
    <3>1. candle' \in [Buckets -> [trades: SUBSET Trades, final: BOOLEAN]]
      BY <1>0, <2>4 DEF DataOK, Prune, NoCandle
    <3> QED BY <1>0, <2>4, <3>1 DEF DataOK, Prune, ingested
  <2>5. CASE Advance(l)
    <3>1. loop[l].read \subseteq Trades
      BY <2>1 DEF LoopRecords
    <3>2. mark' \in 0..MaxHeight
      <4>1. CASE loop[l].read # {}
        <5>1. loop[l].read \in SUBSET Nat /\ \A x \in loop[l].read : x <= MaxHeight
          BY <1>1, <3>1, Zenon
        <5>2. Greatest(loop[l].read) \in loop[l].read
          BY <1>1, <4>1, <5>1, GreatestExists
        <5> QED BY <1>1, <2>5, <3>1, <4>1, <5>2 DEF Advance
      <4>2. CASE loop[l].read = {}
        BY <1>0, <1>1, <2>5, <4>2 DEF DataOK, Advance, NoMark
      <4> QED BY <4>1, <4>2
    <3>3. skipped' \subseteq Trades
      BY <1>0, <2>5 DEF DataOK, Advance, Overtaken
    <3> QED BY <1>0, <2>5, <3>2, <3>3 DEF DataOK, Advance, ingested
  <2>6. CASE Settle(l)
    <3> DEFINE mine == {i \in pending : i.id \in loop[l].ids}
               resumed == {[i EXCEPT !.from = loop[l].until] : i \in mine}
    <3>1. pending' \subseteq [id: 1..MaxFaults, from: Times]
      <4>1. CASE loop[l].until = NoLimit
        BY <1>0, <2>6, <4>1 DEF DataOK, Settle
      <4>2. CASE loop[l].until # NoLimit
        <5>1. loop[l].until \in Times
          BY <2>1, <4>2 DEF LoopRecords
        <5>2. ASSUME NEW i \in mine
              PROVE  [i EXCEPT !.from = loop[l].until] \in [id: 1..MaxFaults, from: Times]
          BY <1>0, <5>1 DEF DataOK
        <5>3. resumed \subseteq [id: 1..MaxFaults, from: Times]
          BY <5>2
        <5>4. pending' = (pending \ mine) \cup resumed
          BY <2>6, <4>2 DEF Settle
        <5> HIDE DEF mine, resumed
        <5> QED BY <1>0, <5>3, <5>4, Zenon DEF DataOK
      <4> QED BY <4>1, <4>2
    <3> QED BY <1>0, <2>6, <3>1 DEF DataOK, Settle, ingested
  <2>7. CASE Promote(l)
    <3>1. candle' \in [Buckets -> [trades: SUBSET Trades, final: BOOLEAN]]
      BY <1>0, <2>7 DEF DataOK, Promote
    <3> QED BY <1>0, <2>7, <3>1 DEF DataOK, Promote, ingested
  <2> QED BY <1>6, <2>2, <2>3, <2>4, <2>5, <2>6, <2>7 DEF Step
<1>7. CASE Restart
  BY <1>0, <1>1, <1>7 DEF DataOK, Restart, ingested
<1>8. CASE UNCHANGED vars
  BY <1>0, <1>8 DEF DataOK, vars, ingested
<1> QED BY <1>2, <1>3, <1>4, <1>5, <1>6, <1>7, <1>8 DEF Next

LEMMA StepKeepsTypes ==
  ASSUME TypeOK, [Next]_vars
  PROVE  TypeOK'
<1>1. DataOK'
  BY StepKeepsData
<1>2. LoopsOK'
  <2>1. ASSUME UNCHANGED <<loop, busy>> PROVE LoopsOK'
    BY <2>1, TypesInTwo DEF LoopsOK
  <2>2. ASSUME NEW s \in Streams, NEW to \in 1..MaxHeight, Ingest(s, to) PROVE LoopsOK'
    BY <2>1, <2>2 DEF Ingest
  <2>3. ASSUME NEW ancestor \in 0..MaxHeight, NEW fork \in SUBSET {t \in Trades : t > ancestor},
               RecoverReorg(ancestor, fork)
        PROVE  LoopsOK'
    BY <2>1, <2>3 DEF RecoverReorg
  <2>4. ASSUME NEW to \in 1..MaxHeight, Backfill(to) PROVE LoopsOK'
    BY <2>1, <2>4 DEF Backfill
  <2>5. ASSUME NEW l \in Loops, Begin(l) \/ RecomputeFails(l) \/ TickFails(l) PROVE LoopsOK'
    BY <2>5, BeginAndFailuresKeepLoops
  <2>6. ASSUME NEW l \in Loops, Step(l) PROVE LoopsOK'
    BY <2>6, StepKeepsLoops
  <2>7. CASE Restart
    BY <2>7, RestartKeepsLoops DEF Restart
  <2>8. CASE UNCHANGED vars
    BY <2>1, <2>8 DEF vars
  <2> QED BY <2>2, <2>3, <2>4, <2>5, <2>6, <2>7, <2>8 DEF Next
<1> QED BY <1>1, <1>2 DEF TypeOK, DataOK, LoopsOK

-----------------------------------------------------------------------------
(* The snapshots. *)

\* Nothing of what makes a loop's snapshot orderly changes.
LEMMA OrderStays ==
  ASSUME TypeOK, NEW l \in Loops, HoldsInOrder(l), faults' \in Nat, faults <= faults',
         loop'[l] = loop[l]
  PROVE  HoldsInOrder(l)'
<1>1. \A n \in loop[l].ids : n \in Nat
  BY DEF TypeOK, LoopRecords
<1>2. faults \in Nat
  BY DEF TypeOK
<1> QED BY <1>1, <1>2 DEF HoldsInOrder

LEMMA DroppingIsOrderly ==
  ASSUME NEW l \in Loops, DropsWindow(l), loop'[l].pc # "claim"
  PROVE  HoldsInOrder(l)'
BY DEF HoldsInOrder, DropsWindow

LEMMA StepKeepsOrder ==
  ASSUME TypeOK, IdsInOrder, NEW l \in Loops, HoldsInOrder(l), Step(l)
  PROVE  HoldsInOrder(l)'
<1>1. loop \in [Loops -> LoopRecords] /\ faults' = faults
  <2>1. loop \in [Loops -> LoopRecords]
    BY DEF TypeOK
  <2>2. faults' = faults
    BY DEF Step, SelectInvalidations, ClaimInvalidated, ClaimForward, CheckInvalidations,
       StartForward, ReadPage, CompletePage, Persist, Prune, Advance, Settle, Promote
  <2> QED BY <2>1, <2>2
<1> USE DEF PCs
<1>2. ASSUME NEW pc \in PCs, Go(l, pc),
             \/ pc \in {"read", "prune", "advance", "settle"}
             \/ pc = "start" /\ loop[l].mode # "invalidation"
      PROVE  HoldsInOrder(l)'
  <2>1. loop'[l].pc = pc /\ KeepsWindow(l)
    BY <1>1, <1>2, GoMoves
  <2> QED BY <1>1, <1>2, <2>1 DEF HoldsInOrder, KeepsWindow
<1>3. ASSUME NEW pc \in PCs \ {"claim"}, Phase(l, pc) PROVE HoldsInOrder(l)'
  BY <1>1, <1>3, PhaseMoves, DroppingIsOrderly
<1>4. ASSUME Done(l) PROVE HoldsInOrder(l)'
  BY <1>1, <1>4, DoneMoves, DroppingIsOrderly
<1>5. CASE SelectInvalidations(l)
  <2>1. CASE pending = {}
    BY <1>3, <1>5, <2>1 DEF SelectInvalidations
  <2>2. CASE pending # {}
    BY <1>1, <1>5, <2>2, SelectMoves DEF HoldsInOrder, IdsInOrder
  <2> QED BY <2>1, <2>2
<1>6. CASE ClaimInvalidated(l)
  BY <1>2, <1>3, <1>6 DEF ClaimInvalidated
<1>7. CASE ClaimForward(l)
  <2>1. CASE loop' = [loop EXCEPT ![l].pc = "check", ![l].mode = "forward"]
    <3>1. /\ loop'[l].pc = "check" /\ loop'[l].ids = loop[l].ids
          /\ loop'[l].until = loop[l].until
      BY <1>1, <2>1, ForwardMoves
    <3>2. loop'[l].mode = "forward"
      BY <1>1, <2>1 DEF LoopRecords
    <3>3. loop[l].mode # "invalidation"
      BY <1>7 DEF ClaimForward, HoldsInOrder
    <3> QED BY <1>1, <3>1, <3>2, <3>3 DEF HoldsInOrder
  <2> QED BY <1>4, <1>7, <2>1 DEF ClaimForward
<1>8. CASE CheckInvalidations(l)
  BY <1>2, <1>4, <1>8 DEF CheckInvalidations, HoldsInOrder
<1>9. CASE StartForward(l)
  <2>1. ASSUME NEW from \in Times, loop' = [loop EXCEPT ![l].pc = "read", ![l].from = from]
        PROVE  HoldsInOrder(l)'
    <3>1. /\ loop'[l].pc = "read" /\ loop'[l].mode = loop[l].mode
          /\ loop'[l].ids = loop[l].ids /\ loop'[l].until = loop[l].until
      BY <1>1, <2>1, StartMoves
    <3> QED BY <1>1, <3>1 DEF HoldsInOrder
  <2>2. CASE loop' = [loop EXCEPT ![l].pc = "read", ![l].from = 0]
    BY <2>1, <2>2, TimesAreNat
  <2>3. CASE \E from \in Times : loop' = [loop EXCEPT ![l].pc = "read", ![l].from = from]
    BY <2>1, <2>3
  <2>4. ASSUME {t \in canonical : t > mark} # {}
        PROVE  TimeOf(Least({t \in canonical : t > mark})) \in Times
    BY <2>4, NextHasATime
  <2> QED BY <1>4, <1>9, <2>2, <2>3, <2>4 DEF StartForward
<1>10. CASE ReadPage(l) \/ CompletePage(l)
  <2>1. Window(l) \in SUBSET Trades /\ Cardinality(Window(l)) \in Nat /\ Cap \in Nat
    BY WindowIsFinite, WorkerAssumption DEF WorkerAssumption
  <2>2. CASE loop' = [loop EXCEPT ![l].pc = "persist", ![l].read = Window(l)]
    <3>1. /\ loop'[l].pc = "persist" /\ loop'[l].mode = loop[l].mode
          /\ loop'[l].ids = loop[l].ids /\ loop'[l].until = loop[l].until
      BY <1>1, <2>1, <2>2, PageMoves
    <3> QED BY <1>1, <3>1 DEF HoldsInOrder
  <2>3. CASE ReadPage(l) /\ ~(Cardinality(Window(l)) <= Cap)
    <3> DEFINE last  == CHOOSE t \in Window(l) : Cardinality({u \in Window(l) : u <= t}) = Cap
               until == Aligned(TimeOf(last)) + Coarsest
    <3>1. loop' = [loop EXCEPT ![l].pc = "complete", ![l].until = until]
      BY <2>3 DEF ReadPage
    <3>2. until \in Times /\ until % Coarsest = 0
      <4>1. Cardinality(Window(l)) > Cap
        BY <2>1, <2>3
      <4> HIDE DEF last
      <4>2. last = CHOOSE t \in Window(l) : Cardinality({u \in Window(l) : u <= t}) = Cap
        BY DEF last
      <4> QED BY <4>1, <4>2, PageEndsAtABucket
    <3> HIDE DEF until
    <3>3. /\ loop'[l].pc = "complete" /\ loop'[l].mode = loop[l].mode
          /\ loop'[l].ids = loop[l].ids /\ loop'[l].until = until
      BY <1>1, <3>1, <3>2, WidenMoves
    <3> QED BY <1>1, <3>2, <3>3 DEF HoldsInOrder
  <2> QED BY <1>10, <2>2, <2>3 DEF ReadPage, CompletePage
<1>11. CASE Persist(l) \/ Prune(l)
  BY <1>2, <1>11 DEF Persist, Prune
<1>12. CASE Advance(l)
  BY <1>2, <1>4, <1>12 DEF Advance
<1>13. CASE Settle(l)
  BY <1>3, <1>13 DEF Settle
<1>14. CASE Promote(l)
  <2>1. loop'[l].pc = "idle" /\ DropsWindow(l)
    BY <1>1, <1>14, RestMoves DEF Promote
  <2> QED BY <2>1, DroppingIsOrderly
<1> QED BY <1>5, <1>6, <1>7, <1>8, <1>9, <1>10, <1>11, <1>12, <1>13, <1>14 DEF Step

LEMMA StepMovesOne ==
  ASSUME TypeOK, NEW l \in Loops, Step(l)
  PROVE  OthersStay(l)
<1>1. ASSUME NEW pc, Go(l, pc) \/ Phase(l, pc) PROVE OthersStay(l)
  BY <1>1 DEF TypeOK, Go, Phase, OthersStay
<1>2. ASSUME Done(l) PROVE OthersStay(l)
  BY <1>2 DEF TypeOK, Done, Phase, OthersStay
<1>3. CASE \/ SelectInvalidations(l) \/ ClaimForward(l) \/ StartForward(l)
           \/ ReadPage(l) \/ CompletePage(l)
  BY <1>1, <1>2, <1>3 DEF TypeOK, OthersStay, SelectInvalidations, ClaimForward, StartForward,
     ReadPage, CompletePage
<1>4. CASE \/ ClaimInvalidated(l) \/ CheckInvalidations(l) \/ Persist(l) \/ Prune(l)
           \/ Advance(l) \/ Settle(l)
  BY <1>1, <1>2, <1>4, Zenon DEF ClaimInvalidated, CheckInvalidations, Persist, Prune, Advance, Settle
<1>5. CASE Promote(l)
  BY <1>5 DEF TypeOK, OthersStay, Promote
<1> QED BY <1>3, <1>4, <1>5 DEF Step

LEMMA BooksStayInOrder ==
  ASSUME TypeOK, IdsInOrder, \A l \in Loops : HoldsInOrder(l), [Next]_vars
  PROVE  IdsInOrder' /\ \A l \in Loops : HoldsInOrder(l)'
<1>1. faults \in Nat /\ loop \in [Loops -> LoopRecords]
  BY DEF TypeOK
<1>2. \A i \in pending : i.id \in Nat /\ i.id <= faults
  BY DEF TypeOK, IdsInOrder
<1>3. ASSUME loop' = loop, faults' = faults + 1, NEW i, i.id = faults + 1,
             pending' \in {pending, pending \cup {i}}
      PROVE  IdsInOrder' /\ \A l \in Loops : HoldsInOrder(l)'
  <2>1. faults' \in Nat /\ faults <= faults'
    BY <1>1, <1>3
  <2>2. \A j \in pending' : j \in pending \/ j = i
    BY <1>3
  <2>3. \A j \in pending' : j.id <= faults'
    BY <1>1, <1>2, <1>3, <2>2
  <2> QED BY <1>3, <2>1, <2>3, OrderStays DEF IdsInOrder
<1>4. ASSUME loop' = loop, faults' = faults, pending' = pending
      PROVE  IdsInOrder' /\ \A l \in Loops : HoldsInOrder(l)'
  <2>1. faults' \in Nat /\ faults <= faults'
    BY <1>1, <1>4
  <2>2. IdsInOrder'
    BY <1>4 DEF IdsInOrder
  <2>3. \A l \in Loops : HoldsInOrder(l)'
    BY <1>4, <2>1, OrderStays
  <2> QED BY <2>2, <2>3
<1>5. ASSUME NEW l \in Loops, OthersStay(l), HoldsInOrder(l)', faults' \in Nat, faults <= faults'
      PROVE  \A q \in Loops : HoldsInOrder(q)'
  BY <1>5, OrderStays DEF OthersStay
<1>6. ASSUME pending' = pending, faults' \in {faults, faults + 1}
      PROVE  IdsInOrder' /\ faults' \in Nat /\ faults <= faults'
  BY <1>1, <1>2, <1>6 DEF IdsInOrder
<1>7. ASSUME NEW s \in Streams, NEW to \in 1..MaxHeight, Ingest(s, to)
      PROVE  IdsInOrder' /\ \A l \in Loops : HoldsInOrder(l)'
  BY <1>4, <1>7 DEF Ingest
<1>8. ASSUME NEW ancestor \in 0..MaxHeight, NEW fork \in SUBSET {t \in Trades : t > ancestor},
             RecoverReorg(ancestor, fork)
      PROVE  IdsInOrder' /\ \A l \in Loops : HoldsInOrder(l)'
  <2>1. /\ loop' = loop /\ faults' = faults + 1
        /\ pending' \in {pending, pending \cup {Invalidation(TimeOf(ancestor))}}
    BY <1>8 DEF RecoverReorg
  <2>2. Invalidation(TimeOf(ancestor)).id = faults + 1
    BY DEF Invalidation
  <2> QED BY <1>3, <2>1, <2>2
<1>9. ASSUME NEW to \in 1..MaxHeight, Backfill(to)
      PROVE  IdsInOrder' /\ \A l \in Loops : HoldsInOrder(l)'
  BY <1>3, <1>9 DEF Backfill, Invalidation
<1>10. ASSUME NEW l \in Loops, Begin(l)
       PROVE  IdsInOrder' /\ \A q \in Loops : HoldsInOrder(q)'
  <2>1. pending' = pending /\ faults' \in {faults, faults + 1} /\ loop[l].pc = "idle"
    BY <1>10 DEF Begin
  <2>2. IdsInOrder' /\ faults' \in Nat /\ faults <= faults'
    BY <1>6, <2>1
  <2>3. loop'[l].pc = "invalidations" /\ OthersStay(l) /\ KeepsWindow(l)
    BY <1>10, BeginMoves
  <2>4. \A n \in loop[l].ids : n \in Nat
    BY <1>1 DEF LoopRecords
  <2>5. HoldsInOrder(l)'
    BY <1>1, <2>1, <2>2, <2>3, <2>4 DEF HoldsInOrder, KeepsWindow
  <2> QED BY <1>5, <2>2, <2>3, <2>5
<1>11. ASSUME NEW l \in Loops, RecomputeFails(l) \/ TickFails(l)
       PROVE  IdsInOrder' /\ \A q \in Loops : HoldsInOrder(q)'
  <2>1. pending' = pending /\ faults' \in {faults, faults + 1}
    BY <1>11 DEF RecomputeFails, TickFails
  <2>2. OthersStay(l) /\ DropsWindow(l) /\ loop'[l].pc # "claim"
    <3>1. CASE Phase(l, "forward")
      BY <1>1, <3>1, PhaseMoves DEF PCs
    <3>2. CASE Done(l)
      BY <1>1, <3>2, DoneMoves
    <3>3. CASE loop' = [loop EXCEPT ![l] = IdleLoop]
      BY <1>1, <3>3, RestMoves
    <3> QED BY <1>11, <3>1, <3>2, <3>3 DEF RecomputeFails, TickFails
  <2> QED BY <1>5, <1>6, <2>1, <2>2, DroppingIsOrderly
<1>12. ASSUME NEW l \in Loops, Step(l)
       PROVE  IdsInOrder' /\ \A q \in Loops : HoldsInOrder(q)'
  <2>1. faults' = faults
    BY <1>12 DEF Step, SelectInvalidations, ClaimInvalidated, ClaimForward, CheckInvalidations,
       StartForward, ReadPage, CompletePage, Persist, Prune, Advance, Settle, Promote
  <2>2. HoldsInOrder(l)'
    BY <1>12, StepKeepsOrder
  <2>3. OthersStay(l)
    BY <1>12, StepMovesOne
  <2>4. IdsInOrder'
    <3>1. CASE Settle(l)
      <4> DEFINE mine    == {i \in pending : i.id \in loop[l].ids}
                 resumed == {[i EXCEPT !.from = loop[l].until] : i \in mine}
      <4>1. \A i \in pending' : i \in pending \/ i \in resumed
        BY <3>1 DEF Settle
      <4>2. \A i \in mine : [i EXCEPT !.from = loop[l].until].id = i.id
        BY DEF TypeOK
      <4>3. \A i \in resumed : i.id <= faults
        BY <1>2, <4>2
      <4> QED BY <1>2, <2>1, <4>1, <4>3 DEF IdsInOrder
    <3>2. CASE ~Settle(l)
      <4>1. pending' = pending
        BY <1>12, <3>2 DEF Step, SelectInvalidations, ClaimInvalidated, ClaimForward,
           CheckInvalidations, StartForward, ReadPage, CompletePage, Persist, Prune, Advance, Promote
      <4> QED BY <1>6, <2>1, <4>1
    <3> QED BY <3>1, <3>2
  <2> QED BY <1>1, <1>5, <2>1, <2>2, <2>3, <2>4
<1>13. CASE Restart
  <2>1. pending' = pending /\ faults' \in {faults, faults + 1}
        /\ loop' = [l \in Loops |-> IdleLoop]
    BY <1>13 DEF Restart
  <2>2. \A l \in Loops : DropsWindow(l) /\ loop'[l].pc = "idle"
    BY <2>1 DEF DropsWindow, IdleLoop
  <2> QED BY <1>6, <2>1, <2>2, DroppingIsOrderly
<1>14. CASE UNCHANGED vars
  BY <1>4, <1>14 DEF vars
<1> QED BY <1>7, <1>8, <1>9, <1>10, <1>11, <1>12, <1>13, <1>14 DEF Next

-----------------------------------------------------------------------------
(* What is open stays open until the loop that settles it has recomputed the trade. *)

\* A bucket lies within the window of a loop or outside it.
LEMMA WindowsHaveWholeBuckets ==
  ASSUME TypeOK, NEW l \in Loops, HoldsInOrder(l), NEW b \in Buckets, NEW t \in In(b)
  PROVE  Covers(l, TimeOf(t)) <=> Covers(l, Start(b))
<1>1. t \in Nat /\ Start(b) = AlignedTo(b[1], TimeOf(t))
  BY ChainAssumption DEF ChainAssumption, In
<1>2. b[1] \in Widths
  BY DEF Buckets
<1>3. TimeOf(t) \in Nat /\ Start(b) \in Nat
  <2>1. b[1] \in Nat \ {0}
    BY <1>2, WorkerAssumption DEF WorkerAssumption
  <2>2. TimeOf(t) \in Nat
    BY <1>1, TimeMonotone
  <2> QED BY <1>1, <2>1, <2>2, AlignedBelow
<1>4. loop[l].from \in Nat /\ loop[l].until \in Nat \cup {NoLimit}
  BY TimesAreNat DEF TypeOK, LoopRecords
<1>5. Aligned(loop[l].from) \in Nat /\ Aligned(loop[l].from) % Coarsest = 0
  BY <1>4, AlignedTimes
<1>6. Aligned(loop[l].from) <= TimeOf(t) <=> Aligned(loop[l].from) <= Start(b)
  BY <1>1, <1>2, <1>3, <1>5, BucketsNest
<1>7. loop[l].until # NoLimit => (loop[l].until <= TimeOf(t) <=> loop[l].until <= Start(b))
  BY <1>1, <1>2, <1>3, <1>4, BucketsNest DEF HoldsInOrder
<1>8. loop[l].until # NoLimit => (TimeOf(t) < loop[l].until <=> Start(b) < loop[l].until)
  BY <1>3, <1>4, <1>7
<1> QED BY <1>6, <1>8 DEF Covers

LEMMA TradeTimes ==
  ASSUME NEW t \in Trades
  PROVE  t \in Nat /\ t > 0 /\ TimeOf(t) \in Nat
BY ChainAssumption, TimeMonotone DEF ChainAssumption

\* Rows stay, and loops drop their snapshots or keep them as they are.
LEMMA OpenStays ==
  ASSUME NEW t, pending \subseteq pending',
         \A q \in Loops : \/ loop'[q].ids = {}
                          \/ loop'[q].ids = loop[q].ids /\ loop'[q].from = loop[q].from
  PROVE  /\ Open(t) => Open(t)'
         /\ \A q \in Loops : OpenBeside(q, t) => OpenBeside(q, t)'
<1>1. \A i \in pending : Pinned(i, t) => Pinned(i, t)'
  BY DEF Pinned
<1> QED BY <1>1 DEF Open, OpenBeside

\* A row with a new id is in no snapshot.
LEMMA NewRowIsOpen ==
  ASSUME TypeOK, \A l \in Loops : HoldsInOrder(l), loop' = loop, NEW i \in pending',
         i.id = faults + 1, NEW t \in Trades, i.from \in Nat, i.from <= TimeOf(t)
  PROVE  Open(t)' /\ \A q \in Loops : OpenBeside(q, t)'
<1>1. faults \in Nat /\ \A q \in Loops : \A n \in loop[q].ids : n \in Nat
  BY DEF TypeOK, LoopRecords
<1>2. \A q \in Loops : i.id \notin loop[q].ids
  BY <1>1 DEF HoldsInOrder
<1>3. Aligned(i.from) <= TimeOf(t)
  <2>1. Aligned(i.from) \in Nat /\ Aligned(i.from) <= i.from /\ TimeOf(t) \in Nat
    BY AlignedTimes, TradeTimes
  <2> QED BY <2>1
<1>4. Pinned(i, t)'
  BY <1>2, <1>3 DEF Pinned
<1> QED BY <1>2, <1>4 DEF Open, OpenBeside

-----------------------------------------------------------------------------
(* The writers of ChainTrade. *)

\* Trades come and go beside the loops; each is covered by a new row, late, or after everything
\* that was passed or read.
LEMMA WritersKeepTheRest ==
  ASSUME IInv, loop' = loop, mark' = mark, candle' = candle,
         pending \subseteq pending', skipped \subseteq skipped',
         \A t \in canonical' \ canonical :
            t \in skipped' \/ ~Late(t) \/ (Open(t)' /\ \A q \in Loops : OpenBeside(q, t)'),
         \A t \in canonical \ canonical' : Open(t)' /\ \A q \in Loops : OpenBeside(q, t)',
         canonical' \subseteq Trades
  PROVE  CandlesMatchOrOpen' /\ \A l \in Loops : Recomputes(l)'
<1>1. TypeOK /\ CandlesMatchOrOpen /\ \A l \in Loops : Recomputes(l)
  BY DEF IInv
<1>2. \A t : /\ Open(t) => Open(t)'
             /\ \A q \in Loops : OpenBeside(q, t) => OpenBeside(q, t)'
  BY OpenStays
<1>3. mark \in Nat /\ \A l \in Loops : loop[l].read \subseteq Nat
  <2>1. mark \in Nat /\ \A l \in Loops : loop[l].read \subseteq Trades
    BY <1>1 DEF TypeOK, LoopRecords
  <2>2. Trades \subseteq Nat
    BY TradeTimes
  <2> QED BY <2>1, <2>2, Zenon
<1>4. \A t \in canonical' \ (canonical \cup skipped') :
        /\ t > mark \/ Open(t)'
        /\ \A l \in Loops :
             /\ OpenBeside(l, t)' \/ (t > mark /\ \A u \in loop[l].read : u < t)
             /\ Open(t)' \/ (loop[l].mode = "forward" => ~(TimeOf(t) < Aligned(loop[l].from)))
  BY <1>3, TradeTimes DEF Late
<1>5. CandlesMatchOrOpen'
  <2>1. ASSUME NEW b \in Buckets
        PROVE  /\ candle[b].trades \subseteq In(b)
               /\ \A t \in candle[b].trades \ canonical' : Open(t)'
               /\ \A t \in (canonical' \ skipped') \cap In(b) :
                    t <= mark /\ t \notin candle[b].trades => Open(t)'
    <3>1. /\ candle[b].trades \subseteq In(b)
          /\ \A t \in candle[b].trades \ canonical : Open(t)
          /\ \A t \in (canonical \ skipped) \cap In(b) :
               t <= mark /\ t \notin candle[b].trades => Open(t)
      BY <1>1 DEF CandlesMatchOrOpen
    <3>2. ASSUME NEW t \in candle[b].trades \ canonical' PROVE Open(t)'
      BY <1>2, <3>1
    <3>3. ASSUME NEW t \in (canonical' \ skipped') \cap In(b), t <= mark, t \notin candle[b].trades
          PROVE  Open(t)'
      <4>1. CASE t \in canonical
        BY <1>2, <3>1, <3>3, <4>1
      <4>2. CASE t \notin canonical
        BY <1>3, <1>4, <3>3, <4>2, TradeTimes
      <4> QED BY <4>1, <4>2
    <3> QED BY <3>1, <3>2, <3>3
  <2> QED BY <2>1 DEF CandlesMatchOrOpen
<1>6. ASSUME NEW l \in Loops PROVE Recomputes(l)'
  <2>1. /\ loop[l].pc \in HasRead => ReadIsCanonical(l)
        /\ WrittenAsRead(l) /\ StartsInTime(l)
    BY <1>1 DEF Recomputes
  <2>2. \A time : Covers(l, time)' <=> Covers(l, time)
    BY DEF Covers
  <2>3. ASSUME loop[l].pc \in HasRead PROVE ReadIsCanonical(l)'
    <3>1. ASSUME NEW t \in loop[l].read
          PROVE  Covers(l, TimeOf(t))' /\ (t \in canonical' \/ OpenBeside(l, t)')
      <4>1. Covers(l, TimeOf(t)) /\ (t \in canonical \/ OpenBeside(l, t))
        BY <2>1, <2>3, <3>1 DEF ReadIsCanonical
      <4> QED BY <1>2, <2>2, <4>1
    <3>2. ASSUME NEW t \in canonical' \ (skipped' \cup loop[l].read), Covers(l, TimeOf(t))
          PROVE  OpenBeside(l, t)' \/ (t > mark /\ \A u \in loop[l].read : u < t)
      <4>1. CASE t \in canonical
        <5>1. OpenBeside(l, t) \/ (t > mark /\ \A u \in loop[l].read : u < t)
          BY <2>1, <2>3, <3>2, <4>1 DEF ReadIsCanonical
        <5> QED BY <1>2, <5>1
      <4>2. CASE t \notin canonical
        BY <1>4, <4>2
      <4> QED BY <4>1, <4>2
    <3> QED BY <2>2, <3>1, <3>2 DEF ReadIsCanonical
  <2>4. WrittenAsRead(l)'
    BY <2>1, <2>2 DEF WrittenAsRead
  <2>5. StartsInTime(l)'
    <3>1. SUFFICES ASSUME loop[l].mode = "forward", loop[l].pc \in {"read", "complete"} \cup HasRead,
                          NEW t \in canonical' \ skipped', t > mark,
                          TimeOf(t) < Aligned(loop[l].from)
                   PROVE  Open(t)'
      BY DEF StartsInTime
    <3>2. CASE t \in canonical
      BY <1>2, <2>1, <3>1, <3>2 DEF StartsInTime
    <3>3. CASE t \notin canonical
      BY <1>4, <3>1, <3>3
    <3> QED BY <3>2, <3>3
  <2> QED BY <2>3, <2>4, <2>5 DEF Recomputes
<1> QED BY <1>5, <1>6

LEMMA IngestKeepsTheRest ==
  ASSUME IInv, NEW s \in Streams, NEW to \in 1..MaxHeight, Ingest(s, to), TypeOK'
  PROVE  CandlesMatchOrOpen' /\ \A l \in Loops : Recomputes(l)'
<1>1. /\ loop' = loop /\ mark' = mark /\ candle' = candle /\ pending' = pending
      /\ skipped' = skipped \cup {t \in canonical' \ canonical : Late(t)}
      /\ canonical \subseteq canonical'
  BY DEF Ingest
<1>2. canonical' \subseteq Trades
  BY DEF TypeOK
<1> QED BY <1>1, <1>2, WritersKeepTheRest

LEMMA RecoverKeepsTheRest ==
  ASSUME IInv, NEW ancestor \in 0..MaxHeight, NEW fork, RecoverReorg(ancestor, fork)
  PROVE  CandlesMatchOrOpen' /\ \A l \in Loops : Recomputes(l)'
<1> DEFINE row == Invalidation(TimeOf(ancestor))
<1>1. /\ loop' = loop /\ mark' = mark /\ candle' = candle /\ skipped' = skipped
      /\ canonical' = {t \in canonical : t <= ancestor}
      /\ canonical' # canonical => row \in pending'
      /\ pending \subseteq pending'
  BY DEF RecoverReorg
<1>2. canonical \subseteq Trades /\ TypeOK /\ \A l \in Loops : HoldsInOrder(l)
  BY DEF IInv, TypeOK
<1>3. row.id = faults + 1 /\ row.from = TimeOf(ancestor)
  BY DEF Invalidation
<1>4. ASSUME NEW t \in canonical \ canonical'
      PROVE  Open(t)' /\ \A q \in Loops : OpenBeside(q, t)'
  <2>1. t \in Trades /\ t \in Nat /\ t > ancestor /\ row \in pending'
    BY <1>1, <1>2, TradeTimes
  <2>2. TimeOf(ancestor) \in Nat /\ TimeOf(ancestor) <= TimeOf(t)
    BY <2>1, TimeMonotone
  <2> HIDE DEF row
  <2> QED BY <1>1, <1>2, <1>3, <2>1, <2>2, NewRowIsOpen
<1>5. canonical' \subseteq canonical /\ canonical' \subseteq Trades
  BY <1>1, <1>2
<1> QED BY <1>1, <1>4, <1>5, WritersKeepTheRest

LEMMA BackfillKeepsTheRest ==
  ASSUME IInv, NEW to \in 1..MaxHeight, Backfill(to), TypeOK'
  PROVE  CandlesMatchOrOpen' /\ \A l \in Loops : Recomputes(l)'
<1> DEFINE new == {t \in live \ canonical : t <= to}
           row == Invalidation(TimeOf(Least(new)))
<1>1. /\ loop' = loop /\ mark' = mark /\ candle' = candle /\ skipped' = skipped
      /\ canonical' = canonical \cup new /\ new # {}
      /\ pending' = pending \cup {row}
  BY DEF Backfill
<1>2. new \subseteq Trades /\ TypeOK /\ \A l \in Loops : HoldsInOrder(l)
  BY DEF IInv, TypeOK
<1>3. Least(new) \in Nat /\ \A t \in new : Least(new) <= t
  <2>1. new \in SUBSET Nat
    BY <1>2, TradeTimes
  <2> HIDE DEF new
  <2> QED BY <1>1, <2>1, LeastExists
<1>4. row.id = faults + 1 /\ row.from = TimeOf(Least(new))
  BY DEF Invalidation
<1>5. ASSUME NEW t \in new
      PROVE  Open(t)' /\ \A q \in Loops : OpenBeside(q, t)'
  <2>1. t \in Trades /\ t \in Nat /\ row \in pending'
    BY <1>1, <1>2, TradeTimes
  <2>2. TimeOf(Least(new)) \in Nat /\ TimeOf(Least(new)) <= TimeOf(t)
    BY <1>3, <2>1, TimeMonotone
  <2> HIDE DEF row, new
  <2> QED BY <1>1, <1>2, <1>4, <2>1, <2>2, NewRowIsOpen
<1>6. canonical' \subseteq Trades
  BY DEF TypeOK
<1> HIDE DEF new, row
<1> QED BY <1>1, <1>5, <1>6, WritersKeepTheRest

-----------------------------------------------------------------------------
(* The worker before it writes. *)

\* A loop moves on and no row, mark or shown trade changes: the candles and the other loops stay.
LEMMA MovesKeepTheRest ==
  ASSUME IInv, NEW l \in Loops, OthersStay(l), TypeOK',
         UNCHANGED <<canonical, mark, skipped, pending>>,
         \A b \in Buckets : candle'[b].trades = candle[b].trades,
         \A t \in Trades : /\ Open(t) => Open(t)'
                           /\ \A q \in Loops \ {l} : OpenBeside(q, t) => OpenBeside(q, t)'
  PROVE  CandlesMatchOrOpen' /\ \A q \in Loops \ {l} : Recomputes(q)'
<1>1. TypeOK /\ CandlesMatchOrOpen /\ \A q \in Loops : Recomputes(q)
  BY DEF IInv
<1>2. /\ canonical \subseteq Trades /\ \A q \in Loops : loop[q].read \subseteq Trades
      /\ \A b \in Buckets : candle[b].trades \subseteq Trades
  BY <1>1 DEF TypeOK, LoopRecords
<1>3. CandlesMatchOrOpen'
  BY <1>1, <1>2 DEF CandlesMatchOrOpen
<1>4. ASSUME NEW q \in Loops \ {l} PROVE Recomputes(q)'
  <2>1. Recomputes(q) /\ loop'[q] = loop[q]
    BY <1>1 DEF OthersStay
  <2>2. \A time : Covers(q, time)' <=> Covers(q, time)
    BY <2>1 DEF Covers
  <2>3. ASSUME loop[q].pc \in HasRead PROVE ReadIsCanonical(q)'
    <3>1. ReadIsCanonical(q)
      BY <2>1, <2>3 DEF Recomputes
    <3> QED BY <1>2, <2>1, <2>2, <3>1 DEF ReadIsCanonical
  <2>4. WrittenAsRead(q)'
    BY <2>1, <2>2 DEF Recomputes, WrittenAsRead
  <2>5. StartsInTime(q)'
    BY <1>2, <2>1 DEF Recomputes, StartsInTime
  <2> QED BY <2>1, <2>3, <2>4, <2>5 DEF Recomputes
<1> QED BY <1>3, <1>4

\* A loop that has not read, or is done, has nothing to keep.
LEMMA NothingToKeep ==
  ASSUME NEW l \in Loops, loop'[l].pc \notin {"read", "complete"} \cup HasRead
  PROVE  Recomputes(l)'
BY DEF Recomputes, HasRead, WrittenAsRead, StartsInTime

\* With the window untouched, or dropped, what is open stays so.
LEMMA DroppingKeepsTheRest ==
  ASSUME IInv, NEW l \in Loops, OthersStay(l), TypeOK',
         UNCHANGED <<canonical, mark, skipped, pending>>,
         \A b \in Buckets : candle'[b].trades = candle[b].trades,
         loop'[l].ids = {} \/ (loop'[l].ids = loop[l].ids /\ loop'[l].from = loop[l].from)
  PROVE  CandlesMatchOrOpen' /\ \A q \in Loops \ {l} : Recomputes(q)'
<1>1. \A q \in Loops : \/ loop'[q].ids = {}
                       \/ loop'[q].ids = loop[q].ids /\ loop'[q].from = loop[q].from
  BY DEF OthersStay
<1>2. \A t \in Trades : /\ Open(t) => Open(t)'
                        /\ \A q \in Loops : OpenBeside(q, t) => OpenBeside(q, t)'
  BY <1>1, OpenStays
<1> QED BY <1>2, MovesKeepTheRest

\* A snapshot of every open row begins no later than any of them, so that each stays pinned.
LEMMA SelectKeepsTheRest ==
  ASSUME IInv, NEW l \in Loops, SelectInvalidations(l), pending # {}, TypeOK'
  PROVE  CandlesMatchOrOpen' /\ \A q \in Loops : Recomputes(q)'
<1>1. /\ loop'[l].pc = "claim" /\ OthersStay(l)
      /\ loop'[l].from \in Times /\ \A i \in pending : loop'[l].from <= i.from
  BY SelectMoves DEF IInv
<1>2. UNCHANGED <<canonical, mark, skipped, pending, candle>>
  BY DEF SelectInvalidations, ingested
<1>3. \A i \in pending : Aligned(loop'[l].from) <= Aligned(i.from) /\ Aligned(i.from) \in Nat
  <2>1. \A i \in pending : i.from \in Nat
    BY TimesAreNat DEF IInv, TypeOK
  <2>2. loop'[l].from \in Nat
    BY <1>1, TimesAreNat
  <2> QED BY <1>1, <2>1, <2>2, AlignedMonotone, AlignedTimes
<1>4. Aligned(loop'[l].from) \in Nat
  BY <1>1, TimesAreNat, AlignedTimes
<1>5. ASSUME NEW t \in Trades, NEW i \in pending, Pinned(i, t) PROVE Pinned(i, t)'
  <2>1. TimeOf(t) \in Nat /\ Aligned(i.from) <= TimeOf(t)
    BY <1>5, TradeTimes DEF Pinned
  <2>2. Aligned(loop'[l].from) <= TimeOf(t)
    BY <1>3, <1>4, <2>1
  <2>3. \A q \in Loops \ {l} : i.id \in loop'[q].ids => Aligned(loop'[q].from) <= TimeOf(t)
    BY <1>1, <1>5 DEF OthersStay, Pinned
  <2> QED BY <2>1, <2>2, <2>3 DEF Pinned
<1>6. \A t \in Trades : /\ Open(t) => Open(t)'
                        /\ \A q \in Loops \ {l} : OpenBeside(q, t) => OpenBeside(q, t)'
  BY <1>1, <1>2, <1>5 DEF Open, OpenBeside, OthersStay
<1>7. CandlesMatchOrOpen' /\ \A q \in Loops \ {l} : Recomputes(q)'
  BY <1>1, <1>2, <1>6, MovesKeepTheRest
<1>8. Recomputes(l)'
  BY <1>1, NothingToKeep DEF HasRead
<1> QED BY <1>7, <1>8

\* A forward window that begins in time goes on doing so while only the place in it changes.
LEMMA StartStaysInTime ==
  ASSUME NEW l \in Loops, StartsInTime(l), loop[l].pc \in {"read", "complete"} \cup HasRead,
         UNCHANGED <<canonical, mark, skipped, pending>>, OthersStay(l),
         loop'[l].mode = loop[l].mode, loop'[l].ids = loop[l].ids, loop'[l].from = loop[l].from
  PROVE  StartsInTime(l)'
<1>1. \A q \in Loops : loop'[q].ids = loop[q].ids /\ loop'[q].from = loop[q].from
  BY DEF OthersStay
<1>2. \A t : Open(t) => Open(t)'
  BY <1>1, OpenStays
<1> QED BY <1>2 DEF StartsInTime

\* What is read in one page is the window, as it is at that moment.
LEMMA PageIsTheWindow ==
  ASSUME IInv, NEW l \in Loops, TypeOK', loop[l].pc \in {"read", "complete"},
         UNCHANGED <<canonical, mark, skipped, pending, candle>>,
         loop' = [loop EXCEPT ![l].pc = "persist", ![l].read = Window(l)]
  PROVE  CandlesMatchOrOpen' /\ \A q \in Loops : Recomputes(q)'
<1>1. loop \in [Loops -> LoopRecords] /\ Window(l) \in SUBSET Trades /\ Recomputes(l)
  BY WindowIsFinite DEF IInv, TypeOK
<1>2. /\ loop'[l].pc = "persist" /\ OthersStay(l) /\ loop'[l].read = Window(l)
      /\ loop'[l].mode = loop[l].mode /\ loop'[l].ids = loop[l].ids
      /\ loop'[l].from = loop[l].from /\ loop'[l].until = loop[l].until
  BY <1>1, PageMoves
<1>3. CandlesMatchOrOpen' /\ \A q \in Loops \ {l} : Recomputes(q)'
  BY <1>2, DroppingKeepsTheRest
<1>4. \A time : Covers(l, time)' <=> Covers(l, time)
  BY <1>2 DEF Covers
<1>5. ReadIsCanonical(l)'
  BY <1>2, <1>4 DEF ReadIsCanonical, Window
<1>6. WrittenAsRead(l)'
  BY <1>2 DEF WrittenAsRead
<1>7. StartsInTime(l)'
  BY <1>1, <1>2, StartStaysInTime DEF Recomputes
<1>8. Recomputes(l)'
  BY <1>5, <1>6, <1>7 DEF Recomputes
<1> QED BY <1>3, <1>8

LEMMA ReadKeepsTheRest ==
  ASSUME IInv, NEW l \in Loops, ReadPage(l) \/ CompletePage(l), TypeOK'
  PROVE  CandlesMatchOrOpen' /\ \A q \in Loops : Recomputes(q)'
<1>1. /\ UNCHANGED <<canonical, mark, skipped, pending, candle>>
      /\ loop[l].pc \in {"read", "complete"}
  BY DEF ReadPage, CompletePage, ingested
<1>2. CASE loop' = [loop EXCEPT ![l].pc = "persist", ![l].read = Window(l)]
  BY <1>1, <1>2, PageIsTheWindow
<1>3. CASE ReadPage(l) /\ ~(Cardinality(Window(l)) <= Cap)
  <2> DEFINE last  == CHOOSE t \in Window(l) : Cardinality({u \in Window(l) : u <= t}) = Cap
             until == Aligned(TimeOf(last)) + Coarsest
  <2>1. loop' = [loop EXCEPT ![l].pc = "complete", ![l].until = until]
    BY <1>3 DEF ReadPage
  <2>2. loop \in [Loops -> LoopRecords] /\ Recomputes(l)
    BY DEF IInv, TypeOK
  <2>3. until \in Times
    <3>1. Cardinality(Window(l)) > Cap
      BY <1>3, WindowIsFinite, WorkerAssumption DEF WorkerAssumption, IInv
    <3> HIDE DEF last
    <3>2. last = CHOOSE t \in Window(l) : Cardinality({u \in Window(l) : u <= t}) = Cap
      BY DEF last
    <3> QED BY <3>1, <3>2, PageEndsAtABucket DEF IInv
  <2> HIDE DEF until
  <2>4. /\ loop'[l].pc = "complete" /\ OthersStay(l)
        /\ loop'[l].mode = loop[l].mode /\ loop'[l].ids = loop[l].ids
        /\ loop'[l].from = loop[l].from
    BY <2>1, <2>2, <2>3, WidenMoves
  <2>5. CandlesMatchOrOpen' /\ \A q \in Loops \ {l} : Recomputes(q)'
    BY <1>1, <2>4, DroppingKeepsTheRest
  <2>6. StartsInTime(l)'
    BY <1>1, <2>2, <2>4, StartStaysInTime DEF Recomputes
  <2>7. Recomputes(l)'
    BY <2>4, <2>6 DEF Recomputes, HasRead, WrittenAsRead
  <2> QED BY <2>5, <2>7
<1> QED BY <1>2, <1>3 DEF ReadPage, CompletePage

LEMMA StartKeepsTheRest ==
  ASSUME IInv, NEW l \in Loops, StartForward(l), TypeOK'
  PROVE  CandlesMatchOrOpen' /\ \A q \in Loops : Recomputes(q)'
<1>1. /\ UNCHANGED <<canonical, mark, skipped, pending, candle>>
      /\ loop[l].pc = "start" /\ loop \in [Loops -> LoopRecords] /\ loop[l].ids = {}
  BY DEF StartForward, ingested, IInv, TypeOK, HoldsInOrder
<1>2. ASSUME Done(l) PROVE CandlesMatchOrOpen' /\ \A q \in Loops : Recomputes(q)'
  <2>1. loop'[l].pc \in {"idle", "promote"} /\ OthersStay(l) /\ loop'[l].ids = {}
    BY <1>1, <1>2, DoneMoves DEF DropsWindow
  <2> QED BY <1>1, <2>1, DroppingKeepsTheRest, NothingToKeep DEF HasRead
<1>3. ASSUME NEW from \in Times, loop' = [loop EXCEPT ![l].pc = "read", ![l].from = from],
             \A t \in canonical : t > mark => from <= TimeOf(t)
      PROVE  CandlesMatchOrOpen' /\ \A q \in Loops : Recomputes(q)'
  <2>1. /\ loop'[l].pc = "read" /\ OthersStay(l) /\ loop'[l].from = from /\ loop'[l].ids = {}
    BY <1>1, <1>3, StartMoves
  <2>2. CandlesMatchOrOpen' /\ \A q \in Loops \ {l} : Recomputes(q)'
    BY <1>1, <2>1, DroppingKeepsTheRest
  <2>3. Aligned(from) \in Nat /\ Aligned(from) <= from /\ from \in Nat
    BY TimesAreNat, AlignedTimes
  <2>4. \A t \in canonical : TimeOf(t) \in Nat
    BY TradeTimes DEF IInv, TypeOK
  <2>5. \A t \in canonical : t > mark => ~(TimeOf(t) < Aligned(from))
    BY <1>3, <2>3, <2>4
  <2>6. StartsInTime(l)'
    BY <1>1, <2>1, <2>5 DEF StartsInTime
  <2>7. Recomputes(l)'
    BY <2>1, <2>6 DEF Recomputes, HasRead, WrittenAsRead
  <2> QED BY <2>2, <2>7
<1>4. CASE loop' = [loop EXCEPT ![l].pc = "read", ![l].from = 0]
  <2>1. \A t \in canonical : 0 <= TimeOf(t)
    BY TradeTimes DEF IInv, TypeOK
  <2> QED BY <1>3, <1>4, <2>1, TimesAreNat
<1>5. CASE /\ {t \in canonical : t > mark} # {}
           /\ loop' = [loop EXCEPT ![l].pc = "read",
                                  ![l].from = TimeOf(Least({t \in canonical : t > mark}))]
  <2> DEFINE from == TimeOf(Least({t \in canonical : t > mark}))
  <2>1. from \in Times /\ \A t \in canonical : t > mark => from <= TimeOf(t)
    BY <1>5, NextHasATime DEF IInv
  <2> HIDE DEF from
  <2>2. loop' = [loop EXCEPT ![l].pc = "read", ![l].from = from]
    BY <1>5 DEF from
  <2> QED BY <1>3, <2>1, <2>2
<1> QED BY <1>2, <1>4, <1>5 DEF StartForward

LEMMA MovesKeepAll ==
  ASSUME IInv, NEW l \in Loops, TypeOK',
         \/ Begin(l) \/ SelectInvalidations(l) \/ ClaimInvalidated(l) \/ ClaimForward(l)
         \/ CheckInvalidations(l) \/ StartForward(l) \/ ReadPage(l) \/ CompletePage(l)
         \/ RecomputeFails(l) \/ TickFails(l) \/ Promote(l)
  PROVE  CandlesMatchOrOpen' /\ \A q \in Loops : Recomputes(q)'
<1> DEFINE Goal == CandlesMatchOrOpen' /\ \A q \in Loops : Recomputes(q)'
<1>1. TypeOK /\ loop \in [Loops -> LoopRecords] /\ HoldsInOrder(l)
  BY DEF IInv, TypeOK
<1>2. CASE SelectInvalidations(l) /\ pending # {}
  BY <1>2, SelectKeepsTheRest
<1>3. CASE StartForward(l)
  BY <1>3, StartKeepsTheRest
<1>4. CASE ReadPage(l) \/ CompletePage(l)
  BY <1>4, ReadKeepsTheRest
<1>5. CASE \/ Begin(l) \/ (SelectInvalidations(l) /\ pending = {}) \/ ClaimInvalidated(l)
           \/ ClaimForward(l) \/ CheckInvalidations(l)
           \/ RecomputeFails(l) \/ TickFails(l) \/ Promote(l)
  <2>1. /\ UNCHANGED <<canonical, mark, skipped, pending>>
        /\ \A b \in Buckets : candle'[b].trades = candle[b].trades
    <3>1. CASE Promote(l)
      <4>1. ASSUME NEW b \in Buckets PROVE candle'[b].trades = candle[b].trades
        <5>1. candle[b] \in [trades: SUBSET Trades, final: BOOLEAN]
          BY <1>1 DEF TypeOK
        <5>2. candle'[b] \in {candle[b], [candle[b] EXCEPT !.final = TRUE]}
          BY <3>1 DEF Promote
        <5> QED BY <5>1, <5>2
      <4> QED BY <3>1, <4>1 DEF Promote, ingested
    <3>2. CASE ~Promote(l)
      BY <1>5, <3>2 DEF Begin, SelectInvalidations, ClaimInvalidated, ClaimForward,
         CheckInvalidations, RecomputeFails, TickFails, ingested
    <3> QED BY <3>1, <3>2
  <2>2. ASSUME OthersStay(l), loop'[l].ids = {} \/ KeepsWindow(l),
               loop'[l].pc \notin {"read", "complete"} \cup HasRead
        PROVE  Goal
    BY <2>1, <2>2, DroppingKeepsTheRest, NothingToKeep DEF KeepsWindow
  <2>3. ASSUME NEW pc \in PCs \ ({"read", "complete"} \cup HasRead), Phase(l, pc) PROVE Goal
    BY <1>1, <2>2, <2>3, PhaseMoves DEF DropsWindow
  <2>4. ASSUME Done(l) PROVE Goal
    BY <1>1, <2>2, <2>4, DoneMoves DEF DropsWindow, HasRead
  <2>5. ASSUME loop' = [loop EXCEPT ![l] = IdleLoop] PROVE Goal
    BY <1>1, <2>2, <2>5, RestMoves DEF DropsWindow, HasRead
  <2>6. ASSUME Go(l, "start") PROVE Goal
    BY <1>1, <2>2, <2>6, GoMoves DEF PCs, HasRead
  <2>7. CASE Begin(l)
    BY <1>1, <2>2, <2>7, BeginMoves DEF HasRead
  <2>8. CASE ClaimInvalidated(l)
    <3>1. CASE Go(l, "read")
      <4>1. loop'[l].pc = "read" /\ OthersStay(l) /\ KeepsWindow(l)
        BY <1>1, <3>1, GoMoves DEF PCs
      <4>2. loop[l].mode = "invalidation"
        BY <1>1, <2>8 DEF ClaimInvalidated, HoldsInOrder
      <4>3. Recomputes(l)'
        BY <4>1, <4>2 DEF Recomputes, HasRead, WrittenAsRead, StartsInTime, KeepsWindow
      <4> QED BY <2>1, <4>1, <4>3, DroppingKeepsTheRest DEF KeepsWindow
    <3>2. CASE Phase(l, "forward")
      BY <2>3, <3>2 DEF PCs, HasRead
    <3> QED BY <2>8, <3>1, <3>2 DEF ClaimInvalidated
  <2>9. CASE ClaimForward(l)
    <3>1. CASE loop' = [loop EXCEPT ![l].pc = "check", ![l].mode = "forward"]
      <4>1. loop'[l].pc = "check" /\ OthersStay(l) /\ loop'[l].ids = loop[l].ids
        BY <1>1, <3>1, ForwardMoves
      <4>2. loop[l].ids = {}
        BY <1>1, <2>9 DEF ClaimForward, HoldsInOrder
      <4> QED BY <2>2, <4>1, <4>2 DEF HasRead
    <3> QED BY <2>4, <2>9, <3>1 DEF ClaimForward
  <2>10. CASE CheckInvalidations(l)
    BY <2>4, <2>6, <2>10 DEF CheckInvalidations
  <2>11. CASE SelectInvalidations(l) /\ pending = {}
    BY <2>3, <2>11 DEF SelectInvalidations, PCs, HasRead
  <2>12. CASE RecomputeFails(l)
    <3>1. "forward" \in PCs \ ({"read", "complete"} \cup HasRead)
      BY DEF PCs, HasRead
    <3> QED BY <2>3, <2>4, <2>12, <3>1 DEF RecomputeFails
  <2>13. CASE TickFails(l)
    BY <2>5, <2>13 DEF TickFails
  <2>14. CASE Promote(l)
    BY <2>5, <2>14 DEF Promote
  <2> QED BY <1>5, <2>7, <2>8, <2>9, <2>10, <2>11, <2>12, <2>13, <2>14
<1> QED BY <1>2, <1>3, <1>4, <1>5

-----------------------------------------------------------------------------
(* The worker's writes. *)

\* While one loop writes, the other one has nothing to keep: the token is claimed.
LEMMA OneLoopAtWork ==
  ASSUME TypeOK, NEW l \in Loops, loop[l].pc \in HasRead, OthersStay(l)
  PROVE  \A q \in Loops \ {l} : Recomputes(q)'
<1>1. ASSUME NEW q \in Loops \ {l} PROVE Recomputes(q)'
  <2>1. busy = l /\ (loop[q].pc \in Claimed <=> busy = q)
    BY DEF TypeOK, Claimed, HasRead
  <2>2. loop'[q].pc \notin Claimed
    BY <2>1 DEF OthersStay
  <2>3. loop'[q].pc \notin {"read", "complete"} \cup HasRead
    BY <2>2 DEF Claimed, HasRead
  <2> QED BY <2>3, NothingToKeep
<1> QED BY <1>1

\* The next write of a loop that goes on with the same page.
LEMMA WriteGoesOn ==
  ASSUME IInv, NEW l \in Loops, TypeOK', loop[l].pc \in HasRead, NEW pc \in HasRead, Go(l, pc),
         UNCHANGED <<canonical, mark, skipped, pending>>
  PROVE  /\ \A q \in Loops \ {l} : Recomputes(q)'
         /\ ReadIsCanonical(l)' /\ StartsInTime(l)' /\ loop'[l].pc = pc
         /\ loop'[l].read = loop[l].read /\ \A time : Covers(l, time)' <=> Covers(l, time)
         /\ \A t : /\ Open(t) => Open(t)'
                   /\ OpenBeside(l, t) => Open(t)'
<1>1. TypeOK /\ loop \in [Loops -> LoopRecords] /\ ReadIsCanonical(l) /\ StartsInTime(l)
  BY DEF IInv, TypeOK, Recomputes
<1>2. loop'[l].pc = pc /\ OthersStay(l) /\ KeepsWindow(l)
  BY <1>1, GoMoves DEF HasRead, PCs
<1>3. \A time : Covers(l, time)' <=> Covers(l, time)
  BY <1>2 DEF Covers, KeepsWindow
<1>4. \A t : /\ Open(t) => Open(t)'
             /\ \A q \in Loops : OpenBeside(q, t) => OpenBeside(q, t)'
  <2>1. \A q \in Loops : loop'[q].ids = loop[q].ids /\ loop'[q].from = loop[q].from
    BY <1>2 DEF OthersStay, KeepsWindow
  <2> QED BY <2>1, OpenStays
<1>5. \A t : OpenBeside(l, t) => Open(t)
  BY DEF Open, OpenBeside
<1>6. ReadIsCanonical(l)'
  BY <1>1, <1>2, <1>3, <1>4 DEF ReadIsCanonical, KeepsWindow
<1>7. StartsInTime(l)'
  BY <1>1, <1>2, StartStaysInTime DEF KeepsWindow
<1>8. \A q \in Loops \ {l} : Recomputes(q)'
  BY <1>1, <1>2, OneLoopAtWork
<1> QED BY <1>2, <1>3, <1>4, <1>5, <1>6, <1>7, <1>8 DEF KeepsWindow

\* A bucket that holds exactly what was read in it matches, or something is open.
LEMMA ReadBucketsMatch ==
  ASSUME IInv, NEW l \in Loops, loop[l].pc \in HasRead, NEW b \in Buckets, Covers(l, Start(b))
  PROVE  /\ \A t \in (loop[l].read \cap In(b)) \ canonical : OpenBeside(l, t)
         /\ \A t \in (canonical \ skipped) \cap In(b) :
              t \notin loop[l].read =>
                OpenBeside(l, t) \/ (t > mark /\ \A u \in loop[l].read : u < t)
<1>1. TypeOK /\ HoldsInOrder(l) /\ ReadIsCanonical(l)
  BY DEF IInv, Recomputes
<1>2. \A t \in In(b) : Covers(l, TimeOf(t))
  BY <1>1, WindowsHaveWholeBuckets
<1> QED BY <1>1, <1>2 DEF ReadIsCanonical

LEMMA PersistKeepsAll ==
  ASSUME IInv, NEW l \in Loops, TypeOK', Persist(l)
  PROVE  CandlesMatchOrOpen' /\ \A q \in Loops : Recomputes(q)'
<1>1. /\ UNCHANGED <<canonical, mark, skipped, pending>> /\ Go(l, "prune")
      /\ loop[l].pc = "persist" /\ TypeOK /\ HoldsInOrder(l)
      /\ CandlesMatchOrOpen /\ ReadIsCanonical(l)
  BY DEF Persist, ingested, IInv, Recomputes, HasRead
<1>2. /\ \A q \in Loops \ {l} : Recomputes(q)'
      /\ ReadIsCanonical(l)' /\ StartsInTime(l)' /\ loop'[l].pc = "prune"
      /\ loop'[l].read = loop[l].read /\ \A time : Covers(l, time)' <=> Covers(l, time)
      /\ \A t : (Open(t) => Open(t)') /\ (OpenBeside(l, t) => Open(t)')
  BY <1>1, WriteGoesOn DEF HasRead
<1>3. ASSUME NEW b \in Buckets
      PROVE  candle'[b].trades = IF loop[l].read \cap In(b) = {} THEN candle[b].trades
                                                               ELSE loop[l].read \cap In(b)
  BY DEF Persist
<1>4. WrittenAsRead(l)'
  BY <1>2, <1>3 DEF WrittenAsRead
<1>5. CandlesMatchOrOpen'
  <2>1. ASSUME NEW b \in Buckets
        PROVE  /\ candle'[b].trades \subseteq In(b)
               /\ \A t \in candle'[b].trades \ canonical : Open(t)'
               /\ \A t \in (canonical \ skipped) \cap In(b) :
                    t <= mark /\ t \notin candle'[b].trades => Open(t)'
    <3>1. CASE loop[l].read \cap In(b) = {}
      BY <1>1, <1>2, <1>3, <3>1 DEF CandlesMatchOrOpen
    <3>2. CASE loop[l].read \cap In(b) # {}
      <4>1. PICK u \in loop[l].read : u \in In(b)
        BY <3>2
      <4>2. Covers(l, TimeOf(u))
        BY <1>1, <4>1 DEF ReadIsCanonical
      <4>3. Covers(l, Start(b))
        BY <1>1, <4>1, <4>2, WindowsHaveWholeBuckets
      <4>4. /\ \A t \in (loop[l].read \cap In(b)) \ canonical : OpenBeside(l, t)
            /\ \A t \in (canonical \ skipped) \cap In(b) :
                 t \notin loop[l].read => OpenBeside(l, t) \/ t > mark
        BY <1>1, <4>3, ReadBucketsMatch DEF HasRead
      <4>5. \A t \in canonical : t > mark => ~(t <= mark)
        BY <1>1, CanonicalIsPlaces DEF TypeOK
      <4> QED BY <1>2, <1>3, <3>2, <4>4, <4>5
    <3> QED BY <3>1, <3>2
  <2> QED BY <1>1, <2>1 DEF CandlesMatchOrOpen
<1>6. Recomputes(l)'
  BY <1>2, <1>4 DEF Recomputes
<1> QED BY <1>2, <1>5, <1>6

LEMMA PruneKeepsAll ==
  ASSUME IInv, NEW l \in Loops, TypeOK', Prune(l)
  PROVE  CandlesMatchOrOpen' /\ \A q \in Loops : Recomputes(q)'
<1>1. /\ UNCHANGED <<canonical, mark, skipped, pending>> /\ Go(l, "advance")
      /\ loop[l].pc = "prune" /\ TypeOK
      /\ CandlesMatchOrOpen /\ WrittenAsRead(l)
  BY DEF Prune, ingested, IInv, Recomputes
<1>2. /\ \A q \in Loops \ {l} : Recomputes(q)'
      /\ ReadIsCanonical(l)' /\ StartsInTime(l)' /\ loop'[l].pc = "advance"
      /\ loop'[l].read = loop[l].read /\ \A time : Covers(l, time)' <=> Covers(l, time)
      /\ \A t : (Open(t) => Open(t)') /\ (OpenBeside(l, t) => Open(t)')
  BY <1>1, WriteGoesOn DEF HasRead
<1>3. ASSUME NEW b \in Buckets
      PROVE  /\ Covers(l, Start(b)) => candle'[b].trades = loop[l].read \cap In(b)
             /\ ~Covers(l, Start(b)) => candle'[b].trades = candle[b].trades
  <2>1. candle'[b] = IF Covers(l, Start(b)) /\ loop[l].read \cap In(b) = {} THEN NoCandle ELSE candle[b]
    BY DEF Prune
  <2>2. NoCandle.trades = {}
    BY DEF NoCandle
  <2>3. loop[l].read \cap In(b) # {} => candle[b].trades = loop[l].read \cap In(b)
    BY <1>1 DEF WrittenAsRead
  <2> QED BY <2>1, <2>2, <2>3
<1>4. WrittenAsRead(l)'
  BY <1>2, <1>3 DEF WrittenAsRead
<1>5. CandlesMatchOrOpen'
  <2>1. ASSUME NEW b \in Buckets
        PROVE  /\ candle'[b].trades \subseteq In(b)
               /\ \A t \in candle'[b].trades \ canonical : Open(t)'
               /\ \A t \in (canonical \ skipped) \cap In(b) :
                    t <= mark /\ t \notin candle'[b].trades => Open(t)'
    <3>1. CASE ~Covers(l, Start(b))
      BY <1>1, <1>2, <1>3, <3>1 DEF CandlesMatchOrOpen
    <3>2. CASE Covers(l, Start(b))
      <4>1. /\ \A t \in (loop[l].read \cap In(b)) \ canonical : OpenBeside(l, t)
            /\ \A t \in (canonical \ skipped) \cap In(b) :
                 t \notin loop[l].read => OpenBeside(l, t) \/ t > mark
        BY <1>1, <3>2, ReadBucketsMatch DEF HasRead
      <4>2. \A t \in canonical : t > mark => ~(t <= mark)
        BY <1>1, CanonicalIsPlaces DEF TypeOK
      <4> QED BY <1>2, <1>3, <3>2, <4>1, <4>2
    <3> QED BY <3>1, <3>2
  <2> QED BY <1>1, <2>1 DEF CandlesMatchOrOpen
<1>6. Recomputes(l)'
  BY <1>2, <1>4 DEF Recomputes
<1> QED BY <1>2, <1>5, <1>6

\* Where the mark goes: to something read, to nothing, or nowhere.
LEMMA MarkGoesToWhatWasRead ==
  ASSUME TypeOK, NEW l \in Loops, Advance(l)
  PROVE  mark' \in loop[l].read \cup {NoMark, mark}
<1>1. loop[l].read \subseteq Trades
  BY DEF TypeOK, LoopRecords
<1>2. CASE loop[l].read # {}
  <2>1. MaxHeight \in Nat /\ loop[l].read \in SUBSET Nat /\ \A t \in loop[l].read : t <= MaxHeight
    BY <1>1, ChainAssumption DEF ChainAssumption
  <2>2. Greatest(loop[l].read) \in loop[l].read
    BY <1>2, <2>1, GreatestExists
  <2> QED BY <1>2, <2>2 DEF Advance
<1>3. CASE loop[l].read = {}
  BY <1>3 DEF Advance
<1> QED BY <1>2, <1>3

LEMMA AdvanceKeepsAll ==
  ASSUME IInv, NEW l \in Loops, TypeOK', Advance(l)
  PROVE  CandlesMatchOrOpen' /\ \A q \in Loops : Recomputes(q)'
<1>1. /\ UNCHANGED <<canonical, candle, pending>> /\ loop[l].pc = "advance"
      /\ TypeOK /\ loop \in [Loops -> LoopRecords] /\ HoldsInOrder(l)
      /\ CandlesMatchOrOpen /\ ReadIsCanonical(l) /\ WrittenAsRead(l) /\ StartsInTime(l)
      /\ skipped' = (skipped \cup Overtaken(l)) \ loop[l].read
  BY DEF Advance, ingested, IInv, TypeOK, Recomputes, HasRead
<1>2. /\ OthersStay(l)
      /\ \/ loop[l].mode = "invalidation" /\ loop'[l].pc = "settle" /\ KeepsWindow(l)
         \/ loop'[l].pc \in {"idle", "promote"} /\ DropsWindow(l)
  <2>1. CASE loop[l].mode = "invalidation" /\ Go(l, "settle")
    BY <1>1, <2>1, GoMoves DEF PCs
  <2>2. CASE Done(l)
    BY <1>1, <2>2, DoneMoves
  <2> QED BY <2>1, <2>2 DEF Advance
<1>3. \A t : /\ Open(t) => Open(t)'
             /\ \A q \in Loops : OpenBeside(q, t) => OpenBeside(q, t)'
  <2>1. \A q \in Loops : \/ loop'[q].ids = {}
                         \/ loop'[q].ids = loop[q].ids /\ loop'[q].from = loop[q].from
    BY <1>2 DEF OthersStay, KeepsWindow, DropsWindow
  <2> QED BY <1>1, <2>1, OpenStays
<1>4. \A t : OpenBeside(l, t) => Open(t)
  BY DEF Open, OpenBeside
<1>5. /\ mark' \in loop[l].read \cup {0, mark} /\ mark \in Nat /\ mark' \in Nat
      /\ canonical \subseteq Trades /\ loop[l].read \subseteq Trades
  BY <1>1, MarkGoesToWhatWasRead DEF TypeOK, LoopRecords, NoMark
<1>6. ASSUME NEW t \in canonical \ (skipped' \cup loop[l].read), Covers(l, TimeOf(t))
      PROVE  OpenBeside(l, t) \/ (t > mark' /\ \A u \in loop[l].read : u < t)
  <2>1. OpenBeside(l, t) \/ (t > mark /\ \A u \in loop[l].read : u < t)
    BY <1>1, <1>6 DEF ReadIsCanonical
  <2>2. t \in Nat /\ t > 0
    BY <1>5, TradeTimes
  <2> QED BY <1>5, <2>1, <2>2
<1>7. CandlesMatchOrOpen'
  <2>1. ASSUME NEW b \in Buckets
        PROVE  /\ candle[b].trades \subseteq In(b)
               /\ \A t \in candle[b].trades \ canonical : Open(t)'
               /\ \A t \in (canonical \ skipped') \cap In(b) :
                    t <= mark' /\ t \notin candle[b].trades => Open(t)'
    <3>1. candle[b].trades \subseteq In(b) /\ \A t \in candle[b].trades \ canonical : Open(t)'
      BY <1>1, <1>3 DEF CandlesMatchOrOpen
    <3>2. ASSUME NEW t \in (canonical \ skipped') \cap In(b), t <= mark', t \notin candle[b].trades
          PROVE  Open(t)'
      <4>1. t \in Trades /\ t \in Nat /\ TimeOf(t) \in Nat
        BY <1>5, TradeTimes
      <4>2. Covers(l, TimeOf(t)) <=> Covers(l, Start(b))
        BY <1>1, WindowsHaveWholeBuckets
      <4>3. Covers(l, Start(b)) => candle[b].trades = loop[l].read \cap In(b)
        BY <1>1 DEF WrittenAsRead
      <4>4. t \notin loop[l].read
        <5>1. t \in loop[l].read => Covers(l, TimeOf(t))
          BY <1>1 DEF ReadIsCanonical
        <5> QED BY <3>2, <4>2, <4>3, <5>1
      <4>5. t \notin skipped /\ t \notin Overtaken(l)
        BY <1>1, <4>4
      <4>6. CASE Covers(l, TimeOf(t))
        <5>1. OpenBeside(l, t)
          BY <1>5, <1>6, <3>2, <4>1, <4>4, <4>6
        <5> QED BY <1>3, <1>4, <5>1
      <4>7. CASE ~Covers(l, TimeOf(t)) /\ t <= mark
        BY <1>1, <1>3, <3>2, <4>5, <4>7 DEF CandlesMatchOrOpen
      <4>8. CASE ~Covers(l, TimeOf(t)) /\ ~(t <= mark)
        <5>1. t > mark /\ mark' \in loop[l].read
          <6>1. mark' # 0 /\ mark' # mark
            BY <1>5, <3>2, <4>1, <4>8, TradeTimes
          <6> QED BY <1>5, <4>1, <4>8, <6>1
        <5>2. Covers(l, TimeOf(mark'))
          BY <1>1, <5>1 DEF ReadIsCanonical
        <5>3. TimeOf(t) <= TimeOf(mark') /\ TimeOf(mark') \in Nat
          BY <1>5, <3>2, <4>1, TimeMonotone
        <5>4. /\ loop[l].from \in Nat /\ Aligned(loop[l].from) \in Nat
              /\ loop[l].until \in Nat \cup {NoLimit}
          BY <1>1, TimesAreNat, AlignedTimes DEF LoopRecords
        <5>5. loop[l].until = NoLimit \/ TimeOf(t) < loop[l].until
          BY <4>1, <5>2, <5>3, <5>4 DEF Covers
        <5>6. TimeOf(t) < Aligned(loop[l].from)
          BY <4>1, <4>8, <5>4, <5>5 DEF Covers
        <5>7. loop[l].mode = "forward"
          <6>1. loop[l].mode # "invalidation"
            BY <4>5, <5>1, <5>6 DEF Overtaken
          <6> QED BY <6>1 DEF Advance
        <5>8. Open(t)
          BY <1>1, <4>5, <5>1, <5>6, <5>7 DEF StartsInTime, HasRead
        <5> QED BY <1>3, <5>8
      <4> QED BY <4>6, <4>7, <4>8
    <3> QED BY <3>1, <3>2
  <2> QED BY <1>1, <2>1 DEF CandlesMatchOrOpen
<1>8. Recomputes(l)'
  <2>1. CASE loop'[l].pc \in {"idle", "promote"}
    BY <2>1, NothingToKeep DEF HasRead
  <2>2. CASE loop[l].mode = "invalidation" /\ loop'[l].pc = "settle" /\ KeepsWindow(l)
    <3>1. \A time : Covers(l, time)' <=> Covers(l, time)
      BY <2>2 DEF Covers, KeepsWindow
    <3>2. ReadIsCanonical(l)'
      <4>1. \A t \in loop[l].read : Covers(l, TimeOf(t)) /\ (t \in canonical \/ OpenBeside(l, t)')
        BY <1>1, <1>3 DEF ReadIsCanonical
      <4>2. \A t \in canonical \ (skipped' \cup loop[l].read) :
              Covers(l, TimeOf(t)) =>
                OpenBeside(l, t)' \/ (t > mark' /\ \A u \in loop[l].read : u < t)
        BY <1>3, <1>6
      <4> QED BY <1>1, <2>2, <3>1, <4>1, <4>2 DEF ReadIsCanonical, KeepsWindow
    <3>3. WrittenAsRead(l)'
      BY <1>1, <2>2, <3>1 DEF WrittenAsRead, KeepsWindow
    <3>4. StartsInTime(l)'
      BY <2>2 DEF StartsInTime, KeepsWindow
    <3> QED BY <3>2, <3>3, <3>4 DEF Recomputes
  <2> QED BY <1>2, <2>1, <2>2
<1>9. \A q \in Loops \ {l} : Recomputes(q)'
  BY <1>1, <1>2, OneLoopAtWork DEF HasRead
<1> QED BY <1>7, <1>8, <1>9

\* A row that counts for a trade goes on doing so, unless the trade has just been recomputed.
LEMMA SettleLeavesTheRestOpen ==
  ASSUME TypeOK, NEW l \in Loops, OthersStay(l), DropsWindow(l), Settle(l), NEW t \in Trades
  PROVE  /\ OpenBeside(l, t) => Open(t)'
         /\ Open(t) => Open(t)' \/ Covers(l, TimeOf(t))
<1> DEFINE mine    == {i \in pending : i.id \in loop[l].ids}
           resumed == {[i EXCEPT !.from = loop[l].until] : i \in mine}
<1>1. /\ pending' = (pending \ mine) \cup (IF loop[l].until = NoLimit THEN {} ELSE resumed)
  BY DEF Settle
<1>2. ASSUME NEW i \in pending, i.id \notin loop[l].ids, Pinned(i, t) PROVE Open(t)'
  <2>1. i \in pending'
    BY <1>1, <1>2
  <2>2. Pinned(i, t)'
    BY <1>2 DEF Pinned, OthersStay, DropsWindow
  <2> QED BY <2>1, <2>2 DEF Open
<1>3. ASSUME NEW i \in pending, i.id \in loop[l].ids, Pinned(i, t), ~Covers(l, TimeOf(t))
      PROVE  Open(t)'
  <2>1. Aligned(loop[l].from) <= TimeOf(t)
    BY <1>3 DEF Pinned
  <2>2. loop[l].until # NoLimit /\ ~(TimeOf(t) < loop[l].until)
    BY <1>3, <2>1 DEF Covers
  <2>3. loop[l].until \in Nat
    BY <2>2, TimesAreNat DEF TypeOK, LoopRecords
  <2>4. Aligned(loop[l].until) <= TimeOf(t)
    <3>1. Aligned(loop[l].until) \in Nat /\ Aligned(loop[l].until) <= loop[l].until
      BY <2>3, AlignedTimes
    <3> QED BY <2>2, <2>3, <3>1, TradeTimes
  <2>5. PICK j \in pending' : j.id = i.id /\ j.from = loop[l].until
    <3>1. [i EXCEPT !.from = loop[l].until] \in pending'
      BY <1>1, <1>3, <2>2
    <3>2. i \in [id: 1..MaxFaults, from: Times]
      BY DEF TypeOK
    <3> QED BY <3>1, <3>2
  <2>6. Pinned(j, t)'
    BY <1>3, <2>4, <2>5 DEF Pinned, OthersStay, DropsWindow
  <2> QED BY <2>5, <2>6 DEF Open
<1> QED BY <1>2, <1>3 DEF Open, OpenBeside

LEMMA SettleKeepsAll ==
  ASSUME IInv, NEW l \in Loops, TypeOK', Settle(l)
  PROVE  CandlesMatchOrOpen' /\ \A q \in Loops : Recomputes(q)'
<1>1. /\ UNCHANGED <<canonical, candle, mark, skipped>> /\ loop[l].pc = "settle"
      /\ TypeOK /\ loop \in [Loops -> LoopRecords] /\ HoldsInOrder(l)
      /\ CandlesMatchOrOpen /\ ReadIsCanonical(l) /\ WrittenAsRead(l)
  BY DEF Settle, ingested, IInv, TypeOK, Recomputes, HasRead
<1>2. loop'[l].pc = "forward" /\ OthersStay(l) /\ DropsWindow(l)
  BY <1>1, PhaseMoves DEF Settle, PCs
<1>3. \A t \in Trades : /\ OpenBeside(l, t) => Open(t)'
                        /\ Open(t) => Open(t)' \/ Covers(l, TimeOf(t))
  BY <1>1, <1>2, SettleLeavesTheRestOpen
<1>4. canonical \subseteq Trades /\ \A b \in Buckets : candle[b].trades \subseteq Trades
  BY <1>1 DEF TypeOK
<1>5. ASSUME NEW b \in Buckets
      PROVE  /\ candle[b].trades \subseteq In(b)
             /\ \A t \in candle[b].trades \ canonical : Open(t)'
             /\ \A t \in (canonical \ skipped) \cap In(b) :
                  t <= mark /\ t \notin candle[b].trades => Open(t)'
  <2>1. candle[b].trades \subseteq In(b)
    BY <1>1 DEF CandlesMatchOrOpen
  <2>2. CASE ~Covers(l, Start(b))
    <3>1. \A t \in In(b) : ~Covers(l, TimeOf(t))
      BY <1>1, <2>2, WindowsHaveWholeBuckets
    <3> QED BY <1>1, <1>3, <1>4, <2>1, <3>1 DEF CandlesMatchOrOpen
  <2>3. CASE Covers(l, Start(b))
    <3>1. candle[b].trades = loop[l].read \cap In(b)
      BY <1>1, <2>3 DEF WrittenAsRead
    <3>2. /\ \A t \in (loop[l].read \cap In(b)) \ canonical : OpenBeside(l, t)
          /\ \A t \in (canonical \ skipped) \cap In(b) :
               t \notin loop[l].read => OpenBeside(l, t) \/ t > mark
      BY <1>1, <2>3, ReadBucketsMatch DEF HasRead
    <3>3. \A t \in canonical : t > mark => ~(t <= mark)
      BY <1>1, CanonicalIsPlaces DEF TypeOK
    <3> QED BY <1>3, <1>4, <2>1, <3>1, <3>2, <3>3
  <2> QED BY <2>2, <2>3
<1>6. CandlesMatchOrOpen'
  BY <1>1, <1>5 DEF CandlesMatchOrOpen
<1>7. \A q \in Loops : Recomputes(q)'
  <2>1. \A q \in Loops \ {l} : Recomputes(q)'
    BY <1>1, <1>2, OneLoopAtWork DEF HasRead
  <2>2. Recomputes(l)'
    BY <1>2, NothingToKeep DEF HasRead
  <2> QED BY <2>1, <2>2
<1> QED BY <1>6, <1>7

LEMMA RestartKeepsAll ==
  ASSUME IInv, Restart
  PROVE  CandlesMatchOrOpen' /\ \A q \in Loops : Recomputes(q)'
<1>1. UNCHANGED <<canonical, candle, mark, skipped, pending>> /\ CandlesMatchOrOpen
  BY DEF Restart, ingested, IInv
<1>2. \A l \in Loops : loop'[l].pc = "idle" /\ loop'[l].ids = {}
  BY DEF Restart, IdleLoop
<1>3. \A t : Open(t) => Open(t)'
  BY <1>1, <1>2, OpenStays
<1>4. CandlesMatchOrOpen'
  BY <1>1, <1>3 DEF CandlesMatchOrOpen
<1>5. \A q \in Loops : Recomputes(q)'
  BY <1>2, NothingToKeep DEF HasRead
<1> QED BY <1>4, <1>5

-----------------------------------------------------------------------------
(* The theorems. *)

LEMMA InitIsInvariant == Init => IInv
<1> SUFFICES ASSUME Init PROVE IInv
  OBVIOUS
<1>1. /\ IdleLoop.pc = "idle" /\ IdleLoop.mode = "none" /\ IdleLoop.ids = {}
      /\ IdleLoop.until = NoLimit /\ \A l \in Loops : loop[l] = IdleLoop
  BY DEF Init, IdleLoop
<1>2. DataOK
  <2>1. MaxHeight \in Nat /\ MaxFaults \in Nat
    BY ChainAssumption, WorkerAssumption DEF ChainAssumption, WorkerAssumption
  <2> QED BY <2>1 DEF Init, DataOK, NoCandle, NoMark
<1>3. LoopsOK
  BY <1>1, IdleIsTyped DEF Init, LoopsOK, Claimed, Loops, Nobody
<1>4. IdsInOrder
  BY DEF Init, IdsInOrder
<1>5. \A l \in Loops : HoldsInOrder(l) /\ Recomputes(l)
  BY <1>1 DEF HoldsInOrder, Recomputes, HasRead, WrittenAsRead, StartsInTime
<1>6. CandlesMatchOrOpen
  BY DEF Init, NoCandle, CandlesMatchOrOpen
<1> QED BY <1>2, <1>3, <1>4, <1>5, <1>6, TypesInTwo DEF IInv

LEMMA StutterKeepsAll ==
  ASSUME IInv, UNCHANGED vars
  PROVE  CandlesMatchOrOpen' /\ \A l \in Loops : Recomputes(l)'
<1>1. /\ loop' = loop /\ mark' = mark /\ candle' = candle /\ canonical' = canonical
      /\ pending' = pending /\ skipped' = skipped
  BY DEF vars, ingested
<1>2. CandlesMatchOrOpen /\ \A l \in Loops : Recomputes(l)
  BY DEF IInv
<1>3. \A t : /\ Open(t)' <=> Open(t)
             /\ \A q \in Loops : OpenBeside(q, t)' <=> OpenBeside(q, t)
  BY <1>1 DEF Open, OpenBeside, Pinned
<1>4. CandlesMatchOrOpen'
  BY <1>1, <1>2, <1>3 DEF CandlesMatchOrOpen
<1>5. \A l \in Loops : Recomputes(l)'
  BY <1>1, <1>2, <1>3
     DEF Recomputes, ReadIsCanonical, WrittenAsRead, StartsInTime, Covers, HasRead
<1> QED BY <1>4, <1>5

LEMMA NextKeepsInvariant == IInv /\ [Next]_vars => IInv'
<1> SUFFICES ASSUME IInv, [Next]_vars PROVE IInv'
  OBVIOUS
<1>1. TypeOK' /\ TypeOK
  BY StepKeepsTypes DEF IInv
<1>2. IdsInOrder' /\ \A l \in Loops : HoldsInOrder(l)'
  BY BooksStayInOrder DEF IInv
<1> DEFINE Rest == CandlesMatchOrOpen' /\ \A l \in Loops : Recomputes(l)'
<1> SUFFICES Rest
  BY <1>1, <1>2 DEF IInv
<1>3. ASSUME NEW s \in Streams, NEW to \in 1..MaxHeight, Ingest(s, to) PROVE Rest
  BY <1>1, <1>3, IngestKeepsTheRest
<1>4. ASSUME NEW ancestor \in 0..MaxHeight, NEW fork \in SUBSET {t \in Trades : t > ancestor},
             RecoverReorg(ancestor, fork)
      PROVE  Rest
  BY <1>4, RecoverKeepsTheRest
<1>5. ASSUME NEW to \in 1..MaxHeight, Backfill(to) PROVE Rest
  BY <1>1, <1>5, BackfillKeepsTheRest
<1>6. ASSUME NEW l \in Loops, Begin(l) \/ Step(l) \/ RecomputeFails(l) \/ TickFails(l) PROVE Rest
  <2>1. CASE Persist(l)
    BY <1>1, <2>1, PersistKeepsAll
  <2>2. CASE Prune(l)
    BY <1>1, <2>2, PruneKeepsAll
  <2>3. CASE Advance(l)
    BY <1>1, <2>3, AdvanceKeepsAll
  <2>4. CASE Settle(l)
    BY <1>1, <2>4, SettleKeepsAll
  <2>5. CASE \/ Begin(l) \/ SelectInvalidations(l) \/ ClaimInvalidated(l) \/ ClaimForward(l)
             \/ CheckInvalidations(l) \/ StartForward(l) \/ ReadPage(l) \/ CompletePage(l)
             \/ RecomputeFails(l) \/ TickFails(l) \/ Promote(l)
    BY <1>1, <2>5, MovesKeepAll
  <2> QED BY <1>6, <2>1, <2>2, <2>3, <2>4, <2>5 DEF Step
<1>7. CASE Restart
  BY <1>7, RestartKeepsAll
<1>8. CASE UNCHANGED vars
  BY <1>8, StutterKeepsAll
<1> HIDE DEF Rest
<1>9. CASE Next
  <2>1. CASE \E s \in Streams, to \in 1..MaxHeight : Ingest(s, to)
    BY <1>3, <2>1
  <2>2. CASE \E ancestor \in 0..MaxHeight :
               \E fork \in SUBSET {t \in Trades : t > ancestor} : RecoverReorg(ancestor, fork)
    BY <1>4, <2>2
  <2>3. CASE \E to \in 1..MaxHeight : Backfill(to)
    BY <1>5, <2>3
  <2>4. CASE \E l \in Loops : Begin(l) \/ Step(l) \/ RecomputeFails(l) \/ TickFails(l)
    BY <1>6, <2>4
  <2> QED BY <1>7, <1>9, <2>1, <2>2, <2>3, <2>4 DEF Next
<1> QED BY <1>8, <1>9

\* Whatever trades come late, are backfilled or orphaned while the two loops recompute, fail and
\* restart, what is wrong about a candle is covered by an invalidation that is still open, and
\* that no loop will settle without recomputing it.
THEOREM CandlesInvariant == Spec => []IInv
<1>1. IInv /\ UNCHANGED vars => IInv'
  BY NextKeepsInvariant
<1> QED BY InitIsInvariant, NextKeepsInvariant, <1>1, PTL DEF Spec

\* The token is claimed by exactly the loop that recomputes it, and everything has its type:
\* candleAggregationService.ts:166-175 and 299-302 never hand it to both.
THEOREM CandlesTypeCorrect == Spec => []TypeOK
<1>1. IInv => TypeOK
  BY DEF IInv
<1> QED BY <1>1, CandlesInvariant, PTL

\* Once no invalidation is open, the candles are those of the canonical trades that the
\* checkpoint has passed, for any number of streams, but for those it was moved past unread.
THEOREM CandlesMatch == Spec => []CandlesMatchUnlessSkipped
<1>1. IInv => CandlesMatchUnlessSkipped
  <2> SUFFICES ASSUME IInv, pending = {}, NEW b \in Buckets
               PROVE  /\ candle[b].trades \subseteq canonical
                      /\ {t \in canonical \ skipped : t <= mark} \cap In(b) \subseteq candle[b].trades
    BY DEF CandlesMatchUnlessSkipped
  <2>1. \A t : ~Open(t)
    BY DEF Open
  <2>2. CandlesMatchOrOpen
    BY DEF IInv
  <2> QED BY <2>1, <2>2 DEF CandlesMatchOrOpen
<1> QED BY <1>1, CandlesInvariant, PTL
=============================================================================
