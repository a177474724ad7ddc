------------------------------ MODULE Feeds_proofs ------------------------------
(***************************************************************************)
(* What the three feeds promise, for every value of the constants.  The    *)
(* block subscription: its checkpoint passes nothing that was not handed   *)
(* out, and nothing is handed out twice while the deduplicator remembers   *)
(* it.  The realtime gateway: who subscribed has its handler, and nobody   *)
(* else.  pump.fun: the checkpoint is the slot of something stored.  At    *)
(* the end, all of it as the run composes it.                              *)
(***************************************************************************)
EXTENDS MCFeeds, TLAPS, FiniteSetTheorems, SequenceTheorems, NaturalsInduction, WellFoundedInduction

-----------------------------------------------------------------------------
(* The block subscription.  Its checkpoint is the head of a replay that is through, and what a *)
(* replay covers is handed out or still to come, whoever hands it out.                         *)

HandedOut == observing \cup observed \cup failed

FlowType == [pc: {"new", "idle", "try", "connect", "load", "replay"}, left: SUBSET Endpoints,
             attempt: 0..AttemptsPerEndpoint - 1, todo: SUBSET Blocks, to: 0..MaxHead,
             now: Blocks \cup {NoEvent}]

EventTypes ==
  /\ seen \in Seq(Blocks) /\ Len(seen) <= DedupeWindow
  /\ observing \subseteq Blocks /\ observed \subseteq Blocks /\ failed \subseteq Blocks
  /\ since \in [Blocks -> 0..DedupeWindow] /\ early \in BOOLEAN

SocketTypes ==
  /\ sock \in [Sockets -> 0..MaxHead + 1] /\ socket \in Sockets \cup {NoSocket}
  /\ armed \in BOOLEAN /\ stopped \in BOOLEAN /\ gaveUp \in BOOLEAN
  /\ state \in {"connecting", "live", "degraded_polling", "stopped"}

FlowTypes == flow \in [Flows -> FlowType]

CountTypes == head \in 0..MaxHead /\ checkpoint \in 0..MaxHead /\ faults \in 0..MaxFaults

STypes == EventTypes /\ SocketTypes /\ FlowTypes /\ CountTypes

\* What the deduplicator remembers was handed out; a replay has handed out what it is to cover or
\* will come to it.
SeenIsHandedOut == \A i \in DOMAIN seen : seen[i] \in HandedOut

Covers(r) == r.pc = "replay" => \A b \in 1..r.to : b \in HandedOut \/ b \in r.todo

ReplaysCover == \A f \in Flows : Covers(flow[f])

SInv == STypes /\ SeenIsHandedOut /\ ReplaysCover /\ NothingSkipped

-----------------------------------------------------------------------------
LEMMA LeastOfNaturals ==
  ASSUME NEW S \in SUBSET Nat, S # {}
  PROVE  Least(S) \in S
<1>1. IsWellFoundedOn(OpToRel(<, Nat), Nat)
  BY NatLessThanWellFounded, Zenon
<1>2. PICK x \in S : \A y \in S : ~(<<y, x>> \in OpToRel(<, Nat))
  BY <1>1, WFMin, Zenon
<1>3. \A y \in S : ~(y < x)
  BY <1>2, Zenon DEF OpToRel
<1>4. \E y \in S : \A z \in S : y <= z
  BY <1>3
<1>5. QED
  BY <1>4 DEF Least

LEMMA LeastOfTwo ==
  ASSUME NEW m \in Nat, NEW n \in Nat
  PROVE  Least({m, n}) = IF m <= n THEN m ELSE n
<1>1. \A x \in {m, n} : (\A y \in {m, n} : x <= y) <=> x = IF m <= n THEN m ELSE n
  OBVIOUS
<1>2. QED
  BY <1>1 DEF Least

\* The records a flow goes on with when it begins, is done, or tries again.
LEMMA FlowRecords ==
  ASSUME ConstantsOK
  PROVE  /\ IdleFlow \in FlowType /\ IdleFlow.pc = "idle"
         /\ [IdleFlow EXCEPT !.pc = "new"] \in FlowType /\ [IdleFlow EXCEPT !.pc = "new"].pc = "new"
         /\ [IdleFlow EXCEPT !.pc = "idle"] \in FlowType /\ [IdleFlow EXCEPT !.pc = "idle"].pc = "idle"
         /\ \A left \in SUBSET Endpoints :
              /\ [IdleFlow EXCEPT !.pc = "try", !.left = left] \in FlowType
              /\ [IdleFlow EXCEPT !.pc = "try", !.left = left].pc = "try"
         /\ \A left \in SUBSET Endpoints, a \in 0..AttemptsPerEndpoint - 1 :
              /\ [IdleFlow EXCEPT !.pc = "try", !.left = left, !.attempt = a] \in FlowType
              /\ [IdleFlow EXCEPT !.pc = "try", !.left = left, !.attempt = a].pc = "try"
<1>1. IdleFlow \in FlowType /\ IdleFlow.pc = "idle"
  BY DEF IdleFlow, FlowType, ConstantsOK, NoEvent
<1>2. \A r \in FlowType, pc \in {"new", "idle", "try"} : [r EXCEPT !.pc = pc] \in FlowType /\ [r EXCEPT !.pc = pc].pc = pc
  BY DEF FlowType
<1>3. \A r \in FlowType, left \in SUBSET Endpoints :
        [r EXCEPT !.left = left] \in FlowType /\ [r EXCEPT !.left = left].pc = r.pc
  BY DEF FlowType
<1>4. \A r \in FlowType, a \in 0..AttemptsPerEndpoint - 1 :
        [r EXCEPT !.attempt = a] \in FlowType /\ [r EXCEPT !.attempt = a].pc = r.pc
  BY DEF FlowType
<1>5. ASSUME NEW left \in SUBSET Endpoints
      PROVE  /\ [[IdleFlow EXCEPT !.pc = "try"] EXCEPT !.left = left] \in FlowType
             /\ [[IdleFlow EXCEPT !.pc = "try"] EXCEPT !.left = left].pc = "try"
  <2> DEFINE r == [IdleFlow EXCEPT !.pc = "try"]
  <2>1. r \in FlowType /\ r.pc = "try"
    BY <1>1, <1>2
  <2> HIDE DEF r
  <2>2. [r EXCEPT !.left = left] \in FlowType /\ [r EXCEPT !.left = left].pc = "try"
    BY <1>3, <2>1
  <2>3. QED
    BY <2>2 DEF r
<1>6. ASSUME NEW left \in SUBSET Endpoints, NEW a \in 0..AttemptsPerEndpoint - 1
      PROVE  /\ [[[IdleFlow EXCEPT !.pc = "try"] EXCEPT !.left = left] EXCEPT !.attempt = a] \in FlowType
             /\ [[[IdleFlow EXCEPT !.pc = "try"] EXCEPT !.left = left] EXCEPT !.attempt = a].pc = "try"
  <2> DEFINE r == [[IdleFlow EXCEPT !.pc = "try"] EXCEPT !.left = left]
  <2>1. r \in FlowType /\ r.pc = "try"
    BY <1>5
  <2> HIDE DEF r
  <2>2. [r EXCEPT !.attempt = a] \in FlowType /\ [r EXCEPT !.attempt = a].pc = "try"
    BY <1>4, <2>1
  <2>3. QED
    BY <2>2 DEF r
<1>7. QED
  BY <1>1, <1>2, <1>5, <1>6

LEMMA ProceedStep ==
  ASSUME STypes, NEW f \in Flows, NEW r \in FlowType, Proceed(f, r)
  PROVE  FlowTypes' /\ flow'[f] = r /\ \A g \in Flows : g # f => flow'[g] = flow[g]
BY DEF STypes, FlowTypes, Proceed

LEMMA BegunFlows ==
  ASSUME ConstantsOK, NEW r \in Begun
  PROVE  r \in FlowType /\ r.pc = "try"
<1>1. PICK left \in SUBSET Endpoints \ {{}} : r = [IdleFlow EXCEPT !.pc = "try", !.left = left]
  BY DEF Begun
<1>2. QED
  BY <1>1, FlowRecords, Zenon

\* A failed attempt leaves no replay behind.
LEMMA AttemptFailsStep ==
  ASSUME ConstantsOK, STypes, NEW f \in Flows, AttemptFails(f)
  PROVE  /\ FlowTypes' /\ flow'[f].pc # "replay" /\ \A g \in Flows : g # f => flow'[g] = flow[g]
         /\ state' \in {"connecting", "live", "degraded_polling", "stopped"} /\ gaveUp' \in BOOLEAN
<1> DEFINE retry == flow[f].attempt + 1 < AttemptsPerEndpoint
           left == IF retry THEN flow[f].left ELSE flow[f].left \ {Least(flow[f].left)}
           a == IF retry THEN flow[f].attempt + 1 ELSE 0
<1>1. left \in SUBSET Endpoints /\ a \in 0..AttemptsPerEndpoint - 1
  <2>1. flow[f].left \subseteq Endpoints /\ flow[f].attempt \in 0..AttemptsPerEndpoint - 1
    BY DEF STypes, FlowTypes, FlowType
  <2>2. QED
    BY <2>1 DEF ConstantsOK
<1>2. CASE left = {}
  <2>1. Proceed(f, IdleFlow) /\ state' = "degraded_polling" /\ gaveUp' = TRUE
    BY <1>2 DEF AttemptFails
  <2>2. QED
    BY <2>1, FlowRecords, ProceedStep
<1>3. CASE left # {}
  <2>1. Proceed(f, [IdleFlow EXCEPT !.pc = "try", !.left = left, !.attempt = a]) /\ UNCHANGED <<state, gaveUp>>
    BY <1>3 DEF AttemptFails
  <2> DEFINE r == [IdleFlow EXCEPT !.pc = "try", !.left = left, !.attempt = a]
  <2> HIDE DEF left, a
  <2>2. r \in FlowType /\ r.pc = "try"
    BY <1>1, FlowRecords
  <2>3. Proceed(f, r)
    BY <2>1
  <2> HIDE DEF r
  <2>4. QED
    BY <2>1, <2>2, <2>3, ProceedStep DEF STypes, SocketTypes
<1>4. QED
  BY <1>2, <1>3

LEMMA ReconnectStep ==
  ASSUME ConstantsOK, STypes, NEW socks \in [Sockets -> 0..MaxHead + 1], Reconnect(socks)
  PROVE  /\ sock' \in [Sockets -> 0..MaxHead + 1] /\ socket' \in Sockets \cup {NoSocket}
         /\ state' \in {"connecting", "live", "degraded_polling", "stopped"}
         /\ FlowTypes' /\ \A g \in Flows : flow'[g] = flow[g] \/ flow'[g].pc = "try"
<1>1. CASE stopped \/ flow["reconnect"].pc # "idle"
  BY <1>1 DEF Reconnect, STypes, SocketTypes, FlowTypes
<1>2. CASE ~(stopped \/ flow["reconnect"].pc # "idle")
  <2>1. PICK r \in Begun : flow' = [flow EXCEPT !["reconnect"] = r]
    BY <1>2 DEF Reconnect, Begin
  <2>2. r \in FlowType /\ r.pc = "try" /\ "reconnect" \in Flows
    BY BegunFlows DEF Flows
  <2>3. FlowTypes' /\ \A g \in Flows : flow'[g] = flow[g] \/ flow'[g].pc = "try"
    BY <2>1, <2>2 DEF STypes, FlowTypes
  <2>4. sock' = Closing(socks, socket) /\ socket' = NoSocket /\ state' = "connecting"
    BY <1>2 DEF Reconnect
  <2>5. sock' \in [Sockets -> 0..MaxHead + 1]
    BY <2>4 DEF Closing, Deaf, ConstantsOK
  <2>6. QED
    BY <2>3, <2>4, <2>5
<1>3. QED
  BY <1>1, <1>2

\* What hands out nothing and brings no replay further.
LEMMA NoEvents ==
  ASSUME SInv, STypes', UNCHANGED <<events, checkpoint>>,
         \A f \in Flows : flow'[f] = flow[f] \/ flow'[f].pc # "replay" \/ Covers(flow'[f])
  PROVE  SInv'
BY DEF SInv, SeenIsHandedOut, ReplaysCover, NothingSkipped, Covers, HandedOut, events

-----------------------------------------------------------------------------
LEMMA FeedInit == ConstantsOK /\ Init => SInv
<1> SUFFICES ASSUME ConstantsOK, Init PROVE SInv
  OBVIOUS
<1>1. FlowTypes /\ \A f \in Flows : flow[f].pc # "replay"
  <2> DEFINE new == [IdleFlow EXCEPT !.pc = "new"]
             idle == [IdleFlow EXCEPT !.pc = "idle"]
  <2>1. new \in FlowType /\ new.pc = "new" /\ idle \in FlowType /\ idle.pc = "idle"
    BY FlowRecords
  <2>2. flow = [f \in Flows |-> IF f = "start" THEN new ELSE idle]
    BY DEF Init
  <2> HIDE DEF new, idle
  <2>3. QED
    BY <2>1, <2>2 DEF FlowTypes
<1>2. EventTypes /\ SocketTypes /\ CountTypes
  <2> /\ head = 0 /\ checkpoint = 0 /\ faults = 0 /\ seen = << >> /\ observing = {} /\ observed = {}
      /\ failed = {} /\ since = [b \in Blocks |-> DedupeWindow] /\ early = FALSE /\ sock = [s \in Sockets |-> Deaf] /\ socket = NoSocket
      /\ armed = FALSE /\ stopped = FALSE /\ state = "connecting" /\ gaveUp = FALSE
    BY Zenon DEF Init
  <2> early \in BOOLEAN /\ armed \in BOOLEAN /\ stopped \in BOOLEAN /\ gaveUp \in BOOLEAN
    BY Zenon
  <2>1. EventTypes
    <3>1. seen \in Seq(Blocks) /\ Len(seen) <= DedupeWindow
      BY DEF ConstantsOK
    <3>2. observing \subseteq Blocks /\ observed \subseteq Blocks /\ failed \subseteq Blocks
      BY Zenon
    <3>3. since \in [Blocks -> 0..DedupeWindow]
      BY DEF ConstantsOK
    <3>4. QED
      BY <3>1, <3>2, <3>3, Zenon DEF EventTypes
  <2>2. SocketTypes
    <3>1. sock \in [Sockets -> 0..MaxHead + 1]
      BY DEF ConstantsOK, Deaf
    <3>2. QED
      BY <3>1, Zenon DEF SocketTypes
  <2>3. CountTypes
    BY DEF CountTypes, ConstantsOK
  <2>4. QED
    BY <2>1, <2>2, <2>3
<1>3. SeenIsHandedOut /\ NothingSkipped
  BY DEF Init, SeenIsHandedOut, NothingSkipped
<1>4. QED
  BY <1>1, <1>2, <1>3 DEF SInv, STypes, ReplaysCover, Covers

\* One more event: it is handed out now or was before, and nothing else becomes of the others.
LEMMA AdmitStep ==
  ASSUME ConstantsOK, STypes, SeenIsHandedOut, NEW b \in Blocks, Admit(b)
  PROVE  EventTypes' /\ SeenIsHandedOut' /\ HandedOut \subseteq HandedOut' /\ b \in HandedOut'
<1>1. CASE b \in ToSet(seen)
  <2>1. UNCHANGED events /\ b \in HandedOut
    BY <1>1 DEF Admit, SeenIsHandedOut, ToSet
  <2>2. QED
    BY <2>1 DEF events, STypes, EventTypes, SeenIsHandedOut, HandedOut
<1>2. CASE b \notin ToSet(seen)
  <2>1. /\ seen' = IF Len(seen) = DedupeWindow THEN Append(Tail(seen), b) ELSE Append(seen, b)
        /\ observing' = observing \cup {b} /\ UNCHANGED <<observed, failed>>
        /\ since' \in [Blocks -> 0..DedupeWindow] /\ early' \in BOOLEAN
    <3>1. \A c \in Blocks : since[c] \in 0..DedupeWindow /\ {since[c] + 1, DedupeWindow} \in SUBSET Nat
      BY DEF STypes, EventTypes, ConstantsOK
    <3>2. \A c \in Blocks : Least({since[c] + 1, DedupeWindow}) \in {since[c] + 1, DedupeWindow}
                           /\ Least({since[c] + 1, DedupeWindow}) \in 0..DedupeWindow
      BY <3>1, LeastOfTwo DEF ConstantsOK
    <3>3. /\ since' = [c \in Blocks |-> IF c = b THEN 0 ELSE Least({since[c] + 1, DedupeWindow})]
          /\ early' = (early \/ since[b] < DedupeWindow)
      BY <1>2 DEF Admit
    <3>4. since' \in [Blocks -> 0..DedupeWindow] /\ early' \in BOOLEAN
      BY <3>2, <3>3 DEF ConstantsOK
    <3>5. QED
      BY <1>2, <3>4 DEF Admit
  <2>2. HandedOut \subseteq HandedOut' /\ b \in HandedOut'
    BY <2>1 DEF HandedOut
  <2>3. seen \in Seq(Blocks) /\ Len(seen) \in Nat /\ Len(seen) <= DedupeWindow
    BY DEF STypes, EventTypes
  <2>4. CASE Len(seen) = DedupeWindow
    <3> DEFINE t == Tail(seen)
    <3>1. t \in Seq(Blocks) /\ Len(t) = Len(seen) - 1 /\ \A i \in 1..Len(seen) - 1 : t[i] = seen[i + 1]
      <4>1. Len(seen) > 0 /\ seen # << >>
        BY <2>3, <2>4 DEF ConstantsOK
      <4>2. QED
        BY <2>3, <4>1
    <3>2. seen' = Append(t, b)
      BY <2>1, <2>4
    <3> HIDE DEF t
    <3>3. seen' \in Seq(Blocks) /\ Len(seen') = Len(seen) /\ seen'[Len(seen)] = b
          /\ \A i \in 1..Len(seen) - 1 : seen'[i] = seen[i + 1]
      BY <2>3, <3>1, <3>2
    <3>4. SeenIsHandedOut'
      <4> SUFFICES ASSUME NEW i \in DOMAIN seen' PROVE seen'[i] \in HandedOut'
        BY DEF SeenIsHandedOut
      <4>1. i \in 1..Len(seen) - 1 \/ i = Len(seen)
        BY <2>3, <3>3
      <4>2. i \in 1..Len(seen) - 1 => i + 1 \in DOMAIN seen
        BY <2>3
      <4>3. QED
        BY <2>2, <3>3, <4>1, <4>2 DEF SeenIsHandedOut
    <3>5. QED
      BY <2>1, <2>2, <2>3, <3>3, <3>4 DEF STypes, EventTypes
  <2>5. CASE Len(seen) # DedupeWindow
    <3>1. seen' = Append(seen, b)
      BY <2>1, <2>5
    <3>2. seen' \in Seq(Blocks) /\ Len(seen') = Len(seen) + 1 /\ seen'[Len(seen) + 1] = b
          /\ \A i \in 1..Len(seen) : seen'[i] = seen[i]
      BY <2>3, <3>1
    <3>3. SeenIsHandedOut'
      <4> SUFFICES ASSUME NEW i \in DOMAIN seen' PROVE seen'[i] \in HandedOut'
        BY DEF SeenIsHandedOut
      <4>1. i \in 1..Len(seen) \/ i = Len(seen) + 1
        BY <2>3, <3>2
      <4>2. i \in 1..Len(seen) => i \in DOMAIN seen
        BY <2>3
      <4>3. QED
        BY <2>2, <3>2, <4>1, <4>2 DEF SeenIsHandedOut
    <3>4. Len(seen') <= DedupeWindow
      BY <2>3, <2>5, <3>2 DEF ConstantsOK
    <3>5. QED
      BY <2>1, <2>2, <3>2, <3>3, <3>4 DEF STypes, EventTypes
  <2>6. QED
    BY <2>4, <2>5
<1>3. QED
  BY <1>1, <1>2

\* What is handed out stays handed out, so what was covered stays covered.
LEMMA MoreEvents ==
  ASSUME SInv, STypes', SeenIsHandedOut', HandedOut \subseteq HandedOut', checkpoint' = checkpoint,
         \A f \in Flows : flow'[f] = flow[f] \/ Covers(flow[f])'
  PROVE  SInv'
<1>1. \A f \in Flows : Covers(flow[f])'
  BY DEF SInv, ReplaysCover, Covers
<1>2. NothingSkipped'
  BY DEF SInv, NothingSkipped, HandedOut
<1>3. QED
  BY <1>1, <1>2 DEF SInv, ReplaysCover

LEMMA ObserveKeeps ==
  ASSUME ConstantsOK, SInv, NEW b \in Blocks, Observe(b)
  PROVE  SInv'
<1>1. /\ observing' = observing \ {b} /\ observing' \cup observed' \cup failed' = HandedOut /\ seen' = seen
      /\ EventTypes' /\ faults' \in 0..MaxFaults
      /\ UNCHANGED <<head, checkpoint, since, early, sock, socket, flow, armed, status>>
  BY DEF Observe, HandedOut, SInv, STypes, EventTypes, CountTypes, ConstantsOK
<1>2. STypes'
  BY <1>1 DEF SInv, STypes, SocketTypes, FlowTypes, CountTypes, status
<1>3. HandedOut' = HandedOut
  BY <1>1 DEF HandedOut
<1>4. SeenIsHandedOut'
  BY <1>1, <1>3 DEF SInv, SeenIsHandedOut
<1>5. QED
  BY <1>1, <1>2, <1>3, <1>4, MoreEvents

LEMMA FrameKeeps ==
  ASSUME ConstantsOK, SInv, NEW s \in Sockets, Frame(s)
  PROVE  SInv'
<1>1. sock[s] \in Blocks /\ sock[s] <= MaxHead
  BY DEF Frame, SInv, STypes, SocketTypes, CountTypes, Deaf, Blocks, ConstantsOK
<1>2. Admit(sock[s]) /\ UNCHANGED <<head, checkpoint, socket, flow, status, faults>>
      /\ sock' = [sock EXCEPT ![s] = sock[s] + 1] /\ armed' = TRUE
  BY DEF Frame
<1>3. EventTypes' /\ SeenIsHandedOut' /\ HandedOut \subseteq HandedOut'
  BY <1>1, <1>2, AdmitStep DEF SInv
<1>4. sock[s] + 1 \in 0..MaxHead + 1
  BY <1>1 DEF ConstantsOK, Blocks
<1>5. STypes'
  BY <1>2, <1>3, <1>4 DEF SInv, STypes, SocketTypes, FlowTypes, CountTypes, status
<1>6. QED
  BY <1>2, <1>3, <1>5, MoreEvents

LEMMA OutsideKeeps ==
  ASSUME ConstantsOK, SInv, Start \/ Stall \/ Stop \/ Mine \/ (\E s \in Sockets : Drop(s) \/ FallSilent(s))
  PROVE  SInv'
<1>1. STypes /\ \A s \in Sockets : Closing(sock, s) \in [Sockets -> 0..MaxHead + 1]
  BY DEF SInv, STypes, SocketTypes, Closing, Deaf, ConstantsOK
<1>2. CASE Start
  <2>1. PICK r \in Begun : flow' = [flow EXCEPT !["start"] = r]
    BY <1>2 DEF Start, Begin
  <2>2. r \in FlowType /\ r.pc = "try" /\ "start" \in Flows
    BY BegunFlows DEF Flows
  <2>3. FlowTypes' /\ \A g \in Flows : flow'[g] = flow[g] \/ flow'[g].pc # "replay"
    BY <1>1, <2>1, <2>2 DEF STypes, FlowTypes
  <2>4. STypes' /\ UNCHANGED <<events, checkpoint>>
    BY <1>1, <1>2, <2>3 DEF Start, STypes, EventTypes, SocketTypes, CountTypes, events
  <2>5. QED
    BY <2>3, <2>4, NoEvents
<1>3. CASE Stall
  <2>1. Reconnect(sock) /\ sock \in [Sockets -> 0..MaxHead + 1] /\ armed' = FALSE
        /\ UNCHANGED <<head, checkpoint, events, stopped, gaveUp, faults>>
    BY <1>1, <1>3 DEF Stall, STypes, SocketTypes
  <2>2. /\ sock' \in [Sockets -> 0..MaxHead + 1] /\ socket' \in Sockets \cup {NoSocket}
        /\ state' \in {"connecting", "live", "degraded_polling", "stopped"}
        /\ FlowTypes' /\ \A g \in Flows : flow'[g] = flow[g] \/ flow'[g].pc = "try"
    BY <1>1, <2>1, ReconnectStep
  <2>3. STypes'
    BY <1>1, <2>1, <2>2 DEF STypes, EventTypes, SocketTypes, CountTypes, events
  <2>4. QED
    BY <2>1, <2>2, <2>3, NoEvents
<1>4. CASE Stop
  <2>1. STypes' /\ UNCHANGED <<events, checkpoint, flow>>
    <3>1. sock' \in [Sockets -> 0..MaxHead + 1]
      BY <1>4 DEF SInv, STypes, SocketTypes, Stop, Closing, Deaf, ConstantsOK
    <3>2. QED
      BY <1>1, <1>4, <3>1 DEF Stop, STypes, EventTypes, SocketTypes, FlowTypes, CountTypes, events, NoSocket
  <2>2. QED
    BY <2>1, NoEvents
<1>5. CASE Mine
  <2>1. head' \in 0..MaxHead /\ UNCHANGED <<checkpoint, events, sock, socket, flow, armed, status, faults>>
    BY <1>1, <1>5 DEF Mine, STypes, CountTypes, ConstantsOK
  <2>2. STypes'
    BY <1>1, <2>1 DEF STypes, EventTypes, SocketTypes, FlowTypes, CountTypes, events, status
  <2>3. QED
    BY <2>1, <2>2, NoEvents
<1>6. ASSUME NEW s \in Sockets, Drop(s) PROVE SInv'
  <2>1. /\ Reconnect(Closing(sock, s)) /\ armed' \in BOOLEAN
        /\ UNCHANGED <<head, checkpoint, events, stopped, gaveUp, faults>>
    BY <1>1, <1>6 DEF Drop, STypes, SocketTypes
  <2>2. /\ sock' \in [Sockets -> 0..MaxHead + 1] /\ socket' \in Sockets \cup {NoSocket}
        /\ state' \in {"connecting", "live", "degraded_polling", "stopped"}
        /\ FlowTypes' /\ \A g \in Flows : flow'[g] = flow[g] \/ flow'[g].pc = "try"
    BY <1>1, <2>1, ReconnectStep
  <2>3. STypes'
    BY <1>1, <2>1, <2>2 DEF STypes, EventTypes, SocketTypes, CountTypes, events
  <2>4. QED
    BY <2>1, <2>2, <2>3, NoEvents
<1>7. ASSUME NEW s \in Sockets, FallSilent(s) PROVE SInv'
  <2>1. sock' \in [Sockets -> 0..MaxHead + 1]
        /\ UNCHANGED <<head, checkpoint, events, socket, flow, armed, status, faults>>
    BY <1>1, <1>7 DEF FallSilent
  <2>2. STypes'
    BY <1>1, <2>1 DEF STypes, EventTypes, SocketTypes, FlowTypes, CountTypes, events, status
  <2>3. QED
    BY <2>1, <2>2, NoEvents
<1>8. QED
  BY <1>2, <1>3, <1>4, <1>5, <1>6, <1>7

\* A flow that fails, of whatever step, hands out nothing.
LEMMA FailureKeeps ==
  ASSUME ConstantsOK, SInv, NEW f \in Flows, AttemptFails(f), faults' \in 0..MaxFaults,
         UNCHANGED <<head, checkpoint, events, sock, socket, armed, stopped>>
  PROVE  SInv'
<1>1. /\ FlowTypes' /\ flow'[f].pc # "replay" /\ \A g \in Flows : g # f => flow'[g] = flow[g]
      /\ state' \in {"connecting", "live", "degraded_polling", "stopped"} /\ gaveUp' \in BOOLEAN
  BY AttemptFailsStep DEF SInv
<1>2. STypes'
  BY <1>1 DEF SInv, STypes, EventTypes, SocketTypes, CountTypes, events
<1>3. QED
  BY <1>1, <1>2, NoEvents

LEMMA ConnectingKeeps ==
  ASSUME ConstantsOK, SInv, NEW f \in Flows,
         Try(f) \/ ConnectFails(f) \/ Connects(f) \/ Backfill(f) \/ Replayed(f) \/ BackfillFails(f)
  PROVE  SInv'
<1>1. STypes /\ flow[f] \in FlowType
  BY DEF SInv, STypes, FlowTypes
<1>2. CASE Try(f)
  <2>1. PICK r \in FlowType : r.pc # "replay" /\ Proceed(f, r)
    <3>1. CASE stopped
      BY <1>2, <3>1, FlowRecords DEF Try
    <3>2. CASE ~stopped
      BY <1>1, <1>2, <3>2 DEF Try, FlowType
    <3>3. QED
      BY <3>1, <3>2
  <2>2. UNCHANGED <<head, checkpoint, events, sock, socket, armed, status, faults>>
    BY <1>2 DEF Try
  <2>3. FlowTypes' /\ flow'[f] = r /\ \A g \in Flows : g # f => flow'[g] = flow[g]
    BY <1>1, <2>1, ProceedStep
  <2>4. STypes'
    BY <1>1, <2>2, <2>3 DEF STypes, EventTypes, SocketTypes, CountTypes, events, status
  <2>5. QED
    BY <2>1, <2>2, <2>3, <2>4, NoEvents
<1>3. CASE ConnectFails(f)
  BY <1>1, <1>3, FailureKeeps DEF ConnectFails, STypes, CountTypes, ConstantsOK
<1>4. CASE BackfillFails(f)
  BY <1>1, <1>4, FailureKeeps DEF BackfillFails, STypes, CountTypes, ConstantsOK
<1>5. CASE Connects(f)
  <2> DEFINE free == {s \in Sockets : sock[s] = Deaf}
             r == [flow[f] EXCEPT !.pc = "load"]
  <2>1. Least(free) \in Sockets
    BY <1>5, LeastOfNaturals DEF Connects, ConstantsOK
  <2>2. r \in FlowType /\ r.pc = "load"
    BY <1>1 DEF FlowType
  <2>3. /\ sock' = [sock EXCEPT ![Least(free)] = head + 1] /\ socket' = Least(free) /\ Proceed(f, r)
        /\ UNCHANGED <<head, checkpoint, events, armed, status, faults>>
    BY <1>5 DEF Connects
  <2> HIDE DEF free, r
  <2>4. FlowTypes' /\ flow'[f] = r /\ \A g \in Flows : g # f => flow'[g] = flow[g]
    BY <1>1, <2>2, <2>3, ProceedStep
  <2>5. head + 1 \in 0..MaxHead + 1
    BY <1>1 DEF STypes, CountTypes, ConstantsOK
  <2>6. STypes'
    BY <1>1, <2>1, <2>3, <2>4, <2>5 DEF STypes, EventTypes, SocketTypes, CountTypes, events, status
  <2>7. QED
    BY <2>2, <2>3, <2>4, <2>6, NoEvents
<1>6. CASE Backfill(f)
  <2> DEFINE todo == {b \in Blocks : checkpoint <= b /\ b <= head}
             r == [flow[f] EXCEPT !.pc = "replay", !.todo = todo, !.to = head]
  <2>1. todo \in SUBSET Blocks /\ head \in 0..MaxHead /\ checkpoint \in 0..MaxHead
    BY <1>1 DEF STypes, CountTypes
  <2>2. r \in FlowType /\ r.pc = "replay" /\ r.todo = todo /\ r.to = head
    <3> HIDE DEF todo
    <3> DEFINE p == [flow[f] EXCEPT !.pc = "replay"]
               q == [p EXCEPT !.todo = todo]
    <3>1. p \in FlowType /\ p.pc = "replay"
      BY <1>1 DEF FlowType
    <3>2. r = [q EXCEPT !.to = head]
      OBVIOUS
    <3> HIDE DEF p, r
    <3>3. q \in FlowType /\ q.pc = "replay" /\ q.todo = todo
      BY <2>1, <3>1 DEF FlowType
    <3> HIDE DEF q
    <3>4. QED
      BY <2>1, <3>2, <3>3 DEF FlowType
  <2>3. Proceed(f, r) /\ UNCHANGED <<head, checkpoint, events, sock, socket, armed, status, faults>>
    BY <1>6 DEF Backfill
  <2> HIDE DEF r
  <2>4. FlowTypes' /\ flow'[f] = r /\ \A g \in Flows : g # f => flow'[g] = flow[g]
    BY <1>1, <2>2, <2>3, ProceedStep
  <2>5. STypes'
    BY <1>1, <2>3, <2>4 DEF STypes, EventTypes, SocketTypes, CountTypes, events, status
  <2>6. \A b \in 1..r.to : b \in HandedOut \/ b \in todo
    <3> SUFFICES ASSUME NEW b \in 1..head, b \notin todo PROVE b \in HandedOut
      BY <2>2
    <3>1. b \in 1..checkpoint
      BY <2>1 DEF ConstantsOK, Blocks
    <3>2. QED
      BY <3>1 DEF SInv, NothingSkipped, HandedOut
  <2>7. Covers(flow'[f])
    BY <2>2, <2>4, <2>6 DEF Covers
  <2>8. QED
    BY <2>3, <2>4, <2>5, <2>7, NoEvents
<1>7. CASE Replayed(f)
  <2>1. CASE flow[f].now \in failed
    <3>1. AttemptFails(f) /\ UNCHANGED <<head, checkpoint, events, sock, socket, armed, stopped, faults>>
      BY <1>7, <2>1 DEF Replayed
    <3>2. QED
      BY <1>1, <3>1, FailureKeeps DEF STypes, CountTypes
  <2>2. CASE flow[f].now \notin failed
    <3> DEFINE r == [flow[f] EXCEPT !.now = NoEvent]
    <3>1. r \in FlowType /\ r.pc = flow[f].pc /\ r.todo = flow[f].todo /\ r.to = flow[f].to
      BY <1>1 DEF FlowType
    <3>2. Proceed(f, r) /\ UNCHANGED <<state, gaveUp>>
          /\ UNCHANGED <<head, checkpoint, events, sock, socket, armed, stopped, faults>>
      BY <1>7, <2>2 DEF Replayed
    <3> HIDE DEF r
    <3>3. FlowTypes' /\ flow'[f] = r /\ \A g \in Flows : g # f => flow'[g] = flow[g]
      BY <1>1, <3>1, <3>2, ProceedStep
    <3>4. STypes'
      BY <1>1, <3>2, <3>3 DEF STypes, EventTypes, SocketTypes, CountTypes, events
    <3>5. Covers(flow'[f])
      BY <3>1, <3>3 DEF SInv, ReplaysCover, Covers
    <3>6. QED
      BY <3>2, <3>3, <3>4, <3>5, NoEvents
  <2>3. QED
    BY <2>1, <2>2
<1>8. QED
  BY <1>2, <1>3, <1>4, <1>5, <1>6, <1>7

\* The replay hands out the block it takes off its list.
LEMMA ReplayKeeps ==
  ASSUME ConstantsOK, SInv, NEW f \in Flows, Replay(f)
  PROVE  SInv'
<1> DEFINE b == Least(flow[f].todo)
           now == IF b \in ToSet(seen) THEN NoEvent ELSE b
           r == [flow[f] EXCEPT !.todo = flow[f].todo \ {b}, !.now = now]
<1>1. STypes /\ flow[f] \in FlowType /\ flow[f].todo \subseteq Blocks
  BY DEF SInv, STypes, FlowTypes, FlowType
<1>2. b \in flow[f].todo /\ b \in Blocks
  BY <1>1, LeastOfNaturals DEF Replay, Blocks
<1>3. Admit(b) /\ Proceed(f, r) /\ UNCHANGED <<head, checkpoint, sock, socket, armed, status, faults>>
  BY DEF Replay
<1>4. now \in Blocks \cup {NoEvent} /\ flow[f].todo \ {b} \in SUBSET Blocks
  BY <1>1, <1>2
<1> HIDE DEF b, now
<1>5. r \in FlowType /\ r.pc = flow[f].pc /\ r.todo = flow[f].todo \ {b} /\ r.to = flow[f].to
  <2> DEFINE q == [flow[f] EXCEPT !.todo = flow[f].todo \ {b}]
  <2>1. q \in FlowType /\ q.pc = flow[f].pc /\ q.todo = flow[f].todo \ {b} /\ q.to = flow[f].to
    BY <1>1, <1>4 DEF FlowType
  <2>2. r = [q EXCEPT !.now = now]
    OBVIOUS
  <2> HIDE DEF q, r
  <2>3. QED
    BY <1>4, <2>1, <2>2 DEF FlowType
<1> HIDE DEF r
<1>6. FlowTypes' /\ flow'[f] = r /\ \A g \in Flows : g # f => flow'[g] = flow[g]
  BY <1>1, <1>3, <1>5, ProceedStep
<1>7. EventTypes' /\ SeenIsHandedOut' /\ HandedOut \subseteq HandedOut' /\ b \in HandedOut'
  BY <1>1, <1>2, <1>3, AdmitStep DEF SInv
<1>8. STypes'
  BY <1>1, <1>3, <1>6, <1>7 DEF STypes, SocketTypes, CountTypes, status
<1>9. Covers(flow[f])'
  BY <1>5, <1>6, <1>7 DEF SInv, ReplaysCover, Covers
<1>10. QED
  BY <1>3, <1>6, <1>7, <1>8, <1>9, MoreEvents

\* The checkpoint is saved when nothing of what the replay covers is left.
LEMMA SaveKeeps ==
  ASSUME ConstantsOK, SInv, NEW f \in Flows, Save(f)
  PROVE  SInv'
<1>1. STypes /\ flow[f] \in FlowType /\ IdleFlow \in FlowType /\ IdleFlow.pc = "idle"
  BY FlowRecords DEF SInv, STypes, FlowTypes
<1>2. /\ flow[f].pc = "replay" /\ flow[f].todo = {} /\ checkpoint' = flow[f].to /\ state' = "live"
      /\ armed' = TRUE /\ Proceed(f, IdleFlow)
      /\ UNCHANGED <<head, events, sock, socket, stopped, gaveUp, faults>>
  BY DEF Save, Covered
<1>3. FlowTypes' /\ flow'[f] = IdleFlow /\ \A g \in Flows : g # f => flow'[g] = flow[g]
  BY <1>1, <1>2, ProceedStep
<1>4. checkpoint' \in 0..MaxHead
  BY <1>1, <1>2 DEF FlowType
<1>5. STypes'
  BY <1>1, <1>2, <1>3, <1>4 DEF STypes, EventTypes, SocketTypes, CountTypes, events
<1>6. SeenIsHandedOut' /\ HandedOut' = HandedOut
  BY <1>2 DEF SInv, SeenIsHandedOut, HandedOut, events
<1>7. NothingSkipped'
  BY <1>2, <1>6 DEF SInv, ReplaysCover, Covers, NothingSkipped, HandedOut
<1>8. ReplaysCover'
  BY <1>1, <1>3, <1>6 DEF SInv, ReplaysCover, Covers
<1>9. QED
  BY <1>5, <1>6, <1>7, <1>8 DEF SInv

LEMMA FeedStep == ASSUME ConstantsOK, SInv, Next PROVE SInv'
BY ObserveKeeps, FrameKeeps, OutsideKeeps, ConnectingKeeps, ReplayKeeps, SaveKeeps DEF Next, Continue

-----------------------------------------------------------------------------
(* An event is handed out again only after as many others were as the deduplicator holds.  What *)
(* was admitted since b was stands behind it in its list.                                      *)

Remembers ==
  \A b \in Blocks :
    since[b] < DedupeWindow => since[b] < Len(seen) /\ seen[Len(seen) - since[b]] = b

NothingForgotten == Remembers /\ NothingRepeatedEarly

LEMMA AdmitForgetsNothing ==
  ASSUME ConstantsOK, STypes, NothingForgotten, NEW b \in Blocks, Admit(b)
  PROVE  NothingForgotten'
<1>1. CASE b \in ToSet(seen)
  BY <1>1 DEF Admit, events, NothingForgotten, Remembers, NothingRepeatedEarly
<1>2. CASE b \notin ToSet(seen)
  <2>1. /\ seen' = IF Len(seen) = DedupeWindow THEN Append(Tail(seen), b) ELSE Append(seen, b)
        /\ since' = [c \in Blocks |-> IF c = b THEN 0 ELSE Least({since[c] + 1, DedupeWindow})]
        /\ early' = (early \/ since[b] < DedupeWindow)
    BY <1>2 DEF Admit
  <2>2. /\ seen \in Seq(Blocks) /\ Len(seen) \in Nat /\ Len(seen) <= DedupeWindow
        /\ DedupeWindow \in Nat \ {0} /\ \A c \in Blocks : since[c] \in 0..DedupeWindow
    BY DEF STypes, EventTypes, ConstantsOK
  <2>3. ~early'
    <3>1. since[b] < DedupeWindow => FALSE
      <4> SUFFICES ASSUME since[b] < DedupeWindow PROVE FALSE
        OBVIOUS
      <4>1. since[b] < Len(seen) /\ seen[Len(seen) - since[b]] = b
        BY DEF NothingForgotten, Remembers
      <4>2. Len(seen) - since[b] \in DOMAIN seen
        BY <2>2, <4>1
      <4>3. QED
        BY <1>2, <4>1, <4>2 DEF ToSet
    <3>2. QED
      BY <2>1, <3>1 DEF NothingForgotten, NothingRepeatedEarly
  <2>4. \A c \in Blocks : c # b /\ since'[c] < DedupeWindow => since'[c] = since[c] + 1
    <3> SUFFICES ASSUME NEW c \in Blocks, c # b, since'[c] < DedupeWindow PROVE since'[c] = since[c] + 1
      OBVIOUS
    <3>1. since'[c] = Least({since[c] + 1, DedupeWindow})
      BY <2>1
    <3>2. Least({since[c] + 1, DedupeWindow}) = IF since[c] + 1 <= DedupeWindow THEN since[c] + 1 ELSE DedupeWindow
      BY <2>2, LeastOfTwo
    <3>3. QED
      BY <2>2, <3>1, <3>2
  <2>5. /\ Len(seen') \in Nat \ {0} /\ Len(seen') <= DedupeWindow /\ seen'[Len(seen')] = b
        /\ \A n \in Nat : n < Len(seen) /\ n + 1 < DedupeWindow =>
             n + 1 < Len(seen') /\ seen'[Len(seen') - (n + 1)] = seen[Len(seen) - n]
    <3>1. CASE Len(seen) = DedupeWindow
      <4> DEFINE t == Tail(seen)
      <4>1. t \in Seq(Blocks) /\ Len(t) = Len(seen) - 1 /\ \A i \in 1..Len(seen) - 1 : t[i] = seen[i + 1]
        <5>1. seen # << >>
          BY <2>2, <3>1
        <5>2. QED
          BY <2>2, <5>1
      <4>2. seen' = Append(t, b)
        BY <2>1, <3>1
      <4> HIDE DEF t
      <4>3. Len(seen') = Len(seen) /\ seen'[Len(seen)] = b /\ \A i \in 1..Len(seen) - 1 : seen'[i] = seen[i + 1]
        BY <2>2, <4>1, <4>2
      <4>4. QED
        BY <2>2, <3>1, <4>3
    <3>2. CASE Len(seen) # DedupeWindow
      <4>1. Len(seen') = Len(seen) + 1 /\ seen'[Len(seen) + 1] = b /\ \A i \in 1..Len(seen) : seen'[i] = seen[i]
        BY <2>1, <2>2, <3>2
      <4>2. QED
        BY <2>2, <3>2, <4>1
    <3>3. QED
      BY <3>1, <3>2
  <2>6. ASSUME NEW c \in Blocks, since'[c] < DedupeWindow
        PROVE  since'[c] < Len(seen') /\ seen'[Len(seen') - since'[c]] = c
    <3>1. CASE c = b
      BY <2>1, <2>5, <3>1
    <3>2. CASE c # b
      <4>1. since'[c] = since[c] + 1 /\ since[c] \in Nat /\ since[c] < DedupeWindow
        BY <2>2, <2>4, <2>6, <3>2
      <4>2. since[c] < Len(seen) /\ seen[Len(seen) - since[c]] = c
        BY <4>1 DEF NothingForgotten, Remembers
      <4>3. QED
        BY <2>5, <2>6, <4>1, <4>2
    <3>3. QED
      BY <3>1, <3>2
  <2>7. QED
    BY <2>3, <2>6 DEF NothingForgotten, Remembers, NothingRepeatedEarly
<1>3. QED
  BY <1>1, <1>2

LEMMA ForgetsNothingStep ==
  ASSUME ConstantsOK, SInv, NothingForgotten, Next
  PROVE  NothingForgotten'
<1>1. STypes
  BY DEF SInv
<1>2. CASE UNCHANGED events
  BY <1>2 DEF events, NothingForgotten, Remembers, NothingRepeatedEarly
<1>3. ASSUME NEW b \in Blocks, Observe(b) PROVE NothingForgotten'
  BY <1>3 DEF Observe, NothingForgotten, Remembers, NothingRepeatedEarly
<1>4. ASSUME NEW s \in Sockets, Frame(s) PROVE NothingForgotten'
  <2>1. Admit(sock[s]) /\ sock[s] \in Blocks
    BY <1>1, <1>4 DEF Frame, STypes, SocketTypes, CountTypes, Deaf, Blocks, ConstantsOK
  <2>2. QED
    BY <1>1, <2>1, AdmitForgetsNothing
<1>5. ASSUME NEW f \in Flows, Replay(f) PROVE NothingForgotten'
  <2>1. flow[f].todo \subseteq Blocks
    BY <1>1 DEF STypes, FlowTypes, FlowType
  <2>2. Admit(Least(flow[f].todo)) /\ Least(flow[f].todo) \in Blocks
    BY <1>5, <2>1, LeastOfNaturals DEF Replay, Blocks
  <2>3. QED
    BY <1>1, <2>2, AdmitForgetsNothing
<1>6. ASSUME Start \/ Stall \/ Stop \/ Mine \/ (\E s \in Sockets : Drop(s) \/ FallSilent(s))
             \/ (\E f \in Flows : Try(f) \/ ConnectFails(f) \/ Connects(f) \/ Backfill(f) \/ Replayed(f)
                                   \/ Save(f) \/ BackfillFails(f))
      PROVE  UNCHANGED events
  BY <1>6 DEF Start, Stall, Stop, Mine, Drop, FallSilent, Try, ConnectFails, Connects, Backfill, Replayed, Save,
              BackfillFails
<1>7. QED
  BY <1>2, <1>3, <1>4, <1>5, <1>6 DEF Next, Continue

\* What the run checks follows.
LEMMA FeedProperties ==
  ASSUME ConstantsOK, SInv
  PROVE  TypeOK
<1>1. seen \in BoundedSeq(Blocks, DedupeWindow)
  <2>1. seen \in [1..Len(seen) -> Blocks] /\ Len(seen) \in 0..DedupeWindow
    BY DEF SInv, STypes, EventTypes, ConstantsOK
  <2>2. QED
    BY <2>1 DEF BoundedSeq, SeqOf
<1>2. QED
  BY <1>1 DEF SInv, STypes, EventTypes, SocketTypes, FlowTypes, FlowType, CountTypes, TypeOK

-----------------------------------------------------------------------------
(* The gateway.  What happens to a connection depends on its own subscriptions, its own frames *)
(* and its own handlers, so the invariant is one of each connection.                           *)

\* A frame of c has begun, and the one that has added its handler.
Working(c)     == Len(queue[c]) > 0 /\ queue[c][1].pc # "waiting"
Adding(c, key) == Len(queue[c]) > 0 /\ queue[c][1].pc = "added" /\ queue[c][1].key = key

Served(c, key) == <<c, key>> \in handlers

\* Frames are worked off one after the other; the one at work wants what c does not have yet and
\* may still get; so dropping c takes every handler but the one that frame will take care of.
Orderly(c) ==
  /\ \A i \in DOMAIN queue[c] : i # 1 => queue[c][i].pc = "waiting"
  /\ Working(c) /\ ~G!Closed(c) =>
       queue[c][1].key \notin conn[c].subs /\ Cardinality(conn[c].subs) < MaxSubscriptions
  /\ G!Closed(c) => conn[c].subs = {}
  /\ conn[c].is = "none" => Len(queue[c]) = 0
  /\ ~bus.closed => \A key \in Channels : key \in conn[c].subs \/ Adding(c, key) => Served(c, key)
  /\ \A key \in Channels : Served(c, key) => (~G!Closed(c) /\ key \in conn[c].subs) \/ Adding(c, key)
  /\ IsFiniteSet(conn[c].subs) /\ Cardinality(conn[c].subs) <= MaxSubscriptions

ConnType == [is: {"none", "open", "gone", "closing", "closed"}, alive: BOOLEAN, subs: SUBSET Channels]
BusType == [started: BOOLEAN, opening: BOOLEAN, listener: {"none", "up", "dead"}, timer: BOOLEAN,
            closed: BOOLEAN]

GTypes ==
  /\ conn \in [Connections -> ConnType]
  /\ queue \in [Connections -> Seq(G!Frames)] /\ \A c \in Connections : Len(queue[c]) <= MaxPending
  /\ handlers \subseteq Connections \X Channels
  /\ bus \in BusType
  /\ losses \in 0..MaxLosses

GInv == GTypes /\ \A c \in Connections : Orderly(c)

\* RemoveAt of the first element is Tail.
LEMMA WithoutTheFirst ==
  ASSUME NEW S, NEW s \in Seq(S), Len(s) > 0
  PROVE  /\ G!RemoveAt(s, 1) \in Seq(S) /\ Len(G!RemoveAt(s, 1)) = Len(s) - 1
         /\ \A i \in 1..Len(s) - 1 : G!RemoveAt(s, 1)[i] = s[i + 1]
<1> DEFINE t == SubSeq(s, 2, Len(s))
<1>1. SubSeq(s, 1, 0) = << >>
  OBVIOUS
<1>2. t \in Seq(S) /\ Len(t) = Len(s) - 1 /\ \A i \in 1..Len(s) - 1 : t[i] = s[i + 1]
  <2>1. Len(s) \in Nat /\ \A i \in 2..Len(s) : s[i] \in S
    OBVIOUS
  <2>2. /\ t \in Seq(S) /\ Len(t) = IF 2 <= Len(s) THEN Len(s) - 2 + 1 ELSE 0
        /\ \A i \in 1..Len(s) - 2 + 1 : t[i] = s[2 + i - 1]
    BY <2>1, SubSeqProperties
  <2> HIDE DEF t
  <2>3. Len(t) = Len(s) - 1
    <3>1. Len(s) \in Nat /\ Len(s) > 0
      BY <2>1
    <3>2. \A n \in Nat : n > 0 => (IF 2 <= n THEN n - 2 + 1 ELSE 0) = n - 1
      OBVIOUS
    <3>3. QED
      BY <2>2, <3>1, <3>2, Zenon
  <2>4. \A i \in 1..Len(s) - 1 : t[i] = s[i + 1]
    <3> TAKE i \in 1..Len(s) - 1
    <3>1. i \in 1..Len(s) - 2 + 1 /\ 2 + i - 1 = i + 1
      BY <2>1
    <3>2. QED
      BY <3>1, <2>2
  <2>5. QED
    BY <2>2, <2>3, <2>4
<1>3. << >> \o t = t
  BY <1>2
<1>4. G!RemoveAt(s, 1) = t
  BY <1>1, <1>3 DEF G!RemoveAt
<1>5. QED
  BY <1>2, <1>4

\* A connection that a step does not touch stays orderly.
LEMMA Untouched ==
  ASSUME NEW c \in Connections, Orderly(c), bus'.closed = bus.closed,
         conn'[c].is = conn[c].is, conn'[c].subs = conn[c].subs, queue'[c] = queue[c],
         \A key \in Channels : Served(c, key)' <=> Served(c, key)
  PROVE  Orderly(c)'
BY DEF Orderly, Working, Adding, G!Closed

\* Realtime's Cardinality is the one the library's facts are about.
LEMMA GatewayCardinality == \A S : G!Cardinality(S) = Cardinality(S)
BY DEF G!Cardinality, Cardinality

LEMMA GatewayInit == G!ConstantsOK /\ G!Init => GInv
<1> SUFFICES ASSUME G!ConstantsOK, G!Init PROVE GInv
  OBVIOUS
<1> USE DEF G!Init, G!NoConnection
<1>1. GTypes
  BY DEF GTypes, G!ConstantsOK, ConnType, BusType
<1>2. ASSUME NEW c \in Connections PROVE Orderly(c)
  <2>1. conn[c].subs = {} /\ Len(queue[c]) = 0 /\ DOMAIN queue[c] = {}
        /\ G!Closed(c) /\ ~bus.closed /\ handlers = {}
    BY DEF G!Closed
  <2>2. IsFiniteSet({}) /\ Cardinality({}) = 0
    BY FS_EmptySet
  <2>3. ~Working(c) /\ \A key \in Channels : ~Adding(c, key) /\ ~Served(c, key)
    BY <2>1 DEF Working, Adding, Served
  <2>4. IsFiniteSet(conn[c].subs) /\ Cardinality(conn[c].subs) <= MaxSubscriptions
    <3>1. IsFiniteSet(conn[c].subs) /\ Cardinality(conn[c].subs) = 0
      BY <2>1, <2>2, Zenon
    <3>2. QED
      BY <3>1 DEF G!ConstantsOK
  <2>5. QED
    BY <2>1, <2>3, <2>4 DEF Orderly
<1>3. QED
  BY <1>1, <1>2 DEF GInv

LEMMA BusKeeps ==
  ASSUME G!ConstantsOK, GInv, G!BusStep \/ G!OpenFails \/ G!ListenerLost
  PROVE  GInv'
<1>1. UNCHANGED G!sockets /\ bus'.closed = bus.closed /\ bus' \in BusType
  <2>1. bus \in BusType
    BY DEF GInv, GTypes
  <2>2. \A b \in BusType : G!ScheduleReconnect(b) \in BusType /\ G!ScheduleReconnect(b).closed = b.closed
    BY DEF G!ScheduleReconnect, BusType
  <2>3. [[bus EXCEPT !.opening = FALSE] EXCEPT !.listener = "none"] \in BusType
    BY <2>1 DEF BusType
  <2>4. CASE G!Opened \/ G!ListenerError \/ G!ReconnectDue \/ G!ListenerLost
    BY <2>1, <2>2, <2>4 DEF G!Opened, G!ListenerError, G!ReconnectDue, G!ListenerLost, BusType
  <2>5. CASE G!OpenFails
    <3> DEFINE b == [bus EXCEPT !.opening = FALSE, !.listener = "none"]
    <3>1. b \in BusType /\ b.closed = bus.closed
      BY <2>1 DEF BusType
    <3>2. bus' = G!ScheduleReconnect(b)
      BY <2>5 DEF G!OpenFails
    <3> HIDE DEF b
    <3>3. QED
      BY <3>1, <3>2, <2>2, <2>5 DEF G!OpenFails
  <2>6. QED
    BY <2>4, <2>5 DEF G!BusStep
<1>2. losses' \in 0..MaxLosses
  BY DEF GInv, GTypes, G!BusStep, G!Opened, G!ListenerError, G!ReconnectDue, G!OpenFails, G!ListenerLost, G!ConstantsOK
<1>3. GTypes'
  BY <1>1, <1>2 DEF GInv, GTypes, G!sockets
<1>4. \A c \in Connections : Orderly(c)'
  BY <1>1, Untouched DEF GInv, G!sockets, Served
<1>5. QED
  BY <1>3, <1>4 DEF GInv

LEMMA BusCloseKeeps ==
  ASSUME GInv, G!BusClose
  PROVE  GInv'
<1>1. bus' \in BusType /\ bus'.closed /\ handlers' = {} /\ UNCHANGED <<conn, queue, losses>>
  BY DEF G!BusClose, GInv, GTypes, BusType
<1>2. GTypes'
  BY <1>1 DEF GInv, GTypes
<1>3. \A c \in Connections : Orderly(c)'
  BY <1>1 DEF GInv, Orderly, Working, Adding, G!Closed, Served
<1>4. QED
  BY <1>2, <1>3 DEF GInv

-----------------------------------------------------------------------------
(* Connections that come and go. *)

\* The records a connection is given when it is dropped and when it is made.
LEMMA FreshConnections ==
  /\ [G!NoConnection EXCEPT !.is = "closed"] \in ConnType
  /\ [G!NoConnection EXCEPT !.is = "closed"].is = "closed" /\ [G!NoConnection EXCEPT !.is = "closed"].subs = {}
  /\ [G!NoConnection EXCEPT !.is = "open", !.alive = TRUE] \in ConnType
  /\ [G!NoConnection EXCEPT !.is = "open", !.alive = TRUE].is = "open"
  /\ [G!NoConnection EXCEPT !.is = "open", !.alive = TRUE].subs = {}
<1>1. G!NoConnection \in ConnType /\ G!NoConnection.subs = {}
  BY DEF G!NoConnection, ConnType
<1>2. \A n \in ConnType : /\ [n EXCEPT !.is = "closed"] \in ConnType /\ [n EXCEPT !.is = "closed"].is = "closed"
                          /\ [n EXCEPT !.is = "closed"].subs = n.subs
  BY DEF ConnType
<1>3. \A n \in ConnType : /\ [n EXCEPT !.is = "open"] \in ConnType /\ [n EXCEPT !.is = "open"].is = "open"
                          /\ [n EXCEPT !.is = "open"].subs = n.subs
  BY DEF ConnType
<1>4. \A n \in ConnType : /\ [n EXCEPT !.alive = TRUE] \in ConnType /\ [n EXCEPT !.alive = TRUE].is = n.is
                          /\ [n EXCEPT !.alive = TRUE].subs = n.subs
  BY DEF ConnType
<1>5. /\ [[G!NoConnection EXCEPT !.is = "open"] EXCEPT !.alive = TRUE] \in ConnType
      /\ [[G!NoConnection EXCEPT !.is = "open"] EXCEPT !.alive = TRUE].is = "open"
      /\ [[G!NoConnection EXCEPT !.is = "open"] EXCEPT !.alive = TRUE].subs = {}
  <2> DEFINE n == [G!NoConnection EXCEPT !.is = "open"]
  <2>1. n \in ConnType /\ n.is = "open" /\ n.subs = {}
    BY <1>1, <1>3
  <2> HIDE DEF n
  <2>2. [n EXCEPT !.alive = TRUE] \in ConnType /\ [n EXCEPT !.alive = TRUE].is = "open"
        /\ [n EXCEPT !.alive = TRUE].subs = {}
    BY <2>1, <1>4
  <2>3. QED
    BY <2>2 DEF n
<1>6. QED
  BY <1>1, <1>2, <1>5

\* A connection that is dropped loses the handlers of its subscriptions, and no other.
LEMMA DroppedIsOrderly ==
  ASSUME G!ConstantsOK, NEW c \in Connections, Orderly(c), bus' = bus,
         conn'[c].is = "closed", conn'[c].subs = {}, queue'[c] = queue[c],
         \A key \in Channels : Served(c, key)' <=> Served(c, key) /\ key \notin conn[c].subs
  PROVE  Orderly(c)'
<1>1. IsFiniteSet({}) /\ Cardinality({}) = 0
  BY FS_EmptySet
<1>2. G!Closed(c)' /\ (Working(c)' <=> Working(c)) /\ \A key \in Channels : Adding(c, key)' <=> Adding(c, key)
  BY DEF G!Closed, Working, Adding
<1>3. \A key \in Channels : Adding(c, key) => Working(c) /\ queue[c][1].key = key
  BY DEF Adding, Working
<1>4. \A key \in Channels : Adding(c, key) => key \notin conn[c].subs
  BY <1>3 DEF Orderly
<1>5. IsFiniteSet(conn'[c].subs) /\ Cardinality(conn'[c].subs) <= MaxSubscriptions
  <2>1. IsFiniteSet(conn'[c].subs) /\ Cardinality(conn'[c].subs) = 0
    BY <1>1, Zenon
  <2>2. QED
    BY <2>1 DEF G!ConstantsOK
<1>6. QED
  BY <1>2, <1>4, <1>5 DEF Orderly

LEMMA CleanupKeeps ==
  ASSUME G!ConstantsOK, GInv, NEW c \in Connections, G!Cleanup(c), UNCHANGED <<queue, bus, losses>>
  PROVE  GInv'
<1> DEFINE none == [G!NoConnection EXCEPT !.is = "closed"]
<1>1. none \in ConnType /\ none.is = "closed" /\ none.subs = {}
  BY FreshConnections
<1>2. conn' = [conn EXCEPT ![c] = none]
  BY DEF G!Cleanup
<1> HIDE DEF none
<1>3. \A d \in Connections, key \in Channels :
        Served(d, key)' <=> Served(d, key) /\ ~(d = c /\ key \in conn[c].subs)
  BY DEF G!Cleanup, Served
<1>4. conn' \in [Connections -> ConnType] /\ conn'[c] = none /\ \A d \in Connections : d # c => conn'[d] = conn[d]
  BY <1>1, <1>2 DEF GInv, GTypes
<1>5. GTypes'
  <2>1. handlers' \subseteq Connections \X Channels
    BY DEF G!Cleanup, GInv, GTypes
  <2>2. QED
    BY <1>4, <2>1 DEF GInv, GTypes
<1>6. Orderly(c)'
  BY <1>1, <1>3, <1>4, DroppedIsOrderly DEF GInv
<1>7. ASSUME NEW d \in Connections, d # c PROVE Orderly(d)'
  BY <1>3, <1>4, <1>7, Untouched DEF GInv
<1>8. QED
  BY <1>5, <1>6, <1>7 DEF GInv

\* A connection that has lost its peer, or is being closed, keeps what it has until the close event.
LEMMA StillThere ==
  ASSUME NEW c \in Connections, Orderly(c), UNCHANGED <<queue, handlers, bus>>,
         ~G!Closed(c), ~G!Closed(c)', conn'[c].subs = conn[c].subs
  PROVE  Orderly(c)'
BY DEF Orderly, Working, Adding, Served, G!Closed

LEMMA HeartbeatKeeps ==
  ASSUME G!ConstantsOK, GInv, G!Heartbeat
  PROVE  GInv'
<1> DEFINE dropped == {c \in G!There : ~conn[c].alive \/ ~G!Connected}
           beat(c) == [conn[c] EXCEPT !.is = IF c \in dropped THEN "closing" ELSE conn[c].is, !.alive = FALSE]
<1>1. UNCHANGED <<queue, handlers, bus, losses>>
  BY DEF G!Heartbeat
<1>2. conn' = [c \in Connections |-> IF c \in G!There THEN beat(c) ELSE conn[c]]
  BY DEF G!Heartbeat
<1>3. \A c \in Connections : conn[c] \in ConnType
  BY DEF GInv, GTypes
<1>4. ASSUME NEW c \in Connections
      PROVE  beat(c) \in ConnType /\ beat(c).is \in {"closing", conn[c].is} /\ beat(c).subs = conn[c].subs
  <2> DEFINE is == IF c \in dropped THEN "closing" ELSE conn[c].is
             n == [conn[c] EXCEPT !.is = is]
  <2>1. is \in {"none", "open", "gone", "closing", "closed"} /\ is \in {"closing", conn[c].is}
    BY <1>3 DEF ConnType
  <2>2. beat(c) = [n EXCEPT !.alive = FALSE]
    OBVIOUS
  <2> HIDE DEF is, beat
  <2>3. n \in ConnType /\ n.is = is /\ n.subs = conn[c].subs
    BY <1>3, <2>1 DEF ConnType
  <2> HIDE DEF n
  <2>4. QED
    BY <2>1, <2>2, <2>3 DEF ConnType
<1> HIDE DEF beat, dropped
<1>5. GTypes'
  BY <1>1, <1>2, <1>3, <1>4 DEF GInv, GTypes
<1>6. ASSUME NEW c \in Connections PROVE Orderly(c)'
  <2>1. CASE c \in G!There
    BY <2>1, <1>1, <1>2, <1>4, StillThere DEF GInv, G!There, G!Closed
  <2>2. CASE c \notin G!There
    BY <2>2, <1>1, <1>2, Untouched DEF GInv, Served
  <2>3. QED
    BY <2>1, <2>2
<1>7. QED
  BY <1>5, <1>6 DEF GInv

LEMMA ConnectKeeps ==
  ASSUME G!ConstantsOK, GInv, NEW c \in Connections, G!Connect(c)
  PROVE  GInv'
<1> DEFINE one == [G!NoConnection EXCEPT !.is = "open", !.alive = TRUE]
<1>1. one \in ConnType /\ one.is = "open" /\ one.subs = {}
  BY FreshConnections
<1>2. conn' = [conn EXCEPT ![c] = one]
  BY DEF G!Connect
<1> HIDE DEF one
<1>3. UNCHANGED <<queue, handlers, bus, losses>> /\ conn[c].is = "none"
  BY DEF G!Connect
<1>4. GTypes'
  BY <1>1, <1>2, <1>3 DEF GInv, GTypes
<1>5. conn'[c].is = "open" /\ conn'[c].subs = {}
  BY <1>1, <1>2 DEF GInv, GTypes
<1>6. Orderly(c)'
  <2>1. Len(queue[c]) = 0 /\ G!Closed(c) /\ conn[c].subs = {} /\ Len(queue'[c]) = 0
    BY <1>3 DEF G!Closed, GInv, Orderly
  <2>2. ~Working(c)' /\ \A key \in Channels : ~Adding(c, key)' /\ ~Served(c, key)'
    BY <1>3, <2>1 DEF GInv, Orderly, Working, Adding, Served
  <2>3. IsFiniteSet(conn'[c].subs) /\ Cardinality(conn'[c].subs) <= MaxSubscriptions
    <3>1. conn'[c].subs = conn[c].subs /\ IsFiniteSet(conn[c].subs) /\ Cardinality(conn[c].subs) <= MaxSubscriptions
      BY <1>5, <2>1 DEF GInv, Orderly
    <3>2. QED
      BY <3>1, Zenon
  <2>4. DOMAIN queue'[c] = {}
    BY <1>3, <2>1 DEF GInv, GTypes
  <2>5. QED
    BY <1>3, <1>5, <2>1, <2>2, <2>3, <2>4 DEF Orderly, G!Closed
<1>7. ASSUME NEW d \in Connections, d # c PROVE Orderly(d)'
  <2>1. conn'[d] = conn[d]
    BY <1>2, <1>7 DEF GInv, GTypes
  <2>2. QED
    BY <2>1, <1>3, Untouched DEF GInv, Served
<1>8. QED
  BY <1>4, <1>6, <1>7 DEF GInv

LEMMA PeerKeeps ==
  ASSUME G!ConstantsOK, GInv, NEW c \in Connections, G!PeerLost(c) \/ G!Pong(c)
  PROVE  GInv'
<1>1. UNCHANGED <<queue, handlers, bus>> /\ losses' \in 0..MaxLosses /\ conn[c].is = "open"
  BY DEF G!PeerLost, G!Pong, GInv, GTypes, G!ConstantsOK
<1>2. conn' = [conn EXCEPT ![c].is = "gone"] \/ conn' = [conn EXCEPT ![c].alive = TRUE]
  BY DEF G!PeerLost, G!Pong
<1>3. conn' \in [Connections -> ConnType] /\ conn'[c].subs = conn[c].subs /\ conn'[c].is \in {"open", "gone"}
      /\ \A d \in Connections : d # c => conn'[d] = conn[d]
  <2>1. conn \in [Connections -> ConnType] /\ conn[c] \in ConnType
    BY DEF GInv, GTypes
  <2>2. /\ [conn[c] EXCEPT !.is = "gone"] \in ConnType /\ [conn[c] EXCEPT !.is = "gone"].is = "gone"
        /\ [conn[c] EXCEPT !.is = "gone"].subs = conn[c].subs
    BY <2>1 DEF ConnType
  <2>3. /\ [conn[c] EXCEPT !.alive = TRUE] \in ConnType /\ [conn[c] EXCEPT !.alive = TRUE].is = conn[c].is
        /\ [conn[c] EXCEPT !.alive = TRUE].subs = conn[c].subs
    BY <2>1 DEF ConnType
  <2>4. conn' = [conn EXCEPT ![c] = [conn[c] EXCEPT !.is = "gone"]]
        \/ conn' = [conn EXCEPT ![c] = [conn[c] EXCEPT !.alive = TRUE]]
    BY <1>2, Zenon
  <2>5. QED
    BY <1>1, <2>1, <2>2, <2>3, <2>4
<1>4. GTypes'
  BY <1>1, <1>3 DEF GInv, GTypes
<1>5. Orderly(c)'
  BY <1>1, <1>3 DEF GInv, Orderly, Working, Adding, Served, G!Closed
<1>6. ASSUME NEW d \in Connections, d # c PROVE Orderly(d)'
  BY <1>1, <1>3, <1>6, Untouched DEF GInv, Served
<1>7. QED
  BY <1>4, <1>5, <1>6 DEF GInv

LEMMA ReceiveKeeps ==
  ASSUME G!ConstantsOK, GInv, NEW c \in Connections, NEW kind \in {"subscribe", "unsubscribe"},
         NEW key \in Channels, G!Receive(c, kind, key)
  PROVE  GInv'
<1>1. CASE G!PendingFull(c)
  <2> DEFINE n == [conn[c] EXCEPT !.is = "closing"]
  <2>1. n \in ConnType /\ n.is = "closing" /\ n.subs = conn[c].subs
    BY DEF GInv, GTypes, ConnType
  <2>2. conn' = [conn EXCEPT ![c] = n] /\ UNCHANGED <<queue, handlers, bus, losses>> /\ ~G!Closed(c)
    BY <1>1 DEF G!Receive, G!Closed
  <2> HIDE DEF n
  <2>3. conn' \in [Connections -> ConnType] /\ conn'[c] = n /\ \A d \in Connections : d # c => conn'[d] = conn[d]
    BY <2>1, <2>2 DEF GInv, GTypes
  <2>4. GTypes'
    BY <2>2, <2>3 DEF GInv, GTypes
  <2>5. Orderly(c)'
    BY <2>1, <2>2, <2>3, StillThere DEF GInv, G!Closed
  <2>6. ASSUME NEW d \in Connections, d # c PROVE Orderly(d)'
    BY <2>2, <2>3, <2>6, Untouched DEF GInv, Served
  <2>7. QED
    BY <2>4, <2>5, <2>6 DEF GInv
<1>2. CASE ~G!PendingFull(c)
  <2> DEFINE f == [kind |-> kind, key |-> key, pc |-> "waiting"]
  <2>1. queue' = [queue EXCEPT ![c] = Append(queue[c], f)] /\ UNCHANGED <<conn, handlers, bus, losses>>
    BY <1>2 DEF G!Receive
  <2>2. f \in G!Frames /\ f.pc = "waiting"
    BY DEF G!Frames
  <2> HIDE DEF f
  <2>3. queue[c] \in Seq(G!Frames) /\ Len(queue[c]) \in Nat /\ Len(queue[c]) < MaxPending
    BY <1>2 DEF GInv, GTypes, G!PendingFull, G!ConstantsOK
  <2>4. /\ Append(queue[c], f) \in Seq(G!Frames) /\ Len(Append(queue[c], f)) = Len(queue[c]) + 1
        /\ \A i \in 1..Len(queue[c]) : Append(queue[c], f)[i] = queue[c][i]
        /\ Append(queue[c], f)[Len(queue[c]) + 1] = f
    BY <2>2, <2>3
  <2>5. queue'[c] = Append(queue[c], f) /\ \A d \in Connections : d # c => queue'[d] = queue[d]
    BY <2>1 DEF GInv, GTypes
  <2>6. GTypes'
    <3>1. queue' \in [Connections -> Seq(G!Frames)]
      BY <2>1, <2>4 DEF GInv, GTypes
    <3>2. \A d \in Connections : Len(queue'[d]) <= MaxPending
      BY <2>3, <2>4, <2>5 DEF GInv, GTypes, G!ConstantsOK
    <3>3. QED
      BY <2>1, <3>1, <3>2 DEF GInv, GTypes
  <2>7. Orderly(c)'
    <3>1. DOMAIN queue[c] = 1..Len(queue[c]) /\ DOMAIN queue'[c] = 1..Len(queue[c]) + 1
      BY <2>3, <2>4, <2>5
    <3>2. \A i \in DOMAIN queue[c] : i # 1 => queue[c][i].pc = "waiting"
      BY DEF GInv, Orderly
    <3>3. \A i \in DOMAIN queue'[c] : i # 1 => queue'[c][i].pc = "waiting"
      BY <2>2, <2>3, <2>4, <2>5, <3>1, <3>2
    <3>4. Len(queue[c]) > 0 => queue'[c][1] = queue[c][1]
      BY <2>3, <2>4, <2>5
    <3>5. Len(queue[c]) = 0 => queue'[c][1] = f
      BY <2>4, <2>5
    <3>6. Len(queue[c]) > 0 \/ Len(queue[c]) = 0
      BY <2>3
    <3>7. (Working(c)' <=> Working(c)) /\ \A k \in Channels : (Adding(c, k)' <=> Adding(c, k))
      BY <2>2, <2>3, <2>4, <2>5, <3>4, <3>5, <3>6 DEF Working, Adding
    <3>8. Working(c) => queue'[c][1] = queue[c][1]
      BY <3>4 DEF Working
    <3>9. conn[c].is \in {"open", "closing"}
      BY DEF G!Receive
    <3>10. QED
      BY <2>1, <3>3, <3>7, <3>8, <3>9 DEF GInv, Orderly, G!Closed, Served
  <2>8. ASSUME NEW d \in Connections, d # c PROVE Orderly(d)'
    BY <2>1, <2>5, <2>8, Untouched DEF GInv, Served
  <2>9. QED
    BY <2>6, <2>7, <2>8 DEF GInv
<1>3. QED
  BY <1>1, <1>2

-----------------------------------------------------------------------------
(* The frame at work, which is the first of its connection. *)

LEMMA HeadOnly ==
  ASSUME GInv, NEW c \in Connections, NEW i \in DOMAIN queue[c], i = 1 \/ queue[c][i].pc # "waiting"
  PROVE  i = 1 /\ Len(queue[c]) > 0 /\ queue[c][1] \in G!Frames
<1>1. queue[c] \in Seq(G!Frames)
  BY DEF GInv, GTypes
<1>2. i = 1
  BY DEF GInv, Orderly
<1>3. QED
  BY <1>1, <1>2

\* A frame that is done leaves frames that have not begun.
LEMMA FinishStep ==
  ASSUME GInv, G!ConstantsOK, NEW c \in Connections, Len(queue[c]) > 0, G!Finish(c, 1)
  PROVE  /\ queue' \in [Connections -> Seq(G!Frames)]
         /\ \A d \in Connections : Len(queue'[d]) <= MaxPending
         /\ \A d \in Connections : d # c => queue'[d] = queue[d]
         /\ \A i \in DOMAIN queue'[c] : queue'[c][i].pc = "waiting"
         /\ ~Working(c)' /\ \A key \in Channels : ~Adding(c, key)'
<1> DEFINE t == G!RemoveAt(queue[c], 1)
<1>1. queue[c] \in Seq(G!Frames) /\ Len(queue[c]) \in Nat /\ Len(queue[c]) <= MaxPending
  BY DEF GInv, GTypes
<1>2. t \in Seq(G!Frames) /\ Len(t) = Len(queue[c]) - 1 /\ \A i \in 1..Len(queue[c]) - 1 : t[i] = queue[c][i + 1]
  BY <1>1, WithoutTheFirst
<1>3. queue' = [queue EXCEPT ![c] = t]
  BY DEF G!Finish
<1> HIDE DEF t
<1>4. queue'[c] = t /\ \A d \in Connections : d # c => queue'[d] = queue[d]
  BY <1>3 DEF GInv, GTypes
<1>5. \A i \in DOMAIN t : t[i].pc = "waiting"
  <2> TAKE i \in DOMAIN t
  <2>1. i \in 1..Len(queue[c]) - 1 /\ i + 1 \in DOMAIN queue[c] /\ i + 1 # 1
    BY <1>1, <1>2
  <2>2. t[i] = queue[c][i + 1]
    BY <1>2, <2>1
  <2>3. QED
    BY <2>1, <2>2 DEF GInv, Orderly
<1>6. Len(t) > 0 => 1 \in DOMAIN t
  BY <1>1, <1>2
<1>7. ~Working(c)' /\ \A key \in Channels : ~Adding(c, key)'
  BY <1>4, <1>5, <1>6 DEF Working, Adding
<1>8. queue' \in [Connections -> Seq(G!Frames)]
  BY <1>2, <1>3 DEF GInv, GTypes
<1>9. \A d \in Connections : Len(queue'[d]) <= MaxPending
  <2>1. Len(t) <= MaxPending
    BY <1>1, <1>2 DEF G!ConstantsOK
  <2>2. QED
    BY <1>4, <2>1 DEF GInv, GTypes
<1>10. QED
  BY <1>4, <1>5, <1>7, <1>8, <1>9

\* A frame that goes on is still the first one, for the same channel.
LEMMA PcStep ==
  ASSUME GInv, NEW c \in Connections, Len(queue[c]) > 0,
         NEW pc \in {"waiting", "lookup", "opening", "subscribe", "added"},
         queue' = [queue EXCEPT ![c][1].pc = pc]
  PROVE  /\ queue' \in [Connections -> Seq(G!Frames)]
         /\ \A d \in Connections : Len(queue'[d]) = Len(queue[d])
         /\ \A d \in Connections : d # c => queue'[d] = queue[d]
         /\ \A i \in DOMAIN queue'[c] : i # 1 => queue'[c][i].pc = "waiting"
         /\ queue'[c][1].pc = pc /\ queue'[c][1].key = queue[c][1].key
<1> DEFINE f == [queue[c][1] EXCEPT !.pc = pc]
           t == [queue[c] EXCEPT ![1] = f]
<1>1. queue[c] \in Seq(G!Frames) /\ queue[c][1] \in G!Frames /\ 1 \in DOMAIN queue[c] /\ Len(queue[c]) \in Nat
  BY DEF GInv, GTypes
<1>2. f \in G!Frames /\ f.pc = pc /\ f.key = queue[c][1].key
  BY <1>1 DEF G!Frames
<1>3. queue' = [queue EXCEPT ![c] = t]
  BY Zenon
<1> HIDE DEF f
<1>4. t \in Seq(G!Frames) /\ Len(t) = Len(queue[c]) /\ t[1] = f /\ DOMAIN t = DOMAIN queue[c]
      /\ \A i \in DOMAIN queue[c] : i # 1 => t[i] = queue[c][i]
  BY <1>1, <1>2
<1> HIDE DEF t
<1>5. queue'[c] = t /\ \A d \in Connections : d # c => queue'[d] = queue[d]
  BY <1>3 DEF GInv, GTypes
<1>6. queue' \in [Connections -> Seq(G!Frames)]
  BY <1>3, <1>4 DEF GInv, GTypes
<1>7. \A i \in DOMAIN t : i # 1 => t[i].pc = "waiting"
  BY <1>4 DEF GInv, Orderly
<1>8. \A d \in Connections : Len(queue'[d]) = Len(queue[d])
  BY <1>4, <1>5
<1>9. QED
  BY <1>2, <1>4, <1>5, <1>6, <1>7, <1>8

LEMMA FinishKeeps ==
  ASSUME G!ConstantsOK, GInv, NEW c \in Connections, Len(queue[c]) > 0, queue[c][1].pc # "added",
         G!Finish(c, 1), UNCHANGED <<conn, handlers, bus, losses>>
  PROVE  GInv'
<1>1. /\ queue' \in [Connections -> Seq(G!Frames)]
      /\ \A d \in Connections : Len(queue'[d]) <= MaxPending
      /\ \A d \in Connections : d # c => queue'[d] = queue[d]
      /\ \A i \in DOMAIN queue'[c] : queue'[c][i].pc = "waiting"
      /\ ~Working(c)' /\ \A key \in Channels : ~Adding(c, key)'
  BY FinishStep
<1>2. GTypes'
  BY <1>1 DEF GInv, GTypes
<1>3. Orderly(c)'
  <2>1. \A key \in Channels : ~Adding(c, key)
    BY DEF Adding
  <2>2. conn[c].is # "none"
    BY DEF GInv, Orderly
  <2>3. QED
    BY <1>1, <2>1, <2>2 DEF GInv, Orderly, G!Closed, Served
<1>4. ASSUME NEW d \in Connections, d # c PROVE Orderly(d)'
  BY <1>1, <1>4, Untouched DEF GInv, Served
<1>5. QED
  BY <1>2, <1>3, <1>4 DEF GInv

LEMMA AdvanceKeeps ==
  ASSUME G!ConstantsOK, GInv, NEW c \in Connections, Len(queue[c]) > 0, queue[c][1].pc # "added",
         NEW pc \in {"lookup", "opening", "subscribe"}, queue' = [queue EXCEPT ![c][1].pc = pc],
         ~G!Closed(c) => queue[c][1].key \notin conn[c].subs /\ Cardinality(conn[c].subs) < MaxSubscriptions,
         UNCHANGED <<conn, handlers, losses>>, bus' \in BusType, bus'.closed = bus.closed
  PROVE  GInv'
<1>1. /\ queue' \in [Connections -> Seq(G!Frames)]
      /\ \A d \in Connections : Len(queue'[d]) = Len(queue[d])
      /\ \A d \in Connections : d # c => queue'[d] = queue[d]
      /\ \A i \in DOMAIN queue'[c] : i # 1 => queue'[c][i].pc = "waiting"
      /\ queue'[c][1].pc = pc /\ queue'[c][1].key = queue[c][1].key
  BY PcStep
<1>2. GTypes'
  BY <1>1 DEF GInv, GTypes
<1>3. Orderly(c)'
  <2>1. \A key \in Channels : ~Adding(c, key) /\ ~Adding(c, key)'
    BY <1>1 DEF Adding
  <2>2. conn[c].is # "none"
    BY DEF GInv, Orderly
  <2>3. QED
    BY <1>1, <2>1, <2>2 DEF GInv, Orderly, G!Closed, Served
<1>4. ASSUME NEW d \in Connections, d # c PROVE Orderly(d)'
  BY <1>1, <1>4, Untouched DEF GInv, Served
<1>5. QED
  BY <1>2, <1>3, <1>4 DEF GInv

LEMMA RequestKeeps ==
  ASSUME G!ConstantsOK, GInv, NEW c \in Connections, NEW i \in DOMAIN queue[c],
         G!Begin(c, i) \/ G!Lookup(c, i) \/ G!Refuse(c, i) \/ G!Awaited(c, i)
  PROVE  GInv'
<1>1. i = 1 /\ Len(queue[c]) > 0 /\ queue[c][1] \in G!Frames
  <2>1. i = 1 \/ queue[c][i].pc # "waiting"
    BY DEF G!Begin, G!Lookup, G!Refuse, G!Awaited, G!Turn
  <2>2. QED
    BY <2>1, HeadOnly
<1>2. bus \in BusType
  BY DEF GInv, GTypes
<1>3. ASSUME queue[c][1].pc # "waiting"
      PROVE  ~G!Closed(c) => queue[c][1].key \notin conn[c].subs /\ Cardinality(conn[c].subs) < MaxSubscriptions
  BY <1>1, <1>3 DEF GInv, Orderly, Working
<1>4. CASE G!Begin(c, i)
  <2>1. CASE G!Closed(c) \/ G!Full(c, queue[c][1].key)
    BY <1>1, <1>4, <2>1, FinishKeeps DEF G!Begin
  <2>2. CASE ~(G!Closed(c) \/ G!Full(c, queue[c][1].key))
    <3>1. Cardinality(conn[c].subs) \in Nat
      BY FS_CardinalityType DEF GInv, Orderly
    <3>2. queue[c][1].key \notin conn[c].subs /\ Cardinality(conn[c].subs) < MaxSubscriptions
      BY <2>2, <3>1, GatewayCardinality DEF G!Full, G!ConstantsOK
    <3>3. queue' = [queue EXCEPT ![c][1].pc = "lookup"] /\ UNCHANGED <<conn, handlers, bus, losses>>
          /\ queue[c][1].pc # "added"
      BY <1>1, <1>4, <2>2 DEF G!Begin
    <3>4. QED
      BY <1>1, <1>2, <3>2, <3>3, AdvanceKeeps
  <2>3. QED
    BY <2>1, <2>2
<1>5. CASE G!Refuse(c, i)
  BY <1>1, <1>5, FinishKeeps DEF G!Refuse
<1>6. CASE G!Awaited(c, i)
  <2>1. queue' = [queue EXCEPT ![c][1].pc = "subscribe"] /\ UNCHANGED <<conn, handlers, bus, losses>>
        /\ queue[c][1].pc = "opening"
    BY <1>1, <1>6 DEF G!Awaited
  <2>2. QED
    BY <1>1, <1>2, <1>3, <2>1, AdvanceKeeps
<1>7. CASE G!Lookup(c, i)
  <2>1. queue[c][1].pc = "lookup" /\ bus' = G!EnsureListening(bus) /\ UNCHANGED <<conn, handlers, losses>>
    BY <1>1, <1>7 DEF G!Lookup
  <2>2. bus' \in BusType /\ bus'.closed = bus.closed
    BY <1>2, <2>1 DEF G!EnsureListening, BusType
  <2>3. PICK pc \in {"opening", "subscribe"} : queue' = [queue EXCEPT ![c][1].pc = pc]
    <3>1. queue' = [queue EXCEPT ![c][1].pc = IF G!EnsureListening(bus) # bus THEN "opening" ELSE "subscribe"]
      BY <1>1, <1>7 DEF G!Lookup
    <3>2. (IF G!EnsureListening(bus) # bus THEN "opening" ELSE "subscribe") \in {"opening", "subscribe"}
      OBVIOUS
    <3>3. QED
      BY <3>1, <3>2, Zenon
  <2>4. QED
    BY <1>1, <1>3, <2>1, <2>2, <2>3, AdvanceKeeps
<1>8. QED
  BY <1>4, <1>5, <1>6, <1>7

LEMMA AddHandlerKeeps ==
  ASSUME G!ConstantsOK, GInv, NEW c \in Connections, NEW i \in DOMAIN queue[c], G!AddHandler(c, i)
  PROVE  GInv'
<1>1. i = 1 /\ Len(queue[c]) > 0 /\ queue[c][1] \in G!Frames
  <2>1. queue[c][i].pc # "waiting"
    BY DEF G!AddHandler
  <2>2. QED
    BY <2>1, HeadOnly
<1>2. /\ queue[c][1].pc = "subscribe" /\ queue' = [queue EXCEPT ![c][1].pc = "added"]
      /\ handlers' = handlers \cup {<<c, queue[c][1].key>>} /\ UNCHANGED <<conn, bus, losses>>
  BY <1>1 DEF G!AddHandler
<1>3. /\ queue' \in [Connections -> Seq(G!Frames)]
      /\ \A d \in Connections : Len(queue'[d]) = Len(queue[d])
      /\ \A d \in Connections : d # c => queue'[d] = queue[d]
      /\ \A j \in DOMAIN queue'[c] : j # 1 => queue'[c][j].pc = "waiting"
      /\ queue'[c][1].pc = "added" /\ queue'[c][1].key = queue[c][1].key
  BY <1>1, <1>2, PcStep
<1>4. queue[c][1].key \in Channels
  BY <1>1 DEF G!Frames
<1>5. GTypes'
  BY <1>2, <1>3, <1>4 DEF GInv, GTypes
<1>6. Orderly(c)'
  <2>1. \A key \in Channels : ~Adding(c, key) /\ (Adding(c, key)' <=> key = queue[c][1].key)
    BY <1>1, <1>2, <1>3 DEF Adding
  <2>2. \A key \in Channels : Served(c, key)' <=> Served(c, key) \/ key = queue[c][1].key
    BY <1>2 DEF Served
  <2>3. Working(c) /\ conn[c].is # "none"
    BY <1>1, <1>2 DEF GInv, Orderly, Working
  <2>4. QED
    BY <1>2, <1>3, <2>1, <2>2, <2>3 DEF GInv, Orderly, G!Closed
<1>7. ASSUME NEW d \in Connections, d # c PROVE Orderly(d)'
  <2>1. \A key \in Channels : Served(d, key)' <=> Served(d, key)
    BY <1>2, <1>7 DEF Served
  <2>2. QED
    BY <1>2, <1>3, <1>7, <2>1, Untouched DEF GInv
<1>8. QED
  BY <1>5, <1>6, <1>7 DEF GInv

\* The connection may have closed while the handler was added: then it is taken off again.
LEMMA SubscribedKeeps ==
  ASSUME G!ConstantsOK, GInv, NEW c \in Connections, NEW i \in DOMAIN queue[c], G!Subscribed(c, i)
  PROVE  GInv'
<1> DEFINE key == queue[c][1].key
<1>1. i = 1 /\ Len(queue[c]) > 0 /\ queue[c][1] \in G!Frames
  <2>1. queue[c][i].pc # "waiting"
    BY DEF G!Subscribed
  <2>2. QED
    BY <2>1, HeadOnly
<1>2. queue[c][1].pc = "added" /\ G!Finish(c, 1) /\ UNCHANGED <<bus, losses>>
  BY <1>1 DEF G!Subscribed
<1>3. /\ queue' \in [Connections -> Seq(G!Frames)]
      /\ \A d \in Connections : Len(queue'[d]) <= MaxPending
      /\ \A d \in Connections : d # c => queue'[d] = queue[d]
      /\ \A j \in DOMAIN queue'[c] : queue'[c][j].pc = "waiting"
      /\ ~Working(c)' /\ \A k \in Channels : ~Adding(c, k)'
  BY <1>1, <1>2, FinishStep
<1>4. key \in Channels /\ Working(c) /\ conn[c].is # "none"
  BY <1>1, <1>2 DEF G!Frames, Working, GInv, Orderly
<1>5. \A k \in Channels : Adding(c, k) <=> k = key
  BY <1>1, <1>2 DEF Adding
<1>6. CASE G!Closed(c)
  <2>1. handlers' = handlers \ {<<c, key>>} /\ UNCHANGED conn
    BY <1>1, <1>6 DEF G!Subscribed
  <2> HIDE DEF key
  <2>2. GTypes'
    BY <1>2, <1>3, <2>1 DEF GInv, GTypes
  <2>3. Orderly(c)'
    <3>1. \A k \in Channels : Served(c, k)' <=> Served(c, k) /\ k # key
      BY <2>1 DEF Served
    <3>2. \A k \in Channels : ~Served(c, k)'
      BY <1>5, <1>6, <3>1 DEF GInv, Orderly
    <3>3. conn[c].subs = {} /\ G!Closed(c)'
      BY <1>6, <2>1 DEF GInv, Orderly, G!Closed
    <3>4. QED
      BY <1>2, <1>3, <1>4, <2>1, <3>2, <3>3 DEF GInv, Orderly
  <2>4. ASSUME NEW d \in Connections, d # c PROVE Orderly(d)'
    <3>1. \A k \in Channels : Served(d, k)' <=> Served(d, k)
      BY <2>1, <2>4 DEF Served
    <3>2. QED
      BY <1>2, <1>3, <2>1, <2>4, <3>1, Untouched DEF GInv
  <2>5. QED
    BY <2>2, <2>3, <2>4 DEF GInv
<1>7. CASE ~G!Closed(c)
  <2>1. conn' = [conn EXCEPT ![c].subs = conn[c].subs \cup {key}] /\ UNCHANGED handlers
    BY <1>1, <1>7 DEF G!Subscribed
  <2>2. key \notin conn[c].subs /\ Cardinality(conn[c].subs) < MaxSubscriptions
    BY <1>4, <1>7 DEF GInv, Orderly
  <2> HIDE DEF key
  <2> DEFINE s == conn[c].subs \cup {key}
             n == [conn[c] EXCEPT !.subs = s]
  <2>3. s \in SUBSET Channels /\ conn[c] \in ConnType
    BY <1>4 DEF GInv, GTypes, ConnType
  <2>4. IsFiniteSet(s) /\ Cardinality(s) <= MaxSubscriptions
    <3>1. IsFiniteSet(conn[c].subs) /\ Cardinality(conn[c].subs) \in Nat
      BY FS_CardinalityType DEF GInv, Orderly
    <3>2. IsFiniteSet(s) /\ Cardinality(s) = Cardinality(conn[c].subs) + 1
      BY <2>2, <3>1, FS_AddElement
    <3>3. QED
      BY <2>2, <3>1, <3>2 DEF G!ConstantsOK
  <2> HIDE DEF s
  <2>5. n \in ConnType /\ n.subs = s /\ n.is = conn[c].is
    BY <2>3 DEF ConnType
  <2>6. conn' = [conn EXCEPT ![c] = n]
    BY <2>1, Zenon DEF s
  <2> HIDE DEF n
  <2>7. conn' \in [Connections -> ConnType] /\ conn'[c] = n /\ \A d \in Connections : d # c => conn'[d] = conn[d]
    BY <2>5, <2>6 DEF GInv, GTypes
  <2>8. GTypes'
    BY <1>2, <1>3, <2>1, <2>7 DEF GInv, GTypes
  <2>9. Orderly(c)'
    <3>1. conn'[c].subs = s /\ conn'[c].is = conn[c].is
      BY <2>5, <2>7
    <3>2. \A k \in Channels : k \in s <=> k \in conn[c].subs \/ k = key
      BY DEF s
    <3>3. \A k \in Channels : Served(c, k)' <=> Served(c, k)
      BY <2>1 DEF Served
    <3>4. ~G!Closed(c)'
      BY <1>7, <3>1 DEF G!Closed
    <3>5. IsFiniteSet(conn'[c].subs) /\ Cardinality(conn'[c].subs) <= MaxSubscriptions
      BY <2>4, <3>1, Zenon
    <3>6. QED
      BY <1>2, <1>3, <1>4, <1>5, <1>7, <3>1, <3>2, <3>3, <3>4, <3>5 DEF GInv, Orderly
  <2>10. ASSUME NEW d \in Connections, d # c PROVE Orderly(d)'
    BY <1>2, <1>3, <2>1, <2>7, <2>10, Untouched DEF GInv, Served
  <2>11. QED
    BY <2>8, <2>9, <2>10 DEF GInv
<1>8. QED
  BY <1>6, <1>7

LEMMA UnsubscribeKeeps ==
  ASSUME G!ConstantsOK, GInv, NEW c \in Connections, NEW i \in DOMAIN queue[c], G!Unsubscribe(c, i)
  PROVE  GInv'
<1> DEFINE key == queue[c][1].key
<1>1. i = 1 /\ Len(queue[c]) > 0 /\ queue[c][1] \in G!Frames
  BY HeadOnly DEF G!Unsubscribe, G!Turn
<1>2. /\ queue[c][1].pc = "waiting" /\ G!Finish(c, 1) /\ UNCHANGED <<bus, losses>>
      /\ conn' = [conn EXCEPT ![c].subs = conn[c].subs \ {key}]
      /\ handlers' = IF key \in conn[c].subs THEN handlers \ {<<c, key>>} ELSE handlers
  BY <1>1 DEF G!Unsubscribe
<1>3. /\ queue' \in [Connections -> Seq(G!Frames)]
      /\ \A d \in Connections : Len(queue'[d]) <= MaxPending
      /\ \A d \in Connections : d # c => queue'[d] = queue[d]
      /\ \A j \in DOMAIN queue'[c] : queue'[c][j].pc = "waiting"
      /\ ~Working(c)' /\ \A k \in Channels : ~Adding(c, k)'
  BY <1>1, <1>2, FinishStep
<1>4. (\A k \in Channels : ~Adding(c, k)) /\ conn[c].is # "none"
  BY <1>1, <1>2 DEF Adding, GInv, Orderly
<1> HIDE DEF key
<1> DEFINE s == conn[c].subs \ {key}
           n == [conn[c] EXCEPT !.subs = s]
<1>5. s \in SUBSET Channels /\ conn[c] \in ConnType
  BY DEF GInv, GTypes, ConnType
<1>6. IsFiniteSet(s) /\ Cardinality(s) <= MaxSubscriptions
  <2>1. IsFiniteSet(conn[c].subs) /\ Cardinality(conn[c].subs) \in Nat /\ Cardinality(conn[c].subs) <= MaxSubscriptions
    BY FS_CardinalityType DEF GInv, Orderly
  <2>2. IsFiniteSet(s) /\ Cardinality(s) \in Nat /\ Cardinality(s) <= Cardinality(conn[c].subs)
    <3>1. s \subseteq conn[c].subs
      OBVIOUS
    <3>2. QED
      BY <2>1, <3>1, FS_Subset, FS_CardinalityType
  <2>3. QED
    BY <2>1, <2>2 DEF G!ConstantsOK
<1> HIDE DEF s
<1>7. n \in ConnType /\ n.subs = s /\ n.is = conn[c].is
  BY <1>5 DEF ConnType
<1>8. conn' = [conn EXCEPT ![c] = n]
  BY <1>2, Zenon DEF s
<1> HIDE DEF n
<1>9. conn' \in [Connections -> ConnType] /\ conn'[c] = n /\ \A d \in Connections : d # c => conn'[d] = conn[d]
  BY <1>7, <1>8 DEF GInv, GTypes
<1>10. GTypes'
  <2>1. handlers' \subseteq Connections \X Channels
    BY <1>2 DEF GInv, GTypes
  <2>2. QED
    BY <1>2, <1>3, <1>9, <2>1 DEF GInv, GTypes
<1>11. Orderly(c)'
  <2>1. conn'[c].subs = s /\ conn'[c].is = conn[c].is
    BY <1>7, <1>9
  <2>2. \A k \in Channels : k \in s <=> k \in conn[c].subs /\ k # key
    BY DEF s
  <2>3. \A k \in Channels : Served(c, k) <=> (~G!Closed(c) /\ k \in conn[c].subs) /\ Served(c, k)
    BY <1>4 DEF GInv, Orderly
  <2>4. \A k \in Channels : Served(c, k)' <=> Served(c, k) /\ k # key
    BY <1>2, <2>3 DEF Served
  <2>5. IsFiniteSet(conn'[c].subs) /\ Cardinality(conn'[c].subs) <= MaxSubscriptions
    BY <1>6, <2>1, Zenon
  <2>6. G!Closed(c)' <=> G!Closed(c)
    BY <2>1 DEF G!Closed
  <2>7. conn[c].subs = {} => s = {}
    BY DEF s
  <2>8. QED
    BY <1>2, <1>3, <1>4, <2>1, <2>2, <2>3, <2>4, <2>5, <2>6, <2>7 DEF GInv, Orderly
<1>12. ASSUME NEW d \in Connections, d # c PROVE Orderly(d)'
  <2>1. \A k \in Channels : Served(d, k)' <=> Served(d, k)
    BY <1>2, <1>12 DEF Served
  <2>2. QED
    BY <1>2, <1>3, <1>9, <1>12, <2>1, Untouched DEF GInv
<1>13. QED
  BY <1>10, <1>11, <1>12 DEF GInv

-----------------------------------------------------------------------------
LEMMA GatewayStep == ASSUME G!ConstantsOK, GInv, G!Next PROVE GInv'
<1>1. CASE G!BusStep \/ G!OpenFails \/ G!ListenerLost
  BY <1>1, BusKeeps
<1>2. CASE G!BusClose
  BY <1>2, BusCloseKeeps
<1>3. CASE G!Heartbeat
  BY <1>3, HeartbeatKeeps
<1>4. ASSUME NEW c \in Connections, \/ G!Connect(c) \/ G!Disconnect(c) \/ G!CloseEvent(c)
                                   \/ G!PeerLost(c) \/ G!Pong(c) \/ G!Work(c)
      PROVE  GInv'
  <2>1. CASE G!Connect(c)
    BY <2>1, ConnectKeeps
  <2>2. CASE G!Disconnect(c) \/ G!CloseEvent(c)
    BY <2>2, CleanupKeeps DEF G!Disconnect, G!CloseEvent
  <2>3. CASE G!PeerLost(c) \/ G!Pong(c)
    BY <2>3, PeerKeeps
  <2>4. CASE G!Work(c)
    BY <2>4, RequestKeeps, AddHandlerKeeps, SubscribedKeeps, UnsubscribeKeeps DEF G!Work
  <2>5. QED
    BY <1>4, <2>1, <2>2, <2>3, <2>4
<1>5. ASSUME NEW c \in Connections, NEW kind \in {"subscribe", "unsubscribe"}, NEW key \in Channels,
             G!Receive(c, kind, key)
      PROVE  GInv'
  BY <1>5, ReceiveKeeps
<1>6. QED
  BY <1>1, <1>2, <1>3, <1>4, <1>5 DEF G!Next

\* What the run checks follows.
LEMMA GatewayProperties == GInv => G!TypeOK /\ G!HandlersAreOwned /\ G!SubscriptionsAreServed
<1> SUFFICES ASSUME GInv PROVE G!TypeOK /\ G!HandlersAreOwned /\ G!SubscriptionsAreServed
  OBVIOUS
<1>1. G!TypeOK
  BY DEF GInv, GTypes, G!TypeOK, ConnType, BusType
<1>2. G!HandlersAreOwned
  <2> SUFFICES ASSUME NEW h \in handlers
               PROVE  \/ ~G!Closed(h[1]) /\ h[2] \in conn[h[1]].subs
                      \/ \E i \in DOMAIN queue[h[1]] : queue[h[1]][i].pc = "added" /\ queue[h[1]][i].key = h[2]
    BY DEF G!HandlersAreOwned
  <2>1. h[1] \in Connections /\ h[2] \in Channels /\ h = <<h[1], h[2]>>
    BY DEF GInv, GTypes
  <2>2. Served(h[1], h[2])
    BY <2>1 DEF Served
  <2>3. (~G!Closed(h[1]) /\ h[2] \in conn[h[1]].subs) \/ Adding(h[1], h[2])
    BY <2>1, <2>2 DEF GInv, Orderly
  <2>4. Len(queue[h[1]]) > 0 => 1 \in DOMAIN queue[h[1]]
    BY <2>1 DEF GInv, GTypes
  <2>5. QED
    BY <2>3, <2>4 DEF Adding
<1>3. G!SubscriptionsAreServed
  <2>1. \A c \in Connections : conn[c].subs \subseteq Channels
    BY DEF GInv, GTypes, ConnType
  <2>2. QED
    BY <2>1, GatewayCardinality DEF GInv, Orderly, Served, G!SubscriptionsAreServed
<1>4. QED
  BY <1>1, <1>2, <1>3

-----------------------------------------------------------------------------
(* pump.fun.  A checkpoint is written by whoever has just stored a transaction of its slot, and *)
(* what is queued, at work, deferred or to be swept has landed; or by the finality reconciler,  *)
(* which writes back the height it read.                                                        *)

WorkType == [pc: {"idle", "fetch", "persist", "checkpoint", "advance"}, tx: 0..Txs]
RecType  == [pc: {"idle", "deferred", "walk", "walked"}, floor: 0..P!SlotOf(Txs), todo: SUBSET P!Tx]

FinType  == [height: 0..P!SlotOf(Txs), slot: 0..P!SlotOf(Txs)]

AtWork(w, upto, facts) ==
  /\ w.pc = "idle" => w.tx = 0
  /\ w.pc # "idle" => w.tx \in 1..upto
  /\ w.pc \in {"checkpoint", "advance"} => w.tx \in facts

PTypes ==
  /\ landed \in 0..Txs /\ open \in BOOLEAN
  /\ signatures \in Seq(1..landed) /\ Len(signatures) <= MaxQueue
  /\ work \in [P!Procs -> WorkType] /\ deferred \subseteq 1..landed /\ stored \subseteq 1..landed
  /\ slot \in 0..P!SlotOf(Txs) /\ settled \in 0..P!SlotOf(Txs) /\ fin \in FinType
  /\ rec \in RecType /\ rec.todo \subseteq 1..landed
  /\ lost \subseteq P!Tx /\ pumpFaults \in 0..PumpFaults

\* The height the finality reconciler will write back was one that has data.
WriteHasData == fin.height > 0 => \E t \in stored : P!SlotOf(t) = fin.height

PInv ==
  /\ PTypes /\ \A p \in P!Procs : AtWork(work[p], landed, stored)
  /\ P!CheckpointHasData /\ WriteHasData

\* Slots follow the order in which transactions land.
LEMMA SlotsAreInOrder ==
  ASSUME P!ConstantsOK, NEW t \in 1..Txs
  PROVE  P!SlotOf(t) \in 1..P!SlotOf(Txs)
<1>1. \A a, b \in Nat, n \in Nat \ {0} : a <= b => a \div n \in Nat /\ b \div n \in Nat /\ a \div n <= b \div n
  <2> TAKE a, b \in Nat, n \in Nat \ {0}
  <2> HAVE a <= b
  <2> DEFINE q == a \div n
             r == b \div n
  <2>1. /\ q \in Int /\ r \in Int
        /\ n * q <= a /\ a < n * q + n /\ n * r <= b /\ b < n * r + n
    OBVIOUS
  <2> HIDE DEF q, r
  <2>2. q >= 0 /\ r >= 0
    <3>1. \A x \in Int : x < 0 => n * x + n <= 0
      OBVIOUS
    <3>2. QED
      BY <2>1, <3>1
  <2>3. q <= r
    <3>1. \A x, y \in Int : x >= y + 1 => n * x >= n * y + n
      OBVIOUS
    <3>2. QED
      BY <2>1, <3>1
  <2>4. QED
    BY <2>2, <2>3 DEF q, r
<1>2. t - 1 \in Nat /\ Txs - 1 \in Nat /\ t - 1 <= Txs - 1
  BY DEF P!ConstantsOK
<1>3. QED
  BY <1>1, <1>2 DEF P!SlotOf, P!ConstantsOK

LEMMA FreshSweeps ==
  ASSUME P!ConstantsOK, NEW todo \in SUBSET P!Tx
  PROVE  /\ P!NoSweep \in RecType /\ P!NoSweep.todo = {}
         /\ [P!NoSweep EXCEPT !.pc = "deferred"] \in RecType
         /\ [P!NoSweep EXCEPT !.pc = "deferred"].todo = {}
         /\ [P!NoSweep EXCEPT !.pc = "deferred", !.todo = todo] \in RecType
         /\ [P!NoSweep EXCEPT !.pc = "deferred", !.todo = todo].todo = todo
<1>0. P!SlotOf(Txs) \in Nat
  <2>1. CASE Txs = 0
    <3>1. (-1) \div TxsPerSlot = -1
      BY DEF P!ConstantsOK
    <3>2. QED
      BY <2>1, <3>1 DEF P!SlotOf
  <2>2. CASE Txs # 0
    BY <2>2, SlotsAreInOrder DEF P!ConstantsOK
  <2>3. QED
    BY <2>1, <2>2
<1>1. P!NoSweep \in RecType /\ P!NoSweep.todo = {}
  BY <1>0 DEF P!NoSweep, RecType
<1> DEFINE n == [P!NoSweep EXCEPT !.pc = "deferred"]
<1>2. n \in RecType /\ n.todo = {}
  BY <1>1 DEF RecType
<1>3. [P!NoSweep EXCEPT !.pc = "deferred", !.todo = todo] = [n EXCEPT !.todo = todo]
  OBVIOUS
<1> HIDE DEF n
<1>4. [n EXCEPT !.todo = todo] \in RecType /\ [n EXCEPT !.todo = todo].todo = todo
  BY <1>2 DEF RecType
<1>5. QED
  BY <1>1, <1>2, <1>3, <1>4, Zenon DEF n

LEMMA NothingToWrite ==
  ASSUME P!ConstantsOK
  PROVE  P!NoWrite \in FinType /\ P!NoWrite.height = 0
<1>1. {} \in SUBSET P!Tx
  OBVIOUS
<1>2. 0 \in 0..P!SlotOf(Txs)
  BY <1>1, FreshSweeps DEF P!NoSweep, RecType
<1>3. QED
  BY <1>2 DEF P!NoWrite, FinType

LEMMA BeginStep ==
  ASSUME P!ConstantsOK, PInv
  PROVE  P!Begin \in RecType /\ P!Begin.todo \subseteq 1..landed
<1>1. deferred \in SUBSET P!Tx /\ rec \in RecType /\ rec.todo \subseteq 1..landed /\ deferred \subseteq 1..landed
  BY DEF PInv, PTypes, P!Tx, P!ConstantsOK
<1>2. CASE rec.pc = "idle"
  BY <1>1, <1>2, FreshSweeps, Zenon DEF P!Begin
<1>3. CASE rec.pc # "idle"
  BY <1>1, <1>3 DEF P!Begin
<1>4. QED
  BY <1>2, <1>3

LEMMA PumpInit == P!ConstantsOK /\ P!Init => PInv
<1> SUFFICES ASSUME P!ConstantsOK, P!Init PROVE PInv
  OBVIOUS
<1>1. /\ landed = 0 /\ open = FALSE /\ signatures = << >> /\ work = [p \in P!Procs |-> P!Idle] /\ deferred = {}
      /\ rec = P!NoSweep /\ stored = {} /\ slot = 0 /\ settled = 0 /\ fin = P!NoWrite /\ lost = {} /\ pumpFaults = 0
  BY Zenon DEF P!Init
<1>2. P!NoSweep \in RecType /\ P!NoSweep.todo = {}
  <2>1. {} \in SUBSET P!Tx
    OBVIOUS
  <2>2. QED
    BY <2>1, FreshSweeps
<1>3. open \in BOOLEAN
  BY <1>1, Zenon
<1>4. 0 \in 0..P!SlotOf(Txs)
  BY <1>2 DEF P!NoSweep, RecType
<1>5. PTypes
  BY <1>1, <1>2, <1>3, <1>4 DEF PTypes, FinType, P!NoWrite, P!ConstantsOK, WorkType, P!Idle
<1>6. \A p \in P!Procs : AtWork(work[p], landed, stored)
  BY <1>1 DEF AtWork, P!Idle
<1>7. QED
  BY <1>1, <1>5, <1>6 DEF PInv, P!CheckpointHasData, WriteHasData, P!NoWrite

-----------------------------------------------------------------------------
(* Steps. *)

\* One process goes on; the others have what they had.
LEMMA WorkStep ==
  ASSUME PInv, NEW p \in P!Procs, NEW w \in WorkType, AtWork(w, landed', stored'), work' = [work EXCEPT ![p] = w],
         landed' = landed, stored \subseteq stored'
  PROVE  work' \in [P!Procs -> WorkType] /\ \A q \in P!Procs : AtWork(work'[q], landed', stored')
<1>1. work \in [P!Procs -> WorkType]
  BY DEF PInv, PTypes
<1>2. work' \in [P!Procs -> WorkType] /\ work'[p] = w /\ \A q \in P!Procs : q # p => work'[q] = work[q]
  BY <1>1
<1>3. ASSUME NEW q \in P!Procs PROVE AtWork(work'[q], landed', stored')
  <2>1. CASE q = p
    BY <1>2, <2>1 DEF AtWork
  <2>2. CASE q # p
    BY <1>2, <2>2 DEF PInv, AtWork
  <2>3. QED
    BY <2>1, <2>2
<1>4. QED
  BY <1>2, <1>3

LEMMA DoneStep ==
  ASSUME P!ConstantsOK, PInv, NEW p \in P!Procs, P!Done(p), landed' = landed, stored' = stored
  PROVE  work' \in [P!Procs -> WorkType] /\ \A q \in P!Procs : AtWork(work'[q], landed', stored')
<1>1. P!Idle \in WorkType /\ AtWork(P!Idle, landed', stored')
  BY DEF P!Idle, WorkType, AtWork, P!ConstantsOK
<1>2. work' = [work EXCEPT ![p] = P!Idle]
  BY DEF P!Done
<1>3. QED
  BY <1>1, <1>2, WorkStep

LEMMA GoesStep ==
  ASSUME PInv, NEW p \in P!Procs, NEW pc \in {"persist", "checkpoint", "advance"}, P!Goes(p, pc),
         work[p].pc # "idle", pc # "persist" => work[p].tx \in stored',
         landed' = landed, stored \subseteq stored'
  PROVE  work' \in [P!Procs -> WorkType] /\ \A q \in P!Procs : AtWork(work'[q], landed', stored')
<1> DEFINE w == [work[p] EXCEPT !.pc = pc]
<1>1. w \in WorkType /\ w.pc = pc /\ w.tx = work[p].tx
  BY DEF PInv, PTypes, WorkType
<1>2. work' = [work EXCEPT ![p] = w]
  BY DEF P!Goes
<1> HIDE DEF w
<1>3. AtWork(w, landed', stored')
  BY <1>1 DEF PInv, AtWork
<1>4. QED
  BY <1>1, <1>2, <1>3, WorkStep

LEMMA FaultStep == ASSUME P!ConstantsOK, PInv, P!Fault PROVE pumpFaults' \in 0..PumpFaults
BY DEF P!Fault, PInv, PTypes, P!ConstantsOK

\* Sequences over what has landed.
LEMMA LiveKeeps ==
  ASSUME P!ConstantsOK, PInv, P!Land \/ P!Connect \/ P!Close \/ P!Restart \/ (\E w \in Workers : P!Take(w))
  PROVE  PInv'
<1>1. /\ landed \in 0..Txs /\ signatures \in Seq(1..landed) /\ Len(signatures) <= MaxQueue /\ work \in [P!Procs -> WorkType]
      /\ deferred \subseteq 1..landed /\ stored \subseteq 1..landed /\ rec \in RecType /\ rec.todo \subseteq 1..landed
      /\ 1..landed \subseteq P!Tx
  BY DEF PInv, PTypes, P!Tx, P!ConstantsOK
<1>2. CASE P!Land
  <2>1. landed' = landed + 1 /\ landed' \in 0..Txs /\ 1..landed \subseteq 1..landed'
        /\ UNCHANGED <<open, work, deferred, rec, stored, slot, settled, fin, lost, pumpFaults>>
    BY <1>1, <1>2 DEF P!Land, P!memory, P!row, P!ConstantsOK
  <2>2. signatures' \in Seq(1..landed') /\ Len(signatures') <= MaxQueue
    <3>1. signatures \in Seq(1..landed') /\ landed + 1 \in 1..landed'
      <4>1. \A i \in 1..Len(signatures) : signatures[i] \in 1..landed'
        BY <1>1, <2>1
      <4>2. signatures = [i \in 1..Len(signatures) |-> signatures[i]] /\ Len(signatures) \in Nat
        BY <1>1
      <4>3. QED
        BY <1>1, <2>1, <4>1, <4>2
    <3>2. CASE open /\ Len(signatures) < MaxQueue
      <4>1. signatures' = Append(signatures, landed + 1)
        BY <1>2, <3>2 DEF P!Land
      <4>2. signatures' \in Seq(1..landed') /\ Len(signatures') = Len(signatures) + 1 /\ Len(signatures) \in Nat
        BY <3>1, <4>1
      <4>3. QED
        BY <3>2, <4>2 DEF P!ConstantsOK
    <3>3. CASE ~(open /\ Len(signatures) < MaxQueue)
      BY <1>1, <1>2, <3>1, <3>3 DEF P!Land
    <3>4. QED
      BY <3>2, <3>3
  <2>3. PTypes'
    BY <2>1, <2>2 DEF PInv, PTypes
  <2>4. \A p \in P!Procs : AtWork(work'[p], landed', stored')
    BY <2>1 DEF PInv, AtWork
  <2>5. QED
    BY <2>1, <2>3, <2>4 DEF PInv, P!CheckpointHasData, WriteHasData
<1>3. CASE P!Connect
  <2>1. P!Begin \in RecType /\ P!Begin.todo \subseteq 1..landed
    BY BeginStep
  <2>2. open' = TRUE /\ rec' = P!Begin /\ UNCHANGED <<landed, signatures, work, deferred, stored, slot, settled, fin, lost, pumpFaults>>
    BY <1>3 DEF P!Connect, P!row
  <2>3. PTypes'
    BY <2>1, <2>2 DEF PInv, PTypes
  <2>4. QED
    BY <2>2, <2>3 DEF PInv, AtWork, P!CheckpointHasData, WriteHasData
<1>4. CASE P!Close
  <2>1. open' = FALSE /\ UNCHANGED <<landed, signatures, work, deferred, rec, stored, slot, settled, fin, lost>>
    BY <1>4 DEF P!Close, P!memory, P!row
  <2>2. pumpFaults' \in 0..PumpFaults
    BY <1>4, FaultStep DEF P!Close
  <2>3. PTypes'
    BY <2>1, <2>2 DEF PInv, PTypes
  <2>4. QED
    BY <2>1, <2>3 DEF PInv, AtWork, P!CheckpointHasData, WriteHasData
<1>5. CASE P!Restart
  <2> DEFINE begun == [P!NoSweep EXCEPT !.pc = "deferred"]
  <2>1. begun \in RecType /\ begun.todo = {}
    <3>1. {} \in SUBSET P!Tx
      OBVIOUS
    <3>2. QED
      BY <3>1, FreshSweeps
  <2>2. /\ open' = FALSE /\ signatures' = << >> /\ deferred' = {} /\ work' = [p \in P!Procs |-> P!Idle] /\ rec' = begun
        /\ lost' = lost \cup deferred \cup ({work[p].tx : p \in P!Procs} \ {0})
        /\ fin' = P!NoWrite /\ UNCHANGED <<landed, stored, slot, settled>>
    BY <1>5 DEF P!Restart, P!row
  <2> HIDE DEF begun
  <2>3. pumpFaults' \in 0..PumpFaults
    BY <1>5, FaultStep DEF P!Restart
  <2>4. lost' \subseteq P!Tx
    <3>1. \A p \in P!Procs : work[p].tx = 0 \/ work[p].tx \in 1..landed
      BY DEF PInv, AtWork
    <3>2. QED
      BY <1>1, <2>2, <3>1 DEF PInv, PTypes
  <2>5. work' \in [P!Procs -> WorkType] /\ \A p \in P!Procs : AtWork(work'[p], landed', stored')
    BY <1>1, <2>2 DEF WorkType, P!Idle, AtWork, P!ConstantsOK
  <2>6. PTypes'
    <3>1. open' \in BOOLEAN
      BY <2>2, Zenon
    <3>2. signatures' \in Seq(1..landed') /\ Len(signatures') <= MaxQueue
      BY <2>2 DEF P!ConstantsOK
    <3>3. fin' \in FinType
      BY <2>2, NothingToWrite
    <3>4. QED
      BY <2>1, <2>2, <2>3, <2>4, <2>5, <3>1, <3>2, <3>3 DEF PInv, PTypes
  <2>7. QED
    BY <2>2, <2>5, <2>6 DEF PInv, P!CheckpointHasData, WriteHasData, P!NoWrite
<1>6. ASSUME NEW w \in Workers, P!Take(w) PROVE PInv'
  <2> DEFINE n == [pc |-> "fetch", tx |-> Head(signatures)]
  <2>1. Head(signatures) \in 1..landed /\ Tail(signatures) \in Seq(1..landed) /\ Len(Tail(signatures)) <= MaxQueue
    <3>1. signatures # << >> /\ Len(signatures) \in Nat
      BY <1>1, <1>6 DEF P!Take, P!row
    <3>2. Head(signatures) \in 1..landed /\ Tail(signatures) \in Seq(1..landed) /\ Len(Tail(signatures)) = Len(signatures) - 1
      BY <1>1, <3>1
    <3>3. QED
      BY <1>1, <3>1, <3>2 DEF P!ConstantsOK
  <2>2. work' = [work EXCEPT ![w] = n] /\ signatures' = Tail(signatures)
        /\ UNCHANGED <<landed, open, deferred, rec, stored, slot, settled, fin, lost, pumpFaults>>
    BY <1>6 DEF P!Take, P!row
  <2>3. n \in WorkType /\ AtWork(n, landed', stored')
    <3>1. Head(signatures) \in 0..Txs
      BY <1>1, <2>1 DEF P!ConstantsOK
    <3>2. QED
      BY <2>1, <2>2, <3>1 DEF WorkType, AtWork
  <2> HIDE DEF n
  <2>4. work' \in [P!Procs -> WorkType] /\ \A q \in P!Procs : AtWork(work'[q], landed', stored')
    BY <2>2, <2>3, WorkStep DEF P!Procs
  <2>5. PTypes'
    BY <2>1, <2>2, <2>4 DEF PInv, PTypes
  <2>6. QED
    BY <2>2, <2>4, <2>5 DEF PInv, P!CheckpointHasData, WriteHasData
<1>7. QED
  BY <1>2, <1>3, <1>4, <1>5, <1>6

LEMMA ProcessKeeps ==
  ASSUME P!ConstantsOK, PInv, NEW p \in P!Procs, P!Progress(p) \/ P!Mishap(p)
  PROVE  PInv'
<1>1. /\ work[p] \in WorkType /\ AtWork(work[p], landed, stored) /\ deferred \subseteq 1..landed /\ 1..landed \subseteq P!Tx
      /\ pumpFaults \in 0..PumpFaults
  BY DEF PInv, PTypes, P!Tx, P!ConstantsOK
<1>2. CASE P!NotVisible(p) \/ P!NoBlock(p)
  <2>1. /\ P!Done(p) /\ deferred' = deferred \cup {work[p].tx} /\ lost' = lost \ {work[p].tx} /\ work[p].pc # "idle"
        /\ UNCHANGED <<landed, open, signatures, rec, stored, slot, settled, fin>>
    BY <1>2 DEF P!NotVisible, P!NoBlock, P!feed, P!row
  <2>2. pumpFaults' \in 0..PumpFaults
    BY <1>2, FaultStep DEF P!NotVisible, P!NoBlock
  <2>3. work' \in [P!Procs -> WorkType] /\ \A q \in P!Procs : AtWork(work'[q], landed', stored')
    BY <2>1, DoneStep
  <2>4. deferred' \subseteq 1..landed
    BY <1>1, <2>1 DEF AtWork
  <2>5. PTypes'
    BY <2>1, <2>2, <2>3, <2>4 DEF PInv, PTypes
  <2>6. QED
    BY <2>1, <2>3, <2>5 DEF PInv, P!CheckpointHasData, WriteHasData
<1>3. CASE P!FetchFails(p) \/ P!NotReadable(p) \/ P!NoEvents(p)
  <2>1. P!Done(p) /\ UNCHANGED <<landed, open, signatures, deferred, rec, stored, slot, settled, fin, lost>>
    BY <1>3 DEF P!FetchFails, P!NotReadable, P!NoEvents, P!feed, P!row
  <2>2. pumpFaults' \in 0..PumpFaults
    BY <1>1, <1>3, FaultStep DEF P!FetchFails, P!NotReadable, P!NoEvents
  <2>3. work' \in [P!Procs -> WorkType] /\ \A q \in P!Procs : AtWork(work'[q], landed', stored')
    BY <2>1, DoneStep
  <2>4. PTypes'
    BY <2>1, <2>2, <2>3 DEF PInv, PTypes
  <2>5. QED
    BY <2>1, <2>3, <2>4 DEF PInv, P!CheckpointHasData, WriteHasData
<1>4. CASE P!Throws(p)
  <2>1. /\ P!Done(p) /\ lost' = lost \cup {work[p].tx} /\ work[p].pc # "idle"
        /\ rec' = (IF p = Sweep THEN P!NoSweep ELSE rec) /\ UNCHANGED <<landed, open, signatures, deferred, stored, slot, settled, fin>>
    BY <1>4 DEF P!Throws, P!feed, P!row
  <2>2. pumpFaults' \in 0..PumpFaults
    BY <1>4, FaultStep DEF P!Throws
  <2>3. work' \in [P!Procs -> WorkType] /\ \A q \in P!Procs : AtWork(work'[q], landed', stored')
    BY <2>1, DoneStep
  <2>4. lost' \subseteq P!Tx
    BY <1>1, <2>1 DEF AtWork, PInv, PTypes
  <2>5. rec' \in RecType /\ rec'.todo \subseteq 1..landed
    <3>1. P!NoSweep \in RecType /\ P!NoSweep.todo = {}
      <4>1. {} \in SUBSET P!Tx
        OBVIOUS
      <4>2. QED
        BY <4>1, FreshSweeps
    <3>2. QED
      BY <2>1, <3>1 DEF PInv, PTypes
  <2>6. PTypes'
    BY <2>1, <2>2, <2>3, <2>4, <2>5 DEF PInv, PTypes
  <2>7. QED
    BY <2>1, <2>3, <2>6 DEF PInv, P!CheckpointHasData, WriteHasData
<1>5. CASE P!Fetched(p)
  <2>1. /\ P!Goes(p, "persist") /\ deferred' = deferred \ {work[p].tx} /\ work[p].pc = "fetch"
        /\ UNCHANGED <<landed, open, signatures, rec, stored, slot, settled, fin, lost, pumpFaults>>
    BY <1>5 DEF P!Fetched, P!feed, P!row
  <2>2. work' \in [P!Procs -> WorkType] /\ \A q \in P!Procs : AtWork(work'[q], landed', stored')
    BY <2>1, GoesStep
  <2>3. PTypes'
    BY <2>1, <2>2 DEF PInv, PTypes
  <2>4. QED
    BY <2>1, <2>2, <2>3 DEF PInv, P!CheckpointHasData, WriteHasData
<1>6. CASE P!Persist(p)
  <2>1. /\ P!Goes(p, "checkpoint") /\ stored' = stored \cup {work[p].tx} /\ work[p].pc = "persist"
        /\ UNCHANGED <<landed, open, signatures, deferred, rec, slot, settled, fin, lost, pumpFaults>>
    BY <1>6 DEF P!Persist, P!feed, P!row
  <2>2. work' \in [P!Procs -> WorkType] /\ \A q \in P!Procs : AtWork(work'[q], landed', stored')
    BY <2>1, GoesStep
  <2>3. stored' \subseteq 1..landed
    BY <1>1, <2>1 DEF AtWork, PInv, PTypes
  <2>4. PTypes'
    BY <2>1, <2>2, <2>3 DEF PInv, PTypes
  <2>5. QED
    BY <2>1, <2>2, <2>4 DEF PInv, P!CheckpointHasData, WriteHasData
<1>7. CASE P!Compare(p)
  <2>1. work[p].pc = "checkpoint" /\ UNCHANGED <<landed, open, signatures, deferred, rec, stored, slot, settled, fin, lost, pumpFaults>>
        /\ (P!Done(p) \/ P!Goes(p, "advance"))
    BY <1>7 DEF P!Compare, P!feed, P!row
  <2>2. work[p].tx \in stored
    BY <1>1, <2>1 DEF AtWork
  <2>3. work' \in [P!Procs -> WorkType] /\ \A q \in P!Procs : AtWork(work'[q], landed', stored')
    BY <2>1, <2>2, DoneStep, GoesStep
  <2>4. PTypes'
    BY <2>1, <2>3 DEF PInv, PTypes
  <2>5. QED
    BY <2>1, <2>3, <2>4 DEF PInv, P!CheckpointHasData, WriteHasData
<1>8. CASE P!Advance(p)
  <2>1. /\ work[p].pc = "advance" /\ P!Done(p) /\ slot' = P!SlotOf(work[p].tx)
        /\ UNCHANGED <<landed, open, signatures, deferred, rec, stored, settled, fin, lost, pumpFaults>>
    BY <1>8 DEF P!Advance, P!feed, P!row
  <2>2. work[p].tx \in stored /\ work[p].tx \in 1..Txs
    BY <1>1, <2>1 DEF AtWork, P!Tx
  <2>3. work' \in [P!Procs -> WorkType] /\ \A q \in P!Procs : AtWork(work'[q], landed', stored')
    BY <2>1, DoneStep
  <2>4. slot' \in 0..P!SlotOf(Txs)
    BY <2>1, <2>2, SlotsAreInOrder
  <2>5. PTypes'
    BY <2>1, <2>3, <2>4 DEF PInv, PTypes
  <2>6. P!CheckpointHasData'
    <3>1. work[p].tx \in stored' /\ P!SlotOf(work[p].tx)' = P!SlotOf(work[p].tx)'
      BY <2>1, <2>2
    <3>2. QED
      BY <2>1, <2>2 DEF P!CheckpointHasData, P!SlotOf
  <2>7. WriteHasData'
    BY <2>1 DEF PInv, WriteHasData
  <2>8. QED
    BY <2>3, <2>5, <2>6, <2>7 DEF PInv
<1>9. QED
  BY <1>2, <1>3, <1>4, <1>5, <1>6, <1>7, <1>8 DEF P!Progress, P!Mishap

LEMMA SweepKeeps ==
  ASSUME P!ConstantsOK, PInv, P!SweepDue \/ P!SweepTakes \/ P!ReadFloor \/ P!Walk \/ P!SweepEnds \/ P!WalkFails
  PROVE  PInv'
<1>1. /\ landed \in 0..Txs /\ rec \in RecType /\ rec.todo \subseteq 1..landed /\ slot \in 0..P!SlotOf(Txs)
      /\ 1..landed \subseteq P!Tx /\ P!Walked \subseteq 1..landed
  BY DEF PInv, PTypes, P!Tx, P!ConstantsOK, P!Walked
<1>2. P!NoSweep \in RecType /\ P!NoSweep.todo = {}
  <2>1. {} \in SUBSET P!Tx
    OBVIOUS
  <2>2. QED
    BY <2>1, FreshSweeps
<1>3. ASSUME rec' \in RecType, rec'.todo \subseteq 1..landed, pumpFaults' \in 0..PumpFaults,
             UNCHANGED <<landed, open, signatures, work, deferred, stored, slot, settled, fin, lost>>
      PROVE  PInv'
  BY <1>3 DEF PInv, PTypes, AtWork, P!CheckpointHasData, WriteHasData
<1>4. CASE P!SweepDue
  <2>1. rec' = P!Begin /\ UNCHANGED <<landed, open, signatures, work, deferred, stored, slot, settled, fin, lost, pumpFaults>>
    BY <1>4 DEF P!SweepDue, P!feed, P!row
  <2>2. QED
    BY <1>3, <2>1, BeginStep DEF PInv, PTypes
<1>5. CASE P!SweepEnds
  <2>1. rec' = P!NoSweep /\ UNCHANGED <<landed, open, signatures, work, deferred, stored, slot, settled, fin, lost, pumpFaults>>
    BY <1>5 DEF P!SweepEnds, P!feed, P!row
  <2>2. QED
    BY <1>2, <1>3, <2>1 DEF PInv, PTypes
<1>6. CASE P!ReadFloor
  <2>1. UNCHANGED <<landed, open, signatures, work, deferred, stored, slot, settled, fin, lost, pumpFaults>>
        /\ (rec' = P!NoSweep \/ rec' = [rec EXCEPT !.pc = "walk", !.floor = slot])
    BY <1>6 DEF P!ReadFloor, P!feed, P!row
  <2>2. rec' \in RecType /\ rec'.todo \subseteq 1..landed
    <3> DEFINE q == [rec EXCEPT !.pc = "walk"]
               r == [rec EXCEPT !.pc = "walk", !.floor = slot]
    <3>1. q \in RecType /\ q.todo = rec.todo
      BY <1>1 DEF RecType
    <3>2. r = [q EXCEPT !.floor = slot]
      OBVIOUS
    <3>3. rec' = P!NoSweep \/ rec' = r
      BY <2>1
    <3> HIDE DEF q, r
    <3>4. r \in RecType /\ r.todo = rec.todo
      BY <1>1, <3>1, <3>2 DEF RecType
    <3>5. QED
      BY <1>1, <1>2, <3>3, <3>4
  <2>3. QED
    BY <1>3, <2>1, <2>2 DEF PInv, PTypes
<1>7. CASE P!Walk \/ P!WalkFails
  <2>1. PICK todo \in SUBSET (1..landed) : rec' = [rec EXCEPT !.pc = "walked", !.todo = todo]
    <3>1. CASE P!Walk
      BY <1>1, <1>7, <3>1 DEF P!Walk
    <3>2. CASE P!WalkFails
      <4>1. PICK first \in 1..landed : rec' = [rec EXCEPT !.pc = "walked", !.todo = {t \in P!Walked : t >= first}]
        BY <3>2 DEF P!WalkFails
      <4>2. {t \in P!Walked : t >= first} \in SUBSET (1..landed)
        BY <1>1
      <4>3. QED
        BY <4>1, <4>2
    <3>3. QED
      BY <1>7, <3>1, <3>2
  <2>2. UNCHANGED <<landed, open, signatures, work, deferred, stored, slot, settled, fin, lost>>
    BY <1>7 DEF P!Walk, P!WalkFails, P!feed, P!row
  <2>3. pumpFaults' \in 0..PumpFaults
    BY <1>7, FaultStep DEF P!Walk, P!WalkFails, PInv, PTypes
  <2>4. rec' \in RecType /\ rec'.todo \subseteq 1..landed
    <3> DEFINE q == [rec EXCEPT !.pc = "walked"]
    <3>1. q \in RecType
      BY <1>1 DEF RecType
    <3>2. rec' = [q EXCEPT !.todo = todo]
      BY <2>1
    <3> HIDE DEF q
    <3>3. QED
      BY <1>1, <3>1, <3>2 DEF RecType
  <2>5. QED
    BY <1>3, <2>2, <2>3, <2>4
<1>8. CASE P!SweepTakes
  <2>1. PICK t \in P!NextOf(rec.todo) :
          /\ work' = [work EXCEPT ![Sweep] = [pc |-> "fetch", tx |-> t]] /\ rec' = [rec EXCEPT !.todo = rec.todo \ {t}]
          /\ UNCHANGED <<landed, open, signatures, deferred, stored, slot, settled, fin, lost, pumpFaults>>
    BY <1>8 DEF P!SweepTakes, P!feed, P!row
  <2>2. t \in rec.todo /\ t \in 1..landed
    BY <1>1 DEF P!NextOf
  <2>3. rec' \in RecType /\ rec'.todo \subseteq 1..landed
    BY <1>1, <2>1 DEF RecType
  <2> DEFINE w == [pc |-> "fetch", tx |-> t]
  <2>4. w \in WorkType /\ AtWork(w, landed', stored') /\ work' = [work EXCEPT ![Sweep] = w]
    <3>1. t \in 0..Txs /\ landed' = landed
      BY <1>1, <2>1, <2>2 DEF P!ConstantsOK
    <3>2. w \in WorkType
      BY <3>1 DEF WorkType
    <3>3. AtWork(w, landed', stored')
      BY <2>2, <3>1 DEF AtWork
    <3>4. QED
      BY <2>1, <3>2, <3>3
  <2> HIDE DEF w
  <2>5. work' \in [P!Procs -> WorkType] /\ \A q \in P!Procs : AtWork(work'[q], landed', stored')
    BY <2>1, <2>4, WorkStep DEF P!Procs
  <2>6. PTypes'
    BY <2>1, <2>3, <2>5 DEF PInv, PTypes
  <2>7. QED
    BY <2>1, <2>5, <2>6 DEF PInv, P!CheckpointHasData, WriteHasData
<1>9. QED
  BY <1>4, <1>5, <1>6, <1>7, <1>8

\* The finality reconciler writes back the height of the row it read.
LEMMA FinalityKeeps ==
  ASSUME P!ConstantsOK, PInv, P!ReadRow \/ P!WriteRow
  PROVE  PInv'
<1>1. CASE P!ReadRow
  <2>1. PICK t \in stored : fin' = [height |-> slot, slot |-> P!SlotOf(t)]
    BY <1>1 DEF P!ReadRow
  <2>2. UNCHANGED <<landed, open, signatures, work, deferred, rec, stored, slot, settled, lost, pumpFaults>>
    BY <1>1 DEF P!ReadRow, P!feed, P!memory, P!row
  <2>3. t \in 1..Txs /\ slot \in 0..P!SlotOf(Txs)
    BY DEF PInv, PTypes, P!ConstantsOK
  <2>4. fin' \in FinType /\ fin'.height = slot
    BY <2>1, <2>3, SlotsAreInOrder DEF FinType
  <2>5. PTypes'
    BY <2>2, <2>4 DEF PInv, PTypes
  <2>6. QED
    BY <2>2, <2>4, <2>5 DEF PInv, P!CheckpointHasData, WriteHasData
<1>2. CASE P!WriteRow
  <2>1. /\ slot' = fin.height /\ settled' = fin.slot /\ fin' = P!NoWrite
        /\ UNCHANGED <<landed, open, signatures, work, deferred, rec, stored, lost, pumpFaults>>
    BY <1>2 DEF P!WriteRow, P!feed, P!memory
  <2>2. slot' \in 0..P!SlotOf(Txs) /\ settled' \in 0..P!SlotOf(Txs) /\ fin' \in FinType /\ fin'.height = 0
    <3>1. fin.height \in 0..P!SlotOf(Txs) /\ fin.slot \in 0..P!SlotOf(Txs)
      BY DEF PInv, PTypes, FinType
    <3>2. QED
      BY <2>1, <3>1, NothingToWrite
  <2>3. PTypes'
    BY <2>1, <2>2 DEF PInv, PTypes
  <2>4. QED
    BY <2>1, <2>2, <2>3 DEF PInv, P!CheckpointHasData, WriteHasData
<1>3. QED
  BY <1>1, <1>2

LEMMA PumpStep == ASSUME P!ConstantsOK, PInv, P!Next PROVE PInv'
<1>1. Sweep \in P!Procs /\ Workers \subseteq P!Procs
  BY DEF P!Procs
<1>2. QED
  BY <1>1, LiveKeeps, ProcessKeeps, SweepKeeps, FinalityKeeps DEF P!Next, P!SweepStep

LEMMA PumpProperties == ASSUME P!ConstantsOK, PInv PROVE P!TypeOK
<1>1. 1..landed \subseteq P!Tx /\ signatures \in Seq(P!Tx)
  <2>1. landed \in 0..Txs /\ signatures \in Seq(1..landed)
    BY DEF PInv, PTypes
  <2>2. 1..landed \subseteq P!Tx
    BY <2>1 DEF P!Tx, P!ConstantsOK
  <2>3. QED
    BY <2>1, <2>2
<1>2. QED
  BY <1>1 DEF PInv, PTypes, WorkType, RecType, FinType, P!TypeOK, P!Tx

-----------------------------------------------------------------------------
(* The run: one of the three moves, and the others keep what they have. *)

FeedsInv == SInv /\ GInv /\ PInv

LEMMA FeedsKeep ==
  ASSUME ConstantsOK, G!ConstantsOK, P!ConstantsOK, FeedsInv, [FeedsNext]_all
  PROVE  FeedsInv'
<1>1. UNCHANGED vars => SInv'
  <2> HAVE UNCHANGED vars
  <2>1. UNCHANGED <<head, checkpoint, seen, observing, observed, failed, since, early, sock, socket, flow, armed,
                    stopped, state, gaveUp, faults>>
    BY DEF vars, events, status
  <2>2. STypes'
    BY <2>1 DEF FeedsInv, SInv, STypes, EventTypes, SocketTypes, FlowTypes, CountTypes
  <2>3. QED
    BY <2>1, <2>2, NoEvents DEF FeedsInv, events
<1>2. UNCHANGED gateway => GInv'
  <2> HAVE UNCHANGED gateway
  <2>1. UNCHANGED <<conn, queue, handlers, bus, losses>>
    BY DEF gateway
  <2>2. GTypes'
    BY <2>1 DEF FeedsInv, GInv, GTypes
  <2>3. \A c \in Connections : Orderly(c)'
    BY <2>1, Untouched DEF FeedsInv, GInv, Served
  <2>4. QED
    BY <2>2, <2>3 DEF GInv
<1>3. UNCHANGED pump => PInv'
  <2> HAVE UNCHANGED pump
  <2>1. UNCHANGED <<landed, open, signatures, work, deferred, stored, slot, settled, fin, rec, lost, pumpFaults>>
    BY DEF pump
  <2>2. PTypes'
    BY <2>1 DEF FeedsInv, PInv, PTypes
  <2>3. QED
    BY <2>1, <2>2 DEF FeedsInv, PInv, AtWork, P!CheckpointHasData, WriteHasData
<1>4. CASE Blockfeed(Next)
  BY <1>2, <1>3, <1>4, FeedStep DEF FeedsInv, Blockfeed
<1>5. CASE Gateway(G!Next)
  BY <1>1, <1>3, <1>5, GatewayStep DEF FeedsInv, Gateway
<1>6. CASE Pump(P!Next)
  BY <1>1, <1>2, <1>6, PumpStep DEF FeedsInv, Pump
<1>7. CASE UNCHANGED all
  BY <1>1, <1>2, <1>3, <1>7 DEF FeedsInv, all
<1>8. QED
  BY <1>4, <1>5, <1>6, <1>7 DEF FeedsNext

LEMMA FeedsBegin == ConstantsOK /\ G!ConstantsOK /\ P!ConstantsOK /\ FeedsInit => FeedsInv
BY FeedInit, GatewayInit, PumpInit DEF FeedsInit, FeedsInv

LEMMA FeedsInvariant == FeedsSpec => []FeedsInv
<1>1. ConstantsOK /\ G!ConstantsOK /\ P!ConstantsOK
  BY FeedsConstants
<1>2. FeedsInit => FeedsInv
  BY <1>1, FeedsBegin
<1>3. FeedsInv /\ [FeedsNext]_all => FeedsInv'
  BY <1>1, FeedsKeep
<1>4. QED
  BY <1>2, <1>3, PTL DEF FeedsSpec

\* However connections come and go, and whatever the deduplicator forgets, the block checkpoint
\* passes no block that was not handed out (connectWithFailover's replay before saveCheckpoint).
THEOREM CheckpointIsBackedByEvents == FeedsSpec => []NothingSkipped
<1>1. FeedsInv => NothingSkipped
  BY DEF FeedsInv, SInv
<1>2. QED
  BY <1>1, FeedsInvariant, PTL

\* Whoever crashes, and whoever of the workers and the sweep writes it last, the pump.fun
\* checkpoint is the slot of a transaction whose facts are stored (advanceCheckpoint).
THEOREM SlotIsBackedByFacts == FeedsSpec => []P!CheckpointHasData
<1>1. FeedsInv => P!CheckpointHasData
  BY DEF FeedsInv, PInv
<1>2. QED
  BY <1>1, FeedsInvariant, PTL

\* Replay and frames overlap, sockets that were left open deliver on, and yet no event is handed
\* out again before as many others were as EventDeduplicator holds.  (Then it may be: a replay
\* from an old checkpoint hands out again what has left the window.)
THEOREM EventsComeOnce == FeedsSpec => []NothingRepeatedEarly
<1>1. ConstantsOK
  BY FeedsConstants
<1>2. FeedsInit => NothingForgotten
  <2> SUFFICES ASSUME FeedsInit PROVE NothingForgotten
    OBVIOUS
  <2>1. since = [b \in Blocks |-> DedupeWindow] /\ early = FALSE
    BY Zenon DEF FeedsInit, Init
  <2>2. Remembers
    BY <1>1, <2>1 DEF Remembers, ConstantsOK
  <2>3. QED
    BY <2>1, <2>2, Zenon DEF NothingForgotten, NothingRepeatedEarly
<1>3. FeedsInv /\ NothingForgotten /\ [FeedsNext]_all => NothingForgotten'
  <2> SUFFICES ASSUME FeedsInv, NothingForgotten, [FeedsNext]_all PROVE NothingForgotten'
    OBVIOUS
  <2>1. CASE Next
    BY <1>1, <2>1, ForgetsNothingStep DEF FeedsInv
  <2>2. CASE UNCHANGED vars
    BY <2>2 DEF vars, events, NothingForgotten, Remembers, NothingRepeatedEarly
  <2>3. QED
    BY <2>1, <2>2 DEF FeedsNext, Blockfeed, Gateway, Pump, all
<1>4. NothingForgotten => NothingRepeatedEarly
  BY DEF NothingForgotten
<1>5. QED
  BY <1>2, <1>3, <1>4, FeedsInvariant, PTL DEF FeedsSpec

\* Whatever closes, falls silent or goes off late, what was stopped begins no reconnection.
THEOREM StoppedStaysStopped == FeedsSpec => StopIsKept
<1>1. ASSUME FeedsInv, Next, stopped, flow["reconnect"].pc = "idle"
      PROVE  flow'["reconnect"].pc = "idle"
  <2>1. FlowTypes /\ "reconnect" \in Flows /\ "start" \in Flows
    BY <1>1 DEF FeedsInv, SInv, STypes, Flows
  <2>2. CASE Start
    BY <1>1, <2>1, <2>2 DEF Start, Begin, FlowTypes
  <2>3. CASE Stall \/ (\E s \in Sockets : Drop(s))
    BY <1>1, <2>3 DEF Stall, Drop, Reconnect
  <2>4. CASE Stop \/ Mine \/ (\E b \in Blocks : Observe(b)) \/ (\E s \in Sockets : Frame(s) \/ FallSilent(s))
    BY <1>1, <2>4 DEF Stop, Mine, Observe, Frame, FallSilent
  <2>5. ASSUME NEW f \in Flows, Continue(f) \/ ConnectFails(f) \/ BackfillFails(f)
        PROVE  flow'["reconnect"].pc = "idle"
    <3>1. f # "reconnect"
      BY <1>1, <2>5 DEF Continue, Try, ConnectFails, Connects, Backfill, Replay, Replayed, Save, BackfillFails
    <3>2. PICK r : flow' = [flow EXCEPT ![f] = r]
      BY <2>5, Zenon DEF Continue, Try, ConnectFails, Connects, Backfill, Replay, Replayed, Save, BackfillFails,
                         AttemptFails, Proceed
    <3>3. QED
      BY <1>1, <2>1, <3>1, <3>2 DEF FlowTypes
  <2>6. QED
    BY <1>1, <2>2, <2>3, <2>4, <2>5 DEF Next
<1>2. FeedsInv /\ [FeedsNext]_all
        => [stopped /\ flow["reconnect"].pc = "idle" => flow'["reconnect"].pc = "idle"]_vars
  BY <1>1 DEF FeedsNext, Blockfeed, Gateway, Pump, all
<1>3. QED
  BY <1>2, FeedsInvariant, PTL DEF FeedsSpec, StopIsKept

\* The three of them, as the run checks them, with the types of the two feeds.
THEOREM FeedsLoseNothing == FeedsSpec => []NothingIsLost
<1>1. FeedsInv => TypeOK /\ P!TypeOK
  BY FeedsConstants, FeedProperties, PumpProperties DEF FeedsInv
<1>2. TypeOK /\ P!TypeOK /\ NothingSkipped /\ NothingRepeatedEarly /\ P!CheckpointHasData => NothingIsLost
  BY DEF NothingIsLost
<1>3. QED
  BY <1>1, <1>2, FeedsInvariant, CheckpointIsBackedByEvents, SlotIsBackedByFacts, EventsComeOnce, PTL

\* Whatever closes while a subscription is being made: every handler on the bus is one of an
\* open connection that subscribed, or of a frame that will see to it, and every subscription of
\* a bus that is not closed has its handler (handleSubscribe, cleanupConnection, the heartbeat).
THEOREM GatewayServesItsSubscribers == FeedsSpec => []SubscribersAreServed
<1>1. FeedsInv => SubscribersAreServed
  BY GatewayProperties DEF FeedsInv, SubscribersAreServed
<1>2. QED
  BY <1>1, FeedsInvariant, PTL

-----------------------------------------------------------------------------
(* What the three must keep so that they can recover: no step leaves a feed with nothing that *)
(* will take it up again.                                                                     *)

\* blockSubscription: what a stall, a close or a failed attempt must leave behind.
SubscriptionIsWatched == stopped \/ gaveUp \/ armed \/ \E f \in Flows : flow[f].pc # "idle"

\* stallHandle and connectWithFailover: whatever closes, falls silent or fails, a subscription that
\* was not stopped and did not give up has a connection under way or a timer that begins one.
THEOREM SubscriptionIsTakenUp == FeedsSpec => []SubscriptionIsWatched
<1>1. FeedsInit => SubscriptionIsWatched
  <2> SUFFICES ASSUME FeedsInit PROVE flow["start"].pc # "idle" /\ "start" \in Flows
    BY DEF SubscriptionIsWatched
  <2>1. [IdleFlow EXCEPT !.pc = "new"].pc = "new"
    BY FlowRecords, FeedsConstants
  <2> DEFINE new == [IdleFlow EXCEPT !.pc = "new"]
             idle == [IdleFlow EXCEPT !.pc = "idle"]
  <2>2. flow = [f \in Flows |-> IF f = "start" THEN new ELSE idle] /\ new.pc = "new" /\ "start" \in Flows
    BY <2>1 DEF FeedsInit, Init, Flows
  <2> HIDE DEF new, idle
  <2> QED
    BY <2>2
<1>2. ASSUME FeedsInv, SubscriptionIsWatched, Next PROVE SubscriptionIsWatched'
  <2>1. FlowTypes /\ ConstantsOK /\ "start" \in Flows /\ "reconnect" \in Flows
    BY <1>2, FeedsConstants DEF FeedsInv, SInv, STypes, Flows
  <2>2. CASE Mine \/ (\E b \in Blocks : Observe(b)) \/ (\E s \in Sockets : FallSilent(s))
    BY <1>2, <2>2 DEF Mine, Observe, FallSilent, status, SubscriptionIsWatched
  <2>3. CASE Stop \/ \E s \in Sockets : Frame(s)
    BY <2>3 DEF Stop, Frame, SubscriptionIsWatched
  <2>4. CASE Start
    <3>1. PICK r \in Begun : flow' = [flow EXCEPT !["start"] = r]
      BY <2>4 DEF Start, Begin
    <3>2. flow'["start"].pc = "try"
      BY <2>1, <3>1, BegunFlows DEF FlowTypes
    <3> QED
      BY <2>1, <3>2 DEF SubscriptionIsWatched
  <2>5. ASSUME NEW socks, Reconnect(socks), UNCHANGED stopped
        PROVE  stopped' \/ flow'["reconnect"].pc # "idle"
    <3>1. CASE stopped \/ flow["reconnect"].pc # "idle"
      BY <2>5, <3>1 DEF Reconnect
    <3>2. CASE ~(stopped \/ flow["reconnect"].pc # "idle")
      <4>1. PICK r \in Begun : flow' = [flow EXCEPT !["reconnect"] = r]
        BY <2>5, <3>2 DEF Reconnect, Begin
      <4> QED
        BY <2>1, <4>1, BegunFlows DEF FlowTypes
    <3> QED
      BY <3>1, <3>2
  <2>6. CASE Stall \/ \E s \in Sockets : Drop(s)
    BY <2>1, <2>5, <2>6 DEF Stall, Drop, SubscriptionIsWatched
  <2>7. ASSUME NEW f \in Flows, Continue(f) \/ ConnectFails(f) \/ BackfillFails(f)
        PROVE  SubscriptionIsWatched'
    <3>1. CASE AttemptFails(f) /\ UNCHANGED stopped
      <4>1. PICK left, a : \/ gaveUp' = TRUE
                           \/ flow' = [flow EXCEPT ![f] = [IdleFlow EXCEPT !.pc = "try", !.left = left, !.attempt = a]]
        BY <3>1, Zenon DEF AttemptFails, Proceed
      <4>2. [IdleFlow EXCEPT !.pc = "try", !.left = left, !.attempt = a].pc = "try"
        BY DEF IdleFlow
      <4> QED
        BY <2>1, <4>1, <4>2 DEF FlowTypes, SubscriptionIsWatched
    <3>2. CASE Try(f)
      <4>1. stopped \/ flow' = [flow EXCEPT ![f] = [flow[f] EXCEPT !.pc = "connect"]]
        BY <3>2 DEF Try, Proceed
      <4>2. [flow[f] EXCEPT !.pc = "connect"].pc = "connect"
        BY <2>1 DEF FlowTypes, FlowType
      <4> QED
        BY <2>1, <3>2, <4>1, <4>2 DEF FlowTypes, Try, status, SubscriptionIsWatched
    <3>3. CASE Connects(f) \/ Backfill(f) \/ Replay(f) \/ (Replayed(f) /\ flow[f].now \notin failed)
      <4>0. flow[f] \in FlowType /\ flow[f].pc # "idle"
        BY <2>1, <3>3 DEF FlowTypes, Connects, Backfill, Replay, Replayed
      <4>1. ASSUME NEW q \in FlowType, NEW todo, NEW to, NEW now
            PROVE  /\ [q EXCEPT !.pc = "load"].pc = "load"
                   /\ [q EXCEPT !.pc = "replay", !.todo = todo, !.to = to].pc = "replay"
                   /\ [q EXCEPT !.todo = todo, !.now = now].pc = q.pc
                   /\ [q EXCEPT !.now = now].pc = q.pc
        BY DEF FlowType
      <4>2. ASSUME NEW r, Proceed(f, r), r.pc # "idle"
            PROVE  flow'[f].pc # "idle"
        BY <2>1, <4>2 DEF Proceed, FlowTypes
      <4>3. Connects(f) => Proceed(f, [flow[f] EXCEPT !.pc = "load"])
        BY DEF Connects
      <4>4. Backfill(f) => Proceed(f, [flow[f] EXCEPT !.pc = "replay", !.todo = {b \in Blocks : checkpoint <= b /\ b <= head},
                                                      !.to = head])
        BY DEF Backfill
      <4>5. Replay(f) => Proceed(f, [flow[f] EXCEPT !.todo = @ \ {Least(flow[f].todo)},
                                       !.now = IF Least(flow[f].todo) \in ToSet(seen) THEN NoEvent ELSE Least(flow[f].todo)])
        BY DEF Replay
      <4>6. Replayed(f) /\ flow[f].now \notin failed => Proceed(f, [flow[f] EXCEPT !.now = NoEvent])
        BY DEF Replayed
      <4>7. Connects(f) => flow'[f].pc # "idle"
        BY <4>0, <4>1, <4>2, <4>3
      <4>8. Backfill(f) => flow'[f].pc # "idle"
        BY <4>0, <4>1, <4>2, <4>4
      <4>9. ASSUME NEW todo, NEW now, Proceed(f, [flow[f] EXCEPT !.todo = todo, !.now = now])
            PROVE  flow'[f].pc # "idle"
        <5>1. [flow[f] EXCEPT !.todo = todo, !.now = now].pc = flow[f].pc
          BY <4>0, <4>1
        <5> QED BY <4>0, <4>2, <4>9, <5>1
      <4>10. [flow[f] EXCEPT !.now = NoEvent].pc # "idle"
        BY <4>0, <4>1
      <4> QED
        BY <3>3, <4>2, <4>5, <4>6, <4>7, <4>8, <4>9, <4>10 DEF SubscriptionIsWatched
    <3>4. CASE Save(f)
      BY <3>4 DEF Save, SubscriptionIsWatched
    <3> QED
      BY <2>7, <3>1, <3>2, <3>3, <3>4 DEF Continue, Replayed, ConnectFails, BackfillFails
  <2> QED
    BY <1>2, <2>2, <2>3, <2>4, <2>6, <2>7 DEF Next
<1>3. SubscriptionIsWatched /\ UNCHANGED vars => SubscriptionIsWatched'
  BY DEF SubscriptionIsWatched, vars, status
<1>4. FeedsInv /\ SubscriptionIsWatched /\ [FeedsNext]_all => SubscriptionIsWatched'
  BY <1>2, <1>3 DEF FeedsNext, Blockfeed, Gateway, Pump, all
<1> QED
  BY <1>1, <1>4, FeedsInvariant, PTL DEF FeedsSpec

\* notifyBus: what the loss of the LISTEN connection must leave behind.
BusIsWatched == bus.started /\ bus.listener # "up" => bus.opening \/ bus.timer \/ bus.listener = "dead"

\* A bus that is closed is not started again, so what is still opening then is nobody's.
Watched(b) ==
  /\ b.started /\ b.listener # "up" => b.opening \/ b.timer \/ b.listener = "dead"
  /\ b.closed => ~b.started

LEMMA BusStaysWatched ==
  ASSUME bus \in BusType, Watched(bus), G!BusStep \/ G!OpenFails \/ G!ListenerLost \/ G!BusClose
  PROVE  Watched(bus')
<1>1. CASE G!Opened
  BY <1>1 DEF G!Opened, BusType, Watched
<1>2. ASSUME NEW b \in BusType, b.closed => ~b.started PROVE Watched(G!ScheduleReconnect(b)) 
  BY <1>2 DEF G!ScheduleReconnect, BusType, Watched
<1>3. CASE G!ListenerError
  BY <1>2, <1>3 DEF G!ListenerError, Watched
<1>4. CASE G!ReconnectDue
  <2>1. /\ bus'.started = bus.started /\ bus'.closed = bus.closed /\ bus'.listener = bus.listener
        /\ bus'.opening <=> ~bus.closed
    BY <1>4 DEF G!ReconnectDue, BusType
  <2> QED
    BY <2>1 DEF Watched
<1>5. CASE G!OpenFails
  <2> DEFINE b == [bus EXCEPT !.opening = FALSE, !.listener = "none"]
  <2>1. b \in BusType /\ b.closed = bus.closed /\ b.started = bus.started
    BY DEF BusType
  <2>2. bus' = G!ScheduleReconnect(b)
    BY <1>5 DEF G!OpenFails
  <2> HIDE DEF b
  <2> QED
    BY <1>2, <2>1, <2>2 DEF Watched
<1>6. CASE G!ListenerLost
  BY <1>6 DEF G!ListenerLost, BusType, Watched
<1>7. CASE G!BusClose
  BY <1>7 DEF G!BusClose, BusType, Watched
<1> QED
  BY <1>1, <1>3, <1>4, <1>5, <1>6, <1>7 DEF G!BusStep

\* scheduleReconnect: a bus that was started listens, is opening a connection, will try again, or is
\* about to hear that its connection is lost; closing one that is still opening changes nothing.
THEOREM BusIsTakenUp == FeedsSpec => []BusIsWatched
<1>1. FeedsInit => Watched(bus)
  BY DEF FeedsInit, G!Init, Watched
<1>2. ASSUME GInv, Watched(bus), G!Next PROVE Watched(bus)'
  <2>0. bus \in BusType
    BY <1>2 DEF GInv, GTypes
  <2>1. CASE G!BusStep \/ G!OpenFails \/ G!ListenerLost \/ G!BusClose
    BY <1>2, <2>0, <2>1, BusStaysWatched
  <2>2. CASE G!Heartbeat
    BY <1>2, <2>2 DEF G!Heartbeat
  <2>3. ASSUME NEW c \in Connections, G!Connect(c) \/ G!Disconnect(c) \/ G!CloseEvent(c) \/ G!PeerLost(c) \/ G!Pong(c)
        PROVE  bus' = bus
    BY <2>3 DEF G!Connect, G!Disconnect, G!CloseEvent, G!PeerLost, G!Pong
  <2>4. ASSUME NEW c \in Connections, NEW kind, NEW key, G!Receive(c, kind, key)
        PROVE  bus' = bus
    BY <2>4 DEF G!Receive
  <2>5. ASSUME NEW c \in Connections, NEW i, G!Lookup(c, i)
        PROVE  Watched(bus')
    BY <1>2, <2>0, <2>5 DEF G!Lookup, G!EnsureListening, BusType, Watched
  <2>6. ASSUME NEW c \in Connections, NEW i,
               \/ G!Begin(c, i) \/ G!Refuse(c, i) \/ G!Awaited(c, i)
               \/ G!AddHandler(c, i) \/ G!Subscribed(c, i) \/ G!Unsubscribe(c, i)
        PROVE  bus' = bus
    BY <2>6 DEF G!Begin, G!Refuse, G!Awaited, G!AddHandler, G!Subscribed, G!Unsubscribe
  <2> QED
    BY <1>2, <2>1, <2>2, <2>3, <2>4, <2>5, <2>6 DEF G!Next, G!Work
<1>3. Watched(bus) /\ UNCHANGED gateway => Watched(bus)'
  BY DEF gateway
<1>4. FeedsInv /\ Watched(bus) /\ [FeedsNext]_all => Watched(bus)'
  BY <1>2, <1>3 DEF FeedsInv, FeedsNext, Blockfeed, Gateway, Pump, all
<1>5. Watched(bus) => BusIsWatched
  BY DEF Watched, BusIsWatched
<1> QED
  BY <1>1, <1>4, <1>5, FeedsInvariant, PTL DEF FeedsSpec

\* A signature that the ingester was told of and still answers for, or whose loss is on record.
Kept(t) ==
  t \in deferred \cup stored \cup lost \/ \E p \in P!Procs : work[p].pc = "persist" /\ work[p].tx = t

\* No step of workers, sweeps and restarts lets go of one that has events.
DeferredIsKept == [][\A t \in P!Tx \ Empty : Kept(t) => Kept(t)']_pump

\* processSignature, the sweeps and restarts: a signature the node could not resolve stays deferred
\* until its facts are being written, and is then stored or deferred again, unless a throw or a
\* restart forgets it, or it turns out to have no event.
THEOREM DeferredIsNotForgotten == FeedsSpec => DeferredIsKept
<1>1. ASSUME PInv, P!Next, NEW t, t \notin Empty, Kept(t) PROVE Kept(t)'
  <2>1. work \in [P!Procs -> WorkType] /\ Sweep \in P!Procs /\ Workers \subseteq P!Procs
    BY <1>1 DEF PInv, PTypes, P!Procs
  <2>2. CASE P!Land \/ P!Connect \/ P!Close \/ P!SweepDue \/ P!ReadFloor \/ P!Walk \/ P!WalkFails \/ P!SweepEnds
            \/ P!ReadRow \/ P!WriteRow
    BY <1>1, <2>2 DEF P!Land, P!Connect, P!Close, P!SweepDue, P!ReadFloor, P!Walk, P!WalkFails, P!SweepEnds,
                      P!ReadRow, P!WriteRow, P!memory, Kept
  <2>3. CASE P!Restart
    <3>1. ASSUME NEW p \in P!Procs, work[p].pc = "persist", work[p].tx = t
          PROVE  t \in {work[q].tx : q \in P!Procs} \ {0}
      BY <1>1, <3>1 DEF PInv, AtWork, PTypes
    <3> QED
      BY <1>1, <2>3, <3>1 DEF P!Restart, Kept
  <2>4. ASSUME NEW p \in P!Procs, NEW w, work' = [work EXCEPT ![p] = w]
        PROVE  work'[p] = w /\ \A q \in P!Procs \ {p} : work'[q] = work[q]
    BY <2>1, <2>4
  <2>5. CASE P!SweepTakes \/ \E w \in Workers : P!Take(w)
    <3>1. PICK p \in P!Procs : /\ work[p].pc = "idle" /\ \E w : work' = [work EXCEPT ![p] = w]
                               /\ UNCHANGED <<deferred, stored, lost>>
      BY <2>1, <2>5 DEF P!SweepTakes, P!Take
    <3> QED
      BY <1>1, <2>4, <3>1 DEF Kept
  <2>6. ASSUME NEW p \in P!Procs, P!Progress(p) \/ P!Mishap(p)
        PROVE  Kept(t)'
    <3>1. CASE P!Fetched(p)
      <4>1. work' = [work EXCEPT ![p].pc = "persist"] /\ deferred' = deferred \ {work[p].tx}
            /\ UNCHANGED <<stored, lost>> /\ work[p].pc = "fetch"
        BY <3>1 DEF P!Fetched, P!Goes
      <4>2. work'[p].pc = "persist" /\ work'[p].tx = work[p].tx /\ \A q \in P!Procs \ {p} : work'[q] = work[q]
        BY <2>1, <4>1 DEF WorkType
      <4> QED
        BY <1>1, <4>1, <4>2 DEF Kept
    <3>2. CASE P!NotVisible(p) \/ P!NoBlock(p)
      <4>1. /\ \A q \in P!Procs \ {p} : work'[q] = work[q]
            /\ deferred' = deferred \cup {work[p].tx} /\ lost' = lost \ {work[p].tx} /\ UNCHANGED stored
        BY <2>4, <3>2 DEF P!NotVisible, P!NoBlock, P!Done
      <4> QED
        BY <1>1, <4>1 DEF Kept
    <3>3. CASE P!Persist(p)
      <4>1. /\ \A q \in P!Procs \ {p} : work'[q] = work[q]
            /\ stored' = stored \cup {work[p].tx} /\ UNCHANGED <<deferred, lost>>
        BY <2>1, <3>3 DEF P!Persist, P!Goes
      <4> QED
        BY <1>1, <4>1 DEF Kept
    <3>4. CASE P!Throws(p)
      <4>1. /\ \A q \in P!Procs \ {p} : work'[q] = work[q]
            /\ lost' = lost \cup {work[p].tx} /\ UNCHANGED <<deferred, stored>>
        BY <2>4, <3>4 DEF P!Throws, P!Done
      <4> QED
        BY <1>1, <4>1 DEF Kept
    <3>5. CASE P!FetchFails(p) \/ P!NotReadable(p) \/ P!NoEvents(p) \/ P!Compare(p) \/ P!Advance(p)
      <4>1. /\ work[p].pc = "persist" => work[p].tx \in Empty
            /\ \A q \in P!Procs \ {p} : work'[q] = work[q]
            /\ UNCHANGED <<deferred, stored, lost>>
        BY <2>1, <3>5 DEF P!FetchFails, P!NotReadable, P!NoEvents, P!Compare, P!Advance, P!Done, P!Goes
      <4> QED
        BY <1>1, <4>1 DEF Kept
    <3> QED
      BY <2>6, <3>1, <3>2, <3>3, <3>4, <3>5 DEF P!Progress, P!Mishap
  <2> QED
    BY <1>1, <2>1, <2>2, <2>3, <2>5, <2>6 DEF P!Next, P!SweepStep
<1>2. FeedsInv /\ [FeedsNext]_all => [\A t \in P!Tx \ Empty : Kept(t) => Kept(t)']_pump
  BY <1>1 DEF FeedsNext, Blockfeed, Gateway, Pump, all, FeedsInv
<1> QED
  BY <1>2, FeedsInvariant, PTL DEF FeedsSpec, DeferredIsKept
=============================================================================
