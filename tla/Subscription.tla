------------------------------ MODULE Subscription ------------------------------
(***************************************************************************)
(* WsSubscriptionManager: a WebSocket subscription that replays the gap    *)
(* over HTTP on every connection.  A block stands for its one event, the   *)
(* payload of a frame for nothing.  The transport is injected: a socket    *)
(* reports the closes it was not asked for.                                *)
(***************************************************************************)
EXTENDS Integers, Sequences, SequencesExt

CONSTANTS
  WsEndpoints,         \* how many endpoints there are, in order of priority
  AttemptsPerEndpoint,
  DedupeWindow,
  Sockets,             \* bound: sockets open at a time
  MaxHead,             \* bound: blocks
  MaxFaults            \* bound: failing connects, reads, writes and observations

\* What the theorems assume.
ConstantsOK ==
  /\ AttemptsPerEndpoint \in Nat \ {0} /\ DedupeWindow \in Nat \ {0} /\ Sockets \subseteq Nat \ {0}
  /\ MaxHead \in Nat /\ MaxFaults \in Nat

VARIABLES
  head,        \* the chain
  checkpoint,  \* loadCheckpoint
  seen,        \* EventDeduplicator.order
  observing, observed, failed,  \* events handed to onObservation, and how that ended
  since,       \* history: since[b]: how many others were admitted since b was, as far as DedupeWindow
  early,       \* history: an event was handed out again, fewer than that after the last time
  sock,        \* sock[s]: the block it delivers next, or Deaf: closed, or open and silent
  socket,      \* this.socket, or NoSocket
  flow,        \* flow[f]: the connectWithFailover called by start, or by reconnect
  armed,       \* stallHandle # null
  stopped, state,
  gaveUp,      \* history: a flow found every endpoint failing, and left the rest to polling
  faults

events == <<seen, observing, observed, failed, since, early>>
status == <<stopped, state, gaveUp>>
vars == <<head, checkpoint, events, sock, socket, flow, armed, status, faults>>

Blocks == 1..MaxHead
Flows == {"start", "reconnect"}
NoSocket == 0
Deaf == 0
NoEvent == 0
Endpoints == 1..WsEndpoints

IdleFlow == [pc |-> "idle", left |-> {}, attempt |-> 0, todo |-> {}, to |-> 0, now |-> NoEvent]

Init ==
  /\ head = 0 /\ checkpoint = 0
  /\ seen = <<>> /\ observing = {} /\ observed = {} /\ failed = {}
  /\ since = [b \in Blocks |-> DedupeWindow] /\ early = FALSE
  /\ sock = [s \in Sockets |-> Deaf] /\ socket = NoSocket
  /\ flow = [f \in Flows |-> [IdleFlow EXCEPT !.pc = IF f = "start" THEN "new" ELSE "idle"]]
  /\ armed = FALSE /\ stopped = FALSE /\ state = "connecting" /\ gaveUp = FALSE /\ faults = 0

Least(S) == CHOOSE x \in S : \A y \in S : x <= y

-----------------------------------------------------------------------------
(* Events. *)

Admit(b) ==
  IF b \in ToSet(seen) THEN UNCHANGED events
  ELSE /\ seen' = IF Len(seen) = DedupeWindow THEN Append(Tail(seen), b) ELSE Append(seen, b)
       /\ observing' = observing \cup {b}
       /\ since' = [c \in Blocks |-> IF c = b THEN 0 ELSE Least({since[c] + 1, DedupeWindow})]
       /\ early' = (early \/ since[b] < DedupeWindow)
       /\ UNCHANGED <<observed, failed>>

\* onObservation ends.
Observe(b) ==
  /\ b \in observing /\ observing' = observing \ {b}
  /\ \/ observed' = observed \cup {b} /\ UNCHANGED <<failed, faults>>
     \/ failed' = failed \cup {b} /\ faults < MaxFaults /\ faults' = faults + 1 /\ UNCHANGED observed
  /\ UNCHANGED <<head, checkpoint, seen, since, early, sock, socket, flow, armed, status>>

\* A frame, of the subscription in use or of one that was left open.
Frame(s) ==
  /\ sock[s] # Deaf /\ sock[s] <= head
  /\ Admit(sock[s])
  /\ sock' = [sock EXCEPT ![s] = @ + 1] /\ armed' = TRUE
  /\ UNCHANGED <<head, checkpoint, socket, flow, status, faults>>

-----------------------------------------------------------------------------
(* Connecting.  Which endpoints are cooling down is left open: usable returns the others, or all. *)

Begun == {[IdleFlow EXCEPT !.pc = "try", !.left = usable] : usable \in SUBSET Endpoints \ {{}}}

Begin(f) == \E record \in Begun : flow' = [flow EXCEPT ![f] = record]

Start ==
  /\ flow["start"].pc = "new" /\ Begin("start")
  /\ stopped' = FALSE /\ state' = "connecting"
  /\ UNCHANGED <<head, checkpoint, events, sock, socket, armed, gaveUp, faults>>

Closing(socks, s) ==
  [t \in Sockets |-> IF t = s THEN Deaf ELSE socks[t]]

\* Single-flight with itself; a start that is still connecting is not looked at.
Reconnect(socks) ==
  IF stopped \/ flow["reconnect"].pc # "idle"
  THEN sock' = socks /\ UNCHANGED <<socket, flow, state>>
  ELSE /\ Begin("reconnect")
       /\ sock' = Closing(socks, socket) /\ socket' = NoSocket /\ state' = "connecting"

\* The peer closes a socket.
Drop(s) ==
  /\ sock[s] # Deaf /\ Reconnect(Closing(sock, s))
  /\ armed' = (armed /\ (stopped \/ flow["reconnect"].pc # "idle"))
  /\ UNCHANGED <<head, checkpoint, events, stopped, gaveUp, faults>>

\* A socket stays open and delivers nothing any more.
FallSilent(s) ==
  /\ sock[s] # Deaf /\ sock' = Closing(sock, s)
  /\ UNCHANGED <<head, checkpoint, events, socket, flow, armed, status, faults>>

\* No frame for stallTimeoutMs.
Stall ==
  /\ armed /\ armed' = FALSE /\ Reconnect(sock)
  /\ UNCHANGED <<head, checkpoint, events, stopped, gaveUp, faults>>

-----------------------------------------------------------------------------
Proceed(f, record) == flow' = [flow EXCEPT ![f] = record]

\* The catch: another attempt, the next endpoint, or polling.  The socket is not closed.
AttemptFails(f) ==
  LET retry == flow[f].attempt + 1 < AttemptsPerEndpoint
      left == IF retry THEN flow[f].left ELSE flow[f].left \ {Least(flow[f].left)}
  IN IF left = {} THEN Proceed(f, IdleFlow) /\ state' = "degraded_polling" /\ gaveUp' = TRUE
     ELSE /\ Proceed(f, [IdleFlow EXCEPT !.pc = "try", !.left = left,
                                         !.attempt = IF retry THEN flow[f].attempt + 1 ELSE 0])
          /\ UNCHANGED <<state, gaveUp>>

Try(f) ==
  /\ flow[f].pc = "try"
  /\ Proceed(f, IF stopped THEN IdleFlow ELSE [flow[f] EXCEPT !.pc = "connect"])
  /\ UNCHANGED <<head, checkpoint, events, sock, socket, armed, status, faults>>

ConnectFails(f) ==
  /\ flow[f].pc = "connect" /\ faults < MaxFaults /\ faults' = faults + 1
  /\ AttemptFails(f)
  /\ UNCHANGED <<head, checkpoint, events, sock, socket, armed, stopped>>

\* The handlers are attached: the subscription begins at the next block.
Connects(f) ==
  LET free == {s \in Sockets : sock[s] = Deaf}
  IN /\ flow[f].pc = "connect" /\ free # {}
     /\ sock' = [sock EXCEPT ![Least(free)] = head + 1] /\ socket' = Least(free)
     /\ Proceed(f, [flow[f] EXCEPT !.pc = "load"])
     /\ UNCHANGED <<head, checkpoint, events, armed, status, faults>>

\* loadCheckpoint and backfill: the blocks from the checkpoint to the head.
Backfill(f) ==
  /\ flow[f].pc = "load"
  /\ Proceed(f, [flow[f] EXCEPT !.pc = "replay", !.todo = {b \in Blocks : checkpoint <= b /\ b <= head},
                                !.to = head])
  /\ UNCHANGED <<head, checkpoint, events, sock, socket, armed, status, faults>>

Replay(f) ==
  LET b == Least(flow[f].todo)
  IN /\ flow[f].pc = "replay" /\ flow[f].now = NoEvent /\ flow[f].todo # {}
     /\ Admit(b)
     /\ Proceed(f, [flow[f] EXCEPT !.todo = @ \ {b},
                                   !.now = IF b \in ToSet(seen) THEN NoEvent ELSE b])
     /\ UNCHANGED <<head, checkpoint, sock, socket, armed, status, faults>>

\* The replay awaits each observation, and fails with it.
Replayed(f) ==
  /\ flow[f].pc = "replay" /\ flow[f].now \notin observing \cup {NoEvent}
  /\ IF flow[f].now \in failed THEN AttemptFails(f)
     ELSE Proceed(f, [flow[f] EXCEPT !.now = NoEvent]) /\ UNCHANGED <<state, gaveUp>>
  /\ UNCHANGED <<head, checkpoint, events, sock, socket, armed, stopped, faults>>

\* Mutant: the checkpoint follows the frames.
CoveredByFrames(f) == head

\* Only the head the replay has covered.
Covered(f) == flow[f].to

\* Mutant: no timer watches the subscription before its first frame.
SaveUnwatched(f) ==
  /\ flow[f].pc = "replay" /\ flow[f].now = NoEvent /\ flow[f].todo = {}
  /\ checkpoint' = Covered(f)
  /\ state' = "live" /\ Proceed(f, IdleFlow)
  /\ UNCHANGED <<head, events, sock, socket, armed, stopped, gaveUp, faults>>

Save(f) ==
  /\ flow[f].pc = "replay" /\ flow[f].now = NoEvent /\ flow[f].todo = {}
  /\ checkpoint' = Covered(f)
  /\ state' = "live" /\ armed' = TRUE /\ Proceed(f, IdleFlow)
  /\ UNCHANGED <<head, events, sock, socket, stopped, gaveUp, faults>>

\* The checkpoint or the gap cannot be read, or the checkpoint cannot be saved.
BackfillFails(f) ==
  /\ flow[f].pc = "load" \/ (flow[f].pc = "replay" /\ flow[f].now = NoEvent)
  /\ faults < MaxFaults /\ faults' = faults + 1
  /\ AttemptFails(f)
  /\ UNCHANGED <<head, checkpoint, events, sock, socket, armed, stopped>>

Stop ==
  /\ stopped' = TRUE /\ state' = "stopped" /\ armed' = FALSE
  /\ sock' = Closing(sock, socket) /\ socket' = NoSocket
  /\ UNCHANGED <<head, checkpoint, events, flow, gaveUp, faults>>

Mine ==
  /\ head < MaxHead /\ head' = head + 1
  /\ UNCHANGED <<checkpoint, events, sock, socket, flow, armed, status, faults>>

-----------------------------------------------------------------------------
Continue(f) == Try(f) \/ Connects(f) \/ Backfill(f) \/ Replay(f) \/ Replayed(f) \/ Save(f)

Next ==
  \/ Start \/ Stall \/ Stop \/ Mine
  \/ \E b \in Blocks : Observe(b)
  \/ \E s \in Sockets : Frame(s) \/ Drop(s) \/ FallSilent(s)
  \/ \E f \in Flows : Continue(f) \/ ConnectFails(f) \/ BackfillFails(f)

Spec == Init /\ [][Next]_vars

Unheard == \A s \in Sockets : s = socket => sock[s] = Deaf

Deliver == (\E s \in Sockets : Frame(s)) \/ \E b \in Blocks : Observe(b)

Proceeds == Start \/ \E f \in Flows : Continue(f)

\* An open socket delivers, what is awaited ends, and a timer nothing resets goes off.
FairSpec == Spec /\ WF_vars(Unheard /\ Stall) /\ WF_vars(Deliver) /\ WF_vars(Proceeds)

-----------------------------------------------------------------------------
TypeOK ==
  /\ head \in 0..MaxHead /\ checkpoint \in 0..MaxHead /\ faults \in 0..MaxFaults
  /\ seen \in BoundedSeq(Blocks, DedupeWindow)
  /\ observing \subseteq Blocks /\ observed \subseteq Blocks /\ failed \subseteq Blocks
  /\ sock \in [Sockets -> 0..MaxHead + 1]
  /\ socket \in Sockets \cup {NoSocket} /\ armed \in BOOLEAN /\ stopped \in BOOLEAN
  /\ flow \in [Flows -> [pc: {"new", "idle", "try", "connect", "load", "replay"},
                         left: SUBSET Endpoints, attempt: 0..AttemptsPerEndpoint - 1,
                         todo: SUBSET Blocks, to: 0..MaxHead, now: Blocks \cup {NoEvent}]]
  /\ state \in {"connecting", "live", "degraded_polling", "stopped"}
  /\ since \in [Blocks -> 0..DedupeWindow] /\ early \in BOOLEAN /\ gaveUp \in BOOLEAN

\* However connections come and go, the checkpoint passes no event that was not handed out.
NothingSkipped == \A b \in 1..checkpoint : b \in observing \cup observed \cup failed

\* Replay and frames overlap, and yet no event is handed out again before as many others were as the
\* deduplicator holds.
NothingRepeatedEarly == ~early

\* Whatever closes or goes off late, what is stopped begins no reconnect.
StopIsKept ==
  [][stopped /\ flow["reconnect"].pc = "idle" => flow'["reconnect"].pc = "idle"]_vars

\* Dead and silent sockets included, every event is handed out, unless the subscription gave up
\* or was stopped.
EveryEventArrives == []<>(gaveUp \/ stopped \/ \A b \in 1..head : b \in observed \cup failed)
=============================================================================
