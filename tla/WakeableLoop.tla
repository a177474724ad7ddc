------------------------------ MODULE WakeableLoop ------------------------------
(***************************************************************************)
(* The scheduler of the V2 listeners' ticks: a timer, a flag for wakes     *)
(* that come during a tick, a minimum interval for woken ticks and a       *)
(* backoff after failed ones.  Times are what is left until they come, so  *)
(* the clock never ends.                                                   *)
(***************************************************************************)
EXTENDS Integers

CONSTANTS
  MinInterval,  \* minIntervalMs
  Delays        \* the delays a tick may ask for

ASSUME DelayAssumption == /\ MinInterval \in Nat
                          /\ Delays \subseteq Nat /\ Delays # {}

VARIABLES
  timer,    \* how long until the timer fires, or None
  running,  \* a tick is in flight
  pending,  \* a wake came since the tick began
  since,    \* time since lastStart, as far as it matters
  blocked,  \* time until blockedUntil
  stopped,
  asked     \* history: a wake no tick has begun after

vars == <<timer, running, pending, since, blocked, stopped, asked>>

None == -1

Larger(a, b) == IF a > b THEN a ELSE b

Init ==
  /\ timer = 0 /\ running = FALSE /\ pending = FALSE
  /\ since = MinInterval /\ blocked = 0 /\ stopped = FALSE /\ asked = FALSE

\* How long a woken tick has to wait.
Due(block) == Larger(MinInterval - since, block)

\* Mutant: a wake during a tick is taken for served by it.
WakeUnlessRunning ==
  /\ ~stopped /\ asked' = TRUE
  /\ pending' = ~running
  /\ timer' = IF running THEN timer ELSE Due(blocked)
  /\ UNCHANGED <<running, since, blocked, stopped>>

\* Mutant: a wake schedules even while a tick is in flight.
WakeAlways ==
  /\ ~stopped /\ asked' = TRUE
  /\ pending' = TRUE /\ timer' = Due(blocked)
  /\ UNCHANGED <<running, since, blocked, stopped>>

\* wake()
Wake ==
  /\ ~stopped /\ asked' = TRUE
  /\ pending' = TRUE
  /\ timer' = IF running THEN timer ELSE Due(blocked)
  /\ UNCHANGED <<running, since, blocked, stopped>>

\* run(), up to the tick
Run ==
  /\ timer = 0 /\ ~stopped /\ ~running
  /\ timer' = None /\ running' = TRUE /\ pending' = FALSE /\ since' = 0
  /\ asked' = FALSE
  /\ UNCHANGED <<blocked, stopped>>

\* Mutant: a tick that throws leaves the loop marked as running.
EndWithoutFinally(delay, failed) ==
  /\ running /\ running' = failed
  /\ blocked' = IF failed THEN delay ELSE 0
  /\ timer' = IF stopped \/ failed THEN timer ELSE IF pending THEN Due(0) ELSE delay
  /\ UNCHANGED <<pending, since, stopped, asked>>

\* The finally block; a tick that throws counts as failed.
End(delay, failed) ==
  /\ running /\ running' = FALSE
  /\ blocked' = IF failed THEN delay ELSE 0
  /\ timer' = IF stopped THEN timer
              ELSE IF pending /\ ~failed THEN Due(0) ELSE delay
  /\ UNCHANGED <<pending, since, stopped, asked>>

\* stop()
Stop ==
  /\ stopped' = TRUE /\ timer' = None
  /\ UNCHANGED <<running, pending, since, blocked, asked>>

\* A timer that is due may still be late.
Clock ==
  /\ timer' = IF timer > 0 THEN timer - 1 ELSE timer
  /\ since' = IF since < MinInterval THEN since + 1 ELSE since
  /\ blocked' = IF blocked > 0 THEN blocked - 1 ELSE 0
  /\ UNCHANGED <<running, pending, stopped, asked>>

Next ==
  \/ Wake \/ Run \/ Stop \/ Clock
  \/ \E delay \in Delays, failed \in BOOLEAN : End(delay, failed)

Spec == Init /\ [][Next]_vars

\* Timers fire, ticks come back, time passes.
FairSpec ==
  /\ Spec
  /\ WF_vars(Clock) /\ WF_vars(Run)
  /\ WF_vars(\E delay \in Delays, failed \in BOOLEAN : End(delay, failed))

-----------------------------------------------------------------------------
\* Types; no timer is set while a tick is in flight.
TypeOK ==
  /\ timer \in Nat \cup {None} /\ since \in 0..MinInterval /\ blocked \in Nat
  /\ running \in BOOLEAN /\ pending \in BOOLEAN /\ stopped \in BOOLEAN /\ asked \in BOOLEAN
  /\ running \/ stopped => timer = None

\* A wake that came at any time, during a tick that fails or succeeds or between two, is
\* answered as soon as the minimum interval and the backoff are over, and not merely by the
\* next poll.
WakesArePrompt ==
  asked /\ ~running /\ ~stopped => timer # None /\ timer <= Due(blocked)

\* However many wakes come, none makes a tick begin during the backoff.
BackoffIsKept == [][running' /\ ~running => blocked = 0]_vars

Bell == INSTANCE Doorbell WITH rung <- asked, busy <- running, closed <- stopped

\* One tick at a time, none begins after stop(), and ticks never cease: the promise.
ServesTheBell == Bell!FairSpec
=============================================================================
