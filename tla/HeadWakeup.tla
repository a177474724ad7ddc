------------------------------- MODULE HeadWakeup -------------------------------
(***************************************************************************)
(* The WebSocket that turns new chain heads into wakes of a WakeableLoop.  *)
(* It speaks to one endpoint at a time, checks its chain, subscribes, and  *)
(* on any close goes on to the next endpoint after a growing delay.  A     *)
(* health timer ends a socket that has been silent for too long; every     *)
(* number of its time is counted in health intervals.                      *)
(***************************************************************************)
EXTENDS WakeableLoop

CONSTANTS
  WsEndpoints,  \* how many there are, numbered from 0
  Good,         \* those that answer and send heads
  Silence,      \* how long a socket may be silent
  MaxDelay      \* the longest reconnect delay

\* The last part is arithmetic, for the provers, which do not know the powers of two.
ASSUME SocketAssumption ==
  /\ WsEndpoints \in Nat \ {0} /\ Silence \in Nat /\ MaxDelay \in Nat
  /\ \A n \in 0..MaxDelay : 2 ^ n \in Nat

VARIABLES
  socket,  \* "none", "opening", "checking", "subscribing", "live" or "ending"
  index,   \* of the endpoint in use
  silent,  \* time since lastFrame, as far as it matters
  retry,   \* how long until the next connection, or None
  tries    \* attempt: failed connections in a row, as far as they matter

socketVars == <<socket, index, silent, retry, tries>>

WakeupInit ==
  /\ Init
  /\ socket = "opening" /\ index = 0 /\ silent = 0 /\ retry = None /\ tries = 0

Lesser(a, b) == IF a < b THEN a ELSE b

IsGood == index \in Good

Connect ==
  /\ retry = 0 /\ ~stopped
  /\ socket' = "opening" /\ silent' = 0 /\ retry' = None
  /\ UNCHANGED <<vars, index, tries>>

\* The socket opens and asks for the chain id.
Opens ==
  /\ socket = "opening" /\ socket' = "checking"
  /\ UNCHANGED <<vars, index, silent, retry, tries>>

\* The answer; another chain's endpoint is left.
ChainIs(right) ==
  /\ socket = "checking" /\ (IsGood => right)
  /\ socket' = IF right THEN "subscribing" ELSE "ending"
  /\ UNCHANGED <<vars, index, silent, retry, tries>>

\* eth_subscribe is answered with an error, or with a subscription: that wakes the loop once.
Refuses ==
  /\ socket = "subscribing" /\ ~IsGood /\ socket' = "ending"
  /\ UNCHANGED <<vars, index, silent, retry, tries>>

Subscribes ==
  /\ socket = "subscribing" /\ socket' = "live"
  /\ Wake /\ UNCHANGED <<index, silent, retry, tries>>

Head ==
  /\ socket = "live" /\ silent' = 0 /\ tries' = 0
  /\ Wake /\ UNCHANGED <<socket, index, retry>>

\* The health timer ends the socket, in whatever state it hangs.
Overdue == socket # "none" /\ silent > Silence

\* Mutant: the reconnection asks the same endpoint again.
ClosesInPlace ==
  /\ socket # "none" /\ (~IsGood \/ Overdue)
  /\ socket' = "none"
  /\ retry' = Lesser(2 ^ tries, MaxDelay) /\ tries' = Lesser(tries + 1, MaxDelay)
  /\ UNCHANGED <<vars, index, silent>>

\* The peer, an error or the health timer ended it: the next endpoint's turn, after a while.
Closes ==
  /\ socket # "none" /\ (~IsGood \/ Overdue)
  /\ socket' = "none" /\ index' = (index + 1) % WsEndpoints
  /\ retry' = Lesser(2 ^ tries, MaxDelay) /\ tries' = Lesser(tries + 1, MaxDelay)
  /\ UNCHANGED <<vars, silent>>

\* Time passes for both.  What the health timer ends is ended first, and a good endpoint
\* answers and sends heads before the silence is too long.
Passes ==
  /\ ~Overdue /\ (socket # "none" /\ IsGood => silent < Silence)
  /\ Clock
  /\ silent' = Lesser(silent + 1, Silence + 1)
  /\ retry' = IF retry > 0 THEN retry - 1 ELSE retry
  /\ UNCHANGED <<socket, index, tries>>

\* The worker's shutdown stops both.
Shutdown ==
  /\ Stop
  /\ socket' = "none" /\ retry' = None
  /\ UNCHANGED <<index, silent, tries>>

LoopRuns == Run /\ UNCHANGED socketVars
LoopEnds == (\E delay \in Delays, failed \in BOOLEAN : End(delay, failed)) /\ UNCHANGED socketVars

SocketStep ==
  Connect \/ Opens \/ Refuses \/ Subscribes \/ Head \/ Closes \/ \E right \in BOOLEAN : ChainIs(right)

WakeupNext == LoopRuns \/ LoopEnds \/ SocketStep \/ Passes \/ Shutdown

all == <<vars, socketVars>>

GoodAnswers == IsGood /\ (Opens \/ ChainIs(TRUE) \/ Subscribes \/ Head)

\* Timers fire, ticks come back, and a good endpoint does its part.
WakeupSpec ==
  /\ WakeupInit /\ [][WakeupNext]_all
  /\ WF_all(LoopRuns) /\ WF_all(LoopEnds) /\ WF_all(Passes)
  /\ WF_all(Connect) /\ WF_all(Overdue /\ Closes) /\ WF_all(GoodAnswers)

-----------------------------------------------------------------------------
WakeupTypeOK ==
  /\ TypeOK
  /\ socket \in {"none", "opening", "checking", "subscribing", "live", "ending"}
  /\ index \in 0..WsEndpoints - 1
  /\ silent \in 0..Silence + 1
  /\ retry \in None..MaxDelay /\ tries \in 0..MaxDelay

\* Whatever some endpoints do, hang in any state of the handshake, refuse, name another chain or
\* fall silent once subscribed, one good endpoint is enough for heads to keep coming.
HeadsKeepComing == <>stopped \/ []<>(socket = "live" /\ silent = 0)
=============================================================================
