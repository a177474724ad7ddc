-------------------------------- MODULE Failover --------------------------------
(***************************************************************************)
(* One logical request after another through the failover chain client:    *)
(* endpoints in priority order, a cooldown for each that grows with its    *)
(* consecutive failures, retries, and one deadline for the whole request.  *)
(* An endpoint answers at once or lets a whole request timeout pass; the   *)
(* short delays before a retry take no time here.                          *)
(***************************************************************************)
EXTENDS Integers

CONSTANTS
  Widest,    \* endpoints are 1..Widest; the last one serves the widest log ranges
  Answers,   \* Answers[e]: what endpoint e may say: "OK", "ADVANCE" (it cannot serve this call),
             \* "RANGE" (a range cap), "FAULT" (a request fault), or a failure: "DOWN", "TIMEOUT"
  Cooldown,  \* COOLDOWN_MS of the failures
  Timeout,   \* requestTimeoutMs
  Deadline,  \* totalDeadlineMs
  Escalations, \* how often a cooldown may grow
  Retries,   \* perEndpointRetries
  MaxGap     \* bound: the time between two requests

VARIABLES
  cool,      \* how long until cooldownUntil
  fails,     \* consecutiveFailures, as far as they matter
  verified,  \* endpoints with chainIdVerified
  todo,      \* the request's endpoints that are not done yet; {} when there is none in flight
  partial,   \* somebody sits the request out in cooldown
  attempt,   \* of the current endpoint; None before its chain id was asked for
  elapsed,
  reply      \* the answer, until the next request: [class, from]

\* What the theorems assume.
ConstantsOK ==
  /\ Widest \in Nat \ {0} /\ Escalations \in Nat \ {0} /\ Retries \in Nat /\ Timeout \in Nat /\ MaxGap \in Nat
  /\ "RANGE" \notin DOMAIN Cooldown /\ \A class \in DOMAIN Cooldown : Cooldown[class] \in Nat

vars == <<cool, fails, verified, todo, partial, attempt, elapsed, reply>>

None == -1
Endpoints == 1..Widest
Unanswered == [class |-> "NONE", from |-> 0]

Init ==
  /\ cool = [e \in Endpoints |-> 0] /\ fails = [e \in Endpoints |-> 0]
  /\ verified = {}
  /\ todo = {} /\ partial = FALSE /\ attempt = None /\ elapsed = 0
  /\ reply = Unanswered

Aged(d) == [e \in Endpoints |-> IF cool[e] > d THEN cool[e] - d ELSE 0]

Takes(answer) == IF answer = "TIMEOUT" THEN Timeout ELSE 0

\* Mutant: a cooldown is always as long as the first.
CooldownForFlat(class, n) == Cooldown[class]

CooldownFor(class, n) == Cooldown[class] * IF n < Escalations THEN n ELSE Escalations

\* Cooldowns are an optimisation, not a fence: with none usable all are tried.
Available(left) ==
  LET usable == {e \in Endpoints : left[e] = 0}
  IN IF usable = {} THEN Endpoints ELSE usable

Request(gap) ==
  /\ todo = {}
  /\ cool' = Aged(gap)
  /\ todo' = Available(cool') /\ partial' = (todo' # Endpoints)
  /\ attempt' = None /\ elapsed' = 0
  /\ reply' = Unanswered
  /\ UNCHANGED <<fails, verified>>

Current(e) == e \in todo /\ \A f \in todo : e <= f

\* The one-off probe of the chain id; an endpoint that does not answer is used all the same.
Probe(e, answer) ==
  /\ Current(e) /\ attempt = None
  /\ answer \in Answers[e] /\ e \notin verified
  /\ verified' = IF answer = "OK" THEN verified \cup {e} ELSE verified
  /\ cool' = Aged(Takes(answer)) /\ elapsed' = elapsed + Takes(answer)
  /\ attempt' = 0
  /\ UNCHANGED <<fails, todo, partial, reply>>

Asked(e, answer) == Current(e) /\ answer \in Answers[e] /\ (attempt # None \/ e \in verified)

Return(class, e) ==
  /\ todo' = {} /\ partial' = FALSE /\ attempt' = None /\ elapsed' = 0
  /\ reply' = [class |-> class, from |-> e]

\* Mutant: a range cap is passed on whoever named it.
JudgedAsTold(class, e) == class

\* A range cap is no evidence while the widest endpoint sits the request out.
Judged(class, e) ==
  IF class = "RANGE" /\ partial /\ e # Widest THEN "UNREACHED" ELSE class

\* The endpoint is done: on to the next one if there is one and time is left.
MoveOn(e, class, spent) ==
  IF todo = {e} THEN Return(Judged(class, e), e)
  ELSE IF spent >= Deadline THEN Return("DEADLINE", e)
  ELSE /\ todo' = todo \ {e} /\ attempt' = None /\ elapsed' = spent
       /\ UNCHANGED <<partial, reply>>

Serve(e) ==
  /\ Asked(e, "OK")
  /\ cool' = [cool EXCEPT ![e] = 0] /\ fails' = [fails EXCEPT ![e] = 0]
  /\ Return("OK", e)
  /\ UNCHANGED verified

\* A fact about the call, which is the same everywhere.
Fault(e) == Asked(e, "FAULT") /\ Return("FAULT", e) /\ UNCHANGED <<cool, fails, verified>>

\* This endpoint cannot serve this call; it costs it nothing.
Decline(e, answer) ==
  /\ answer \in {"ADVANCE", "RANGE"} /\ Asked(e, answer)
  /\ MoveOn(e, answer, elapsed)
  /\ UNCHANGED <<cool, fails, verified>>

\* recordFailure, then a retry while the deadline allows one.
Fail(e, class) ==
  LET spent == elapsed + Takes(class)
      n     == fails[e] + 1
      tries == IF attempt = None THEN 0 ELSE attempt
  IN /\ class \in DOMAIN Cooldown /\ Asked(e, class)
     /\ fails' = [fails EXCEPT ![e] = IF n < Escalations THEN n ELSE Escalations]
     /\ cool' = [Aged(Takes(class)) EXCEPT ![e] = CooldownFor(class, n)]
     /\ IF tries < Retries /\ spent < Deadline
        THEN attempt' = tries + 1 /\ elapsed' = spent /\ UNCHANGED <<todo, partial, reply>>
        ELSE MoveOn(e, class, spent)
     /\ UNCHANGED verified

Next ==
  \/ \E gap \in 0..MaxGap : Request(gap)
  \/ \E e \in Endpoints :
       \/ Serve(e) \/ Fault(e)
       \/ \E answer \in Answers[e] : Probe(e, answer) \/ Decline(e, answer) \/ Fail(e, answer)

Spec == Init /\ [][Next]_vars

\* Callers keep asking, and every call comes back.
FairSpec == Spec /\ WF_vars(Next)

-----------------------------------------------------------------------------
Replies ==
  [class: {"NONE", "OK", "ADVANCE", "RANGE", "UNREACHED", "FAULT", "DEADLINE"} \cup DOMAIN Cooldown,
   from: Endpoints \cup {0}]

TypeOK ==
  /\ cool \in [Endpoints -> Nat] /\ fails \in [Endpoints -> 0..Escalations]
  /\ verified \subseteq Endpoints /\ todo \subseteq Endpoints
  /\ partial \in BOOLEAN
  /\ attempt \in None..Retries /\ elapsed \in Nat
  /\ reply \in Replies

\* What makes the curve listener narrow its window is only ever a cap of the widest endpoint,
\* not one of a narrower endpoint while the widest one cools down.
RangeCapIsEvidence == reply.class = "RANGE" => reply.from = Widest

\* A last endpoint that answers is not starved by slow ones before it, although two of them can
\* use up the deadline: after every request there is one that is not given up.
NotAlwaysTooLate == todo # {} ~> reply.class \notin {"NONE", "DEADLINE"}
=============================================================================
