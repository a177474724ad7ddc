---------------------------- MODULE ChainAccess_proofs ----------------------------
(***************************************************************************)
(* What the listeners' access to the chain rests on, for every value of    *)
(* the constants.  The loop: its state is well formed, a wake is answered  *)
(* promptly, the backoff is kept, and it implements Doorbell; the socket   *)
(* that wakes it never makes it do anything else.  The failover client: a  *)
(* range cap is evidence, whatever its endpoints answer.  Forks: rows      *)
(* follow the live chain, and a recovery keeps the common past.  At the    *)
(* end, all of it as the two runs compose it.                              *)
(***************************************************************************)
EXTENDS MCChainAccess, TLAPS, NaturalsInduction, WellFoundedInduction

-----------------------------------------------------------------------------
(* The loop. *)

Numbers ==
  timer \in Nat \cup {None} /\ since \in 0..MinInterval /\ blocked \in Nat

Flags ==
  running \in BOOLEAN /\ pending \in BOOLEAN /\ stopped \in BOOLEAN /\ asked \in BOOLEAN

\* What makes the properties inductive: while the loop waits its timer is never shorter than
\* what is left of the backoff, and a wake that is not answered is still remembered.
Timers ==
  /\ running \/ stopped => timer = None
  /\ ~running /\ ~stopped => timer # None /\ blocked <= timer
  /\ asked => pending

LoopInv == Numbers /\ Flags /\ Timers /\ WakesArePrompt

LEMMA LoopInit == Init => LoopInv
<1> SUFFICES ASSUME Init PROVE LoopInv
  OBVIOUS
<1> USE DelayAssumption DEF Init, DelayAssumption, None
<1>1. Numbers
  BY DEF Numbers
<1>2. Flags
  BY DEF Flags
<1>3. Timers
  BY DEF Timers
<1>4. WakesArePrompt
  BY DEF WakesArePrompt
<1> QED
  BY <1>1, <1>2, <1>3, <1>4 DEF LoopInv

LEMMA FlagsAreKept ==
  ASSUME Flags, [Next]_vars PROVE Flags'
BY DEF Flags, Next, Wake, Run, Stop, Clock, End, vars

LEMMA NumbersAreKept ==
  ASSUME Numbers, [Next]_vars PROVE Numbers'
<1> USE DelayAssumption DEF DelayAssumption, None, Numbers, Due, Larger
<1>1. CASE Wake
  BY <1>1 DEF Wake
<1>2. CASE Run
  BY <1>2 DEF Run
<1>3. CASE Stop
  BY <1>3 DEF Stop
<1>4. CASE Clock
  BY <1>4 DEF Clock
<1>5. ASSUME NEW delay \in Delays, NEW failed \in BOOLEAN, End(delay, failed)
      PROVE  Numbers'
  BY <1>5 DEF End
<1>6. CASE UNCHANGED vars
  BY <1>6 DEF vars
<1> QED
  BY <1>1, <1>2, <1>3, <1>4, <1>5, <1>6 DEF Next

LEMMA TimersAreKept ==
  ASSUME LoopInv, [Next]_vars PROVE Timers' /\ WakesArePrompt'
<1> USE DelayAssumption
    DEF LoopInv, Numbers, Timers, WakesArePrompt, DelayAssumption, None, Due, Larger
<1>1. CASE Wake
  BY <1>1 DEF Wake
<1>2. CASE Run
  BY <1>2 DEF Run
<1>3. CASE Stop
  BY <1>3 DEF Stop
<1>4. CASE Clock
  BY <1>4 DEF Clock
<1>5. ASSUME NEW delay \in Delays, NEW failed \in BOOLEAN, End(delay, failed)
      PROVE  Timers' /\ WakesArePrompt'
  <2>1. delay \in Nat
    OBVIOUS
  <2>2. CASE stopped
    BY <1>5, <2>2 DEF End
  <2>3. CASE ~stopped /\ pending /\ ~failed
    BY <1>5, <2>3 DEF End
  <2>4. CASE ~stopped /\ failed
    BY <1>5, <2>1, <2>4 DEF End
  <2>5. CASE ~stopped /\ ~pending /\ ~failed
    BY <1>5, <2>1, <2>5 DEF End
  <2> QED
    BY <2>2, <2>3, <2>4, <2>5
<1>6. CASE UNCHANGED vars
  BY <1>6 DEF vars
<1> QED
  BY <1>1, <1>2, <1>3, <1>4, <1>5, <1>6 DEF Next

LEMMA LoopStep == LoopInv /\ [Next]_vars => LoopInv'
BY FlagsAreKept, NumbersAreKept, TimersAreKept DEF LoopInv

\* The loop's invariant holds in every reachable state.
THEOREM LoopInvariant == Spec => []LoopInv
BY LoopInit, LoopStep, PTL DEF Spec

\* A wake is answered as soon as the minimum interval and the backoff are over.
THEOREM AnsweredPromptly == Spec => []WakesArePrompt
BY LoopInvariant, PTL DEF LoopInv

\* The state is well typed and no timer is set while a tick is in flight.
THEOREM LoopTypeCorrect == Spec => []TypeOK
<1>1. LoopInv => TypeOK
  BY DEF LoopInv, Numbers, Flags, Timers, TypeOK
<1> QED
  BY <1>1, LoopInvariant, PTL

\* No tick begins while the backoff of a failed one lasts.
THEOREM WaitsOutTheBackoff == Spec => BackoffIsKept
<1>1. LoopInv /\ [Next]_vars => [running' /\ ~running => blocked = 0]_vars
  <2> SUFFICES ASSUME LoopInv, Next, running', ~running PROVE blocked = 0
    BY DEF vars
  <2>1. Run
    BY DEF Next, Wake, Stop, Clock, End
  <2> QED
    BY <2>1 DEF Run, LoopInv, Numbers, Timers, None
<1> QED
  BY <1>1, LoopInvariant, PTL DEF Spec, BackoffIsKept

\* The loop implements the safety part of Doorbell: every step of it is a ring, the
\* beginning or the end of a pass, the closing, or nothing that Doorbell sees.
THEOREM ImplementsDoorbell == Spec => Bell!Spec
<1>1. Init => Bell!Init
  BY DEF Init, Bell!Init
<1>2. LoopInv /\ [Next]_vars => [Bell!Next]_(Bell!bell)
  <2> SUFFICES ASSUME LoopInv, [Next]_vars PROVE [Bell!Next]_(Bell!bell)
    OBVIOUS
  <2> USE DEF Bell!Next, Bell!bell
  <2>1. CASE Wake
    BY <2>1 DEF Wake, Bell!Ring
  <2>2. CASE Run
    BY <2>2 DEF Run, Bell!Begin, LoopInv, Flags
  <2>3. CASE Stop
    BY <2>3 DEF Stop, Bell!Close
  <2>4. CASE Clock
    BY <2>4 DEF Clock
  <2>5. ASSUME NEW delay \in Delays, NEW failed \in BOOLEAN, End(delay, failed)
        PROVE  [Bell!Next]_(Bell!bell)
    BY <2>5 DEF End, Bell!End
  <2>6. CASE UNCHANGED vars
    BY <2>6 DEF vars
  <2> QED
    BY <2>1, <2>2, <2>3, <2>4, <2>5, <2>6 DEF Next
<1> QED
  BY <1>1, <1>2, LoopInvariant, PTL DEF Spec, Bell!Spec

-----------------------------------------------------------------------------
(* The failover client.  Endpoints are left in order, so a request in      *)
(* which nobody sits out still has the widest one to ask until that one    *)
(* has answered.                                                           *)

AllThereUntilTheWidest == todo # {} /\ ~partial => Widest \in todo

ClientInv == F!ConstantsOK /\ F!TypeOK /\ AllThereUntilTheWidest /\ F!RangeCapIsEvidence

-----------------------------------------------------------------------------
\* What comes back to the caller.
LEMMA ReplyType ==
  ASSUME NEW e \in F!Endpoints,
         NEW class \in {"OK", "ADVANCE", "RANGE", "UNREACHED", "FAULT", "DEADLINE"} \cup DOMAIN Cooldown
  PROVE  [class |-> class, from |-> e] \in F!Replies
BY DEF F!Replies

LEMMA UnansweredType == F!Unanswered \in F!Replies /\ F!Unanswered.class # "RANGE"
BY DEF F!Unanswered, F!Replies

LEMMA ClientInit == F!ConstantsOK /\ F!Init => ClientInv
<1> SUFFICES ASSUME F!ConstantsOK, F!Init PROVE ClientInv
  OBVIOUS
<1>1. fails \in [F!Endpoints -> 0..Escalations] /\ cool \in [F!Endpoints -> Nat]
  BY DEF F!Init, F!ConstantsOK
<1>2. attempt \in F!None..Retries /\ elapsed \in Nat
  BY DEF F!Init, F!ConstantsOK, F!None
<1>3. QED
  BY <1>1, <1>2, UnansweredType DEF F!Init, ClientInv, F!TypeOK, AllThereUntilTheWidest, F!RangeCapIsEvidence

\* Time takes nothing but time off the cooldowns.
LEMMA AgedType ==
  ASSUME F!ConstantsOK, F!TypeOK, NEW d \in Nat
  PROVE  F!Aged(d) \in [F!Endpoints -> Nat]
BY DEF F!Aged, F!TypeOK, F!ConstantsOK

LEMMA TakesType ==
  ASSUME F!ConstantsOK, NEW answer
  PROVE  F!Takes(answer) \in Nat
BY DEF F!Takes, F!ConstantsOK

LEMMA CooldownType ==
  ASSUME F!ConstantsOK, NEW class \in DOMAIN Cooldown, NEW n \in Nat
  PROVE  F!CooldownFor(class, n) \in Nat
<1>1. Cooldown[class] \in Nat /\ Escalations \in Nat
  BY DEF F!ConstantsOK
<1>2. \A x, y \in Nat : x * y \in Nat
  OBVIOUS
<1>3. QED
  BY <1>1, <1>2 DEF F!CooldownFor

\* The endpoint a request leaves for another one is not the widest.
LEMMA LeftInOrder ==
  ASSUME F!ConstantsOK, F!TypeOK, NEW e \in F!Endpoints, F!Current(e), todo # {e}
  PROVE  e # Widest
<1>1. PICK f \in todo : f # e
  BY DEF F!Current
<1>2. e <= f /\ f \in F!Endpoints
  BY <1>1 DEF F!Current, F!TypeOK
<1>3. QED
  BY <1>1, <1>2 DEF F!Endpoints, F!ConstantsOK

\* What is made of the last endpoint's answer.
LEMMA JudgedIsEvidence ==
  ASSUME F!ConstantsOK, F!TypeOK, AllThereUntilTheWidest, NEW e \in F!Endpoints, todo = {e}, NEW class,
         class \in {"ADVANCE", "RANGE"} \cup DOMAIN Cooldown
  PROVE  /\ F!Judged(class, e) \in {"ADVANCE", "RANGE", "UNREACHED"} \cup DOMAIN Cooldown
         /\ F!Judged(class, e) = "RANGE" => e = Widest
BY DEF F!Judged, AllThereUntilTheWidest

\* An endpoint is done: on to the next, or the request comes back.
LEMMA MoveOnKeeps ==
  ASSUME ClientInv, NEW e \in F!Endpoints, F!Current(e), NEW spent \in Nat, NEW class,
         class \in {"ADVANCE", "RANGE"} \cup DOMAIN Cooldown, F!MoveOn(e, class, spent),
         cool' \in [F!Endpoints -> Nat], fails' \in [F!Endpoints -> 0..Escalations], verified' = verified
  PROVE  ClientInv'
<1> USE DEF ClientInv
<1>1. CASE todo = {e}
  <2>1. F!Return(F!Judged(class, e), e)
    BY <1>1 DEF F!MoveOn
  <2> DEFINE j == F!Judged(class, e)
  <2>2. j \in {"ADVANCE", "RANGE", "UNREACHED"} \cup DOMAIN Cooldown /\ (j = "RANGE" => e = Widest)
    BY <1>1, JudgedIsEvidence
  <2> HIDE DEF j
  <2>3. /\ todo' = {} /\ partial' = FALSE /\ attempt' = F!None /\ elapsed' = 0
        /\ reply' = [class |-> j, from |-> e]
    BY <2>1 DEF F!Return, j
  <2>4. reply' \in F!Replies
    BY <2>2, <2>3, ReplyType
  <2>5. F!RangeCapIsEvidence'
    BY <2>2, <2>3 DEF F!RangeCapIsEvidence
  <2>6. attempt' \in F!None..Retries
    BY <2>3 DEF F!None, F!ConstantsOK
  <2>7. QED
    BY <2>3, <2>4, <2>5, <2>6 DEF F!TypeOK, AllThereUntilTheWidest, F!ConstantsOK
<1>2. CASE todo # {e} /\ spent >= Deadline
  <2>1. /\ todo' = {} /\ partial' = FALSE /\ attempt' = F!None /\ elapsed' = 0
        /\ reply' = [class |-> "DEADLINE", from |-> e]
    BY <1>2 DEF F!MoveOn, F!Return
  <2>2. reply' \in F!Replies /\ F!RangeCapIsEvidence'
    BY <2>1, ReplyType DEF F!RangeCapIsEvidence
  <2>3. attempt' \in F!None..Retries
    BY <2>1 DEF F!None, F!ConstantsOK
  <2>4. QED
    BY <2>1, <2>2, <2>3 DEF F!TypeOK, AllThereUntilTheWidest, F!ConstantsOK
<1>3. CASE todo # {e} /\ ~(spent >= Deadline)
  <2>1. e # Widest
    BY <1>3, LeftInOrder
  <2>2. /\ todo' = todo \ {e} /\ attempt' = F!None /\ elapsed' = spent
        /\ UNCHANGED <<partial, reply>>
    BY <1>3 DEF F!MoveOn
  <2>3. QED
    BY <2>1, <2>2 DEF F!TypeOK, AllThereUntilTheWidest, F!RangeCapIsEvidence, F!ConstantsOK, F!None
<1>4. QED
  BY <1>1, <1>2, <1>3

LEMMA RequestKeeps ==
  ASSUME ClientInv, NEW gap \in 0..MaxGap, F!Request(gap)
  PROVE  ClientInv'
<1> USE DEF ClientInv
<1>1. gap \in Nat
  BY DEF F!ConstantsOK
<1>2. cool' \in [F!Endpoints -> Nat] /\ F!Available(cool') \subseteq F!Endpoints
  BY <1>1, AgedType DEF F!Request, F!Available
<1>3. Widest \in F!Endpoints
  BY DEF F!Endpoints, F!ConstantsOK
<1>4. attempt' \in F!None..Retries /\ elapsed' \in Nat
  BY DEF F!Request, F!None, F!ConstantsOK
<1>5. partial' \in BOOLEAN /\ (~partial' => Widest \in todo')
  BY <1>3 DEF F!Request
<1>6. F!RangeCapIsEvidence' /\ reply' \in F!Replies
  BY UnansweredType DEF F!Request, F!RangeCapIsEvidence
<1>7. QED
  BY <1>2, <1>4, <1>5, <1>6 DEF F!Request, F!TypeOK, AllThereUntilTheWidest, F!ConstantsOK

LEMMA ProbeKeeps ==
  ASSUME ClientInv, NEW e \in F!Endpoints, NEW answer \in Answers[e], F!Probe(e, answer)
  PROVE  ClientInv'
<1> USE DEF ClientInv
<1>1. cool' \in [F!Endpoints -> Nat] /\ elapsed' \in Nat
  BY TakesType, AgedType DEF F!Probe, F!TypeOK
<1>2. QED
  BY <1>1 DEF F!Probe, F!TypeOK, AllThereUntilTheWidest, F!RangeCapIsEvidence, F!ConstantsOK, F!None

LEMMA ServeKeeps ==
  ASSUME ClientInv, NEW e \in F!Endpoints, F!Serve(e) \/ F!Fault(e)
  PROVE  ClientInv'
<1> USE DEF ClientInv
<1>1. PICK class \in {"OK", "FAULT"} : F!Return(class, e) /\ UNCHANGED verified
  BY DEF F!Serve, F!Fault
<1>2. cool' \in [F!Endpoints -> Nat] /\ fails' \in [F!Endpoints -> 0..Escalations]
  BY DEF F!Serve, F!Fault, F!TypeOK, F!ConstantsOK
<1>3. /\ todo' = {} /\ partial' = FALSE /\ attempt' = F!None /\ elapsed' = 0
      /\ reply' = [class |-> class, from |-> e]
  BY <1>1 DEF F!Return
<1>4. reply' \in F!Replies /\ F!RangeCapIsEvidence'
  BY <1>3, ReplyType DEF F!RangeCapIsEvidence
<1>5. attempt' \in F!None..Retries
  BY <1>3 DEF F!None, F!ConstantsOK
<1>6. QED
  BY <1>1, <1>2, <1>3, <1>4, <1>5 DEF F!TypeOK, AllThereUntilTheWidest, F!ConstantsOK

LEMMA DeclineKeeps ==
  ASSUME ClientInv, NEW e \in F!Endpoints, NEW answer \in Answers[e], F!Decline(e, answer)
  PROVE  ClientInv'
<1>1. /\ F!Current(e) /\ answer \in {"ADVANCE", "RANGE"} /\ F!MoveOn(e, answer, elapsed)
      /\ UNCHANGED <<cool, fails, verified>>
  BY DEF F!Decline, F!Asked
<1>2. elapsed \in Nat /\ cool' \in [F!Endpoints -> Nat] /\ fails' \in [F!Endpoints -> 0..Escalations]
  BY <1>1 DEF ClientInv, F!TypeOK
<1>3. QED
  BY <1>1, <1>2, MoveOnKeeps

LEMMA FailKeeps ==
  ASSUME ClientInv, NEW e \in F!Endpoints, NEW class \in Answers[e], F!Fail(e, class)
  PROVE  ClientInv'
<1> USE DEF ClientInv
<1> DEFINE spent == elapsed + F!Takes(class)
           n == fails[e] + 1
           retried == IF attempt = F!None THEN 0 ELSE attempt
<1>1. class \in DOMAIN Cooldown /\ F!Current(e) /\ verified' = verified
  BY DEF F!Fail, F!Asked
<1>2. spent \in Nat /\ n \in Nat \ {0} /\ F!Takes(class) \in Nat
  BY TakesType DEF F!TypeOK, F!ConstantsOK
<1>3. fails' \in [F!Endpoints -> 0..Escalations]
  <2>1. (IF n < Escalations THEN n ELSE Escalations) \in 0..Escalations
    BY <1>2 DEF F!ConstantsOK
  <2>2. QED
    BY <2>1 DEF F!Fail, F!TypeOK
<1>4. cool' \in [F!Endpoints -> Nat]
  <2>1. F!CooldownFor(class, n) \in Nat
    BY <1>1, <1>2, CooldownType
  <2>2. F!Aged(F!Takes(class)) \in [F!Endpoints -> Nat]
    BY <1>2, AgedType
  <2>3. cool' = [F!Aged(F!Takes(class)) EXCEPT ![e] = F!CooldownFor(class, n)]
    BY DEF F!Fail
  <2>4. QED
    BY <2>1, <2>2, <2>3
<1>5. CASE retried < Retries /\ spent < Deadline
  <2>1. attempt' = retried + 1 /\ elapsed' = spent /\ UNCHANGED <<todo, partial, reply>>
    BY <1>5 DEF F!Fail
  <2>2. attempt' \in F!None..Retries
    BY <1>5, <2>1 DEF F!TypeOK, F!ConstantsOK, F!None
  <2>3. QED
    BY <1>1, <1>2, <1>3, <1>4, <2>1, <2>2 DEF F!TypeOK, AllThereUntilTheWidest, F!RangeCapIsEvidence, F!ConstantsOK
<1>6. CASE ~(retried < Retries /\ spent < Deadline)
  <2>1. F!MoveOn(e, class, spent)
    BY <1>6 DEF F!Fail
  <2>2. QED
    BY <1>1, <1>2, <1>3, <1>4, <2>1, MoveOnKeeps
<1>7. QED
  BY <1>5, <1>6

LEMMA ClientStep == ClientInv /\ [F!Next]_(F!vars) => ClientInv'
<1> SUFFICES ASSUME ClientInv, [F!Next]_(F!vars) PROVE ClientInv'
  OBVIOUS
<1>1. ASSUME NEW gap \in 0..MaxGap, F!Request(gap) PROVE ClientInv'
  BY <1>1, RequestKeeps
<1>2. ASSUME NEW e \in F!Endpoints, F!Serve(e) \/ F!Fault(e) PROVE ClientInv'
  BY <1>2, ServeKeeps
<1>3. ASSUME NEW e \in F!Endpoints, NEW answer \in Answers[e], F!Probe(e, answer) PROVE ClientInv'
  BY <1>3, ProbeKeeps
<1>4. ASSUME NEW e \in F!Endpoints, NEW answer \in Answers[e], F!Decline(e, answer) PROVE ClientInv'
  BY <1>4, DeclineKeeps
<1>5. ASSUME NEW e \in F!Endpoints, NEW answer \in Answers[e], F!Fail(e, answer) PROVE ClientInv'
  BY <1>5, FailKeeps
<1>6. CASE UNCHANGED F!vars
  BY <1>6 DEF F!vars, ClientInv, F!TypeOK, AllThereUntilTheWidest, F!RangeCapIsEvidence, F!ConstantsOK
<1>7. QED
  BY <1>1, <1>2, <1>3, <1>4, <1>5, <1>6 DEF F!Next

\* The strengthening holds in every reachable state.
THEOREM ClientInvariant == F!ConstantsOK /\ F!Spec => []ClientInv
<1>1. QED
  BY ClientInit, ClientStep, PTL DEF F!Spec

\* Cooldowns, counters, attempts and answers keep their types, whatever endpoints say.
THEOREM ClientTypeCorrect == F!ConstantsOK /\ F!Spec => []F!TypeOK
<1>1. ClientInv => F!TypeOK
  BY DEF ClientInv
<1>2. QED
  BY <1>1, ClientInvariant, PTL

\* failoverChainClient: the curve listener is told of a range cap only on the word of the widest
\* endpoint, however many endpoints there are and whoever cools down.
THEOREM CapIsEvidence == F!ConstantsOK /\ F!Spec => []F!RangeCapIsEvidence
<1>1. ClientInv => F!RangeCapIsEvidence
  BY DEF ClientInv
<1>2. QED
  BY <1>1, ClientInvariant, PTL

-----------------------------------------------------------------------------
(* Forks.  First the smallest and the greatest of a set of heights. *)

\* Every nonempty set of naturals has a least element.
LEMMA LeastNatural ==
  ASSUME NEW S \in SUBSET Nat, S # {}
  PROVE  \E x \in S : \A y \in S : x <= y
<1>1. IsWellFoundedOn(OpToRel(<, Nat), Nat)
  BY NatLessThanWellFounded, Zenon
<1>2. PICK x \in S : \A y \in S : ~(<<y, x>> \in OpToRel(<, Nat))
  BY <1>1, WFMin, Zenon
<1>3. \A y \in S : ~(y < x)
  BY <1>2, Zenon DEF OpToRel
<1>4. QED
  BY <1>3

\* Min of heights, NoCheckpoint's among them, is one of them and below all.
LEMMA MinOfHeights ==
  ASSUME NEW S, S # {}, \A x \in S : x \in Int /\ -1 <= x
  PROVE  R!Min(S) \in S /\ \A y \in S : R!Min(S) <= y
<1> DEFINE T == {x + 1 : x \in S}
<1>1. T \in SUBSET Nat /\ T # {}
  OBVIOUS
<1>2. PICK t \in T : \A y \in T : t <= y
  BY <1>1, LeastNatural
<1>3. PICK x \in S : t = x + 1
  OBVIOUS
<1>4. \A y \in S : x =< y
  <2> TAKE y \in S
  <2>1. y + 1 \in T
    OBVIOUS
  <2>2. QED
    BY <2>1, <1>2, <1>3
<1>5. \E z \in S : \A y \in S : z =< y
  BY <1>4
<1>6. QED
  BY <1>5 DEF R!Min

\* Max of bounded heights is one of them and above all.
LEMMA MaxOfHeights ==
  ASSUME NEW S, S # {}, NEW b \in Nat, \A x \in S : x \in Int /\ x <= b
  PROVE  R!Max(S) \in S /\ \A y \in S : y <= R!Max(S)
<1> DEFINE T == {b - x : x \in S}
<1>1. T \in SUBSET Nat /\ T # {}
  OBVIOUS
<1>2. PICK t \in T : \A y \in T : t <= y
  BY <1>1, LeastNatural
<1>3. PICK x \in S : t = b - x
  OBVIOUS
<1>4. \A y \in S : x >= y
  <2> TAKE y \in S
  <2>1. b - y \in T
    OBVIOUS
  <2>2. b - x <= b - y /\ x \in Int /\ y \in Int
    BY <2>1, <1>2, <1>3
  <2>3. QED
    BY <2>2
<1>5. \E z \in S : \A y \in S : z >= y
  BY <1>4
<1>6. QED
  BY <1>5 DEF R!Max

-----------------------------------------------------------------------------
(* The invariant.  Fork numbers grow with height and with time, so a block g below a checkpoint *)
(* is one the source has scanned, and no fork has replaced since, exactly when its number is at *)
(* most the checkpoint's.                                                                       *)

ForkGrows == \A g, h \in R!Heights : g <= h => fork[g] <= fork[h]

HashesAreOld ==
  /\ \A s \in Sources : cp[s].height # -1 => cp[s].hash <= fork[cp[s].height]
  /\ \A h \in DOMAIN past : past[h] <= fork[h]

\* What is recorded below the checkpoint of a source nobody overtook was recorded on its fork.
RecordedBefore ==
  \A s \in Sources \ overtaken : \A h \in DOMAIN past : h <= cp[s].height => past[h] <= cp[s].hash

HeightsAreTrue == \A i \in Items : i \notin moved /\ row[i].status # "absent" => row[i].height = place[i]

StillScanned(c, g) == g <= c.height /\ fork[g] <= c.hash

RowAt(i, g) == row[i].status = "CANONICAL" /\ row[i].height = g

RowsMatchTheFork ==
  \A i \in Items :
    \/ SourceOf[i] \in overtaken \/ R!KeepsOldHeight(i)
    \/ \A g \in R!Heights : StillScanned(cp[SourceOf[i]], g) => (RowAt(i, g) <=> place[i] = g)

RInv ==
  /\ R!TypeOK /\ ForkGrows /\ HashesAreOld /\ RecordedBefore /\ HeightsAreTrue
  /\ RowsMatchTheFork /\ R!NothingAboveTheCheckpoint

-----------------------------------------------------------------------------
LEMMA ForksInit == R!ConstantsOK /\ R!Init => RInv
<1> SUFFICES ASSUME R!ConstantsOK, R!Init PROVE RInv
  OBVIOUS
<1> USE DEF R!ConstantsOK, R!Init
<1>1. DOMAIN past = {}
  OBVIOUS
<1>2. R!TypeOK
  BY <1>1 DEF R!TypeOK, R!Heights, R!Checkpoints, R!NoCheckpoint
<1>3. ForkGrows /\ HashesAreOld /\ RecordedBefore
  BY <1>1 DEF ForkGrows, HashesAreOld, RecordedBefore, R!NoCheckpoint
<1>4. HeightsAreTrue /\ R!NothingAboveTheCheckpoint
  BY DEF HeightsAreTrue, R!NothingAboveTheCheckpoint
<1>5. RowsMatchTheFork
  BY DEF RowsMatchTheFork, StillScanned, R!NoCheckpoint, R!Heights
<1>6. QED
  BY <1>2, <1>3, <1>4, <1>5 DEF RInv

LEMMA NewBlockKeeps ==
  ASSUME R!ConstantsOK, RInv, R!NewBlock
  PROVE  RInv'
<1>1. R!TypeOK'
  BY DEF R!ConstantsOK, RInv, R!TypeOK, R!NewBlock, R!Heights, R!Checkpoints, R!NoCheckpoint
<1>2. ForkGrows' /\ HashesAreOld' /\ RecordedBefore' /\ HeightsAreTrue'
  BY DEF RInv, R!NewBlock, ForkGrows, HashesAreOld, RecordedBefore, HeightsAreTrue
<1>3. RowsMatchTheFork'
  BY DEF RInv, R!NewBlock, RowsMatchTheFork, R!KeepsOldHeight, StillScanned, RowAt
<1>4. R!NothingAboveTheCheckpoint'
  BY DEF RInv, R!NewBlock, R!NothingAboveTheCheckpoint, R!KeepsOldHeight
<1>5. QED
  BY <1>1, <1>2, <1>3, <1>4 DEF RInv

LEMMA ReorgKeeps ==
  ASSUME R!ConstantsOK, RInv, NEW h \in R!Heights, R!Reorg(h)
  PROVE  RInv'
<1> DEFINE fresh == fork[MaxHeight] + 1
<1>1. /\ MaxHeight \in R!Heights /\ fork[MaxHeight] \in 0..MaxForks /\ fresh \in 0..MaxForks
      /\ \A g \in R!Heights : g \in Nat /\ g <= MaxHeight /\ fork[g] \in Nat /\ fork[g] < fresh
  BY DEF R!ConstantsOK, RInv, R!TypeOK, ForkGrows, R!Reorg, R!Heights
<1>2. \A g \in R!Heights : fork'[g] = IF g >= h THEN fresh ELSE fork[g]
  BY DEF R!Reorg
<1>3. R!TypeOK'
  <2>1. fork' \in [R!Heights -> 0..MaxForks]
    BY <1>1 DEF R!Reorg, RInv, R!TypeOK
  <2>2. moved' \subseteq Items
    BY DEF R!Reorg, RInv, R!TypeOK
  <2>3. QED
    BY <2>1, <2>2 DEF R!Reorg, RInv, R!TypeOK
<1>4. \A g \in R!Heights : fork[g] <= fork'[g] /\ fork'[g] \in Nat
  BY <1>1, <1>2
<1>5. ForkGrows'
  BY <1>1, <1>2 DEF RInv, ForkGrows, R!Heights
<1>6. HashesAreOld'
  <2>1. \A s \in Sources : cp[s].height # -1 => cp[s].height \in R!Heights /\ cp[s].hash \in Nat
    BY DEF RInv, R!TypeOK, R!Checkpoints, R!NoCheckpoint
  <2>2. \A k \in DOMAIN past : k \in R!Heights /\ past[k] \in Nat
    BY DEF RInv, R!TypeOK
  <2>3. UNCHANGED <<cp, past>>
    BY DEF R!Reorg
  <2>4. QED
    BY <1>1, <1>4, <2>1, <2>2, <2>3 DEF RInv, HashesAreOld
<1>7. RecordedBefore'
  BY DEF R!Reorg, RInv, RecordedBefore
<1>8. \A i \in Items : row[i].status # "absent" /\ i \notin moved' => i \notin moved /\ place'[i] = place[i]
  BY DEF R!Reorg
<1>9. HeightsAreTrue'
  BY <1>8 DEF R!Reorg, RInv, HeightsAreTrue
<1>10. RowsMatchTheFork'
  <2> SUFFICES ASSUME NEW i \in Items, SourceOf[i] \notin overtaken', ~R!KeepsOldHeight(i)',
                      NEW g \in R!Heights, StillScanned(cp[SourceOf[i]], g)'
               PROVE  (RowAt(i, g) <=> place[i] = g)'
    BY DEF RowsMatchTheFork
  <2>1. SourceOf[i] \in Sources /\ UNCHANGED <<cp, row, overtaken>>
    BY DEF R!ConstantsOK, R!Reorg
  <2>2. ~R!KeepsOldHeight(i)
    BY DEF R!KeepsOldHeight, R!Reorg
  <2>3. cp[SourceOf[i]].height # -1 /\ cp[SourceOf[i]].height \in R!Heights /\ cp[SourceOf[i]].hash \in Nat
    BY <2>1, <1>1 DEF RInv, R!TypeOK, R!Checkpoints, R!NoCheckpoint, StillScanned
  <2>4. fork'[g] <= cp[SourceOf[i]].hash /\ g <= cp[SourceOf[i]].height
    BY <2>1 DEF StillScanned
  <2>5. cp[SourceOf[i]].hash < fresh
    BY <2>1, <2>3, <1>1 DEF RInv, HashesAreOld
  <2>6. g < h /\ fork'[g] = fork[g]
    BY <2>3, <2>4, <2>5, <1>1, <1>2
  <2>7. RowAt(i, g) <=> place[i] = g
    BY <2>1, <2>2, <2>4, <2>6 DEF RInv, RowsMatchTheFork, StillScanned
  <2>8. place'[i] = g <=> place[i] = g
    <3>1. g \in 0..(h - 1)
      BY <2>6, <1>1
    <3>2. QED
      BY <3>1 DEF R!Reorg
  <2>9. QED
    BY <2>1, <2>7, <2>8 DEF RowAt
<1>11. R!NothingAboveTheCheckpoint'
  BY DEF R!Reorg, RInv, R!NothingAboveTheCheckpoint, R!KeepsOldHeight
<1>12. QED
  BY <1>3, <1>5, <1>6, <1>7, <1>9, <1>10, <1>11 DEF RInv

-----------------------------------------------------------------------------
\* A tick that commits moves its checkpoint up, by at least one block and not past the head.
LEMMA ToIsAhead ==
  ASSUME R!ConstantsOK, RInv, NEW s \in Sources, R!From(s) <= R!ScanTip(s)
  PROVE  R!To(s) \in R!Heights /\ R!From(s) \in R!Heights /\ R!From(s) <= R!To(s)
<1>1. \A q \in Sources : cp[q].height \in Int /\ -1 <= cp[q].height
  BY DEF RInv, R!TypeOK, R!Checkpoints, R!NoCheckpoint, R!Heights
<1>2. head \in Nat /\ head <= MaxHeight /\ Gate[s] \subseteq Sources /\ MaxRange \in Nat \ {0} /\ MaxHeight \in Nat
  BY DEF R!ConstantsOK, RInv, R!TypeOK, R!Heights
<1> DEFINE tips == {head} \cup {cp[g].height : g \in Gate[s]}
<1>3. R!ScanTip(s) \in tips /\ R!ScanTip(s) <= head
  <2>1. tips # {} /\ \A x \in tips : x \in Int /\ -1 <= x
    BY <1>1, <1>2
  <2>2. R!Min(tips) \in tips /\ \A y \in tips : R!Min(tips) <= y
    BY <2>1, MinOfHeights
  <2>3. QED
    BY <2>2 DEF R!ScanTip
<1>4. R!ScanTip(s) \in Int /\ R!ScanTip(s) >= -1
  BY <1>1, <1>2, <1>3
<1>5. R!From(s) \in Nat /\ R!From(s) <= MaxHeight
  BY <1>1, <1>2, <1>3, <1>4 DEF R!From
<1> DEFINE ends == {R!From(s) + MaxRange - 1, R!ScanTip(s)}
<1>6. R!To(s) \in ends /\ \A y \in ends : R!To(s) <= y
  <2>1. ends # {} /\ \A x \in ends : x \in Int /\ -1 <= x
    BY <1>2, <1>4, <1>5
  <2>2. QED
    BY <2>1, MinOfHeights DEF R!To
<1>7. R!From(s) <= R!To(s) /\ R!To(s) <= MaxHeight
  BY <1>2, <1>3, <1>4, <1>5, <1>6
<1>8. QED
  BY <1>2, <1>4, <1>5, <1>6, <1>7 DEF R!Heights

LEMMA CommitKeeps ==
  ASSUME R!ConstantsOK, RInv, NEW s \in Sources, R!Commit(s)
  PROVE  RInv'
<1> DEFINE c == cp[s]
           b == R!To(s)
<1>1. b \in R!Heights /\ R!From(s) \in R!Heights /\ R!From(s) <= b /\ b \in Nat
  BY ToIsAhead DEF R!Commit, R!Heights
<1>2. c \in R!Checkpoints /\ R!From(s) = c.height + 1 /\ c.height \in Int /\ -1 <= c.height /\ c.height < b
  BY <1>1 DEF RInv, R!TypeOK, R!Checkpoints, R!NoCheckpoint, R!Heights, R!From
<1>3. /\ UNCHANGED <<head, fork, place, unresolved, moved>>
      /\ overtaken' = overtaken \cup {q \in Sources : R!Stale(q)}
      /\ past' = R!Recorded(b) /\ ~R!Stale(s)
  BY DEF R!Commit
<1>4. cp' = [cp EXCEPT ![s] = [height |-> b, hash |-> fork[b]]]
  BY DEF R!Commit
<1>5. \A q \in Sources : cp'[q] = IF q = s THEN [height |-> b, hash |-> fork[b]] ELSE cp[q]
  BY <1>4 DEF RInv, R!TypeOK
<1>6. \A i \in Items : row'[i] = IF i \in R!Scanned(s) THEN R!Upserted(s, i) ELSE row[i]
  BY DEF R!Commit
<1>7. \A i \in R!Scanned(s) : SourceOf[i] = s /\ place[i] \in R!From(s)..b /\ place[i] \in R!Heights
  <2>1. R!From(s)..b \subseteq R!Heights
    BY <1>1 DEF R!ConstantsOK, R!Heights
  <2>2. QED
    BY <2>1 DEF R!Scanned
<1>8. \A g \in R!Heights : g \in Nat /\ fork[g] \in Nat
  BY DEF R!ConstantsOK, RInv, R!TypeOK, R!Heights
<1> HIDE DEF c, b
<1>9. R!TypeOK'
  <2>1. \A i \in Items : row[i] \in [status: {"absent", "CANONICAL", "ORPHANED"}, height: R!Heights]
    BY DEF RInv, R!TypeOK
  <2>2. \A i \in R!Scanned(s) : R!Upserted(s, i) \in [status: {"absent", "CANONICAL", "ORPHANED"}, height: R!Heights]
    BY <1>7, <2>1 DEF R!Upserted, R!Scanned
  <2>3. row' \in [Items -> [status: {"absent", "CANONICAL", "ORPHANED"}, height: R!Heights]]
    BY <2>1, <2>2 DEF R!Commit
  <2>4. [height |-> b, hash |-> fork[b]] \in R!Checkpoints
    BY <1>1 DEF RInv, R!TypeOK, R!Checkpoints
  <2>5. cp' \in [Sources -> R!Checkpoints]
    BY <1>4, <2>4 DEF RInv, R!TypeOK
  <2>6. DOMAIN past' \subseteq R!Heights /\ \A h \in DOMAIN past' : past'[h] \in 0..MaxForks
    BY <1>1, <1>3 DEF R!Recorded, RInv, R!TypeOK
  <2>7. overtaken' \subseteq Sources
    BY <1>3 DEF RInv, R!TypeOK
  <2>8. QED
    BY <1>3, <2>3, <2>5, <2>6, <2>7 DEF RInv, R!TypeOK
<1>10. ForkGrows'
  BY <1>3 DEF RInv, ForkGrows
<1>11. \A h \in DOMAIN past' : h \in R!Heights /\ past'[h] <= fork[h] /\ past'[h] \in Nat
                               /\ ((h = b /\ past'[h] = fork[h]) \/ (h \in DOMAIN past /\ past'[h] = past[h]))
  BY <1>1, <1>3, <1>8 DEF R!Recorded, RInv, R!TypeOK, HashesAreOld
<1>12. HashesAreOld'
  BY <1>1, <1>3, <1>5, <1>8, <1>11 DEF RInv, HashesAreOld
<1>13. RecordedBefore'
  <2> SUFFICES ASSUME NEW q \in Sources, q \notin overtaken', NEW h \in DOMAIN past', h <= cp'[q].height
               PROVE  past'[h] <= cp'[q].hash
    BY DEF RecordedBefore
  <2>1. h \in R!Heights /\ past'[h] <= fork[h] /\ past'[h] \in Nat /\ h \in Nat
    BY <1>11, <1>8
  <2>2. CASE q = s
    <3>1. h <= b /\ cp'[q].hash = fork[b]
      BY <2>2, <1>5
    <3>2. fork[h] <= fork[b]
      BY <3>1, <2>1, <1>1 DEF RInv, ForkGrows
    <3>3. QED
      BY <3>1, <3>2, <2>1, <1>1, <1>8
  <2>3. CASE q # s
    <3>1. cp'[q] = cp[q] /\ q \notin overtaken /\ ~R!Stale(q)
      BY <2>3, <1>3, <1>5
    <3>2. cp[q].height \in R!Heights /\ cp[q].hash = fork[cp[q].height]
      BY <3>1, <2>1 DEF R!Stale, R!OnLiveChain, RInv, R!TypeOK, R!Checkpoints, R!NoCheckpoint
    <3>3. fork[h] <= fork[cp[q].height]
      BY <3>1, <3>2, <2>1 DEF RInv, ForkGrows
    <3>4. QED
      BY <3>1, <3>2, <3>3, <2>1, <1>8
  <2>4. QED
    BY <2>2, <2>3
<1>14. HeightsAreTrue'
  <2>1. \A i \in R!Scanned(s) : i \notin moved => R!Upserted(s, i).height = place[i]
    BY DEF RInv, HeightsAreTrue, R!Upserted, R!Scanned
  <2>2. QED
    BY <1>3, <1>6, <2>1 DEF RInv, HeightsAreTrue
<1>15. \A i \in Items : R!KeepsOldHeight(i)' <=> R!KeepsOldHeight(i)
  BY <1>3 DEF R!KeepsOldHeight
<1>16. \A i \in R!Scanned(s) : ~R!KeepsOldHeight(i) => RowAt(i, place[i])'
  <2> TAKE i \in R!Scanned(s)
  <2> HAVE ~R!KeepsOldHeight(i)
  <2>1. row'[i] = R!Upserted(s, i) /\ i \in Items /\ SourceOf[i] = s
    BY <1>6, <1>7 DEF R!Scanned
  <2>2. row'[i].status = "CANONICAL" /\ row'[i].height = place[i]
    BY <2>1 DEF R!Upserted, R!KeepsOldHeight, RInv, HeightsAreTrue
  <2>3. QED
    BY <2>2, <1>3 DEF RowAt
<1>17. RowsMatchTheFork'
  <2> SUFFICES ASSUME NEW i \in Items, SourceOf[i] \notin overtaken', ~R!KeepsOldHeight(i)',
                      NEW g \in R!Heights, StillScanned(cp[SourceOf[i]], g)'
               PROVE  (RowAt(i, g) <=> place[i] = g)'
    BY DEF RowsMatchTheFork
  <2>1. SourceOf[i] \in Sources /\ SourceOf[i] \notin overtaken /\ ~R!KeepsOldHeight(i)
    BY <1>3, <1>15 DEF R!ConstantsOK
  <2>2. CASE i \in R!Scanned(s)
    <3>1. RowAt(i, place[i])'
      BY <2>1, <2>2, <1>16
    <3>2. QED
      BY <3>1, <1>3 DEF RowAt
  <2>3. CASE i \notin R!Scanned(s)
    <3>1. row'[i] = row[i] /\ place' = place
      BY <2>3, <1>3, <1>6
    <3>2. CASE StillScanned(cp[SourceOf[i]], g)
      BY <2>1, <3>1, <3>2 DEF RInv, RowsMatchTheFork, RowAt
    <3>3. CASE ~StillScanned(cp[SourceOf[i]], g)
      <4>1. SourceOf[i] = s
        BY <3>3, <2>1, <1>3, <1>5 DEF StillScanned
      <4>2. g <= b
        BY <4>1, <1>5 DEF StillScanned
      <4>3. c.height < g
        <5>1. CASE c.height = -1
          BY <5>1, <1>8
        <5>2. CASE c.height # -1
          <6>1. c.height \in R!Heights /\ c.hash = fork[c.height]
            BY <5>2, <1>2, <1>3 DEF R!Stale, R!OnLiveChain, R!NoCheckpoint, R!Checkpoints, c
          <6>2. g <= c.height => fork[g] <= c.hash
            BY <6>1 DEF RInv, ForkGrows
          <6>3. ~(g <= c.height)
            BY <6>2, <3>3, <4>1 DEF StillScanned, c
          <6>4. QED
            BY <6>3, <1>2, <1>8
        <5>3. QED
          BY <5>1, <5>2
      <4>4. g \in R!From(s)..b
        BY <4>2, <4>3, <1>1, <1>2, <1>8
      <4>5. place[i] # g
        BY <4>1, <4>4, <2>3 DEF R!Scanned, b
      <4>6. ~RowAt(i, g)
        BY <4>1, <4>3, <2>1, <1>2, <1>8 DEF RowAt, RInv, R!NothingAboveTheCheckpoint, c
      <4>7. QED
        BY <3>1, <4>5, <4>6 DEF RowAt
    <3>4. QED
      BY <3>2, <3>3
  <2>4. QED
    BY <2>2, <2>3
<1>18. R!NothingAboveTheCheckpoint'
  <2> SUFFICES ASSUME NEW i \in Items, row'[i].status = "CANONICAL", ~R!KeepsOldHeight(i)'
               PROVE  row'[i].height <= cp'[SourceOf[i]].height
    BY DEF R!NothingAboveTheCheckpoint
  <2>1. SourceOf[i] \in Sources /\ ~R!KeepsOldHeight(i)
    BY <1>15 DEF R!ConstantsOK
  <2>2. CASE i \in R!Scanned(s)
    <3>1. row'[i].height = place[i] /\ place[i] <= b /\ cp'[SourceOf[i]].height = b
      BY <2>1, <2>2, <1>1, <1>3, <1>5, <1>7, <1>16 DEF RowAt, R!Heights
    <3>2. QED
      BY <3>1
  <2>3. CASE i \notin R!Scanned(s)
    <3>1. row'[i] = row[i]
      BY <2>3, <1>6
    <3>2. row[i].height <= cp[SourceOf[i]].height /\ row[i].height \in Nat
      BY <2>1, <3>1, <1>8 DEF RInv, R!NothingAboveTheCheckpoint, R!TypeOK
    <3>3. CASE SourceOf[i] = s
      BY <3>1, <3>2, <3>3, <1>1, <1>2, <1>5 DEF c
    <3>4. CASE SourceOf[i] # s
      BY <2>1, <3>1, <3>2, <3>4, <1>5
    <3>5. QED
      BY <3>3, <3>4
  <2>4. QED
    BY <2>2, <2>3
<1>19. QED
  BY <1>9, <1>10, <1>12, <1>13, <1>14, <1>17, <1>18 DEF RInv

-----------------------------------------------------------------------------
\* The ancestor of a recovery is recorded, still live, and above every other such block.
LEMMA AncestorIsLive ==
  ASSUME R!ConstantsOK, RInv, R!Ancestors # {}
  PROVE  /\ R!Max(R!Ancestors) \in R!Ancestors /\ R!Max(R!Ancestors) \in R!Heights
         /\ \A h \in R!Ancestors : h <= R!Max(R!Ancestors)
<1>1. MaxHeight \in Nat /\ \A h \in R!Ancestors : h \in R!Heights /\ h \in Int /\ h <= MaxHeight
  BY DEF R!ConstantsOK, RInv, R!TypeOK, R!Ancestors, R!Heights
<1>2. R!Max(R!Ancestors) \in R!Ancestors /\ \A h \in R!Ancestors : h <= R!Max(R!Ancestors)
  BY <1>1, MaxOfHeights
<1>3. QED
  BY <1>1, <1>2

LEMMA RecoverKeeps ==
  ASSUME R!ConstantsOK, RInv, NEW s \in Sources, R!Recover(s)
  PROVE  RInv'
<1> DEFINE a == R!Max(R!Ancestors)
<1>1. a \in R!Heights /\ a \in DOMAIN past /\ past[a] = fork[a] /\ a \in Nat
  BY AncestorIsLive DEF R!Recover, R!Ancestors, R!Heights
<1>2. UNCHANGED <<head, fork, place, overtaken, moved>> /\ unresolved' = {}
  BY DEF R!Recover
<1>3. cp' = R!RolledBack(a) /\ past' = R!Restrict(past, {h \in DOMAIN past : h <= a})
  BY DEF R!Recover
<1>4. row' = [i \in Items |-> IF i \in R!Orphaned(a) THEN [row[i] EXCEPT !.status = "ORPHANED"] ELSE row[i]]
  BY DEF R!Recover
<1> HIDE DEF a
<1>5. \A q \in Sources : cp'[q] = IF cp[q].height > a THEN [height |-> a, hash |-> fork[a]] ELSE cp[q]
  BY <1>3 DEF R!RolledBack
<1>6. \A h \in DOMAIN past' : h \in DOMAIN past /\ h <= a /\ past'[h] = past[h]
  BY <1>3 DEF R!Restrict
<1>7. \A i \in Items : row[i] \in [status: {"absent", "CANONICAL", "ORPHANED"}, height: R!Heights]
  BY DEF RInv, R!TypeOK
<1>8. \A i \in Items : /\ row'[i].height = row[i].height
                       /\ row'[i].status = "absent" <=> row[i].status = "absent"
                       /\ row'[i].status = "CANONICAL" <=> row[i].status = "CANONICAL" /\ ~(row[i].height > a)
  BY <1>4, <1>7 DEF R!Orphaned
<1>9. \A g \in R!Heights : g \in Nat /\ fork[g] \in Nat
  BY DEF R!ConstantsOK, RInv, R!TypeOK, R!Heights
<1>10. \A q \in Sources : cp[q] \in R!Checkpoints /\ cp[q].height \in Int /\ cp[q].hash \in Int
  BY DEF RInv, R!TypeOK, R!Checkpoints, R!NoCheckpoint, R!Heights
<1>11. R!TypeOK'
  <2>1. row' \in [Items -> [status: {"absent", "CANONICAL", "ORPHANED"}, height: R!Heights]]
    BY <1>4, <1>7
  <2>2. [height |-> a, hash |-> fork[a]] \in R!Checkpoints
    BY <1>1 DEF RInv, R!TypeOK, R!Checkpoints
  <2>3. cp' \in [Sources -> R!Checkpoints]
    BY <1>3, <1>10, <2>2 DEF R!RolledBack
  <2>4. DOMAIN past' \subseteq R!Heights /\ \A h \in DOMAIN past' : past'[h] \in 0..MaxForks
    BY <1>6 DEF RInv, R!TypeOK
  <2>5. QED
    BY <1>2, <2>1, <2>3, <2>4 DEF RInv, R!TypeOK
<1>12. ForkGrows'
  BY <1>2 DEF RInv, ForkGrows
<1>13. HashesAreOld'
  BY <1>1, <1>2, <1>5, <1>6, <1>9 DEF RInv, HashesAreOld
<1>14. RecordedBefore'
  <2> SUFFICES ASSUME NEW q \in Sources, q \notin overtaken', NEW h \in DOMAIN past', h <= cp'[q].height
               PROVE  past'[h] <= cp'[q].hash
    BY DEF RecordedBefore
  <2>1. h \in DOMAIN past /\ h <= a /\ past'[h] = past[h] /\ h \in R!Heights /\ past[h] <= fork[h] /\ past[h] \in Nat
    BY <1>6, <1>9 DEF RInv, R!TypeOK, HashesAreOld
  <2>2. CASE cp[q].height > a
    <3>1. fork[h] <= fork[a] /\ cp'[q].hash = fork[a]
      BY <1>1, <1>5, <2>1, <2>2 DEF RInv, ForkGrows
    <3>2. QED
      BY <1>1, <1>9, <2>1, <3>1
  <2>3. CASE ~(cp[q].height > a)
    BY <1>2, <1>5, <2>1, <2>3 DEF RInv, RecordedBefore
  <2>4. QED
    BY <2>2, <2>3
<1>15. HeightsAreTrue'
  BY <1>2, <1>8 DEF RInv, HeightsAreTrue
<1>16. \A i \in Items : R!KeepsOldHeight(i)' <=> R!KeepsOldHeight(i)
  BY <1>2 DEF R!KeepsOldHeight
<1>17. RowsMatchTheFork'
  <2> SUFFICES ASSUME NEW i \in Items, SourceOf[i] \notin overtaken', ~R!KeepsOldHeight(i)',
                      NEW g \in R!Heights, StillScanned(cp[SourceOf[i]], g)'
               PROVE  (RowAt(i, g) <=> place[i] = g)'
    BY DEF RowsMatchTheFork
  <2>1. SourceOf[i] \in Sources /\ SourceOf[i] \notin overtaken /\ ~R!KeepsOldHeight(i)
    BY <1>2, <1>16 DEF R!ConstantsOK
  <2> DEFINE q == SourceOf[i]
  <2>2. g <= cp'[q].height /\ fork[g] <= cp'[q].hash
    BY <1>2 DEF StillScanned
  <2> HIDE DEF q
  <2>3. q \in Sources /\ q \notin overtaken
    BY <2>1 DEF q
  <2>4. g <= a /\ StillScanned(cp[q], g)
    <3>1. CASE cp[q].height > a
      <4>1. g <= a /\ fork[g] <= fork[a]
        BY <1>5, <2>2, <2>3, <3>1
      <4>2. past[a] <= cp[q].hash
        BY <1>1, <1>10, <2>3, <3>1 DEF RInv, RecordedBefore
      <4>3. QED
        BY <1>1, <1>9, <1>10, <2>3, <3>1, <4>1, <4>2 DEF StillScanned
    <3>2. CASE ~(cp[q].height > a)
      BY <1>1, <1>5, <1>9, <1>10, <2>2, <2>3, <3>2 DEF StillScanned
    <3>3. QED
      BY <3>1, <3>2
  <2>5. RowAt(i, g) <=> place[i] = g
    BY <2>1, <2>4 DEF RInv, RowsMatchTheFork, q
  <2>6. RowAt(i, g)' <=> RowAt(i, g)
    BY <1>1, <1>8, <1>9, <2>4 DEF RowAt
  <2>7. QED
    BY <1>2, <2>5, <2>6
<1>18. R!NothingAboveTheCheckpoint'
  <2> SUFFICES ASSUME NEW i \in Items, row'[i].status = "CANONICAL", ~R!KeepsOldHeight(i)'
               PROVE  row'[i].height <= cp'[SourceOf[i]].height
    BY DEF R!NothingAboveTheCheckpoint
  <2>1. SourceOf[i] \in Sources /\ row[i].status = "CANONICAL" /\ row'[i].height = row[i].height
        /\ row[i].height <= cp[SourceOf[i]].height /\ ~(row[i].height > a) /\ row[i].height \in Nat
    BY <1>7, <1>8, <1>9, <1>16 DEF R!ConstantsOK, RInv, R!NothingAboveTheCheckpoint
  <2>2. QED
    BY <1>1, <1>5, <1>10, <2>1
<1>19. QED
  BY <1>11, <1>12, <1>13, <1>14, <1>15, <1>17, <1>18 DEF RInv

-----------------------------------------------------------------------------
LEMMA ForksStep == R!ConstantsOK /\ RInv /\ [R!Next]_(R!vars) => RInv'
<1> SUFFICES ASSUME R!ConstantsOK, RInv, [R!Next]_(R!vars) PROVE RInv'
  OBVIOUS
<1>1. ASSUME NEW s \in Sources, R!CannotRecover(s) PROVE RInv'
  <2>1. UNCHANGED <<head, fork, place, cp, past, row, overtaken, moved>> /\ unresolved' \subseteq Sources
    BY <1>1 DEF R!CannotRecover, RInv, R!TypeOK
  <2>2. QED
    BY <2>1 DEF RInv, R!TypeOK, ForkGrows, HashesAreOld, RecordedBefore, HeightsAreTrue,
                RowsMatchTheFork, R!KeepsOldHeight, StillScanned, RowAt, R!NothingAboveTheCheckpoint
<1>2. CASE UNCHANGED R!vars
  BY <1>2 DEF R!vars, RInv, R!TypeOK, ForkGrows, HashesAreOld, RecordedBefore, HeightsAreTrue,
              RowsMatchTheFork, R!KeepsOldHeight, StillScanned, RowAt, R!NothingAboveTheCheckpoint
<1>3. QED
  BY <1>1, <1>2, NewBlockKeeps, ReorgKeeps, CommitKeeps, RecoverKeeps DEF R!Next

\* The strengthening holds in every reachable state.
THEOREM RecoveryInvariant == R!ConstantsOK /\ R!Spec => []RInv
<1> SUFFICES ASSUME R!ConstantsOK PROVE R!Spec => []RInv
  OBVIOUS
<1>1. R!Init => RInv
  BY ForksInit
<1>2. RInv /\ [R!Next]_(R!vars) => RInv'
  BY ForksStep
<1>3. QED
  BY <1>1, <1>2, PTL DEF R!Spec

\* Below a checkpoint on the live chain everything scanned is still there, row by row.
LEMMA MatchIsFaithful == R!ConstantsOK /\ RInv => R!RowsMatchUnlessOvertaken
<1> SUFFICES ASSUME R!ConstantsOK, RInv, NEW i \in Items, SourceOf[i] \notin overtaken, ~R!KeepsOldHeight(i),
                    R!OnLiveChain(cp[SourceOf[i]])
             PROVE  LET c == cp[SourceOf[i]]
                    IN  /\ place[i] \in 0..c.height => row[i].status = "CANONICAL"
                        /\ row[i].status = "CANONICAL" /\ row[i].height <= c.height => place[i] \in 0..c.height
  BY DEF R!RowsMatchUnlessOvertaken, R!Faithful
<1> DEFINE c == cp[SourceOf[i]]
<1>1. c.height \in R!Heights /\ c.hash = fork[c.height] /\ row[i].height \in R!Heights
  BY DEF R!ConstantsOK, RInv, R!TypeOK, R!Checkpoints, R!NoCheckpoint, R!OnLiveChain
<1>2. \A g \in R!Heights : g <= c.height => (RowAt(i, g) <=> place[i] = g)
  BY <1>1 DEF RInv, RowsMatchTheFork, ForkGrows, StillScanned
<1> HIDE DEF c
<1>3. 0..c.height \subseteq R!Heights /\ c.height \in Nat /\ row[i].height \in Nat
  BY <1>1 DEF R!ConstantsOK, R!Heights
<1>4. place[i] \in 0..c.height => row[i].status = "CANONICAL"
  BY <1>2, <1>3 DEF RowAt
<1>5. row[i].status = "CANONICAL" /\ row[i].height <= c.height => place[i] \in 0..c.height
  BY <1>1, <1>2, <1>3 DEF RowAt
<1>6. QED
  BY <1>4, <1>5 DEF c

\* reorgRecovery.ts:21-22: whatever forks and whoever recovers first, the rows of a source that
\* nobody overtook are those of the live chain up to its checkpoint, and none is above it.
THEOREM RowsFollow == R!ConstantsOK /\ R!Spec => []R!RowsFollowTheChain
<1> SUFFICES ASSUME R!ConstantsOK PROVE R!Spec => []R!RowsFollowTheChain
  OBVIOUS
<1>1. RInv => R!RowsFollowTheChain
  BY MatchIsFaithful DEF RInv, R!RowsFollowTheChain
<1>2. R!Spec => []RInv
  BY RecoveryInvariant
<1>3. QED
  BY <1>1, <1>2, PTL

\* markOrphaned: no step deletes a row, and a recovery orphans nothing at or below a recorded
\* block that is still on the live chain.
THEOREM CommonPastIsKept == R!ConstantsOK /\ R!Spec => R!CommonPastSurvives
<1> SUFFICES ASSUME R!ConstantsOK PROVE R!Spec => R!CommonPastSurvives
  OBVIOUS
<1> DEFINE Kept == \A i \in Items :
                     /\ row[i].status # "absent" => row'[i].status # "absent"
                     /\ row[i].status = "CANONICAL" /\ row'[i].status = "ORPHANED" =>
                          \A h \in R!Ancestors : h < row[i].height
<1>1. RInv /\ [R!Next]_(R!vars) => [Kept]_(R!vars)
  <2> SUFFICES ASSUME RInv, R!Next, NEW i \in Items
               PROVE  /\ row[i].status # "absent" => row'[i].status # "absent"
                      /\ row[i].status = "CANONICAL" /\ row'[i].status = "ORPHANED" =>
                           \A h \in R!Ancestors : h < row[i].height
    BY DEF R!vars
  <2>1. CASE UNCHANGED row
    BY <2>1
  <2>2. ASSUME NEW s \in Sources, R!Commit(s)
        PROVE  row'[i].status = row[i].status \/ row'[i].status = "CANONICAL"
    BY <2>2 DEF R!Commit, R!Upserted
  <2>3. ASSUME NEW s \in Sources, R!Recover(s)
        PROVE  /\ row[i].status # "absent" => row'[i].status # "absent"
               /\ row[i].status = "CANONICAL" /\ row'[i].status = "ORPHANED" =>
                    \A h \in R!Ancestors : h < row[i].height
    <3> DEFINE a == R!Max(R!Ancestors)
    <3>1. \A h \in R!Ancestors : h \in Nat /\ a \in Nat /\ h <= a
      BY <2>3, AncestorIsLive DEF R!Heights, R!Ancestors, RInv, R!TypeOK
    <3>2. row' = [j \in Items |-> IF j \in R!Orphaned(a) THEN [row[j] EXCEPT !.status = "ORPHANED"] ELSE row[j]]
      BY <2>3 DEF R!Recover
    <3> HIDE DEF a
    <3>3. row[i] \in [status: {"absent", "CANONICAL", "ORPHANED"}, height: R!Heights]
      BY DEF RInv, R!TypeOK
    <3>4. row'[i] = row[i] \/ (row'[i].status = "ORPHANED" /\ row[i].height > a)
      BY <3>2, <3>3 DEF R!Orphaned
    <3>5. QED
      BY <3>1, <3>3, <3>4 DEF R!Heights
  <2>4. QED
    BY <2>1, <2>2, <2>3 DEF R!Next, R!NewBlock, R!Reorg, R!CannotRecover
<1>2. R!Spec => []RInv
  BY RecoveryInvariant
<1>3. QED
  BY <1>1, <1>2, PTL DEF R!Spec, R!CommonPastSurvives

-----------------------------------------------------------------------------
(* The composition. *)

\* Whatever the socket does, the loop sees a step of its own or nothing.
LEMMA WakeupIsLoopStep == WakeupNext => [Next]_vars
<1> SUFFICES ASSUME WakeupNext PROVE [Next]_vars
  OBVIOUS
<1>1. CASE LoopRuns \/ LoopEnds
  BY <1>1 DEF LoopRuns, LoopEnds, Next
<1>2. CASE SocketStep
  BY <1>2 DEF SocketStep, Connect, Opens, ChainIs, Refuses, Subscribes, Head, Closes, Next
<1>3. CASE Passes \/ Shutdown
  BY <1>3 DEF Passes, Shutdown, Next
<1> QED
  BY <1>1, <1>2, <1>3 DEF WakeupNext

\* headWakeup.ts: what the WebSocket adds, reconnects, silence and other chains included, leaves
\* every promise of the loop standing.
THEOREM WakeupIsALoop == WakeupSpec => Spec
<1>1. WakeupInit => Init
  BY DEF WakeupInit
<1>2. [WakeupNext]_all => [Next]_vars
  BY WakeupIsLoopStep DEF all
<1> QED
  BY <1>1, <1>2, PTL DEF WakeupSpec, Spec

\* ensureConnected, scheduleReconnect: what a close leaves behind.
SocketIsWatched ==
  /\ stopped => socket = "none" /\ retry = None
  /\ ~stopped => (socket = "none" <=> retry # None)

SocketInv == WakeupTypeOK /\ SocketIsWatched

LEMMA DelayIsATime ==
  ASSUME NEW n \in 0..MaxDelay
  PROVE  Lesser(2 ^ n, MaxDelay) \in 0..MaxDelay /\ Lesser(n + 1, MaxDelay) \in 0..MaxDelay
<1>1. 2 ^ n \in Nat /\ MaxDelay \in Nat
  BY SocketAssumption DEF SocketAssumption
<1>2. \A m \in Nat : Lesser(m, MaxDelay) \in 0..MaxDelay
  BY <1>1 DEF Lesser
<1> QED
  BY <1>1, <1>2

LEMMA SocketBegins == WakeupInit => SocketInv
<1> SUFFICES ASSUME WakeupInit PROVE SocketInv
  OBVIOUS
<1>1. TypeOK
  BY LoopInit DEF WakeupInit, LoopInv, Numbers, Flags, Timers, TypeOK
<1>2. stopped = FALSE
  BY DEF WakeupInit, Init
<1> QED
  BY <1>1, <1>2, SocketAssumption DEF WakeupInit, SocketInv, WakeupTypeOK, SocketIsWatched, SocketAssumption, None

\* Whatever a step of the loop does, it only stops with the socket.
LEMMA SocketKeeps == SocketInv /\ LoopInv /\ LoopInv' /\ [WakeupNext]_all => SocketInv'
<1> SUFFICES ASSUME SocketInv, LoopInv', [WakeupNext]_all PROVE SocketInv'
  OBVIOUS
<1>1. TypeOK'
  BY DEF LoopInv, Numbers, Flags, Timers, TypeOK
<1> USE SocketAssumption DEF SocketInv, WakeupTypeOK, SocketIsWatched, SocketAssumption, None
<1>2. CASE UNCHANGED all \/ LoopRuns \/ LoopEnds
  <2>1. UNCHANGED <<socketVars, stopped>>
    BY <1>2 DEF all, vars, LoopRuns, LoopEnds, Run, End
  <2> QED
    BY <1>1, <2>1 DEF socketVars
<1>3. CASE Connect \/ Opens \/ Refuses \/ \E right \in BOOLEAN : ChainIs(right)
  BY <1>1, <1>3 DEF Connect, Opens, Refuses, ChainIs, vars
<1>4. CASE Subscribes \/ Head
  BY <1>1, <1>4 DEF Subscribes, Head, Wake
<1>5. CASE Closes
  <2>1. (index + 1) % WsEndpoints \in 0..WsEndpoints - 1
    <3>1. \A n \in Nat \ {0}, i \in Nat : i % n \in 0..n - 1
      OBVIOUS
    <3> QED BY <3>1
  <2>2. retry' \in 0..MaxDelay /\ tries' \in 0..MaxDelay
    BY <1>5, DelayIsATime DEF Closes
  <2> QED
    BY <1>1, <1>5, <2>1, <2>2 DEF Closes, vars
<1>6. CASE Passes
  <2>1. Lesser(silent + 1, Silence + 1) \in 0..Silence + 1
    BY DEF Lesser
  <2>2. UNCHANGED <<stopped, socket, index, tries>> /\ silent' \in 0..Silence + 1
    BY <1>6, <2>1 DEF Passes, Clock
  <2>3. retry' \in None..MaxDelay /\ (retry' = None <=> retry = None)
    BY <1>6 DEF Passes
  <2> QED
    BY <1>1, <2>2, <2>3
<1>7. CASE Shutdown
  BY <1>1, <1>7 DEF Shutdown, Stop
<1> QED
  BY <1>2, <1>3, <1>4, <1>5, <1>6, <1>7 DEF WakeupNext, SocketStep

\* headWakeup.ts: whatever closes, hangs, refuses or names another chain, a wakeup that was not
\* stopped has a socket or a timer that opens the next one, never both and never neither, and its
\* shutdown leaves neither: what HeadsKeepComing rests on.
THEOREM SocketComesBack == WakeupSpec => [](WakeupTypeOK /\ SocketIsWatched)
<1>1. WakeupInit => SocketInv
  BY SocketBegins
<1>2. WakeupSpec => []LoopInv
  BY WakeupIsALoop, LoopInvariant, PTL
<1>3. SocketInv => WakeupTypeOK /\ SocketIsWatched
  BY DEF SocketInv
<1> QED
  BY <1>1, <1>2, <1>3, SocketKeeps, PTL DEF WakeupSpec

LEMMA AccessSteps ==
  ASSUME [AccessNext]_<<part, all, client, chain>>
  PROVE  [Next]_vars /\ [F!Next]_(F!vars)
<1>1. UNCHANGED all => UNCHANGED vars
  BY DEF all
<1>2. UNCHANGED client => UNCHANGED F!vars
  BY DEF client, F!vars
<1>3. CASE WakeupNext /\ UNCHANGED client
  BY <1>2, <1>3, WakeupIsLoopStep
<1>4. CASE Shutdown /\ UNCHANGED client
  BY <1>2, <1>4 DEF Shutdown, Next
<1>5. CASE F!Next /\ UNCHANGED all
  BY <1>1, <1>5
<1>6. CASE UNCHANGED <<part, all, client, chain>>
  BY <1>1, <1>2, <1>6
<1> QED
  BY <1>3, <1>4, <1>5, <1>6 DEF AccessNext

\* In the composed run: a wake is answered as soon as the minimum interval and the backoff are
\* over, and a range cap is never anything but the widest endpoint's.
THEOREM AccessIsSound == AccessSpec => [](TypeOK /\ WakesArePrompt /\ RangeCapIsEvidence)
<1>1. AccessInit => LoopInv /\ ClientInv
  BY LoopInit, ClientInit, AccessConstants DEF AccessInit, WakeupInit
<1>2. LoopInv /\ ClientInv /\ [AccessNext]_<<part, all, client, chain>> => LoopInv' /\ ClientInv'
  BY AccessSteps, LoopStep, ClientStep
<1>3. LoopInv /\ ClientInv => TypeOK /\ WakesArePrompt /\ RangeCapIsEvidence
  BY DEF LoopInv, ClientInv, Numbers, Flags, Timers, TypeOK, RangeCapIsEvidence
<1> QED
  BY <1>1, <1>2, <1>3, PTL DEF AccessSpec

\* In the run of the forks: the rows of a source nobody overtook follow the live chain, and no
\* recovery touches the common past.
THEOREM RecoveryIsSound == RecoverySpec => []RowsFollowTheChain /\ R!CommonPastSurvives
<1>1. RecoveryInit => R!Init
  BY DEF RecoveryInit
<1>2. [RecoveryNext]_<<part, all, client, chain>> => [R!Next]_(R!vars)
  BY DEF RecoveryNext, chain, R!vars
<1>3. RecoverySpec => R!Spec
  BY <1>1, <1>2, PTL DEF RecoverySpec, R!Spec
<1>4. R!Spec => []R!RowsFollowTheChain
  BY RowsFollow, AccessConstants
<1>5. R!Spec => R!CommonPastSurvives
  BY CommonPastIsKept, AccessConstants
<1>6. RowsFollowTheChain <=> R!RowsFollowTheChain
  BY DEF RowsFollowTheChain
<1> QED
  BY <1>3, <1>4, <1>5, <1>6, PTL
====================================================================================
