----------------------------- MODULE Services_proofs -----------------------------
(***************************************************************************)
(* The forensics jobs, for any workers, attempts and tries, and then the   *)
(* run that composes them with the card purchases.  A claim is one slot's  *)
(* until its run is reconciled, and every attempt has a slot of its own,   *)
(* so a run is stored once; a reconciliation that writes over what it has  *)
(* read only moves the report forward.                                     *)
(***************************************************************************)
EXTENDS MCServices, MoonPay_proofs, FiniteSetTheorems

JobType == [status: {"PENDING", "RUNNING"} \cup F!Finished, attempts: 0..MaxAttempts, held: BOOLEAN]
SlotType == [pc: {"idle", "analyse", "settle"}, attempt: 0..MaxAttempts]
RunType == [status: {"none", "waiting", "reconciled"}, excluded: BOOLEAN, tries: 0..MaxTries + 1,
            at: 0..MaxAttempts]
RecType == [pc: {"idle", "read", "miss", "write", "mark"}, run: 0..MaxAttempts,
            seen: 0..MaxAttempts, tries: 0..MaxTries + 1]
ReportType == [stored: BOOLEAN, run: 0..MaxAttempts, excluded: BOOLEAN]

\* There is an attempt left for a pending job, and only a running one is held.
JobOK ==
  /\ job.status = "PENDING" => job.attempts < MaxAttempts
  /\ job.held <=> job.status = "RUNNING"
  /\ F!DoneByItsLastAttempt

\* A run that was never stored is blank, and no attempt runs ahead of the job's.
RunsOK ==
  \A a \in F!Attempts :
    /\ runs[a].at = 0 => runs[a] = F!NoRun
    /\ runs[a].at > 0 => runs[a].status # "none"
    /\ a > job.attempts => runs[a].at = 0

\* Whose attempt a is: the slot that works on it, or reconciles it promptly.
Holds(w, a) ==
  \/ work[w].pc # "idle" /\ work[w].attempt = a
  \/ rec[w].pc # "idle" /\ rec[w].run = a

Unsettled(a) == \E w \in Workers : Holds(w, a)

\* A claim is a slot's own; its run is stored between the analysis and the settling.
WorkOK ==
  /\ \A w \in Workers :
       /\ work[w].pc # "idle" => work[w].attempt \in 1..job.attempts /\ rec[w].pc = "idle"
       /\ work[w].pc = "analyse" => runs[work[w].attempt].at = 0
       /\ work[w].pc = "settle" => runs[work[w].attempt].at > 0
  /\ \A v, w \in Workers, a \in F!Attempts : Holds(v, a) /\ Holds(w, a) => v = w

\* What is reconciled, seen and shown was stored.
RecsOK ==
  /\ \A r \in F!Reconcilers :
       /\ rec[r].pc # "idle" => rec[r].run \in F!Attempts /\ runs[rec[r].run].at > 0
       /\ rec[r].pc = "write" => rec[r].seen = 0 \/ runs[rec[r].seen].at > 0
  /\ report.run = 0 \/ runs[report.run].at > 0

Judged(r) == rec[r].pc \in {"miss", "write", "mark"}

\* The sweep stops at MaxTries, and the prompt reconciliation adds one try at most.
TriesOK ==
  /\ \A a \in F!Attempts : Unsettled(a) => runs[a].tries <= MaxTries
  /\ \A w \in Workers : Judged(w) => rec[w].tries <= runs[rec[w].run].tries + 1
  /\ rec[Sweep].pc = "read" =>
       /\ runs[rec[Sweep].run].tries <= MaxTries
       /\ Unsettled(rec[Sweep].run) => runs[rec[Sweep].run].tries < MaxTries
  /\ Judged(Sweep) /\ Unsettled(rec[Sweep].run) =>
       rec[Sweep].tries <= MaxTries /\ runs[rec[Sweep].run].tries <= rec[Sweep].tries

\* The age of a run a report may show.
At(a) == IF a = 0 THEN 0 ELSE runs[a].at

\* A verdict still holds when nothing was written since; what is about to be marked is shown.
VerdictOK(r) ==
  /\ rec[r].pc = "write" =>
       /\ At(rec[r].seen) <= F!Shown
       /\ report.run = rec[r].seen => F!Replaces(rec[r].run)
  /\ rec[r].pc = "mark" => F!Shown >= runs[rec[r].run].at \/ report.excluded

ForwardOK ==
  /\ F!ReportMovesForward
  /\ ~overlapped => \A r \in F!Reconcilers : VerdictOK(r)

FInv == F!BoundsOK /\ F!TypeOK /\ JobOK /\ RunsOK /\ WorkOK /\ RecsOK /\ TriesOK /\ ForwardOK

\* The types, one variable at a time.
LEMMA Typed ==
  F!TypeOK <=> /\ job \in JobType /\ expired \in BOOLEAN /\ (expired => job.status = "RUNNING")
               /\ work \in [Workers -> SlotType] /\ runs \in [F!Attempts -> RunType]
               /\ report \in ReportType /\ rec \in [F!Reconcilers -> RecType] /\ overlapped \in BOOLEAN
  BY DEF F!TypeOK, JobType, SlotType, RunType, ReportType, RecType

LEMMA ForensicsInit == F!BoundsOK /\ F!Init => FInv
<1> SUFFICES ASSUME F!BoundsOK, F!Init PROVE FInv
  OBVIOUS
<1>1. MaxAttempts \in Nat /\ MaxTries \in Nat /\ 0 < MaxAttempts
  BY DEF F!BoundsOK
<1>2. /\ F!IdleSlot \in SlotType /\ F!IdleRec \in RecType /\ F!NoRun \in RunType
      /\ F!IdleSlot.pc = "idle" /\ F!IdleRec.pc = "idle"
      /\ F!NoRun.at = 0 /\ F!NoRun.tries = 0 /\ F!NoRun.status = "none"
  BY <1>1 DEF F!IdleSlot, F!IdleRec, F!NoRun, SlotType, RecType, RunType
<1>3. F!TypeOK
  <2>1. job \in JobType /\ report \in ReportType /\ expired = FALSE /\ overlapped = FALSE
    BY <1>1 DEF F!Init, JobType, ReportType
  <2>2. work \in [Workers -> SlotType] /\ runs \in [F!Attempts -> RunType] /\ rec \in [F!Reconcilers -> RecType]
    BY <1>2 DEF F!Init
  <2> QED BY <2>1, <2>2, Typed
<1>4. JobOK /\ RunsOK
  BY <1>1, <1>2 DEF F!Init, JobOK, RunsOK, F!DoneByItsLastAttempt, F!Attempts
<1>5. WorkOK /\ RecsOK
  BY <1>2 DEF F!Init, WorkOK, RecsOK, Holds, F!Reconcilers
<1>6. TriesOK
  BY <1>1, <1>2 DEF F!Init, TriesOK, Judged, F!Reconcilers
<1>7. ForwardOK
  BY <1>2 DEF F!Init, ForwardOK, F!ReportMovesForward, VerdictOK, F!Reconcilers
<1> QED BY <1>3, <1>4, <1>5, <1>6, <1>7 DEF FInv

\* Facts the cases share.
LEMMA Facts ==
  ASSUME FInv
  PROVE  /\ MaxAttempts \in Nat /\ MaxTries \in Nat /\ 0 < MaxAttempts /\ Sweep \notin Workers
         /\ job \in JobType /\ expired \in BOOLEAN /\ (expired => job.status = "RUNNING")
         /\ work \in [Workers -> SlotType] /\ runs \in [F!Attempts -> RunType]
         /\ report \in ReportType /\ rec \in [F!Reconcilers -> RecType] /\ overlapped \in BOOLEAN
         /\ job.attempts \in 0..MaxAttempts /\ F!Attempts = 1..MaxAttempts
         /\ \A a \in F!Attempts : a \in Nat /\ runs[a].tries \in Nat /\ runs[a].at \in Nat
         /\ Workers \subseteq F!Reconcilers /\ Sweep \in F!Reconcilers
         /\ \A r \in F!Reconcilers : rec[r].tries \in Nat
         /\ F!Shown \in Nat
<1>1. /\ MaxAttempts \in Nat /\ MaxTries \in Nat /\ 0 < MaxAttempts /\ Sweep \notin Workers
      /\ job \in JobType /\ expired \in BOOLEAN /\ (expired => job.status = "RUNNING")
      /\ work \in [Workers -> SlotType] /\ runs \in [F!Attempts -> RunType]
      /\ report \in ReportType /\ rec \in [F!Reconcilers -> RecType] /\ overlapped \in BOOLEAN
  BY Typed DEF FInv, F!BoundsOK
<1>2. \A a \in F!Attempts : a \in Nat /\ runs[a].tries \in Nat /\ runs[a].at \in Nat
  BY <1>1 DEF RunType, F!Attempts
<1>3. \A r \in F!Reconcilers : rec[r].tries \in Nat
  BY <1>1 DEF RecType
<1>4. F!Shown \in Nat
  BY <1>1, <1>2 DEF F!Shown, ReportType, F!Attempts
<1> QED BY <1>1, <1>2, <1>3, <1>4 DEF JobType, F!Attempts, F!Reconcilers

-----------------------------------------------------------------------------
(* The job. *)

\* A step that changes only the lease.
LEMMA LeaseKeeps ==
  ASSUME FInv, expired' \in BOOLEAN, expired' => job.status = "RUNNING",
         UNCHANGED <<job, work, runs, report, rec, overlapped>>
  PROVE  FInv'
<1>1. F!TypeOK'
  BY Typed DEF FInv, F!TypeOK
<1>2. F!BoundsOK' /\ JobOK' /\ RunsOK' /\ WorkOK' /\ RecsOK'
  BY DEF FInv, F!BoundsOK, JobOK, F!DoneByItsLastAttempt, RunsOK, WorkOK, Holds, RecsOK
<1>3. TriesOK' /\ ForwardOK'
  BY DEF FInv, TriesOK, Unsettled, Holds, Judged, ForwardOK, F!ReportMovesForward, VerdictOK, F!Shown,
         At, F!Replaces
<1> QED BY <1>1, <1>2, <1>3 DEF FInv

LEMMA JobClaimKeeps == ASSUME FInv, NEW w \in Workers, F!Claim(w) PROVE FInv'
<1> DEFINE n == job.attempts + 1
<1>1. /\ work[w].pc = "idle" /\ rec[w].pc = "idle" /\ expired' = FALSE
      /\ job' = [status |-> "RUNNING", attempts |-> n, held |-> TRUE]
      /\ work' = [work EXCEPT ![w] = [pc |-> "analyse", attempt |-> n]]
      /\ UNCHANGED <<runs, report, rec, overlapped>>
  BY DEF F!Claim, F!recVars
<1>2. n \in 1..MaxAttempts /\ job.attempts < n /\ n \in F!Attempts
  BY Facts DEF F!Claim, F!Claimable, FInv, JobOK
<1>3. /\ work'[w] = [pc |-> "analyse", attempt |-> n] /\ work'[w].pc = "analyse" /\ work'[w].attempt = n
      /\ \A v \in Workers \ {w} : work'[v] = work[v]
  BY <1>1, Facts
<1>4. F!TypeOK'
  <2>1. job' \in JobType /\ work' \in [Workers -> SlotType]
    BY <1>1, <1>2, Facts DEF JobType, SlotType
  <2> QED BY <1>1, <2>1, Facts, Typed DEF F!Attempts, F!Reconcilers, JobType, SlotType, RunType, RecType, ReportType, F!TypeOK
<1>5. JobOK' /\ RunsOK'
  BY <1>1, <1>2, Facts DEF FInv, JobOK, RunsOK, F!DoneByItsLastAttempt
<1>6. runs[n].at = 0 /\ runs[n].tries = 0
  BY <1>2, Facts DEF FInv, RunsOK, F!NoRun
<1>7. \A v \in Workers : ~Holds(v, n)
  BY <1>2, <1>6, Facts DEF FInv, WorkOK, RecsOK, Holds
<1>8. \A v \in Workers, a \in F!Attempts : Holds(v, a)' <=> Holds(v, a) \/ (v = w /\ a = n)
  BY <1>1, <1>3 DEF Holds
<1>9. WorkOK'
  <2>1. \A v \in Workers :
          /\ work'[v].pc # "idle" => work'[v].attempt \in 1..n /\ rec[v].pc = "idle"
          /\ work'[v].pc = "analyse" => runs[work'[v].attempt].at = 0
          /\ work'[v].pc = "settle" => runs[work'[v].attempt].at > 0
    BY <1>1, <1>2, <1>3, <1>6, Facts DEF FInv, WorkOK
  <2>2. \A u, v \in Workers, a \in F!Attempts : Holds(u, a)' /\ Holds(v, a)' => u = v
    BY <1>7, <1>8 DEF FInv, WorkOK
  <2> QED BY <1>1, <2>1, <2>2 DEF WorkOK
<1>10. RecsOK' /\ ForwardOK'
  BY <1>1 DEF FInv, RecsOK, ForwardOK, F!ReportMovesForward, VerdictOK, F!Shown, At, F!Replaces
<1>11. TriesOK'
  <2>1. \A a \in F!Attempts : Unsettled(a)' <=> Unsettled(a) \/ a = n
    BY <1>8 DEF Unsettled
  <2>2. rec[Sweep].pc # "idle" => rec[Sweep].run \in F!Attempts /\ rec[Sweep].run # n
    BY <1>6, Facts DEF FInv, RecsOK
  <2> QED BY <1>1, <1>6, <2>1, <2>2, Facts DEF FInv, TriesOK, Judged
<1> QED BY <1>4, <1>5, <1>9, <1>10, <1>11 DEF FInv, F!BoundsOK

\* The job settled, or left to another claim, by a slot that is done with it.
LEMMA SettledJob ==
  ASSUME FInv, NEW w \in Workers, work[w].pc # "idle", NEW status \in {"DONE", "FAILED", "PENDING"},
         F!Settled(w, status), expired' = (expired /\ ~F!Owns(w)),
         status = "DONE" => work[w].pc = "settle",
         status = "PENDING" => work[w].attempt < MaxAttempts,
         UNCHANGED runs
  PROVE  /\ job' \in JobType /\ job'.attempts = job.attempts /\ JobOK' /\ RunsOK'
         /\ expired' \in BOOLEAN /\ (expired' => job'.status = "RUNNING")
         /\ job.status \in F!Finished => job' = job
<1>1. CASE ~F!Owns(w)
  <2>1. job' = job /\ expired' = expired
    BY <1>1, Facts DEF F!Settled
  <2> QED BY <2>1, Facts DEF FInv, JobOK, RunsOK, F!DoneByItsLastAttempt
<1>2. CASE F!Owns(w)
  <2>1. job.held /\ job.attempts = work[w].attempt /\ job.status = "RUNNING"
    BY <1>2 DEF F!Owns, FInv, JobOK
  <2>2. /\ job' = [job EXCEPT !.status = status, !.held = FALSE] /\ expired' = FALSE
    BY <1>2 DEF F!Settled
  <2>3. /\ job' \in JobType /\ job'.attempts = job.attempts /\ job'.status = status /\ job'.held = FALSE
    BY <2>2, Facts DEF JobType, F!Finished
  <2>4. status = "DONE" => runs[job.attempts].status # "none"
    BY <2>1, Facts DEF FInv, WorkOK, RunsOK
  <2>5. JobOK'
    BY <2>1, <2>3, <2>4 DEF JobOK, F!DoneByItsLastAttempt
  <2>6. RunsOK'
    BY <2>3 DEF FInv, RunsOK
  <2> QED BY <2>1, <2>2, <2>3, <2>5, <2>6 DEF F!Finished
<1> QED BY <1>1, <1>2

\* A slot lets go of its claim, and reconciles its run or not.
LEMMA LetGoKeeps ==
  ASSUME FInv, NEW w \in Workers, work' = [work EXCEPT ![w] = F!IdleSlot],
         NEW next \in {F!IdleRec, rec[w], [F!IdleRec EXCEPT !.pc = "read", !.run = work[w].attempt]},
         rec' = [rec EXCEPT ![w] = next],
         next \notin {F!IdleRec, rec[w]} => work[w].pc = "settle",
         job' \in JobType, job'.attempts = job.attempts, JobOK', RunsOK',
         expired' \in BOOLEAN, expired' => job'.status = "RUNNING",
         UNCHANGED <<runs, report, overlapped>>
  PROVE  FInv'
<1>1. /\ F!IdleSlot \in SlotType /\ F!IdleSlot.pc = "idle" /\ F!IdleRec \in RecType /\ F!IdleRec.pc = "idle"
  BY Facts DEF F!IdleSlot, SlotType, F!IdleRec, RecType
<1>2. /\ \/ next.pc = "idle" \/ next = rec[w]
         \/ work[w].pc = "settle" /\ next.pc = "read" /\ next.run = work[w].attempt
      /\ next \in RecType
  <2>1. CASE next \in {F!IdleRec, rec[w]}
    BY <1>1, <2>1, Facts
  <2>2. CASE next \notin {F!IdleRec, rec[w]}
    <3>1. work[w].attempt \in 0..MaxAttempts
      BY Facts DEF SlotType
    <3> QED BY <1>1, <2>2, <3>1 DEF RecType, F!IdleRec
  <2> QED BY <2>1, <2>2
<1>3. /\ work' \in [Workers -> SlotType] /\ rec' \in [F!Reconcilers -> RecType]
      /\ work'[w].pc = "idle" /\ rec'[w] = next
      /\ \A v \in Workers \ {w} : work'[v] = work[v]
      /\ \A r \in F!Reconcilers \ {w} : rec'[r] = rec[r]
  BY <1>1, <1>2, Facts
<1>4. F!TypeOK'
  BY <1>3, Facts, Typed DEF F!Attempts, F!Reconcilers, JobType, SlotType, RunType, RecType, ReportType, F!TypeOK
<1>5. work[w].pc = "settle" => work[w].attempt \in F!Attempts /\ runs[work[w].attempt].at > 0
  BY Facts DEF FInv, WorkOK
<1>6. \A v \in Workers, a \in F!Attempts : Holds(v, a)' => Holds(v, a)
  <2> SUFFICES ASSUME NEW v \in Workers, NEW a \in F!Attempts, Holds(v, a)' PROVE Holds(v, a)
    OBVIOUS
  <2>1. CASE v # w
    BY <1>3, <2>1, Facts DEF Holds
  <2>2. CASE v = w
    <3>1. next.pc # "idle" /\ next.run = a
      BY <1>3, <2>2 DEF Holds
    <3> QED BY <1>2, <2>2, <3>1 DEF Holds
  <2> QED BY <2>1, <2>2
<1>7. WorkOK'
  <2>1. \A v \in Workers :
          /\ work'[v].pc # "idle" => work'[v].attempt \in 1..job'.attempts /\ rec'[v].pc = "idle"
          /\ work'[v].pc = "analyse" => runs[work'[v].attempt].at = 0
          /\ work'[v].pc = "settle" => runs[work'[v].attempt].at > 0
    BY <1>3, Facts DEF FInv, WorkOK
  <2>2. \A u, v \in Workers, a \in F!Attempts : Holds(u, a)' /\ Holds(v, a)' => u = v
    BY <1>6 DEF FInv, WorkOK
  <2> QED BY <2>1, <2>2 DEF WorkOK
<1>8. RecsOK'
  <2>1. \A r \in F!Reconcilers :
          /\ rec'[r].pc # "idle" => rec'[r].run \in F!Attempts /\ runs[rec'[r].run].at > 0
          /\ rec'[r].pc = "write" => rec'[r].seen = 0 \/ runs[rec'[r].seen].at > 0
    BY <1>2, <1>3, <1>5, Facts DEF FInv, RecsOK
  <2> QED BY <2>1 DEF FInv, RecsOK
<1>9. TriesOK'
  <2>1. \A a \in F!Attempts : Unsettled(a)' => Unsettled(a)
    BY <1>6 DEF Unsettled
  <2>2. rec'[Sweep] = rec[Sweep] /\ (rec[Sweep].pc # "idle" => rec[Sweep].run \in F!Attempts)
    BY <1>3, Facts DEF FInv, RecsOK
  <2>3. \A v \in Workers : Judged(v)' => Judged(v) /\ rec'[v] = rec[v]
    BY <1>2, <1>3, Facts DEF Judged
  <2>4. Judged(Sweep)' => Judged(Sweep) /\ rec[Sweep].pc # "idle"
    BY <2>2 DEF Judged
  <2> QED BY <2>1, <2>2, <2>3, <2>4 DEF FInv, TriesOK
<1>10. ForwardOK'
  <2>1. \A r \in F!Reconcilers : rec'[r].pc \in {"write", "mark"} => rec'[r] = rec[r]
    BY <1>2, <1>3
  <2>2. F!Shown' = F!Shown /\ \A a : At(a)' = At(a)
    BY DEF F!Shown, At
  <2> QED BY <2>1, <2>2 DEF FInv, ForwardOK, F!ReportMovesForward, VerdictOK, F!Replaces
<1> QED BY <1>4, <1>7, <1>8, <1>9, <1>10 DEF FInv, F!BoundsOK


LEMMA CompleteKeeps ==
  ASSUME FInv, NEW w \in Workers, F!Complete(w)
  PROVE  FInv' /\ (job.status \in F!Finished => job' = job)
<1> DEFINE next == IF w \in Prompt THEN [F!IdleRec EXCEPT !.pc = "read", !.run = work[w].attempt] ELSE rec[w]
<1>1. /\ work[w].pc = "settle" /\ F!Settled(w, "DONE") /\ expired' = (expired /\ ~F!Owns(w))
      /\ work' = [work EXCEPT ![w] = F!IdleSlot] /\ rec' = [rec EXCEPT ![w] = next]
      /\ UNCHANGED <<runs, report, overlapped>>
  BY DEF F!Complete
<1>2. /\ job' \in JobType /\ job'.attempts = job.attempts /\ JobOK' /\ RunsOK'
      /\ expired' \in BOOLEAN /\ (expired' => job'.status = "RUNNING")
      /\ job.status \in F!Finished => job' = job
  BY <1>1, SettledJob
<1>3. next \in {F!IdleRec, rec[w], [F!IdleRec EXCEPT !.pc = "read", !.run = work[w].attempt]}
  OBVIOUS
<1> HIDE DEF next
<1> QED BY <1>1, <1>2, <1>3, LetGoKeeps

LEMMA FailKeeps ==
  ASSUME FInv, NEW w \in Workers, NEW permanent \in BOOLEAN, F!Fail(w, permanent)
  PROVE  FInv' /\ (job.status \in F!Finished => job' = job)
<1> DEFINE status == IF permanent \/ work[w].attempt >= MaxAttempts THEN "FAILED" ELSE "PENDING"
<1>1. /\ work[w].pc # "idle" /\ F!Settled(w, status) /\ expired' = (expired /\ ~F!Owns(w))
      /\ work' = [work EXCEPT ![w] = F!IdleSlot] /\ UNCHANGED <<runs, report, rec, overlapped>>
  BY DEF F!Fail, F!recVars
<1>2. status \in {"DONE", "FAILED", "PENDING"} /\ status # "DONE"
      /\ (status = "PENDING" => work[w].attempt < MaxAttempts)
  BY Facts DEF SlotType
<1> HIDE DEF status
<1>3. /\ job' \in JobType /\ job'.attempts = job.attempts /\ JobOK' /\ RunsOK'
      /\ expired' \in BOOLEAN /\ (expired' => job'.status = "RUNNING")
      /\ job.status \in F!Finished => job' = job
  BY <1>1, <1>2, SettledJob
<1>4. rec' = [rec EXCEPT ![w] = rec[w]]
  BY <1>1, Facts
<1> QED BY <1>1, <1>3, <1>4, LetGoKeeps

LEMMA VanishKeeps == ASSUME FInv, NEW w \in Workers, F!Vanish(w) PROVE FInv' /\ UNCHANGED job
<1>1. /\ work' = [work EXCEPT ![w] = F!IdleSlot] /\ rec' = [rec EXCEPT ![w] = F!IdleRec]
      /\ UNCHANGED <<job, expired, runs, report, overlapped>>
  BY DEF F!Vanish
<1>2. JobOK' /\ RunsOK'
  BY <1>1 DEF FInv, JobOK, RunsOK, F!DoneByItsLastAttempt
<1> QED BY <1>1, <1>2, Facts, LetGoKeeps

\* One definition, reached by two ways.
LEMMA SameCardinality == ASSUME NEW S PROVE F!Cardinality(S) = Cardinality(S)
BY DEF F!Cardinality, Cardinality

\* The run of an attempt is stored once, so there are fewer ages than attempts.
LEMMA AgeFits ==
  ASSUME FInv, NEW a \in F!Attempts, runs[a].at = 0
  PROVE  Cardinality({b \in F!Attempts : runs[b].at > 0}) + 1 \in 1..MaxAttempts
<1> DEFINE S == {b \in F!Attempts : runs[b].at > 0}
<1>1. /\ MaxAttempts \in Nat /\ F!Attempts = 1..MaxAttempts /\ 0 < MaxAttempts
  BY Facts
<1>2. IsFiniteSet(F!Attempts) /\ Cardinality(F!Attempts) = MaxAttempts
  BY <1>1, FS_Interval
<1>3. IsFiniteSet(F!Attempts \ {a}) /\ Cardinality(F!Attempts \ {a}) = MaxAttempts - 1
  BY <1>2, FS_RemoveElement
<1>4. S \subseteq F!Attempts \ {a}
  OBVIOUS
<1>5. IsFiniteSet(S) /\ Cardinality(S) <= MaxAttempts - 1
  BY <1>3, <1>4, FS_Subset
<1>6. Cardinality(S) \in Nat
  BY <1>5, FS_CardinalityType
<1> QED BY <1>1, <1>5, <1>6

LEMMA PersistKeeps ==
  ASSUME FInv, NEW w \in Workers, NEW excluded \in BOOLEAN, F!Persist(w, excluded)
  PROVE  FInv' /\ UNCHANGED job
<1> DEFINE a == work[w].attempt
           age == Cardinality({b \in F!Attempts : runs[b].at > 0}) + 1
           n == [status |-> "waiting", excluded |-> excluded, tries |-> 0, at |-> age]
<1>1. /\ work[w].pc = "analyse" /\ runs' = [runs EXCEPT ![a] = n]
      /\ work' = [work EXCEPT ![w].pc = "settle"]
      /\ UNCHANGED <<job, expired, report, rec, overlapped>>
  BY SameCardinality DEF F!Persist, F!recVars
<1>2. a \in F!Attempts /\ a \in 1..job.attempts /\ runs[a].at = 0 /\ runs[a] = F!NoRun
  BY <1>1, Facts DEF FInv, WorkOK, RunsOK
<1>3. age \in 1..MaxAttempts
  BY <1>2, AgeFits
<1> HIDE DEF age
<1>4. n \in RunType /\ n.at = age /\ age > 0 /\ n.status = "waiting" /\ n.tries = 0
  BY <1>3, Facts DEF RunType
<1>5. /\ work' = [work EXCEPT ![w] = [work[w] EXCEPT !.pc = "settle"]]
      /\ [work[w] EXCEPT !.pc = "settle"] \in SlotType
      /\ [work[w] EXCEPT !.pc = "settle"].pc = "settle" /\ [work[w] EXCEPT !.pc = "settle"].attempt = a
  BY <1>1, Facts DEF SlotType
<1>6. /\ work' \in [Workers -> SlotType] /\ work'[w].pc = "settle" /\ work'[w].attempt = a
      /\ \A v \in Workers \ {w} : work'[v] = work[v]
  BY <1>5, Facts
<1> HIDE DEF n
<1>7. /\ runs' \in [F!Attempts -> RunType] /\ runs'[a] = n
      /\ \A b \in F!Attempts \ {a} : runs'[b] = runs[b]
  BY <1>1, <1>2, <1>4, Facts
<1> HIDE DEF a
<1>8. F!TypeOK'
  BY <1>1, <1>6, <1>7, Facts, Typed DEF F!Attempts, F!Reconcilers, JobType, SlotType, RunType, RecType, ReportType, F!TypeOK
<1>9. \A b \in F!Attempts : runs[b].at > 0 => b # a /\ runs'[b] = runs[b]
  BY <1>2, <1>7
<1>10. JobOK'
  <2>1. job.status = "DONE" => runs'[job.attempts].status # "none"
    <3> SUFFICES ASSUME job.status = "DONE" PROVE runs'[job.attempts].status # "none"
      OBVIOUS
    <3>1. job.attempts \in F!Attempts
      BY <1>2, Facts
    <3> QED BY <1>4, <1>7, <3>1 DEF FInv, JobOK, F!DoneByItsLastAttempt
  <2> QED BY <1>1, <2>1 DEF FInv, JobOK, F!DoneByItsLastAttempt
<1>11. RunsOK'
  <2> SUFFICES ASSUME NEW b \in F!Attempts
               PROVE  /\ runs'[b].at = 0 => runs'[b] = F!NoRun
                      /\ runs'[b].at > 0 => runs'[b].status # "none"
                      /\ b > job.attempts => runs'[b].at = 0
    BY <1>1 DEF RunsOK
  <2>1. CASE b = a
    BY <1>2, <1>4, <1>7, <2>1, Facts
  <2>2. CASE b # a
    BY <1>7, <2>2 DEF FInv, RunsOK
  <2> QED BY <2>1, <2>2
<1>12. \A v \in Workers, b \in F!Attempts : Holds(v, b)' <=> Holds(v, b)
  <2>1. work[w].attempt = a
    BY DEF a
  <2> QED BY <1>1, <1>6, <2>1 DEF Holds
<1>13. WorkOK'
  <2>1. \A v \in Workers :
          /\ work'[v].pc # "idle" => work'[v].attempt \in 1..job.attempts /\ rec[v].pc = "idle"
          /\ work'[v].pc = "analyse" => runs'[work'[v].attempt].at = 0
          /\ work'[v].pc = "settle" => runs'[work'[v].attempt].at > 0
    <3> SUFFICES ASSUME NEW v \in Workers
                 PROVE  /\ work'[v].pc # "idle" => work'[v].attempt \in 1..job.attempts /\ rec[v].pc = "idle"
                        /\ work'[v].pc = "analyse" => runs'[work'[v].attempt].at = 0
                        /\ work'[v].pc = "settle" => runs'[work'[v].attempt].at > 0
      OBVIOUS
    <3>1. CASE v = w
      BY <1>1, <1>2, <1>4, <1>6, <1>7, <3>1 DEF FInv, WorkOK
    <3>2. CASE v # w
      <4>1. work'[v] = work[v]
        BY <1>6, <3>2
      <4>2. work[v].pc # "idle" => work[v].attempt \in F!Attempts /\ work[v].attempt # a
        <5> SUFFICES ASSUME work[v].pc # "idle" PROVE work[v].attempt \in F!Attempts /\ work[v].attempt # a
          OBVIOUS
        <5>1. work[v].attempt \in F!Attempts
          BY Facts DEF FInv, WorkOK
        <5>2. Holds(v, work[v].attempt) /\ Holds(w, a)
          BY <1>1 DEF Holds, a
        <5> QED BY <1>2, <3>2, <5>1, <5>2 DEF FInv, WorkOK
      <4> QED BY <1>7, <4>1, <4>2 DEF FInv, WorkOK
    <3> QED BY <3>1, <3>2
  <2> QED BY <1>1, <1>12, <2>1 DEF FInv, WorkOK
<1>14. RecsOK'
  <2>1. \A r \in F!Reconcilers :
          /\ rec[r].pc # "idle" => rec[r].run \in F!Attempts /\ runs'[rec[r].run].at > 0
          /\ rec[r].pc = "write" => rec[r].seen = 0 \/ runs'[rec[r].seen].at > 0
    <3> SUFFICES ASSUME NEW r \in F!Reconcilers
                 PROVE  /\ rec[r].pc # "idle" => rec[r].run \in F!Attempts /\ runs'[rec[r].run].at > 0
                        /\ rec[r].pc = "write" => rec[r].seen = 0 \/ runs'[rec[r].seen].at > 0
      OBVIOUS
    <3>1. rec[r].seen \in 0..MaxAttempts
      BY Facts DEF RecType
    <3>2. rec[r].seen = 0 \/ rec[r].seen \in F!Attempts
      BY <3>1, Facts
    <3> QED BY <1>9, <3>2 DEF FInv, RecsOK
  <2>2. report.run = 0 \/ report.run \in F!Attempts
    BY Facts DEF ReportType
  <2> QED BY <1>1, <1>9, <2>1, <2>2 DEF FInv, RecsOK
<1>15. \A r \in F!Reconcilers : rec[r].pc # "idle" =>
         rec[r].run \in F!Attempts /\ rec[r].run # a /\ runs'[rec[r].run] = runs[rec[r].run]
  BY <1>9 DEF FInv, RecsOK
<1>16. TriesOK'
  <2>1. \A b \in F!Attempts : Unsettled(b)' <=> Unsettled(b)
    BY <1>12 DEF Unsettled
  <2>2. \A b \in F!Attempts : Unsettled(b)' => runs'[b].tries <= MaxTries
    <3> SUFFICES ASSUME NEW b \in F!Attempts, Unsettled(b) PROVE runs'[b].tries <= MaxTries
      BY <2>1
    <3>1. CASE b = a
      BY <1>4, <1>7, <3>1, Facts
    <3>2. CASE b # a
      BY <1>7, <3>2 DEF FInv, TriesOK
    <3> QED BY <3>1, <3>2
  <2>3. \A v \in Workers : Judged(v)' => rec[v].tries <= runs'[rec[v].run].tries + 1
    BY <1>1, <1>15, Facts DEF FInv, TriesOK, Judged
  <2>4. rec[Sweep].pc = "read" => /\ runs'[rec[Sweep].run].tries <= MaxTries
                                  /\ Unsettled(rec[Sweep].run) => runs'[rec[Sweep].run].tries < MaxTries
    BY <1>15, Facts DEF FInv, TriesOK
  <2>5. Judged(Sweep) /\ Unsettled(rec[Sweep].run) =>
          rec[Sweep].tries <= MaxTries /\ runs'[rec[Sweep].run].tries <= rec[Sweep].tries
    BY <1>15, Facts DEF FInv, TriesOK, Judged
  <2>6. rec[Sweep].pc # "idle" => rec[Sweep].run \in F!Attempts
    BY <1>15, Facts
  <2> QED BY <1>1, <2>1, <2>2, <2>3, <2>4, <2>5, <2>6 DEF TriesOK, Judged
<1>17. ForwardOK'
  <2>1. report.run = 0 \/ (report.run \in F!Attempts /\ runs[report.run].at > 0)
    BY Facts DEF ReportType, FInv, RecsOK
  <2>2. F!Shown' = F!Shown /\ F!Shown \in Nat
    BY <1>1, <1>9, <2>1, Facts DEF F!Shown
  <2>3. F!ReportMovesForward'
    <3> SUFFICES ASSUME NEW b \in F!Attempts, runs'[b].status = "reconciled", ~overlapped
                 PROVE  F!Shown >= runs'[b].at \/ report.excluded
      BY <1>1, <2>2 DEF F!ReportMovesForward
    <3>1. b # a
      BY <1>4, <1>7
    <3> QED BY <1>7, <3>1 DEF FInv, ForwardOK, F!ReportMovesForward
  <2>4. ASSUME ~overlapped, NEW r \in F!Reconcilers PROVE VerdictOK(r)'
    <3>1. VerdictOK(r)
      BY <2>4 DEF FInv, ForwardOK
    <3>2. rec[r].pc = "write" => At(rec[r].seen)' = At(rec[r].seen)
      <4>1. rec[r].seen \in 0..MaxAttempts
        BY Facts DEF RecType
      <4> QED BY <1>1, <1>9, <4>1, Facts DEF At, FInv, RecsOK
    <3>3. rec[r].pc # "idle" => (F!Replaces(rec[r].run)' <=> F!Replaces(rec[r].run))
      BY <1>1, <1>15, <2>2 DEF F!Replaces
    <3> QED BY <1>1, <1>15, <2>2, <3>1, <3>2, <3>3 DEF VerdictOK
  <2> QED BY <1>1, <2>3, <2>4 DEF ForwardOK
<1> QED BY <1>1, <1>8, <1>10, <1>11, <1>13, <1>14, <1>16, <1>17 DEF FInv, F!BoundsOK


-----------------------------------------------------------------------------
(* Reconciliation. *)

\* The report is stored: it shows what it showed.
LEMMA StoreReportKeeps == ASSUME FInv, F!StoreReport PROVE FInv' /\ UNCHANGED job
<1>1. UNCHANGED <<job, expired, work, runs, rec, overlapped>> /\ report' = [report EXCEPT !.stored = TRUE]
  BY DEF F!StoreReport
<1>2. report' \in ReportType /\ report'.run = report.run /\ report'.excluded = report.excluded
  BY <1>1, Facts DEF ReportType
<1>3. F!TypeOK'
  BY <1>1, <1>2, Facts, Typed DEF F!Attempts, F!Reconcilers, JobType, SlotType, RunType, RecType, ReportType, F!TypeOK
<1>4. JobOK' /\ RunsOK' /\ WorkOK' /\ RecsOK'
  BY <1>1, <1>2 DEF FInv, JobOK, F!DoneByItsLastAttempt, RunsOK, WorkOK, Holds, RecsOK
<1>5. TriesOK'
  BY <1>1 DEF FInv, TriesOK, Unsettled, Holds, Judged
<1>6. ForwardOK'
  BY <1>1, <1>2 DEF FInv, ForwardOK, F!ReportMovesForward, VerdictOK, F!Shown, At, F!Replaces
<1> QED BY <1>1, <1>3, <1>4, <1>5, <1>6 DEF FInv, F!BoundsOK

\* A reconciliation takes up a run or reads the report, and nothing else changes.
LEMMA RecMoves ==
  ASSUME FInv, NEW r \in F!Reconcilers, NEW next \in RecType, rec' = [rec EXCEPT ![r] = next],
         UNCHANGED <<job, expired, work, runs, report, overlapped>>,
         next.run \in F!Attempts, runs[next.run].at > 0, next.pc # "idle",
         next.pc = "write" => next.seen = 0 \/ runs[next.seen].at > 0,
         r \in Workers => rec[r].pc # "idle" /\ next.run = rec[r].run,
         r \in Workers /\ next.pc # "read" => next.tries <= runs[next.run].tries + 1,
         r = Sweep /\ next.pc = "read" => runs[next.run].tries < MaxTries,
         r = Sweep /\ next.pc # "read" /\ Unsettled(next.run) =>
           next.tries <= MaxTries /\ runs[next.run].tries <= next.tries,
         next.pc = "write" => next.seen = report.run /\ F!Replaces(next.run),
         next.pc = "mark" => F!Shown >= runs[next.run].at \/ report.excluded
  PROVE  FInv'
<1>1. /\ rec' \in [F!Reconcilers -> RecType] /\ rec'[r] = next
      /\ \A q \in F!Reconcilers \ {r} : rec'[q] = rec[q]
  BY Facts
<1>2. F!TypeOK'
  BY <1>1, Facts, Typed DEF F!Attempts, F!Reconcilers, JobType, SlotType, RunType, RecType, ReportType, F!TypeOK
<1>3. JobOK' /\ RunsOK'
  BY DEF FInv, JobOK, F!DoneByItsLastAttempt, RunsOK
<1>4. \A v \in Workers, a \in F!Attempts : Holds(v, a)' <=> Holds(v, a)
  BY <1>1, Facts DEF Holds
<1>5. WorkOK'
  <2>1. \A v \in Workers : work[v].pc # "idle" => rec'[v].pc = "idle"
    BY <1>1, Facts DEF FInv, WorkOK
  <2> QED BY <1>4, <2>1 DEF FInv, WorkOK
<1>6. RecsOK'
  BY <1>1 DEF FInv, RecsOK
<1>7. \A a \in F!Attempts : Unsettled(a)' <=> Unsettled(a)
  BY <1>4 DEF Unsettled
<1>8. TriesOK'
  <2>1. \A a \in F!Attempts : Unsettled(a)' => runs[a].tries <= MaxTries
    BY <1>7 DEF FInv, TriesOK
  <2>2. \A w \in Workers : Judged(w)' => rec'[w].tries <= runs[rec'[w].run].tries + 1
    BY <1>1, Facts DEF FInv, TriesOK, Judged
  <2>3. rec'[Sweep].pc # "idle" => rec'[Sweep].run \in F!Attempts
    BY <1>1, Facts DEF FInv, RecsOK
  <2>4. rec'[Sweep].pc = "read" =>
          /\ runs[rec'[Sweep].run].tries <= MaxTries
          /\ Unsettled(rec'[Sweep].run) => runs[rec'[Sweep].run].tries < MaxTries
    BY <1>1, Facts DEF FInv, TriesOK
  <2>5. Judged(Sweep)' /\ Unsettled(rec'[Sweep].run) =>
          rec'[Sweep].tries <= MaxTries /\ runs[rec'[Sweep].run].tries <= rec'[Sweep].tries
    BY <1>1, Facts DEF FInv, TriesOK, Judged
  <2>6. rec'[Sweep].pc # "idle" => (Unsettled(rec[Sweep].run)' <=> Unsettled(rec'[Sweep].run))
    BY <1>7, <2>3
  <2> QED BY <2>1, <2>2, <2>4, <2>5, <2>6 DEF TriesOK, Judged
<1>9. ForwardOK'
  <2>1. F!ReportMovesForward'
    BY DEF FInv, ForwardOK, F!ReportMovesForward, F!Shown
  <2>2. F!Shown \in Int
    BY Facts
  <2>3. ASSUME ~overlapped, NEW q \in F!Reconcilers PROVE VerdictOK(q)'
    <3>1. CASE q # r
      BY <1>1, <2>3, <3>1 DEF FInv, ForwardOK, VerdictOK, F!Shown, At, F!Replaces
    <3>2. CASE q = r
      <4>1. next.pc = "write" => At(next.seen) = F!Shown
        BY DEF At, F!Shown
      <4> QED BY <1>1, <2>2, <3>2, <4>1 DEF VerdictOK, F!Shown, At, F!Replaces
    <3> QED BY <3>1, <3>2
  <2> QED BY <2>1, <2>3 DEF ForwardOK
<1> QED BY <1>2, <1>3, <1>5, <1>6, <1>8, <1>9 DEF FInv, F!BoundsOK

LEMMA SweepRunKeeps == ASSUME FInv, NEW a \in F!Attempts, F!SweepRun(a) PROVE FInv' /\ UNCHANGED job
<1> DEFINE next == [F!IdleRec EXCEPT !.pc = "read", !.run = a]
<1>1. /\ a \in F!Swept /\ rec' = [rec EXCEPT ![Sweep] = next]
      /\ UNCHANGED <<job, expired, work, runs, report, overlapped>>
  BY DEF F!SweepRun
<1>2. next \in RecType /\ next.pc = "read" /\ next.run = a
  <2>1. a \in 0..MaxAttempts /\ F!IdleRec \in RecType
    BY Facts DEF F!IdleRec, RecType
  <2> HIDE DEF F!IdleRec
  <2> QED BY <2>1 DEF RecType
<1>3. runs[a].tries < MaxTries /\ runs[a].at > 0
  BY <1>1, Facts DEF F!Swept, FInv, RunsOK, F!NoRun
<1> HIDE DEF next
<1> QED BY <1>1, <1>2, <1>3, Facts, RecMoves

LEMMA ReadReportKeeps == ASSUME FInv, NEW r \in F!Reconcilers, F!ReadReport(r) PROVE FInv' /\ UNCHANGED job
<1> DEFINE a == rec[r].run
           verdict == IF ~report.stored THEN "miss" ELSE IF F!Replaces(a) THEN "write" ELSE "mark"
           next == [pc |-> verdict, run |-> a, seen |-> report.run, tries |-> runs[a].tries + 1]
<1>1. /\ rec[r].pc = "read" /\ rec' = [rec EXCEPT ![r] = next]
      /\ UNCHANGED <<job, expired, work, runs, report, overlapped>>
  BY DEF F!ReadReport
<1>2. a \in F!Attempts /\ runs[a].at > 0 /\ runs[a].tries \in Nat
  BY <1>1, Facts DEF FInv, RecsOK
<1>3. CASE r \in Workers
  <2>1. Unsettled(a)
    BY <1>1, <1>3 DEF Unsettled, Holds
  <2>2. runs[a].tries <= MaxTries
    BY <1>2, <2>1 DEF FInv, TriesOK
  <2>3. next \in RecType
    BY <1>2, <2>2, Facts DEF RecType, ReportType
  <2>4. next.pc = verdict /\ next.run = a /\ next.seen = report.run /\ next.tries = runs[a].tries + 1
    OBVIOUS
  <2>5. verdict = "mark" => F!Shown >= runs[a].at \/ report.excluded
    BY <1>2, Facts DEF F!Replaces
  <2>6. verdict = "write" => F!Replaces(a)
    OBVIOUS
  <2>7. verdict \in {"miss", "write", "mark"} /\ r # Sweep
    BY <1>3, Facts
  <2>8. runs[a].tries + 1 <= runs[a].tries + 1
    BY <1>2
  <2> HIDE DEF next, verdict
  <2> QED BY <1>1, <1>2, <1>3, <2>3, <2>4, <2>5, <2>6, <2>7, <2>8, RecMoves DEF FInv, RecsOK
<1>4. CASE r = Sweep
  <2>1. /\ runs[a].tries <= MaxTries
        /\ Unsettled(a) => runs[a].tries < MaxTries
    BY <1>1, <1>4 DEF FInv, TriesOK
  <2>3. next \in RecType
    BY <1>2, <2>1, Facts DEF RecType, ReportType
  <2>4. next.pc = verdict /\ next.run = a /\ next.seen = report.run /\ next.tries = runs[a].tries + 1
    OBVIOUS
  <2>5. verdict = "mark" => F!Shown >= runs[a].at \/ report.excluded
    BY <1>2, Facts DEF F!Replaces
  <2>6. verdict = "write" => F!Replaces(a)
    OBVIOUS
  <2>7. verdict \in {"miss", "write", "mark"} /\ r \notin Workers
    BY <1>4, Facts
  <2>8. Unsettled(a) => runs[a].tries + 1 <= MaxTries /\ runs[a].tries <= runs[a].tries + 1
    BY <1>2, <2>1, Facts
  <2> HIDE DEF next, verdict
  <2> QED BY <1>1, <1>2, <1>4, <2>3, <2>4, <2>5, <2>6, <2>7, <2>8, RecMoves DEF FInv, RecsOK
<1> QED BY <1>1, <1>3, <1>4 DEF F!Reconcilers

\* A reconciliation ends with its run waiting for another, with one try more, or reconciled.
LEMMA EndsKeeps ==
  ASSUME FInv, NEW r \in F!Reconcilers, Judged(r), NEW run \in RunType, F!Ends(r, run),
         run.at = runs[rec[r].run].at, run.excluded = runs[rec[r].run].excluded,
         \/ run.status = "waiting" /\ run.tries = rec[r].tries
         \/ run.status = "reconciled" /\ run.tries = runs[rec[r].run].tries /\ rec[r].pc = "mark"
  PROVE  FInv' /\ UNCHANGED job
<1>0. PICK a \in F!Attempts : a = rec[r].run
  BY DEF FInv, RecsOK, Judged
<1>1. /\ runs' = [runs EXCEPT ![a] = run] /\ rec' = [rec EXCEPT ![r] = F!IdleRec]
      /\ UNCHANGED <<job, expired, work, report, overlapped>>
  BY <1>0 DEF F!Ends
<1>2. F!IdleRec \in RecType /\ F!IdleRec.pc = "idle"
  BY Facts DEF F!IdleRec, RecType
<1>3. a \in F!Attempts /\ runs[a].at > 0 /\ rec[r].pc # "idle"
  BY <1>0 DEF FInv, RecsOK, Judged
<1>4. /\ runs' \in [F!Attempts -> RunType] /\ runs'[a] = run
      /\ \A b \in F!Attempts \ {a} : runs'[b] = runs[b]
      /\ rec' \in [F!Reconcilers -> RecType] /\ rec'[r].pc = "idle"
      /\ \A q \in F!Reconcilers \ {r} : rec'[q] = rec[q]
  BY <1>1, <1>2, <1>3, Facts
<1>5. F!TypeOK'
  BY <1>1, <1>4, Facts, Typed DEF F!Attempts, F!Reconcilers, JobType, SlotType, RunType, RecType, ReportType, F!TypeOK
<1>6. /\ \A b \in F!Attempts : runs'[b].at = runs[b].at /\ runs'[b].excluded = runs[b].excluded
      /\ \A b \in F!Attempts : b # a => runs'[b] = runs[b]
      /\ runs'[a].status # "none"
  BY <1>0, <1>4
<1>7. JobOK'
  <2> SUFFICES ASSUME job.status = "DONE" PROVE runs'[job.attempts].status # "none"
    BY <1>1 DEF FInv, JobOK, F!DoneByItsLastAttempt
  <2>1. runs[job.attempts].status # "none"
    BY DEF FInv, JobOK, F!DoneByItsLastAttempt
  <2>2. job.attempts = a \/ runs'[job.attempts] = runs[job.attempts]
    BY <1>1, Facts
  <2> QED BY <1>6, <2>1, <2>2
<1>8. RunsOK'
  <2> SUFFICES ASSUME NEW b \in F!Attempts
               PROVE  /\ runs'[b].at = 0 => runs'[b] = F!NoRun
                      /\ runs'[b].at > 0 => runs'[b].status # "none"
                      /\ b > job.attempts => runs'[b].at = 0
    BY <1>1 DEF RunsOK
  <2>1. CASE b = a
    BY <1>0, <1>3, <1>6, <2>1, Facts DEF FInv, RunsOK
  <2>2. CASE b # a
    BY <1>6, <2>2 DEF FInv, RunsOK
  <2> QED BY <2>1, <2>2
<1>9. \A v \in Workers, b \in F!Attempts : Holds(v, b)' => Holds(v, b) /\ (b = a => v # r)
  <2> SUFFICES ASSUME NEW v \in Workers, NEW b \in F!Attempts, Holds(v, b)'
               PROVE  Holds(v, b) /\ (b = a => v # r)
    OBVIOUS
  <2>1. CASE v = r
    <3>1. work[v].pc = "idle"
      BY <1>0, <1>3, <2>1 DEF FInv, WorkOK
    <3> QED BY <1>1, <1>4, <2>1, <3>1 DEF Holds
  <2>2. CASE v # r
    BY <1>1, <1>4, <2>2, Facts DEF Holds
  <2> QED BY <2>1, <2>2
<1>10. WorkOK'
  <2>1. \A v \in Workers :
          /\ work[v].pc # "idle" => work[v].attempt \in 1..job.attempts /\ rec'[v].pc = "idle"
          /\ work[v].pc = "analyse" => runs'[work[v].attempt].at = 0
          /\ work[v].pc = "settle" => runs'[work[v].attempt].at > 0
    BY <1>4, <1>6, Facts DEF FInv, WorkOK
  <2> QED BY <1>1, <1>9, <2>1 DEF FInv, WorkOK
<1>11. RecsOK'
  <2>1. \A q \in F!Reconcilers :
          /\ rec'[q].pc # "idle" => rec'[q].run \in F!Attempts /\ runs'[rec'[q].run].at > 0
          /\ rec'[q].pc = "write" => rec'[q].seen = 0 \/ runs'[rec'[q].seen].at > 0
    <3> SUFFICES ASSUME NEW q \in F!Reconcilers, rec'[q].pc # "idle", rec'[q] = rec[q]
                 PROVE  /\ rec[q].run \in F!Attempts /\ runs'[rec[q].run].at > 0
                        /\ rec[q].pc = "write" => rec[q].seen = 0 \/ runs'[rec[q].seen].at > 0
      BY <1>4
    <3>1. rec[q].seen = 0 \/ rec[q].seen \in F!Attempts
      BY Facts DEF RecType
    <3> QED BY <1>6, <3>1 DEF FInv, RecsOK
  <2>2. report.run = 0 \/ report.run \in F!Attempts
    BY Facts DEF ReportType
  <2> QED BY <1>1, <1>6, <2>1, <2>2 DEF FInv, RecsOK
<1>12. TriesOK'
  <2>1. \A b \in F!Attempts : Unsettled(b)' => Unsettled(b)
    BY <1>9 DEF Unsettled
  <2>2. r \in Workers => Unsettled(a) /\ ~Unsettled(a)'
    <3> SUFFICES ASSUME r \in Workers PROVE Unsettled(a) /\ ~Unsettled(a)'
      OBVIOUS
    <3>1. Holds(r, a)
      BY <1>0, <1>3 DEF Holds
    <3>2. \A v \in Workers : ~Holds(v, a)'
      BY <1>3, <1>9, <3>1 DEF FInv, WorkOK
    <3>3. ~Unsettled(a)'
      BY <1>1, <3>2 DEF Unsettled
    <3> QED BY <3>1, <3>3 DEF Unsettled
  <2>3. r \in Workers => rec[r].tries <= runs[a].tries + 1 /\ r # Sweep
    BY <1>0, Facts DEF FInv, TriesOK
  <2>4. r = Sweep /\ Unsettled(a) => rec[r].tries <= MaxTries /\ runs[a].tries <= rec[r].tries
    BY <1>0 DEF FInv, TriesOK
  <2>5. runs'[a].tries \in {rec[r].tries, runs[a].tries} /\ rec[r].tries \in Nat /\ runs[a].tries \in Nat
    BY <1>0, <1>3, <1>4, Facts
  <2>6. \A b \in F!Attempts : Unsettled(b)' => runs'[b].tries <= MaxTries
    <3> SUFFICES ASSUME NEW b \in F!Attempts, Unsettled(b)' PROVE runs'[b].tries <= MaxTries
      OBVIOUS
    <3>1. CASE b # a
      BY <1>6, <2>1, <3>1 DEF FInv, TriesOK
    <3>2. CASE b = a
      <4>1. r = Sweep /\ Unsettled(a)
        BY <2>1, <2>2, <3>2 DEF F!Reconcilers
      <4> QED BY <2>4, <2>5, <3>2, <4>1 DEF FInv, TriesOK
    <3> QED BY <3>1, <3>2
  <2>7. \A w \in Workers : Judged(w)' => rec'[w].tries <= runs'[rec'[w].run].tries + 1
    <3> SUFFICES ASSUME NEW w \in Workers, rec'[w] = rec[w], Judged(w), w # r
                 PROVE  rec[w].tries <= runs'[rec[w].run].tries + 1
      BY <1>4, Facts DEF Judged
    <3>1. rec[w].tries <= runs[rec[w].run].tries + 1 /\ rec[w].run \in F!Attempts /\ rec[w].pc # "idle"
      BY Facts DEF FInv, TriesOK, RecsOK, Judged
    <3>2. CASE rec[w].run # a
      BY <1>6, <3>1, <3>2
    <3>3. CASE rec[w].run = a
      <4>1. Holds(w, a)
        BY <3>1, <3>3 DEF Holds
      <4>2. r \notin Workers
        <5>1. r \in Workers => Holds(r, a)
          BY <1>0, <1>3 DEF Holds
        <5> QED BY <1>3, <3>3, <4>1, <5>1 DEF FInv, WorkOK
      <4>3. r = Sweep /\ Unsettled(a)
        BY <4>1, <4>2 DEF Unsettled, F!Reconcilers
      <4>4. rec[w].tries \in Nat
        BY Facts
      <4> QED BY <2>4, <2>5, <3>1, <3>3, <4>3, <4>4
    <3> QED BY <3>2, <3>3
  <2>8. CASE r = Sweep
    <3>1. rec'[Sweep].pc = "idle"
      BY <1>4, <2>8
    <3> QED BY <2>6, <2>7, <3>1 DEF TriesOK, Judged
  <2>9. CASE r # Sweep
    <3>1. rec'[Sweep] = rec[Sweep] /\ r \in Workers
      BY <1>4, <2>9, Facts DEF F!Reconcilers
    <3>2. rec[Sweep].pc # "idle" => rec[Sweep].run \in F!Attempts
      BY Facts DEF FInv, RecsOK
    <3>3. rec[Sweep].pc # "idle" /\ Unsettled(rec[Sweep].run)' => Unsettled(rec[Sweep].run) /\ rec[Sweep].run # a
      BY <2>1, <2>2, <3>1, <3>2
    <3>4. rec[Sweep].pc = "read" =>
            /\ runs'[rec[Sweep].run].tries <= MaxTries
            /\ Unsettled(rec[Sweep].run)' => runs'[rec[Sweep].run].tries < MaxTries
      <4> SUFFICES ASSUME rec[Sweep].pc = "read"
                   PROVE  /\ runs'[rec[Sweep].run].tries <= MaxTries
                          /\ Unsettled(rec[Sweep].run)' => runs'[rec[Sweep].run].tries < MaxTries
        OBVIOUS
      <4>1. /\ runs[rec[Sweep].run].tries <= MaxTries
            /\ Unsettled(rec[Sweep].run) => runs[rec[Sweep].run].tries < MaxTries
        BY DEF FInv, TriesOK
      <4>2. CASE rec[Sweep].run # a
        BY <1>6, <3>2, <3>3, <4>1, <4>2
      <4>3. CASE rec[Sweep].run = a
        BY <2>2, <2>3, <2>5, <3>1, <3>3, <4>1, <4>3, Facts
      <4> QED BY <4>2, <4>3
    <3>5. Judged(Sweep) /\ Unsettled(rec[Sweep].run)' =>
            rec[Sweep].tries <= MaxTries /\ runs'[rec[Sweep].run].tries <= rec[Sweep].tries
      BY <1>6, <3>2, <3>3 DEF FInv, TriesOK, Judged
    <3>6. rec[Sweep].run' = rec[Sweep].run /\ (Unsettled(rec[Sweep].run)' <=> Unsettled(rec[Sweep].run)')
      BY <3>1
    <3> QED BY <2>6, <2>7, <3>1, <3>4, <3>5 DEF TriesOK, Judged
  <2> QED BY <2>8, <2>9
<1>13. ForwardOK'
  <2>1. report.run = 0 \/ report.run \in F!Attempts
    BY Facts DEF ReportType
  <2>2. F!Shown' = F!Shown
    BY <1>1, <1>6, <2>1 DEF F!Shown
  <2>3. F!ReportMovesForward'
    <3> SUFFICES ASSUME NEW b \in F!Attempts, runs'[b].status = "reconciled", ~overlapped
                 PROVE  F!Shown >= runs'[b].at \/ report.excluded
      BY <1>1, <2>2 DEF F!ReportMovesForward
    <3>1. CASE b # a
      BY <1>6, <3>1 DEF FInv, ForwardOK, F!ReportMovesForward
    <3>2. CASE b = a
      <4>1. rec[r].pc = "mark"
        BY <1>4, <3>2
      <4>2. F!Shown >= runs[a].at \/ report.excluded
        BY <1>0, <4>1 DEF FInv, ForwardOK, VerdictOK
      <4> QED BY <1>6, <3>2, <4>2
    <3> QED BY <3>1, <3>2
  <2>4. ASSUME ~overlapped, NEW q \in F!Reconcilers PROVE VerdictOK(q)'
    <3>1. CASE q = r
      BY <1>4, <3>1 DEF VerdictOK
    <3>2. CASE q # r
      <4>1. rec'[q] = rec[q] /\ VerdictOK(q)
        BY <1>4, <2>4, <3>2 DEF FInv, ForwardOK
      <4>2. rec[q].seen = 0 \/ rec[q].seen \in F!Attempts
        BY Facts DEF RecType
      <4>3. At(rec[q].seen)' = At(rec[q].seen)
        BY <1>6, <4>1, <4>2 DEF At
      <4>4. rec[q].pc # "idle" =>
              (F!Replaces(rec[q].run)' <=> F!Replaces(rec[q].run)) /\ runs'[rec[q].run].at = runs[rec[q].run].at
        <5>1. rec[q].pc # "idle" => rec[q].run \in F!Attempts
          BY DEF FInv, RecsOK
        <5> QED BY <1>1, <1>6, <2>2, <4>1, <5>1 DEF F!Replaces
      <4> QED BY <1>1, <2>2, <4>1, <4>3, <4>4 DEF VerdictOK
    <3> QED BY <3>1, <3>2
  <2> QED BY <1>1, <2>3, <2>4 DEF ForwardOK
<1> QED BY <1>1, <1>5, <1>7, <1>8, <1>10, <1>11, <1>12, <1>13 DEF FInv, F!BoundsOK

\* A failed read or write, or no report yet: one try more.
LEMMA MissKeeps ==
  ASSUME FInv, NEW r \in F!Reconcilers, F!MissReport(r) \/ F!RecFails(r)
  PROVE  FInv' /\ UNCHANGED job
<1> DEFINE run == [[runs[rec[r].run] EXCEPT !.tries = rec[r].tries] EXCEPT !.status = "waiting"]
<1>1. Judged(r) /\ F!Ends(r, run)
  BY DEF F!MissReport, F!RecFails, Judged
<1>2. runs[rec[r].run] \in RunType /\ rec[r].tries \in 0..MaxTries + 1
  BY <1>1, Facts DEF FInv, RecsOK, Judged, RecType
<1>3. /\ run \in RunType /\ run.at = runs[rec[r].run].at /\ run.excluded = runs[rec[r].run].excluded
      /\ run.status = "waiting" /\ run.tries = rec[r].tries
  BY <1>2 DEF RunType
<1> HIDE DEF run
<1> QED BY <1>1, <1>3, EndsKeeps

LEMMA MarkRunKeeps == ASSUME FInv, NEW r \in F!Reconcilers, F!MarkRun(r) PROVE FInv' /\ UNCHANGED job
<1> DEFINE run == [runs[rec[r].run] EXCEPT !.status = "reconciled"]
<1>1. Judged(r) /\ rec[r].pc = "mark" /\ F!Ends(r, run)
  BY DEF F!MarkRun, Judged
<1>2. runs[rec[r].run] \in RunType
  BY <1>1, Facts DEF FInv, RecsOK
<1>3. /\ run \in RunType /\ run.at = runs[rec[r].run].at /\ run.excluded = runs[rec[r].run].excluded
      /\ run.status = "reconciled" /\ run.tries = runs[rec[r].run].tries
  BY <1>2 DEF RunType
<1> HIDE DEF run
<1> QED BY <1>1, <1>3, EndsKeeps

\* The report is written over whatever it shows by now; unless somebody else wrote since, it moves
\* forward, and what the others had read is outdated.
LEMMA WriteReportKeeps == ASSUME FInv, NEW r \in F!Reconcilers, F!WriteReport(r) PROVE FInv' /\ UNCHANGED job
<1>0. PICK a \in F!Attempts : a = rec[r].run
  BY DEF F!WriteReport, FInv, RecsOK
<1>1. /\ rec[r].pc = "write" /\ report' = [report EXCEPT !.run = a, !.excluded = runs[a].excluded]
      /\ overlapped' = (overlapped \/ report.run # rec[r].seen)
      /\ rec' = [rec EXCEPT ![r].pc = "mark"] /\ UNCHANGED <<job, expired, work, runs>>
  BY <1>0 DEF F!WriteReport
<1>2. /\ report' \in ReportType /\ report'.run = a /\ report'.excluded = runs[a].excluded
      /\ a # 0 /\ runs[a].at > 0
  <2>1. a \in 0..MaxAttempts /\ runs[a].excluded \in BOOLEAN /\ a # 0
    BY Facts DEF RunType
  <2> QED BY <1>0, <1>1, <2>1, Facts DEF ReportType, FInv, RecsOK
<1>3. /\ rec' = [rec EXCEPT ![r] = [rec[r] EXCEPT !.pc = "mark"]]
      /\ [rec[r] EXCEPT !.pc = "mark"] \in RecType
  BY <1>1, Facts DEF RecType
<1>4. /\ rec' \in [F!Reconcilers -> RecType] /\ rec'[r].pc = "mark" /\ rec'[r].run = a
      /\ rec'[r].tries = rec[r].tries
      /\ \A q \in F!Reconcilers \ {r} : rec'[q] = rec[q]
  BY <1>0, <1>3, Facts DEF RecType
<1>5. F!TypeOK'
  <2>1. overlapped' \in BOOLEAN
    BY <1>1, Facts
  <2> QED BY <1>1, <1>2, <1>4, <2>1, Facts, Typed DEF F!Attempts, F!Reconcilers, JobType, SlotType, RunType, RecType, ReportType, F!TypeOK
<1>6. JobOK' /\ RunsOK'
  BY <1>1 DEF FInv, JobOK, RunsOK, F!DoneByItsLastAttempt
<1>7. \A v \in Workers, b \in F!Attempts : Holds(v, b)' <=> Holds(v, b)
  BY <1>0, <1>1, <1>4, Facts DEF Holds
<1>8. WorkOK'
  <2>1. \A v \in Workers : work[v].pc # "idle" => rec'[v].pc = "idle"
    BY <1>1, <1>4, Facts DEF FInv, WorkOK
  <2> QED BY <1>1, <1>7, <2>1 DEF FInv, WorkOK
<1>9. RecsOK'
  BY <1>0, <1>1, <1>2, <1>4 DEF FInv, RecsOK
<1>10. TriesOK'
  <2>1. \A b \in F!Attempts : Unsettled(b)' <=> Unsettled(b)
    BY <1>7 DEF Unsettled
  <2>2. \A q \in F!Reconcilers : /\ Judged(q)' <=> Judged(q)
                                 /\ rec'[q].pc = "read" <=> rec[q].pc = "read"
                                 /\ rec'[q].run = rec[q].run /\ rec'[q].tries = rec[q].tries
    BY <1>0, <1>1, <1>4 DEF Judged
  <2>3. rec[Sweep].pc # "idle" => rec[Sweep].run \in F!Attempts
    BY Facts DEF FInv, RecsOK
  <2>4. rec[Sweep].pc # "idle" => (Unsettled(rec[Sweep].run)' <=> Unsettled(rec[Sweep].run))
    <3>1. rec'[Sweep].run = rec[Sweep].run
      BY <2>2, Facts
    <3> QED BY <2>1, <2>3, <3>1
  <2>5. \A b \in F!Attempts : Unsettled(b)' => runs'[b].tries <= MaxTries
    BY <1>1, <2>1 DEF FInv, TriesOK
  <2>6. \A w \in Workers : Judged(w)' => rec'[w].tries <= runs'[rec'[w].run].tries + 1
    <3>1. \A w \in Workers : w \in F!Reconcilers
      BY Facts
    <3> QED BY <1>1, <2>2, <3>1 DEF FInv, TriesOK
  <2> QED BY <1>1, <2>2, <2>4, <2>5, <2>6, Facts DEF FInv, TriesOK, Judged
<1>11. ForwardOK'
  <2> SUFFICES ASSUME ~overlapped' PROVE F!ReportMovesForward' /\ \A q \in F!Reconcilers : VerdictOK(q)'
    BY DEF ForwardOK, F!ReportMovesForward
  <2>1. ~overlapped /\ report.run = rec[r].seen
    BY <1>1
  <2>2. F!Replaces(a)
    BY <1>0, <1>1, <2>1 DEF FInv, ForwardOK, VerdictOK
  <2>3. F!Shown < runs[a].at /\ (report.excluded => report'.excluded) /\ F!Shown' = runs[a].at
    BY <1>1, <1>2, <2>2 DEF F!Replaces, F!Shown
  <2>4. F!Shown \in Nat /\ \A b \in F!Attempts : runs[b].at \in Nat
    BY Facts
  <2>5. F!ReportMovesForward'
    BY <1>1, <2>1, <2>3, <2>4 DEF FInv, ForwardOK, F!ReportMovesForward
  <2>6. ASSUME NEW q \in F!Reconcilers PROVE VerdictOK(q)'
    <3>1. CASE q = r
      BY <1>1, <1>4, <2>3, <2>4, <3>1 DEF VerdictOK
    <3>2. CASE q # r
      <4>1. rec'[q] = rec[q] /\ VerdictOK(q)
        BY <1>4, <2>1, <3>2 DEF FInv, ForwardOK
      <4>2. rec[q].pc # "idle" => rec[q].run \in F!Attempts
        BY DEF FInv, RecsOK
      <4>3. CASE rec[q].pc = "write"
        <5>1. At(rec[q].seen) <= F!Shown /\ At(rec[q].seen)' = At(rec[q].seen) /\ At(rec[q].seen) \in Nat
          <6>1. rec[q].seen = 0 \/ rec[q].seen \in F!Attempts
            BY Facts DEF RecType
          <6> QED BY <1>1, <2>4, <4>1, <4>3, <6>1 DEF VerdictOK, At
        <5>2. a # rec[q].seen
          BY <1>2, <2>3, <2>4, <5>1 DEF At
        <5> QED BY <1>2, <2>3, <2>4, <4>1, <4>3, <5>1, <5>2 DEF VerdictOK
      <4>4. CASE rec[q].pc = "mark"
        BY <1>1, <2>3, <2>4, <4>1, <4>2, <4>4 DEF VerdictOK
      <4>5. CASE rec[q].pc \notin {"write", "mark"}
        BY <4>1, <4>5 DEF VerdictOK
      <4> QED BY <4>3, <4>4, <4>5
    <3> QED BY <3>1, <3>2
  <2> QED BY <2>5, <2>6
<1> QED BY <1>1, <1>5, <1>6, <1>8, <1>9, <1>10, <1>11 DEF FInv, F!BoundsOK

LEMMA RecStepKeeps == ASSUME FInv, NEW r \in F!Reconcilers, F!RecStep(r) PROVE FInv' /\ UNCHANGED job
BY ReadReportKeeps, MissKeeps, WriteReportKeeps, MarkRunKeeps DEF F!RecStep

-----------------------------------------------------------------------------
LEMMA ForensicsStep == FInv /\ [F!Next]_(F!vars) => FInv' /\ (job.status \in F!Finished => job' = job)
<1> SUFFICES ASSUME FInv, [F!Next]_(F!vars) PROVE FInv' /\ (job.status \in F!Finished => job' = job)
  OBVIOUS
<1>1. CASE F!Expire
  BY <1>1, LeaseKeeps DEF F!Expire, F!recVars
<1>2. CASE F!StoreReport
  BY <1>2, StoreReportKeeps
<1>3. CASE F!SweepStep
  BY <1>3, SweepRunKeeps, RecStepKeeps DEF F!SweepStep, F!Reconcilers
<1>4. ASSUME NEW w \in Workers, F!WorkerStep(w)
      PROVE  FInv' /\ (job.status \in F!Finished => job' = job)
  <2>1. CASE F!Claim(w)
    <3>1. job.status \notin F!Finished
      BY <2>1 DEF F!Claim, F!Claimable, F!Finished
    <3> QED BY <2>1, <3>1, JobClaimKeeps
  <2> QED BY <1>4, <2>1, CompleteKeeps, PersistKeeps, FailKeeps DEF F!WorkerStep
<1>5. ASSUME NEW w \in Workers, F!Heartbeat(w)
      PROVE  FInv' /\ (job.status \in F!Finished => job' = job)
  BY <1>5, LeaseKeeps DEF F!Heartbeat, F!recVars
<1>6. ASSUME NEW w \in Workers, F!Vanish(w)
      PROVE  FInv' /\ (job.status \in F!Finished => job' = job)
  BY <1>6, VanishKeeps
<1>7. ASSUME NEW w \in Workers, F!RecStep(w)
      PROVE  FInv' /\ (job.status \in F!Finished => job' = job)
  BY <1>7, RecStepKeeps, Facts
<1>8. CASE UNCHANGED F!vars
  BY <1>8, LeaseKeeps, Facts DEF F!vars
<1> QED BY <1>1, <1>2, <1>3, <1>4, <1>5, <1>6, <1>7, <1>8 DEF F!Next

\* The strengthening holds in every reachable state.
THEOREM ForensicsInvariant == F!BoundsOK /\ F!Spec => []FInv
BY ForensicsInit, ForensicsStep, PTL DEF F!Spec

LEMMA ForensicsMeans == FInv => F!TypeOK /\ F!DoneByItsLastAttempt /\ F!ReportMovesForward
BY DEF FInv, JobOK, ForwardOK

-----------------------------------------------------------------------------
(* The composition. *)

all == <<part, vars, jobs>>

\* A step of the services is a step of one part, and the other rests.
LEMMA ServicesStep ==
  ASSUME [ServicesNext]_all
  PROVE  [Next]_vars /\ [F!Next]_(F!vars)
<1>1. UNCHANGED jobs => UNCHANGED F!vars
  BY DEF jobs, F!vars
<1> QED
  BY <1>1 DEF ServicesNext, Moon, Forensics, all

LEMMA ServicesInvariant == ServicesSpec => [](MInv /\ FInv)
<1> DEFINE Inv == MInv /\ FInv
<1>1. ServicesInit => Inv
  BY ServicesConstants, PurchaseInit, ForensicsInit DEF ServicesInit
<1>2. Inv /\ [ServicesNext]_all => Inv'
  BY ServicesStep, PurchaseStep, ForensicsStep
<1>3. ServicesSpec => ServicesInit /\ [][ServicesNext]_all
  BY PTL DEF ServicesSpec, all
<1> QED
  BY <1>1, <1>2, <1>3, PTL

\* The lease, the runs and the report of a forensics job: it is done with the run of its last
\* attempt only, and unless two reconciliations overlap the report moves forward.
THEOREM ForensicsHolds == ServicesSpec => []ForensicsIsOrderly
<1>1. FInv => ForensicsIsOrderly
  BY ForensicsMeans DEF ForensicsIsOrderly
<1> QED
  BY <1>1, ServicesInvariant, PTL

\* No late webhook, poll, retry or lost lease changes a final order or a settled job.
THEOREM WhatIsSettledIsKept == ServicesSpec => WhatIsSettledStays
<1> DEFINE FinishedOrders ==
             \A k \in Orders : Exists(k) =>
               /\ order[k].status \in Terminal => Shown(k)' \in {Shown(k), order[k].status}
               /\ order[k].reference # None => order'[k].reference = order[k].reference
           FinishedJob == job.status \in F!Finished => job' = job
<1>1. MInv /\ FInv /\ (MInv /\ FInv)' /\ [ServicesNext]_all =>
        [FinishedOrders]_vars /\ [FinishedJob]_(F!vars)
  BY ServicesStep, PurchaseStep, KeptIsFinished, ForensicsStep
<1>2. [][FinishedOrders]_vars <=> FinishedStaysFinished
  BY PTL DEF FinishedStaysFinished
<1>3. [][FinishedJob]_(F!vars) <=> F!SettledStaysSettled
  BY PTL DEF F!SettledStaysSettled
<1>4. ServicesSpec => [][ServicesNext]_all
  BY PTL DEF ServicesSpec, all
<1> HIDE DEF FinishedOrders, FinishedJob
<1>5. ServicesSpec => [][FinishedOrders]_vars /\ [][FinishedJob]_(F!vars)
  BY <1>1, <1>4, ServicesInvariant, PTL
<1> QED
  BY <1>2, <1>3, <1>5 DEF WhatIsSettledStays

\* leaseOwner: whoever else still works on a claim of the job, only one slot can settle it or renew
\* its lease, so a job that was taken over is lost to the worker it was taken from.
LeaseIsExclusive ==
  \A v, w \in Workers :
    work[v].pc # "idle" /\ work[w].pc # "idle" /\ F!Owns(v) /\ F!Owns(w) => v = w

THEOREM OneOwnerPerJob == ServicesSpec => []LeaseIsExclusive
<1>1. FInv => LeaseIsExclusive
  <2> SUFFICES ASSUME FInv, NEW v \in Workers, NEW w \in Workers, work[v].pc # "idle", work[w].pc # "idle",
                      F!Owns(v), F!Owns(w)
               PROVE  v = w
    BY DEF LeaseIsExclusive
  <2>1. work[v].attempt = job.attempts /\ work[w].attempt = job.attempts
    BY DEF F!Owns
  <2>2. job.attempts \in 0..MaxAttempts /\ job.attempts \in 1..job.attempts
    BY <2>1, Typed DEF FInv, WorkOK, JobType
  <2>3. job.attempts \in F!Attempts
    BY <2>2 DEF F!Attempts, FInv, F!BoundsOK
  <2> QED
    BY <2>1, <2>3 DEF FInv, WorkOK, Holds
<1> QED
  BY <1>1, ServicesInvariant, PTL
===================================================================================
