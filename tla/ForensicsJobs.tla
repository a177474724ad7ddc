----------------------------- MODULE ForensicsJobs -----------------------------
(***************************************************************************)
(* One forensics job: worker slots claim it under a lease, analyse it,     *)
(* store a run and settle the job; the runs are then reconciled into the   *)
(* token's intelligence report, by the slot that stored them and by a      *)
(* periodic sweep.  Every step of a worker is one database transaction.    *)
(* A claim is named by its attempt number: the slot that made it is the    *)
(* lease owner as long as the row's attemptCount is that number.           *)
(***************************************************************************)
EXTENDS Integers, FiniteSets

CONSTANTS
  Workers,      \* worker slots, in any number of processes
  Prompt,       \* bound: those whose reconciliation on completion ever starts
  MaxAttempts,  \* maxAttempts of the job
  MaxTries,     \* maxAttempts of a reconciliation
  Sweep

VARIABLES
  job,        \* the row: [status, attempts, held]; held is the leaseOwner # null
  expired,    \* leaseExpiresAt has passed
  work,       \* work[w]: the claim a slot processes: [pc, attempt]
  runs,       \* runs[a]: the run of attempt a, [status, excluded, tries, at]; at orders them by createdAt
  report,     \* the TokenIntelligenceReport: [stored, run, excluded]
  rec,        \* rec[r]: a reconciliation in flight: [pc, run, seen]
  overlapped  \* history: a reconciliation wrote a report that had changed since it read it

vars == <<job, expired, work, runs, report, rec, overlapped>>
recVars == <<report, rec, overlapped>>

Attempts == 1..MaxAttempts
Reconcilers == Workers \cup {Sweep}
Finished == {"DONE", "FAILED"}   \* DONE is COMPLETE or PARTIAL

IdleSlot == [pc |-> "idle", attempt |-> 0]
IdleRec == [pc |-> "idle", run |-> 0, seen |-> 0, tries |-> 0]
NoRun == [status |-> "none", excluded |-> FALSE, tries |-> 0, at |-> 0]

Init ==
  /\ job = [status |-> "PENDING", attempts |-> 0, held |-> FALSE] /\ expired = FALSE
  /\ work = [w \in Workers |-> IdleSlot]
  /\ runs = [a \in Attempts |-> NoRun]
  /\ report = [stored |-> FALSE, run |-> 0, excluded |-> FALSE]
  /\ rec = [r \in Reconcilers |-> IdleRec] /\ overlapped = FALSE

-----------------------------------------------------------------------------
(* The job and its lease. *)

\* Mutant: an expired lease is not looked at.
ClaimablePendingOnly == job.status = "PENDING"

Claimable ==
  \/ job.status = "PENDING"
  \/ job.status = "RUNNING" /\ expired /\ job.attempts < MaxAttempts

Claim(w) ==
  /\ work[w].pc = "idle" /\ rec[w].pc = "idle" /\ Claimable
  /\ job' = [status |-> "RUNNING", attempts |-> job.attempts + 1, held |-> TRUE]
  /\ expired' = FALSE
  /\ work' = [work EXCEPT ![w] = [pc |-> "analyse", attempt |-> job.attempts + 1]]
  /\ UNCHANGED <<runs, recVars>>

\* Mutant: any worker that once held the job may write it.
OwnsOnce(w) == TRUE

\* leaseOwner = workerId
Owns(w) == job.held /\ job.attempts = work[w].attempt

\* The lease runs out: the worker is gone, stuck, or its heartbeats fail.
Expire ==
  /\ job.status = "RUNNING" /\ ~expired /\ expired' = TRUE
  /\ UNCHANGED <<job, work, runs, recVars>>

Heartbeat(w) ==
  /\ work[w].pc # "idle" /\ Owns(w) /\ job.status = "RUNNING" /\ expired
  /\ expired' = FALSE
  /\ UNCHANGED <<job, work, runs, recVars>>

\* The analysis ends and its run is stored, whoever holds the lease by now.
Persist(w, excluded) ==
  /\ work[w].pc = "analyse"
  /\ runs' = [runs EXCEPT ![work[w].attempt] =
                [status |-> "waiting", excluded |-> excluded, tries |-> 0,
                 at |-> Cardinality({a \in Attempts : runs[a].at > 0}) + 1]]
  /\ work' = [work EXCEPT ![w].pc = "settle"]
  /\ UNCHANGED <<job, expired, recVars>>

Settled(w, status) ==
  job' = IF Owns(w) THEN [job EXCEPT !.status = status, !.held = FALSE] ELSE job

\* The job is settled if the lease is still held; the run is reconciled in any case.
Complete(w) ==
  /\ work[w].pc = "settle"
  /\ Settled(w, "DONE") /\ expired' = (expired /\ ~Owns(w))
  /\ work' = [work EXCEPT ![w] = IdleSlot]
  /\ rec' = [rec EXCEPT ![w] = IF w \in Prompt
                               THEN [IdleRec EXCEPT !.pc = "read", !.run = work[w].attempt] ELSE @]
  /\ UNCHANGED <<runs, report, overlapped>>

\* The analysis, the storing of its run or the settling throws: fail, or retry after a backoff.
Fail(w, permanent) ==
  /\ work[w].pc # "idle"
  /\ Settled(w, IF permanent \/ work[w].attempt >= MaxAttempts THEN "FAILED" ELSE "PENDING")
  /\ expired' = (expired /\ ~Owns(w))
  /\ work' = [work EXCEPT ![w] = IdleSlot]
  /\ UNCHANGED <<runs, recVars>>

\* The failure cannot be recorded, or the process stops: the lease is left behind.
Vanish(w) ==
  /\ work[w].pc # "idle" \/ rec[w].pc # "idle"
  /\ work' = [work EXCEPT ![w] = IdleSlot] /\ rec' = [rec EXCEPT ![w] = IdleRec]
  /\ UNCHANGED <<job, expired, runs, report, overlapped>>

-----------------------------------------------------------------------------
(* Reconciliation. *)

\* The intelligence scan stores its report, before or after the run is there.
StoreReport ==
  /\ ~report.stored /\ report' = [report EXCEPT !.stored = TRUE]
  /\ UNCHANGED <<job, expired, work, runs, rec, overlapped>>

Swept ==
  {a \in Attempts : runs[a].status = "waiting" /\ runs[a].tries < MaxTries}

\* Bound: the sweep takes one run at a time.
SweepRun(a) ==
  /\ rec[Sweep].pc = "idle" /\ a \in Swept
  /\ rec' = [rec EXCEPT ![Sweep] = [IdleRec EXCEPT !.pc = "read", !.run = a]]
  /\ UNCHANGED <<job, expired, work, runs, report, overlapped>>

\* The age of the run the report shows.
Shown == IF report.run = 0 THEN 0 ELSE runs[report.run].at

\* Forward only, and EXCLUDED is never downgraded.
Replaces(a) ==
  /\ report.excluded => runs[a].excluded
  /\ Shown < runs[a].at

\* The run and the report are read and judged.
ReadReport(r) ==
  LET a == rec[r].run
      next == IF ~report.stored THEN "miss" ELSE IF Replaces(a) THEN "write" ELSE "mark"
  IN /\ rec[r].pc = "read"
     /\ rec' = [rec EXCEPT ![r] = [pc |-> next, run |-> a, seen |-> report.run, tries |-> runs[a].tries + 1]]
     /\ UNCHANGED <<job, expired, work, runs, report, overlapped>>

Ends(r, run) ==
  /\ runs' = [runs EXCEPT ![rec[r].run] = run]
  /\ rec' = [rec EXCEPT ![r] = IdleRec]
  /\ UNCHANGED <<job, expired, work, report, overlapped>>

\* There is no report yet.
MissReport(r) ==
  /\ rec[r].pc = "miss"
  /\ Ends(r, [runs[rec[r].run] EXCEPT !.tries = rec[r].tries, !.status = "waiting"])

WriteReport(r) ==
  LET a == rec[r].run
  IN /\ rec[r].pc = "write"
     /\ report' = [report EXCEPT !.run = a, !.excluded = runs[a].excluded]
     /\ overlapped' = (overlapped \/ report.run # rec[r].seen)
     /\ rec' = [rec EXCEPT ![r].pc = "mark"]
     /\ UNCHANGED <<job, expired, work, runs>>

MarkRun(r) == rec[r].pc = "mark" /\ Ends(r, [runs[rec[r].run] EXCEPT !.status = "reconciled"])

\* A read or write failed.
RecFails(r) ==
  /\ rec[r].pc \in {"miss", "write", "mark"}
  /\ Ends(r, [runs[rec[r].run] EXCEPT !.tries = rec[r].tries, !.status = "waiting"])

-----------------------------------------------------------------------------
WorkerStep(w) ==
  \/ Claim(w) \/ Complete(w) \/ \E excluded \in BOOLEAN : Persist(w, excluded)
  \/ \E permanent \in BOOLEAN : Fail(w, permanent)

RecStep(r) == ReadReport(r) \/ MissReport(r) \/ WriteReport(r) \/ MarkRun(r) \/ RecFails(r)

SweepStep == (\E a \in Attempts : SweepRun(a)) \/ RecStep(Sweep)

Next ==
  \/ Expire \/ StoreReport \/ SweepStep
  \/ \E w \in Workers : WorkerStep(w) \/ Heartbeat(w) \/ Vanish(w) \/ RecStep(w)

Spec == Init /\ [][Next]_vars

\* Slots keep claiming and come to an end with what they claimed, unheard leases run out, the
\* sweep goes on, and the report is stored some day.
Abandoned == job.status = "RUNNING" /\ \A w \in Workers : work[w].pc = "idle" \/ ~Owns(w)

FairSpec ==
  /\ Spec
  /\ \A w \in Workers : WF_vars(WorkerStep(w))
  /\ WF_vars(Abandoned /\ Expire) /\ WF_vars(SweepStep) /\ WF_vars(StoreReport)

-----------------------------------------------------------------------------
\* What the theorems assume.
BoundsOK == MaxAttempts \in Nat \ {0} /\ MaxTries \in Nat /\ Sweep \notin Workers

TypeOK ==
  /\ job \in [status: {"PENDING", "RUNNING"} \cup Finished, attempts: 0..MaxAttempts, held: BOOLEAN]
  /\ expired \in BOOLEAN /\ (expired => job.status = "RUNNING")
  /\ work \in [Workers -> [pc: {"idle", "analyse", "settle"}, attempt: 0..MaxAttempts]]
  /\ runs \in [Attempts -> [status: {"none", "waiting", "reconciled"},
                            excluded: BOOLEAN, tries: 0..MaxTries + 1, at: 0..MaxAttempts]]
  /\ report \in [stored: BOOLEAN, run: 0..MaxAttempts, excluded: BOOLEAN]
  /\ rec \in [Reconcilers -> [pc: {"idle", "read", "miss", "write", "mark"}, run: 0..MaxAttempts,
                            seen: 0..MaxAttempts, tries: 0..MaxTries + 1]]
  /\ overlapped \in BOOLEAN

\* However late a worker that lost its lease comes back, a job is done only with the run of its
\* last attempt.
DoneByItsLastAttempt == job.status = "DONE" => runs[job.attempts].status # "none"

\* And what is settled stays as it is.
SettledStaysSettled == [][job.status \in Finished => job' = job]_vars

\* Crashes, lost leases and failures included, a job is settled in the end, or is left as the claim of a
\* worker that is gone after the last attempt.
JobIsSettled == job.status \in Finished \/ (Abandoned /\ job.attempts = MaxAttempts)

\* A reconciled run is the one the report shows, or an excluded or newer one is, unless two
\* reconciliations overlapped.
ReportMovesForward ==
  \A a \in Attempts :
    runs[a].status = "reconciled" /\ ~overlapped => Shown >= runs[a].at \/ report.excluded

\* Every stored run is reconciled, or given up after its tries.
RunsAreReconciled ==
  \A a \in Attempts : runs[a].status = "waiting" => runs[a].tries >= MaxTries

\* Both come true, and stay so.
ForensicsFinishes == <>[](JobIsSettled /\ RunsAreReconciled)
=============================================================================
