------------------------------- MODULE MCServices -------------------------------
(* Two services that recover what they were not told, in one run: card purchases, and the     *)
(* forensics jobs with their reconciliation.  They share no state, so a behaviour is one of   *)
(* either part.                                                                               *)
EXTENDS MoonPay

CONSTANTS Workers, Prompt, MaxAttempts, MaxTries, Sweep

VARIABLES part, job, expired, work, runs, report, rec, overlapped

F == INSTANCE ForensicsJobs

ASSUME ServicesConstants == ConstantsOK /\ F!BoundsOK

jobs == <<job, expired, work, runs, report, rec, overlapped>>

OneOrder == [r \in Requests |-> Orders \X Checkouts]
Reported == {"PENDING", "COMPLETED", "FAILED", "unheard-of"}

Moon(A)      == part = "moonpay" /\ A
Forensics(A) == part = "forensics" /\ A

ServicesInit == part \in {"moonpay", "forensics"} /\ Init /\ F!Init

ServicesNext ==
  /\ part' = part
  /\ \/ Moon(Next) /\ UNCHANGED jobs
     \/ Forensics(F!Next) /\ UNCHANGED vars

ServicesSpec ==
  /\ ServicesInit /\ [][ServicesNext]_<<part, vars, jobs>>
  /\ \A k \in Orders : WF_vars(Moon(Minute(k)))
  /\ \A k \in Orders, w \in Pollers :
       /\ SF_vars(Moon(Pick(w, k))) /\ SF_vars(Moon(Claim(w))) /\ WF_vars(Moon(ClaimRefused(w)))
       /\ SF_vars(Moon(Fetch(w, TRUE))) /\ SF_vars(Moon(ApplyFound(w))) /\ SF_vars(Moon(Note(w)))
  /\ WF_jobs(Forensics(F!Abandoned /\ F!Expire)) /\ WF_jobs(Forensics(F!StoreReport))
  /\ WF_jobs(Forensics(F!SweepStep))
  /\ \A w \in Workers : WF_jobs(Forensics(F!WorkerStep(w)))

-----------------------------------------------------------------------------
\* However late a worker that lost its lease comes back, a job is done only with the run of its
\* last attempt; and unless two reconciliations overlap, a run that counts as reconciled is
\* shown by the report, or a newer one is.
ForensicsIsOrderly == F!TypeOK /\ F!DoneByItsLastAttempt /\ F!ReportMovesForward

\* Crashes and lost leases included, every job is settled, unless its last attempt was the one
\* that died, and every stored run is reconciled or given up after its tries.
ForensicsFinishes == part = "forensics" => F!ForensicsFinishes

\* No late webhook, poll, retry or lost lease changes a final order or a settled job.
WhatIsSettledStays == FinishedStaysFinished /\ F!SettledStaysSettled
=============================================================================
