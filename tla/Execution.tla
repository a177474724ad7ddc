------------------------------ MODULE Execution ------------------------------
(***************************************************************************)
(* Real trades: intents, submitted hashes and receipts.                    *)
(*                                                                         *)
(* HTTP requests create an intent and record the hash a wallet reports;    *)
(* one reconciliation worker per API process polls the chain for receipts. *)
(* Every handler reads rows, awaits, and writes later in a transaction of  *)
(* its own, so each handler is split where the code awaits: what was read  *)
(* is kept in the request's or the worker's record and may be stale when   *)
(* it is used.                                                             *)
(***************************************************************************)
EXTENDS Integers, FiniteSetsExt

CONSTANTS
  Keys,         \* one per (userId, idempotencyKey)
  Plans,        \* what the user would sign: the request fingerprints
  Hashes,       \* transaction hashes on one chain
  Requests,     \* HTTP requests; each performs one operation
  Workers,      \* API processes that run the reconciliation worker
  Asks,         \* Asks[r]: what r may ask for, pairs <<key, plan>> and <<key, hash>>
  MaxAttempts,  \* MAX_RECONCILE_ATTEMPTS
  BatchSize,    \* how many submissions one pass takes
  None          \* no row, no value

ASSUME AsksAssumption     == Asks \in [Requests -> SUBSET (Keys \X (Plans \cup Hashes))]
ASSUME AttemptsAssumption == MaxAttempts \in Nat \ {0}
ASSUME BatchAssumption    == BatchSize \in Nat \ {0}
ASSUME PlansAssumption    == Plans \cap Hashes = {}

VARIABLES
  plan,     \* ExecutionIntent.requestFingerprint, None when there is no row
  state,    \* ExecutionIntent.state
  owner,    \* SubmittedExecution.intentId, None when the hash is not recorded
  attempts, \* SubmittedExecution.reconcileAttempts
  before,   \* <<g, h>>: lastReconciledAt sorts g before h; a hash never checked comes first
  receipt,  \* ExecutionReceipt.status, None when there is no receipt
  chain,    \* what the network did with each hash
  misses,   \* history: null receipts read for each hash, up to MaxAttempts
  req,      \* the requests
  worker    \* the reconciliation workers

rows == <<plan, state, owner, attempts, before, receipt>>
vars == <<rows, chain, misses, req, worker>>

-----------------------------------------------------------------------------
(* The lifecycle. *)

States == {"QUOTE_READY", "SIMULATING", "SIMULATION_FAILED", "READY_FOR_REVIEW",
           "AWAITING_SIGNATURE", "USER_REJECTED", "SUBMITTED", "CONFIRMING",
           "CONFIRMED", "REVERTED", "DROPPED", "REPLACED", "UNKNOWN"}

TerminalStates == {"CONFIRMED", "REVERTED", "USER_REJECTED", "SIMULATION_FAILED",
                   "REPLACED", "DROPPED"}

Settled == {"CONFIRMED", "REVERTED", "DROPPED", "REPLACED"}

Transitions == [s \in States |->
  CASE s = "QUOTE_READY"        -> {"SIMULATING", "READY_FOR_REVIEW", "USER_REJECTED"}
    [] s = "SIMULATING"         -> {"READY_FOR_REVIEW", "SIMULATION_FAILED"}
    [] s = "READY_FOR_REVIEW"   -> {"AWAITING_SIGNATURE", "SUBMITTED", "USER_REJECTED"}
    [] s = "AWAITING_SIGNATURE" -> {"SUBMITTED", "USER_REJECTED"}
    [] s = "SUBMITTED"          -> Settled \cup {"CONFIRMING", "UNKNOWN"}
    [] s = "CONFIRMING"         -> Settled \cup {"UNKNOWN"}
    [] s = "UNKNOWN"            -> Settled \cup {"CONFIRMING"}
    [] OTHER                    -> {}]

CanTransition(from, to) == from = to \/ to \in Transitions[from]

Polled == {"SUBMITTED", "CONFIRMING", "UNKNOWN"}

-----------------------------------------------------------------------------
(* What the two kinds of process hold between their awaits. *)

Replies == {"CREATED", "REPLAYED", "IDEMPOTENCY_KEY_REUSED", "QUOTE_NOT_FOUND",
            "RECORDED", "INTENT_NOT_FOUND", "HASH_BELONGS_TO_ANOTHER_INTENT",
            "ILLEGAL_STATE"}

ASSUME NoneAssumption == None \notin Keys \cup Plans \cup Hashes \cup States \cup Replies

IdleRequest == [pc |-> "idle", key |-> None, arg |-> None, seen |-> None, reply |-> None]
IdleWorker  == [pc |-> "idle", batch |-> {}, hash |-> None, seen |-> None, count |-> 0,
                status |-> None]

Reply(r, answer) ==
  req' = [req EXCEPT ![r].pc = "done", ![r].seen = None, ![r].reply = answer]

\* The worker is back in its loop, holding only the rest of its batch.
NextInBatch(w) == worker' = [worker EXCEPT ![w] = [IdleWorker EXCEPT !.batch = worker[w].batch]]

Init ==
  /\ plan     = [k \in Keys |-> None]
  /\ state    = [k \in Keys |-> "READY_FOR_REVIEW"]
  /\ owner    = [h \in Hashes |-> None]
  /\ attempts = [h \in Hashes |-> 0]
  /\ before   = {}
  /\ receipt  = [h \in Hashes |-> None]
  /\ chain    = [h \in Hashes |-> "unmined"]
  /\ misses   = [h \in Hashes |-> 0]
  /\ req      = [r \in Requests |-> IdleRequest]
  /\ worker   = [w \in Workers |-> IdleWorker]

-----------------------------------------------------------------------------
(* POST /me/executions: createExecutionIntent. *)

StartCreate(r, k, p) ==
  /\ req[r].pc = "idle"
  /\ <<k, p>> \in Asks[r]
  /\ req' = [req EXCEPT ![r] = [IdleRequest EXCEPT !.pc = "create", !.key = k, !.arg = p]]
  /\ UNCHANGED <<rows, chain, misses, worker>>

\* The answer when the key's row exists: a retry replays it, another trade is refused.
ReplayOrRefuse(r) ==
  LET k == req[r].key
  IN  Reply(r, IF plan[k] = req[r].arg THEN "REPLAYED" ELSE "IDEMPOTENCY_KEY_REUSED")

\* The first lookup, and the quote lookup behind it.
CreateLookup(r) ==
  /\ req[r].pc = "create"
  /\ \/ plan[req[r].key] # None /\ ReplayOrRefuse(r)
     \/ plan[req[r].key] = None /\ Reply(r, "QUOTE_NOT_FOUND")
     \/ plan[req[r].key] = None /\ req' = [req EXCEPT ![r].pc = "insert"]
  /\ UNCHANGED <<rows, chain, misses, worker>>

\* Mutant: an insert that trusts the earlier lookup instead of the unique constraint.
CreateInsertUnguarded(r) ==
  /\ req[r].pc = "insert"
  /\ plan'  = [plan EXCEPT ![req[r].key] = req[r].arg]
  /\ state' = [state EXCEPT ![req[r].key] = "READY_FOR_REVIEW"]
  /\ Reply(r, "CREATED")
  /\ UNCHANGED <<owner, attempts, before, receipt, chain, misses, worker>>

\* The insert; the unique (userId, idempotencyKey) makes the loser read the winner's row.
CreateInsert(r) ==
  LET k == req[r].key
  IN /\ req[r].pc = "insert"
     /\ \/ /\ plan[k] = None
           /\ plan'  = [plan EXCEPT ![k] = req[r].arg]
           /\ state' = [state EXCEPT ![k] = "READY_FOR_REVIEW"]
           /\ Reply(r, "CREATED")
        \/ /\ plan[k] # None
           /\ ReplayOrRefuse(r)
           /\ UNCHANGED <<plan, state>>
     /\ UNCHANGED <<owner, attempts, before, receipt, chain, misses, worker>>

-----------------------------------------------------------------------------
(* POST /me/executions/:id/submissions: recordSubmission. *)

StartSubmit(r, k, h) ==
  /\ req[r].pc = "idle"
  /\ <<k, h>> \in Asks[r]
  /\ req' = [req EXCEPT ![r] = [IdleRequest EXCEPT !.pc = "submit", !.key = k, !.arg = h]]
  /\ UNCHANGED <<rows, chain, misses, worker>>

\* findFirst: the intent's state is remembered here and judged after the next await.
SubmitLookup(r) ==
  LET k == req[r].key
  IN /\ req[r].pc = "submit"
     /\ \/ plan[k] = None /\ Reply(r, "INTENT_NOT_FOUND")
        \/ plan[k] # None /\ req' = [req EXCEPT ![r].pc = "check", ![r].seen = state[k]]
     /\ UNCHANGED <<rows, chain, misses, worker>>

\* The answer when the hash is already recorded.
ReplayOrConflict(r) ==
  Reply(r, IF owner[req[r].arg] = req[r].key THEN "REPLAYED"
                                             ELSE "HASH_BELONGS_TO_ANOTHER_INTENT")

MayAcceptSubmission(s) == s \notin TerminalStates /\ CanTransition(s, "SUBMITTED")

SubmitCheck(r) ==
  LET h == req[r].arg
  IN /\ req[r].pc = "check"
     /\ \/ owner[h] # None /\ ReplayOrConflict(r)
        \/ owner[h] = None /\ ~MayAcceptSubmission(req[r].seen) /\ Reply(r, "ILLEGAL_STATE")
        \/ /\ owner[h] = None /\ MayAcceptSubmission(req[r].seen)
           /\ req' = [req EXCEPT ![r].pc = "record"]
     /\ UNCHANGED <<rows, chain, misses, worker>>

\* Mutant: the hash is written without moving the trade to SUBMITTED.
SubmitRecordHashOnly(r) ==
  /\ req[r].pc = "record"
  /\ owner[req[r].arg] = None
  /\ owner' = [owner EXCEPT ![req[r].arg] = req[r].key]
  /\ Reply(r, "RECORDED")
  /\ UNCHANGED <<plan, state, attempts, before, receipt, chain, misses, worker>>

\* Mutant: a replayed submission sets SUBMITTED again.
SubmitRecordReplayResets(r) ==
  /\ req[r].pc = "record"
  /\ owner' = [owner EXCEPT ![req[r].arg] = IF @ = None THEN req[r].key ELSE @]
  /\ state' = [state EXCEPT ![req[r].key] = "SUBMITTED"]
  /\ Reply(r, "RECORDED")
  /\ UNCHANGED <<plan, attempts, before, receipt, chain, misses, worker>>

\* The transaction: the hash (unique per chain) and the state move together.
SubmitRecord(r) ==
  LET k == req[r].key
      h == req[r].arg
  IN /\ req[r].pc = "record"
     /\ \/ /\ owner[h] = None
           /\ owner' = [owner EXCEPT ![h] = k]
           /\ state' = [state EXCEPT ![k] = "SUBMITTED"]
           /\ Reply(r, "RECORDED")
        \/ /\ owner[h] # None
           /\ ReplayOrConflict(r)
           /\ UNCHANGED <<owner, state>>
     /\ UNCHANGED <<plan, attempts, before, receipt, chain, misses, worker>>

\* The process dies, or the database refuses, at an await: the client gets no answer.
RequestLost(r) ==
  /\ req[r].pc \notin {"idle", "done"}
  /\ req' = [req EXCEPT ![r] = [IdleRequest EXCEPT !.pc = "done"]]
  /\ UNCHANGED <<rows, chain, misses, worker>>

-----------------------------------------------------------------------------
(* The network. *)

Mine(h, outcome) ==
  /\ chain[h] = "unmined"
  /\ chain' = [chain EXCEPT ![h] = outcome]
  /\ UNCHANGED <<rows, misses, req, worker>>

-----------------------------------------------------------------------------
(* reconcileOnce: one pass over the pending submissions. *)

\* Mutant: a trade that missed once is no longer polled.
PendingFreshOnly == {h \in Hashes : owner[h] # None /\ state[owner[h]] = "SUBMITTED"}

Pending == {h \in Hashes : owner[h] # None /\ state[owner[h]] \in Polled}

\* The oldest checks first, as many as a pass takes; nothing orders those never checked.
PendingSubmissions ==
  {batch \in SUBSET Pending :
     /\ Cardinality(batch) = Min({BatchSize, Cardinality(Pending)})
     /\ \A g \in Pending \ batch, h \in batch : <<g, h>> \notin before}

\* A timer tick of a worker whose previous pass has ended.
Poll(w) ==
  /\ worker[w].pc = "idle" /\ worker[w].batch = {}
  /\ \E batch \in PendingSubmissions : worker' = [worker EXCEPT ![w].batch = batch]
  /\ UNCHANGED <<rows, chain, misses, req>>

\* Mutant: an unreadable receipt counts as a missing one.
ReadUnavailableCounts(w, h) ==
  /\ worker[w].pc = "idle" /\ h \in worker[w].batch
  /\ worker' = [worker EXCEPT ![w].batch = @ \ {h}, ![w].hash = h, ![w].pc = "missing"]
  /\ UNCHANGED <<rows, chain, misses, req>>

\* An RPC outage is not evidence: nothing is written and nothing is counted.  So too when the
\* plan's venue is not known.
ReadUnavailable(w, h) ==
  /\ worker[w].pc = "idle" /\ h \in worker[w].batch
  /\ worker' = [worker EXCEPT ![w].batch = @ \ {h}]
  /\ UNCHANGED <<rows, chain, misses, req>>

ReadMissing(w, h) ==
  /\ worker[w].pc = "idle" /\ h \in worker[w].batch
  /\ chain[h] = "unmined"
  /\ worker' = [worker EXCEPT ![w].batch = @ \ {h}, ![w].hash = h, ![w].pc = "missing"]
  /\ misses' = [misses EXCEPT ![h] = IF @ < MaxAttempts THEN @ + 1 ELSE @]
  /\ UNCHANGED <<rows, chain, req>>

\* Mutant: any receipt is taken for a success.
ReadMinedAlwaysConfirms(w, h) ==
  /\ worker[w].pc = "idle" /\ h \in worker[w].batch
  /\ chain[h] # "unmined"
  /\ worker' = [worker EXCEPT ![w].batch = @ \ {h}, ![w].hash = h, ![w].pc = "mined",
                  ![w].status = "CONFIRMED"]
  /\ UNCHANGED <<rows, chain, misses, req>>

\* Mutant: the receipt's raw status is stored instead of the execution's.
ReadMinedRawStatus(w, h) ==
  /\ worker[w].pc = "idle" /\ h \in worker[w].batch
  /\ chain[h] # "unmined"
  /\ worker' = [worker EXCEPT ![w].batch = @ \ {h}, ![w].hash = h, ![w].pc = "mined",
                  ![w].status = chain[h]]
  /\ UNCHANGED <<rows, chain, misses, req>>

\* venue.reconcile turns the receipt's own status into CONFIRMED or REVERTED.
ReadMined(w, h) ==
  /\ worker[w].pc = "idle" /\ h \in worker[w].batch
  /\ chain[h] # "unmined"
  /\ worker' = [worker EXCEPT ![w].batch = @ \ {h}, ![w].hash = h, ![w].pc = "mined",
                  ![w].status = IF chain[h] = "success" THEN "CONFIRMED" ELSE "REVERTED"]
  /\ UNCHANGED <<rows, chain, misses, req>>

\* recordMissingReceipt, the read: attempts and state are remembered for the write.
MissingLookup(w) ==
  LET h == worker[w].hash
      s == state[owner[h]]
  IN /\ worker[w].pc = "missing"
     /\ \/ s \in TerminalStates /\ NextInBatch(w)
        \/ /\ s \notin TerminalStates
           /\ worker' = [worker EXCEPT ![w].pc = "missingWrite",
                           ![w].seen = s, ![w].count = attempts[h]]
     /\ UNCHANGED <<rows, chain, misses, req>>

\* lastReconciledAt = now
Checked(h) == before' = {pair \in before : pair[1] # h} \cup {<<g, h>> : g \in Hashes \ {h}}

MissingTarget(count) == IF count >= MaxAttempts THEN "DROPPED" ELSE "CONFIRMING"

\* recordMissingReceipt, the transaction: decided from the remembered row.
MissingWrite(w) ==
  LET h      == worker[w].hash
      count  == worker[w].count + 1
      target == MissingTarget(count)
  IN /\ worker[w].pc = "missingWrite"
     /\ attempts' = [attempts EXCEPT ![h] = count]
     /\ state' = IF CanTransition(worker[w].seen, target)
                 THEN [state EXCEPT ![owner[h]] = target]
                 ELSE state
     /\ Checked(h) /\ NextInBatch(w)
     /\ UNCHANGED <<plan, owner, receipt, chain, misses, req>>

\* applyReceipt, the read and its two early returns.
ReceiptLookup(w) ==
  LET s == state[owner[worker[w].hash]]
  IN /\ worker[w].pc = "mined"
     /\ IF s \notin TerminalStates /\ CanTransition(s, worker[w].status)
        THEN worker' = [worker EXCEPT ![w].pc = "minedWrite", ![w].seen = s]
        ELSE NextInBatch(w)
     /\ UNCHANGED <<rows, chain, misses, req>>

\* applyReceipt, the transaction: receipt, counter and state together.
ReceiptWrite(w) ==
  LET h == worker[w].hash
  IN /\ worker[w].pc = "minedWrite"
     /\ receipt'  = [receipt EXCEPT ![h] = worker[w].status]
     /\ attempts' = [attempts EXCEPT ![h] = @ + 1]
     /\ state'    = [state EXCEPT ![owner[h]] = worker[w].status]
     /\ Checked(h) /\ NextInBatch(w)
     /\ UNCHANGED <<plan, owner, chain, misses, req>>

\* The tick throws, or the process restarts: the rest of the batch is abandoned.
TickFails(w) ==
  /\ worker[w] # IdleWorker
  /\ worker' = [worker EXCEPT ![w] = IdleWorker]
  /\ UNCHANGED <<rows, chain, misses, req>>

-----------------------------------------------------------------------------
RequestStep(r) ==
  \/ \E k \in Keys, p \in Plans : StartCreate(r, k, p)
  \/ \E k \in Keys, h \in Hashes : StartSubmit(r, k, h)
  \/ CreateLookup(r)
  \/ CreateInsert(r)
  \/ SubmitLookup(r)
  \/ SubmitCheck(r)
  \/ SubmitRecord(r)
  \/ RequestLost(r)

WorkerStep(w) ==
  \/ Poll(w)
  \/ \E h \in Hashes : ReadUnavailable(w, h)
  \/ \E h \in Hashes : ReadMissing(w, h)
  \/ \E h \in Hashes : ReadMined(w, h)
  \/ MissingLookup(w)
  \/ MissingWrite(w)
  \/ ReceiptLookup(w)
  \/ ReceiptWrite(w)
  \/ TickFails(w)

Next ==
  \/ \E r \in Requests : RequestStep(r)
  \/ \E h \in Hashes, outcome \in {"success", "reverted"} : Mine(h, outcome)
  \/ \E w \in Workers : WorkerStep(w)

Spec == Init /\ [][Next]_vars

\* The fairness of a worker whose process goes on: its timer fires, and passes that keep failing
\* still get, in the end, a read answered and a write done.
Persistent(w) ==
  /\ WF_vars(Poll(w))
  /\ SF_vars(\E h \in Hashes : ReadMissing(w, h) \/ ReadMined(w, h))
  /\ SF_vars(MissingLookup(w) \/ ReceiptLookup(w))
  /\ SF_vars(MissingWrite(w) \/ ReceiptWrite(w))

-----------------------------------------------------------------------------
Outcome(h) == IF chain[h] = "success" THEN "CONFIRMED" ELSE "REVERTED"

RequestRecords == [pc: {"idle", "create", "insert", "submit", "check", "record", "done"},
                   key: Keys \cup {None}, arg: Plans \cup Hashes \cup {None},
                   seen: States \cup {None}, reply: Replies \cup {None}]
WorkerRecords  == [pc: {"idle", "missing", "missingWrite", "mined", "minedWrite"},
                   batch: SUBSET Hashes, hash: Hashes \cup {None}, seen: States \cup {None},
                   count: Nat, status: {"CONFIRMED", "REVERTED", None}]

TypeOK ==
  /\ plan \in [Keys -> Plans \cup {None}]
  /\ state \in [Keys -> States]
  /\ owner \in [Hashes -> Keys \cup {None}]
  /\ attempts \in [Hashes -> Nat]
  /\ before \subseteq Hashes \X Hashes
  /\ receipt \in [Hashes -> {"CONFIRMED", "REVERTED", None}]
  /\ chain \in [Hashes -> {"unmined", "success", "reverted"}]
  /\ misses \in [Hashes -> 0..MaxAttempts]
  /\ req \in [Requests -> RequestRecords]
  /\ worker \in [Workers -> WorkerRecords]

\* A trade is called CONFIRMED or REVERTED only when the receipt of a hash recorded for that
\* very trade says so, and every stored receipt agrees with the chain (a hash is not a result).
SettledByReceipt ==
  /\ \A h \in Hashes : receipt[h] # None =>
       owner[h] # None /\ chain[h] # "unmined" /\ receipt[h] = Outcome(h)
  /\ \A k \in Keys : state[k] \in {"CONFIRMED", "REVERTED"} =>
       \E h \in Hashes : owner[h] = k /\ receipt[h] = state[k]

\* A recorded hash belongs to an existing trade that reconciliation still polls or has
\* finished: no crash or interleaving leaves a broadcast transaction that nobody looks at.
RecordedIsReconciled ==
  \A h \in Hashes : owner[h] # None =>
    plan[owner[h]] # None /\ state[owner[h]] \in Polled \cup Settled

\* A trade is DROPPED only after MAX_RECONCILE_ATTEMPTS reads in which the chain really
\* answered "no such transaction": outages and crashed passes never count towards it.
DroppedOnlyAfterSustainedAbsence ==
  \A k \in Keys : state[k] = "DROPPED" =>
    \E h \in Hashes : owner[h] = k /\ misses[h] = MaxAttempts

\* Retries, double clicks and lost answers create one trade: at most one request is told it
\* created the row, and whoever is told CREATED or REPLAYED asked for the stored trade.
Answered(r, answers) == req[r].reply \in answers

IdempotentAnswers ==
  \A r \in Requests :
    /\ Answered(r, {"CREATED"}) =>
         \A s \in Requests \ {r} : ~(Answered(s, {"CREATED"}) /\ req[s].key = req[r].key)
    /\ Answered(r, {"CREATED", "REPLAYED"}) /\ req[r].arg \in Plans =>
         plan[req[r].key] = req[r].arg
    /\ Answered(r, {"RECORDED", "REPLAYED"}) /\ req[r].arg \in Hashes =>
         owner[req[r].arg] = req[r].key

\* What a key stands for and which trade a hash belongs to never change once written.
RowsKeepTheirIdentity ==
  [][ /\ \A k \in Keys : plan[k] # None => plan'[k] = plan[k]
      /\ \A h \in Hashes : owner[h] # None => owner'[h] = owner[h] ]_vars

\* lifecycle.ts: a terminal state never changes again.
TerminalIsFinal ==
  [][\A k \in Keys : state[k] \in TerminalStates => state'[k] = state[k]]_vars

\* Two hashes are recorded for the trade: a wallet replaced its transaction.
Replaced(k) == \E g, h \in Hashes : g # h /\ owner[g] = k /\ owner[h] = k

\* A submission is recorded although the trade has moved since it was looked up.
RequestStrays(k) ==
  \E r \in Requests :
    /\ req[r].pc = "record" /\ req'[r].reply = "RECORDED" /\ req[r].key = k
    /\ req[r].seen # state[k] /\ Replaced(k)'

\* A worker writes what it decided of a state the trade has left since.
WorkerStrays(k) ==
  \E w \in Workers :
    /\ worker[w].pc \in {"missingWrite", "minedWrite"} /\ worker'[w].pc = "idle"
    /\ owner[worker[w].hash] = k /\ worker[w].seen # state[k]
    /\ Replaced(k) \/ Workers # {w}

\* lifecycle.ts: the machine only moves along TRANSITIONS, never backwards.  What leaves them is
\* a write decided from a state that is no longer the row's, and it takes a second hash of the
\* trade, or a second process, to get between the read and the write.
OnlyRacesStray ==
  [][\A k \in Keys : plan[k] # None =>
       CanTransition(state[k], state'[k]) \/ RequestStrays(k) \/ WorkerStrays(k)]_vars

\* Every recorded hash is settled in the end, mined or not, whatever passes crash.
SubmissionsSettle ==
  \A h \in Hashes, k \in Keys : owner[h] = k ~> state[k] \in TerminalStates
=============================================================================
