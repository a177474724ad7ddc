-------------------------- MODULE Execution_proofs --------------------------
(***************************************************************************)
(* Proofs about Execution, for any number of users, trades, hashes,        *)
(* requests and reconciliation workers.  RequestsKnow and WorkersKnow say  *)
(* which part of what a handler read earlier is still true when it writes: *)
(* rows are never deleted, a hash never changes its trade and the chain    *)
(* never changes a receipt.  The state a handler read is not among it, and *)
(* that is why TerminalIsFinal is not a theorem.                           *)
(***************************************************************************)
EXTENDS Execution, TLAPS

\* What an unfinished or answered request can rely on.
RequestKnows(r) ==
  /\ req[r].pc \in {"create", "insert"} => req[r].key \in Keys /\ req[r].arg \in Plans
  /\ req[r].pc \in {"submit", "check", "record"} => req[r].key \in Keys /\ req[r].arg \in Hashes
  /\ req[r].pc \in {"check", "record"} => plan[req[r].key] # None
  /\ req[r].reply # None => req[r].pc = "done" /\ req[r].key \in Keys
  /\ req[r].reply = "CREATED" => req[r].arg \in Plans
RequestsKnow == \A r \in Requests : RequestKnows(r)

\* What a worker can rely on: its hashes are recorded and a receipt it holds is the chain's.
WorkerKnows(w) ==
  /\ \A h \in worker[w].batch : owner[h] # None
  /\ worker[w].pc # "idle" => worker[w].hash \in Hashes /\ owner[worker[w].hash] # None
  /\ worker[w].pc \in {"mined", "minedWrite"} =>
       /\ chain[worker[w].hash] # "unmined"
       /\ worker[w].status = Outcome(worker[w].hash)
WorkersKnow == \A w \in Workers : WorkerKnows(w)

IInv ==
  TypeOK /\ RequestsKnow /\ WorkersKnow /\ SettledByReceipt /\ RecordedIsReconciled
         /\ IdempotentAnswers

-----------------------------------------------------------------------------
\* Answering a request changes that request only.
LEMMA ReplyFact ==
  ASSUME TypeOK, NEW r \in Requests, NEW answer \in Replies, Reply(r, answer)
  PROVE  /\ req' \in [Requests -> RequestRecords]
         /\ req'[r].pc = "done" /\ req'[r].reply = answer
         /\ req'[r].key = req[r].key /\ req'[r].arg = req[r].arg
         /\ \A s \in Requests \ {r} : req'[s] = req[s]
<1>1. req[r] \in RequestRecords
  BY DEF TypeOK
<1>2. req' = [req EXCEPT ![r] = [req[r] EXCEPT !.pc = "done", !.seen = None, !.reply = answer]]
  BY DEF Reply
<1>3. [req[r] EXCEPT !.pc = "done", !.seen = None, !.reply = answer] \in RequestRecords
  BY <1>1 DEF RequestRecords
<1> QED BY <1>1, <1>2, <1>3 DEF TypeOK, RequestRecords

\* Going on with its batch, a worker keeps nothing of the hash it was working on.
LEMMA NextInBatchFact ==
  ASSUME TypeOK, NEW w \in Workers, NextInBatch(w)
  PROVE  /\ worker' \in [Workers -> WorkerRecords]
         /\ worker'[w].pc = "idle" /\ worker'[w].batch = worker[w].batch
         /\ \A v \in Workers \ {w} : worker'[v] = worker[v]
<1>1. worker[w] \in WorkerRecords
  BY DEF TypeOK
<1>2. [IdleWorker EXCEPT !.batch = worker[w].batch] \in WorkerRecords
  BY <1>1 DEF IdleWorker, WorkerRecords
<1> QED BY <1>1, <1>2 DEF NextInBatch, TypeOK, IdleWorker, WorkerRecords

\* A request's step that leaves the rows alone and answers truthfully keeps the invariant.
LEMMA RequestOnly ==
  ASSUME IInv, NEW r \in Requests,
         req' \in [Requests -> RequestRecords],
         \A s \in Requests \ {r} : req'[s] = req[s],
         RequestKnows(r)',
         req'[r].reply # "CREATED",
         req'[r].reply = "REPLAYED" /\ req'[r].arg \in Plans => plan[req'[r].key] = req'[r].arg,
         req'[r].reply \in {"RECORDED", "REPLAYED"} /\ req'[r].arg \in Hashes
           => owner[req'[r].arg] = req'[r].key,
         UNCHANGED <<rows, chain, misses, worker>>
  PROVE  IInv'
<1>1. TypeOK'
  BY DEF IInv, TypeOK, rows
<1>2. RequestsKnow'
  BY DEF IInv, RequestsKnow, RequestKnows, rows
<1>3. WorkersKnow'
  BY DEF IInv, WorkersKnow, WorkerKnows, Outcome, rows
<1>4. SettledByReceipt' /\ RecordedIsReconciled'
  BY DEF IInv, SettledByReceipt, RecordedIsReconciled, Outcome, rows
<1>5. IdempotentAnswers'
  BY DEF IInv, IdempotentAnswers, Answered, rows
<1> QED BY <1>1, <1>2, <1>3, <1>4, <1>5 DEF IInv

\* A worker's step that leaves the rows alone.
LEMMA WorkerOnly ==
  ASSUME IInv, NEW w \in Workers,
         worker' \in [Workers -> WorkerRecords],
         \A v \in Workers \ {w} : worker'[v] = worker[v],
         WorkerKnows(w)',
         misses' \in [Hashes -> 0..MaxAttempts],
         UNCHANGED <<rows, chain, req>>
  PROVE  IInv'
<1>1. TypeOK'
  BY DEF IInv, TypeOK, rows
<1>2. RequestsKnow'
  BY DEF IInv, RequestsKnow, RequestKnows, rows
<1>3. WorkersKnow'
  BY DEF IInv, WorkersKnow, WorkerKnows, Outcome, rows
<1>4. SettledByReceipt' /\ RecordedIsReconciled'
  BY DEF IInv, SettledByReceipt, RecordedIsReconciled, Outcome, rows
<1>5. IdempotentAnswers'
  BY DEF IInv, IdempotentAnswers, Answered, rows
<1> QED BY <1>1, <1>2, <1>3, <1>4, <1>5 DEF IInv

-----------------------------------------------------------------------------
\* No row, no request, no tick: the invariant holds at the start.
THEOREM InitInvariant == Init => IInv
<1> SUFFICES ASSUME Init PROVE IInv
  OBVIOUS
<1>1. TypeOK
  BY AttemptsAssumption
     DEF Init, TypeOK, States, IdleRequest, IdleWorker, RequestRecords, WorkerRecords
<1>2. None # "CREATED"
  BY NoneAssumption DEF Replies
<1>3. RequestsKnow /\ WorkersKnow
  BY <1>2 DEF Init, RequestsKnow, RequestKnows, WorkersKnow, WorkerKnows, IdleRequest, IdleWorker
<1>4. SettledByReceipt /\ RecordedIsReconciled
  BY DEF Init, SettledByReceipt, RecordedIsReconciled
<1>5. IdempotentAnswers
  <2>1. None \notin {"CREATED", "REPLAYED", "RECORDED"}
    BY NoneAssumption DEF Replies
  <2> QED BY <2>1 DEF Init, IdempotentAnswers, Answered, IdleRequest
<1> QED BY <1>1, <1>3, <1>4, <1>5 DEF IInv

-----------------------------------------------------------------------------
(* One lemma per handler. *)

LEMMA StartStep ==
  ASSUME IInv, NEW r \in Requests, NEW k \in Keys, NEW x \in Plans \cup Hashes,
         NEW step \in {"create", "submit"},
         step = "create" => x \in Plans, step = "submit" => x \in Hashes,
         req' = [req EXCEPT ![r] = [IdleRequest EXCEPT !.pc = step, !.key = k, !.arg = x]],
         UNCHANGED <<rows, chain, misses, worker>>
  PROVE  IInv'
<1> DEFINE started == [pc |-> step, key |-> k, arg |-> x, seen |-> None, reply |-> None]
<1>1. None \notin {"CREATED", "REPLAYED", "RECORDED"}
  BY NoneAssumption DEF Replies
<1>2. req'[r] = started /\ \A s \in Requests \ {r} : req'[s] = req[s]
  BY DEF IInv, TypeOK, IdleRequest
<1>3. req' \in [Requests -> RequestRecords]
  <2>1. started \in RequestRecords
    BY DEF RequestRecords
  <2> QED BY <2>1 DEF IInv, TypeOK, IdleRequest
<1>4. started.pc = step /\ started.key = k /\ started.arg = x /\ started.reply = None
  OBVIOUS
<1>5. req'[r].pc = step /\ req'[r].key = k /\ req'[r].arg = x /\ req'[r].reply = None
  BY <1>2, <1>4, Zenon
<1>6. RequestKnows(r)'
  BY <1>1, <1>5 DEF RequestKnows
<1> QED BY <1>1, <1>2, <1>3, <1>5, <1>6, RequestOnly

\* A truthful answer that creates nothing keeps the invariant.
LEMMA AnswerStep ==
  ASSUME IInv, NEW r \in Requests, NEW answer \in Replies \ {"CREATED"}, Reply(r, answer),
         req[r].key \in Keys,
         answer = "REPLAYED" /\ req[r].arg \in Plans => plan[req[r].key] = req[r].arg,
         answer \in {"RECORDED", "REPLAYED"} /\ req[r].arg \in Hashes
           => owner[req[r].arg] = req[r].key,
         UNCHANGED <<rows, chain, misses, worker>>
  PROVE  IInv'
<1>1. TypeOK
  BY DEF IInv
<1>2. /\ req' \in [Requests -> RequestRecords]
      /\ req'[r].pc = "done" /\ req'[r].reply = answer
      /\ req'[r].key = req[r].key /\ req'[r].arg = req[r].arg
      /\ \A s \in Requests \ {r} : req'[s] = req[s]
  BY <1>1, ReplyFact
<1>3. RequestKnows(r)'
  BY <1>2 DEF RequestKnows
<1> QED BY <1>2, <1>3, RequestOnly

\* So does going on to the handler's next await.
LEMMA AwaitStep ==
  ASSUME IInv, NEW r \in Requests, NEW step \in {"insert", "check", "record"},
         NEW seen \in States \cup {None},
         req[r].pc \in {"create", "submit", "check"}, req[r].pc = "create" <=> step = "insert",
         step # "insert" => plan[req[r].key] # None,
         req' = [req EXCEPT ![r].pc = step, ![r].seen = seen],
         UNCHANGED <<rows, chain, misses, worker>>
  PROVE  IInv'
<1>1. /\ req[r] \in RequestRecords /\ req \in [Requests -> RequestRecords]
  BY DEF IInv, TypeOK
<1>2. req[r].reply = None
  BY <1>1 DEF IInv, RequestsKnow, RequestKnows, RequestRecords
<1>3. /\ req'[r] = [req[r] EXCEPT !.pc = step, !.seen = seen]
      /\ \A s \in Requests \ {r} : req'[s] = req[s]
  BY <1>1
<1>4. /\ req'[r].pc = step /\ req'[r].key = req[r].key /\ req'[r].arg = req[r].arg
      /\ req'[r].reply = None
  BY <1>1, <1>2, <1>3 DEF RequestRecords
<1>5. req' \in [Requests -> RequestRecords]
  <2>1. [req[r] EXCEPT !.pc = step, !.seen = seen] \in RequestRecords
    BY <1>1 DEF RequestRecords
  <2> QED BY <1>1, <2>1
<1>6. None \notin {"CREATED", "REPLAYED", "RECORDED"}
  BY NoneAssumption DEF Replies
<1>7. plan' = plan
  BY DEF rows
<1>8. /\ step = "insert" => req[r].key \in Keys /\ req[r].arg \in Plans
      /\ step # "insert" => req[r].key \in Keys /\ req[r].arg \in Hashes
  BY DEF IInv, RequestsKnow, RequestKnows
<1>9. RequestKnows(r)'
  BY <1>4, <1>6, <1>7, <1>8 DEF RequestKnows
<1> QED BY <1>3, <1>4, <1>5, <1>6, <1>9, RequestOnly

\* The two answers to a request that finds its row or its hash taken.
LEMMA ReplayOrRefuseStep ==
  ASSUME IInv, NEW r \in Requests, ReplayOrRefuse(r), req[r].pc \in {"create", "insert"},
         UNCHANGED <<rows, chain, misses, worker>>
  PROVE  IInv'
<1> DEFINE answer == IF plan[req[r].key] = req[r].arg THEN "REPLAYED"
                                                     ELSE "IDEMPOTENCY_KEY_REUSED"
<1>1. req[r].key \in Keys /\ req[r].arg \in Plans /\ req[r].arg \notin Hashes
  BY PlansAssumption DEF IInv, RequestsKnow, RequestKnows
<1>2. answer \in Replies \ {"CREATED"} /\ Reply(r, answer)
  BY DEF ReplayOrRefuse, Replies
<1> QED BY <1>1, <1>2, AnswerStep

LEMMA ReplayOrConflictStep ==
  ASSUME IInv, NEW r \in Requests, ReplayOrConflict(r), req[r].pc \in {"check", "record"},
         UNCHANGED <<rows, chain, misses, worker>>
  PROVE  IInv'
<1> DEFINE answer == IF owner[req[r].arg] = req[r].key THEN "REPLAYED"
                                                      ELSE "HASH_BELONGS_TO_ANOTHER_INTENT"
<1>1. req[r].key \in Keys /\ req[r].arg \in Hashes /\ req[r].arg \notin Plans
  BY PlansAssumption DEF IInv, RequestsKnow, RequestKnows
<1>2. answer \in Replies \ {"CREATED"} /\ Reply(r, answer)
  BY DEF ReplayOrConflict, Replies
<1> QED BY <1>1, <1>2, AnswerStep

LEMMA CreateLookupStep ==
  ASSUME IInv, NEW r \in Requests, CreateLookup(r)
  PROVE  IInv'
<1>1. /\ req[r].pc = "create" /\ UNCHANGED <<rows, chain, misses, worker>>
      /\ req[r].key \in Keys /\ req[r].arg \in Plans
  BY DEF CreateLookup, IInv, RequestsKnow, RequestKnows
<1>2. CASE ReplayOrRefuse(r)
  BY <1>1, <1>2, ReplayOrRefuseStep
<1>3. CASE Reply(r, "QUOTE_NOT_FOUND")
  BY <1>1, <1>3, AnswerStep DEF Replies
<1>4. CASE req' = [req EXCEPT ![r].pc = "insert"]
  <2>1. req[r] \in RequestRecords /\ req \in [Requests -> RequestRecords]
    BY DEF IInv, TypeOK
  <2>2. req[r].seen \in States \cup {None}
    BY <2>1 DEF RequestRecords
  <2>3. req' = [req EXCEPT ![r].pc = "insert", ![r].seen = req[r].seen]
    BY <1>4, <2>1 DEF RequestRecords
  <2> QED BY <1>1, <2>2, <2>3, AwaitStep
<1> QED BY <1>2, <1>3, <1>4 DEF CreateLookup

\* The insert: the key had no row, so nothing that is recorded or answered is about it.
LEMMA CreateInsertStep ==
  ASSUME IInv, NEW r \in Requests, CreateInsert(r)
  PROVE  IInv'
<1> DEFINE k == req[r].key
<1>1. /\ req[r].pc = "insert" /\ UNCHANGED <<owner, attempts, before, receipt, chain, misses, worker>>
      /\ k \in Keys /\ req[r].arg \in Plans /\ req[r].arg \notin Hashes /\ TypeOK
  BY PlansAssumption DEF CreateInsert, IInv, RequestsKnow, RequestKnows
<1>2. CASE plan[k] # None /\ ReplayOrRefuse(r) /\ UNCHANGED <<plan, state>>
  BY <1>1, <1>2, ReplayOrRefuseStep DEF rows
<1>3. CASE /\ plan[k] = None
           /\ plan'  = [plan EXCEPT ![k] = req[r].arg]
           /\ state' = [state EXCEPT ![k] = "READY_FOR_REVIEW"]
           /\ Reply(r, "CREATED")
  <2>1. /\ req' \in [Requests -> RequestRecords]
        /\ req'[r].pc = "done" /\ req'[r].reply = "CREATED"
        /\ req'[r].key = k /\ req'[r].arg = req[r].arg
        /\ \A s \in Requests \ {r} : req'[s] = req[s]
    BY <1>1, <1>3, ReplyFact DEF Replies
  <2>2. /\ plan'[k] = req[r].arg /\ plan'[k] # None
        /\ \A j \in Keys \ {k} : plan'[j] = plan[j] /\ state'[j] = state[j]
        /\ state'[k] = "READY_FOR_REVIEW"
    BY <1>1, <1>3, NoneAssumption DEF TypeOK
  <2>3. TypeOK'
    BY <1>1, <1>3, <2>1 DEF TypeOK, States
  <2>4. RequestsKnow'
    <3>1. RequestKnows(r)'
      BY <1>1, <2>1 DEF RequestKnows
    <3>2. ASSUME NEW s \in Requests \ {r} PROVE RequestKnows(s)'
      <4>1. \A j \in Keys : plan[j] # None => plan'[j] # None
        BY <2>2
      <4>2. RequestKnows(s) /\ req'[s] = req[s]
        BY <2>1 DEF IInv, RequestsKnow
      <4> QED BY <4>1, <4>2 DEF RequestKnows
    <3> QED BY <3>1, <3>2 DEF RequestsKnow
  <2>5. WorkersKnow'
    BY <1>1 DEF IInv, WorkersKnow, WorkerKnows, Outcome
  <2>6. \A h \in Hashes : owner[h] # k \/ owner[h] = None
    BY <1>3 DEF IInv, RecordedIsReconciled
  <2>7. SettledByReceipt'
    BY <1>1, <2>2 DEF IInv, SettledByReceipt, Outcome
  <2>8. RecordedIsReconciled'
    <3> SUFFICES ASSUME NEW h \in Hashes, owner[h] # None
                 PROVE  plan'[owner[h]] # None /\ state'[owner[h]] \in Polled \cup Settled
      BY <1>1 DEF RecordedIsReconciled
    <3>1. owner[h] \in Keys \ {k}
      BY <2>6 DEF IInv, TypeOK
    <3> QED BY <2>2, <3>1 DEF IInv, RecordedIsReconciled
  <2>9. IdempotentAnswers'
    <3>1. ASSUME NEW s \in Requests \ {r}, req[s].key = k
          PROVE  ~(req[s].reply \in {"CREATED", "REPLAYED"} /\ req[s].arg \in Plans)
      <4>1. None \notin Plans
        BY NoneAssumption
      <4> QED BY <1>3, <3>1, <4>1 DEF IInv, IdempotentAnswers, Answered
    <3>2. \A s \in Requests \ {r} : req[s].reply = "CREATED" => req[s].key # k
      BY <3>1 DEF IInv, RequestsKnow, RequestKnows
    <3>3. \A s \in Requests \ {r} : req[s].reply \in {"CREATED", "REPLAYED"} => req[s].key \in Keys
      BY NoneAssumption DEF IInv, RequestsKnow, RequestKnows, Replies
    <3>4. ASSUME NEW s \in Requests, NEW u \in Requests \ {s}, req'[s].reply = "CREATED",
                 req'[u].reply = "CREATED"
          PROVE  req'[s].key # req'[u].key
      BY <2>1, <3>2, <3>4 DEF IInv, IdempotentAnswers, Answered
    <3>5. ASSUME NEW s \in Requests, req'[s].reply \in {"CREATED", "REPLAYED"},
                 req'[s].arg \in Plans
          PROVE  plan'[req'[s].key] = req'[s].arg
      <4>1. CASE s = r
        BY <2>1, <2>2, <4>1
      <4>2. CASE s # r
        BY <2>1, <2>2, <3>1, <3>3, <3>5, <4>2 DEF IInv, IdempotentAnswers, Answered
      <4> QED BY <4>1, <4>2
    <3>6. ASSUME NEW s \in Requests, req'[s].reply \in {"RECORDED", "REPLAYED"},
                 req'[s].arg \in Hashes
          PROVE  owner'[req'[s].arg] = req'[s].key
      BY <1>1, <2>1, <3>6 DEF IInv, IdempotentAnswers, Answered
    <3> QED BY <3>4, <3>5, <3>6 DEF IdempotentAnswers, Answered
  <2> QED BY <2>3, <2>4, <2>5, <2>7, <2>8, <2>9 DEF IInv
<1> QED BY <1>2, <1>3 DEF CreateInsert

LEMMA SubmitLookupStep ==
  ASSUME IInv, NEW r \in Requests, SubmitLookup(r)
  PROVE  IInv'
<1>1. /\ req[r].pc = "submit" /\ UNCHANGED <<rows, chain, misses, worker>>
      /\ req[r].key \in Keys
  BY DEF SubmitLookup, IInv, RequestsKnow, RequestKnows
<1>2. CASE Reply(r, "INTENT_NOT_FOUND")
  BY <1>1, <1>2, AnswerStep DEF Replies
<1>3. CASE /\ plan[req[r].key] # None
           /\ req' = [req EXCEPT ![r].pc = "check", ![r].seen = state[req[r].key]]
  <2>1. state[req[r].key] \in States \cup {None}
    BY <1>1 DEF IInv, TypeOK
  <2> QED BY <1>1, <1>3, <2>1, AwaitStep
<1> QED BY <1>2, <1>3 DEF SubmitLookup

LEMMA SubmitCheckStep ==
  ASSUME IInv, NEW r \in Requests, SubmitCheck(r)
  PROVE  IInv'
<1>1. /\ req[r].pc = "check" /\ UNCHANGED <<rows, chain, misses, worker>>
      /\ req[r].key \in Keys /\ plan[req[r].key] # None
  BY DEF SubmitCheck, IInv, RequestsKnow, RequestKnows
<1>2. CASE ReplayOrConflict(r)
  BY <1>1, <1>2, ReplayOrConflictStep
<1>3. CASE Reply(r, "ILLEGAL_STATE")
  BY <1>1, <1>3, AnswerStep DEF Replies
<1>4. CASE req' = [req EXCEPT ![r].pc = "record"]
  <2>1. req[r] \in RequestRecords /\ req \in [Requests -> RequestRecords]
    BY DEF IInv, TypeOK
  <2>2. req[r].seen \in States \cup {None}
    BY <2>1 DEF RequestRecords
  <2>3. req' = [req EXCEPT ![r].pc = "record", ![r].seen = req[r].seen]
    BY <1>4, <2>1 DEF RequestRecords
  <2> QED BY <1>1, <2>2, <2>3, AwaitStep
<1> QED BY <1>2, <1>3, <1>4 DEF SubmitCheck

\* The transaction of a submission: the hash had no row, so no worker and no answer is about it.
LEMMA SubmitRecordStep ==
  ASSUME IInv, NEW r \in Requests, SubmitRecord(r)
  PROVE  IInv'
<1> DEFINE k == req[r].key
           h == req[r].arg
<1>1. /\ req[r].pc = "record" /\ UNCHANGED <<plan, attempts, before, receipt, chain, misses, worker>>
      /\ k \in Keys /\ h \in Hashes /\ h \notin Plans /\ plan[k] # None /\ TypeOK
  BY PlansAssumption DEF SubmitRecord, IInv, RequestsKnow, RequestKnows
<1>2. CASE owner[h] # None /\ ReplayOrConflict(r) /\ UNCHANGED <<owner, state>>
  BY <1>1, <1>2, ReplayOrConflictStep DEF rows
<1>3. CASE /\ owner[h] = None
           /\ owner' = [owner EXCEPT ![h] = k]
           /\ state' = [state EXCEPT ![k] = "SUBMITTED"]
           /\ Reply(r, "RECORDED")
  <2>1. /\ req' \in [Requests -> RequestRecords]
        /\ req'[r].pc = "done" /\ req'[r].reply = "RECORDED"
        /\ req'[r].key = k /\ req'[r].arg = h
        /\ \A s \in Requests \ {r} : req'[s] = req[s]
    BY <1>1, <1>3, ReplyFact DEF Replies
  <2>2. /\ owner'[h] = k /\ k # None
        /\ \A g \in Hashes \ {h} : owner'[g] = owner[g]
        /\ state'[k] = "SUBMITTED"
        /\ \A j \in Keys \ {k} : state'[j] = state[j]
    BY <1>1, <1>3, NoneAssumption DEF TypeOK
  <2>3. TypeOK'
    BY <1>1, <1>3, <2>1 DEF TypeOK, States
  <2>4. RequestsKnow'
    <3>1. RequestKnows(r)'
      BY <1>1, <2>1 DEF RequestKnows
    <3>2. ASSUME NEW s \in Requests \ {r} PROVE RequestKnows(s)'
      BY <1>1, <2>1 DEF IInv, RequestsKnow, RequestKnows
    <3> QED BY <3>1, <3>2 DEF RequestsKnow
  <2>5. WorkersKnow'
    <3>1. \A g \in Hashes : owner[g] # None => owner'[g] # None
      BY <2>2
    <3>2. \A w \in Workers : worker[w].batch \subseteq Hashes
      BY DEF IInv, TypeOK, WorkerRecords
    <3> QED BY <1>1, <3>1, <3>2 DEF IInv, WorkersKnow, WorkerKnows, Outcome
  <2>6. SettledByReceipt'
    <3>1. ASSUME NEW g \in Hashes, receipt[g] # None
          PROVE  owner'[g] # None /\ chain'[g] # "unmined" /\ receipt[g] = Outcome(g)'
      BY <1>1, <2>2, <3>1 DEF IInv, SettledByReceipt, Outcome
    <3>2. ASSUME NEW j \in Keys, state'[j] \in {"CONFIRMED", "REVERTED"}
          PROVE  \E g \in Hashes : owner'[g] = j /\ receipt[g] = state'[j]
      <4>1. j # k /\ state'[j] = state[j]
        BY <2>2, <3>2
      <4>2. PICK g \in Hashes : owner[g] = j /\ receipt[g] = state[j]
        BY <3>2, <4>1 DEF IInv, SettledByReceipt
      <4>3. g # h
        BY <1>3, <4>2, NoneAssumption
      <4> QED BY <2>2, <4>1, <4>2, <4>3
    <3> QED BY <1>1, <3>1, <3>2 DEF SettledByReceipt
  <2>7. RecordedIsReconciled'
    <3> SUFFICES ASSUME NEW g \in Hashes, owner'[g] # None
                 PROVE  plan[owner'[g]] # None /\ state'[owner'[g]] \in Polled \cup Settled
      BY <1>1 DEF RecordedIsReconciled
    <3>1. CASE g = h
      BY <1>1, <2>2, <3>1 DEF Polled
    <3>2. CASE g # h
      <4>1. owner'[g] = owner[g] /\ owner[g] \in Keys
        BY <1>1, <2>2, <3>2 DEF TypeOK
      <4> QED BY <2>2, <4>1 DEF IInv, RecordedIsReconciled, Polled
    <3> QED BY <3>1, <3>2
  <2>8. IdempotentAnswers'
    <3>1. ASSUME NEW s \in Requests, NEW u \in Requests \ {s}, req'[s].reply = "CREATED",
                 req'[u].reply = "CREATED"
          PROVE  req'[s].key # req'[u].key
      BY <2>1, <3>1 DEF IInv, IdempotentAnswers, Answered
    <3>2. ASSUME NEW s \in Requests, req'[s].reply \in {"CREATED", "REPLAYED"},
                 req'[s].arg \in Plans
          PROVE  plan[req'[s].key] = req'[s].arg
      BY <1>1, <2>1, <3>2 DEF IInv, IdempotentAnswers, Answered
    <3>3. ASSUME NEW s \in Requests, req'[s].reply \in {"RECORDED", "REPLAYED"},
                 req'[s].arg \in Hashes
          PROVE  owner'[req'[s].arg] = req'[s].key
      <4>1. CASE s = r
        BY <2>1, <2>2, <4>1
      <4>2. CASE s # r
        <5>1. owner[req[s].arg] = req[s].key
          BY <2>1, <3>3, <4>2 DEF IInv, IdempotentAnswers, Answered
        <5>2. req[s].key \in Keys
          BY <2>1, <3>3, <4>2, NoneAssumption
             DEF IInv, RequestsKnow, RequestKnows, Replies
        <5>3. req[s].arg # h
          BY <1>3, <5>1, <5>2, NoneAssumption
        <5> QED BY <2>1, <2>2, <3>3, <4>2, <5>1, <5>3
      <4> QED BY <4>1, <4>2
    <3> QED BY <1>1, <3>1, <3>2, <3>3 DEF IdempotentAnswers, Answered
  <2> QED BY <2>3, <2>4, <2>5, <2>6, <2>7, <2>8 DEF IInv
<1> QED BY <1>2, <1>3 DEF SubmitRecord

LEMMA RequestLostStep ==
  ASSUME IInv, NEW r \in Requests, RequestLost(r)
  PROVE  IInv'
<1> DEFINE lost == [IdleRequest EXCEPT !.pc = "done"]
<1>1. lost \in RequestRecords /\ lost.pc = "done" /\ lost.reply = None
  BY DEF IdleRequest, RequestRecords
<1>2. /\ req' \in [Requests -> RequestRecords]
      /\ req'[r] = lost
      /\ \A s \in Requests \ {r} : req'[s] = req[s]
      /\ UNCHANGED <<rows, chain, misses, worker>>
  BY <1>1 DEF RequestLost, IInv, TypeOK
<1>3. None \notin {"CREATED", "REPLAYED", "RECORDED"}
  BY NoneAssumption DEF Replies
<1>4. RequestKnows(r)'
  BY <1>1, <1>2, <1>3 DEF RequestKnows
<1> QED BY <1>1, <1>2, <1>3, <1>4, RequestOnly

LEMMA MineStep ==
  ASSUME IInv, NEW h \in Hashes, NEW outcome \in {"success", "reverted"}, Mine(h, outcome)
  PROVE  IInv'
<1>1. /\ chain[h] = "unmined" /\ chain' = [chain EXCEPT ![h] = outcome]
      /\ UNCHANGED <<rows, misses, req, worker>> /\ TypeOK
  BY DEF Mine, IInv
<1>2. \A g \in Hashes : chain[g] # "unmined" => chain'[g] # "unmined" /\ Outcome(g)' = Outcome(g)
  BY <1>1 DEF TypeOK, Outcome
<1>3. TypeOK'
  BY <1>1 DEF TypeOK, rows
<1>4. WorkersKnow'
  BY <1>1, <1>2 DEF IInv, WorkersKnow, WorkerKnows, rows
<1>5. SettledByReceipt'
  BY <1>1, <1>2 DEF IInv, SettledByReceipt, rows
<1>6. RequestsKnow' /\ RecordedIsReconciled' /\ IdempotentAnswers'
  BY <1>1 DEF IInv, RequestsKnow, RequestKnows, RecordedIsReconciled, IdempotentAnswers,
              Answered, rows
<1> QED BY <1>3, <1>4, <1>5, <1>6 DEF IInv

-----------------------------------------------------------------------------
LEMMA PollStep ==
  ASSUME IInv, NEW w \in Workers, Poll(w)
  PROVE  IInv'
<1>1. /\ worker[w] \in WorkerRecords /\ worker \in [Workers -> WorkerRecords]
      /\ misses \in [Hashes -> 0..MaxAttempts]
  BY DEF IInv, TypeOK
<1>2. PICK batch \in PendingSubmissions : worker' = [worker EXCEPT ![w].batch = batch]
  BY DEF Poll
<1>3. batch \subseteq Hashes /\ \A h \in batch : owner[h] # None
  BY DEF PendingSubmissions, Pending
<1>4. worker[w].pc = "idle" /\ UNCHANGED <<rows, chain, misses, req>>
  BY DEF Poll
<1>5. /\ worker' \in [Workers -> WorkerRecords]
      /\ worker'[w].pc = "idle" /\ worker'[w].batch = batch
      /\ \A v \in Workers \ {w} : worker'[v] = worker[v]
  <2>1. [worker[w] EXCEPT !.batch = batch] \in WorkerRecords
    BY <1>1, <1>3 DEF WorkerRecords
  <2>2. worker' = [worker EXCEPT ![w] = [worker[w] EXCEPT !.batch = batch]]
    BY <1>2
  <2> QED BY <1>1, <1>4, <2>1, <2>2 DEF WorkerRecords
<1>6. WorkerKnows(w)'
  BY <1>3, <1>4, <1>5 DEF WorkerKnows, rows
<1> QED BY <1>1, <1>4, <1>5, <1>6, WorkerOnly

\* A worker that took a hash from its batch and knows what the chain said of it.
LEMMA ReadStep ==
  ASSUME IInv, NEW w \in Workers, NEW h \in Hashes, worker[w].pc = "idle", h \in worker[w].batch,
         NEW step \in {"missing", "mined"}, NEW status \in {"CONFIRMED", "REVERTED", None},
         step = "mined" => chain[h] # "unmined" /\ status = Outcome(h),
         worker' = [worker EXCEPT ![w] = [worker[w] EXCEPT !.batch = @ \ {h}, !.hash = h,
                                                           !.pc = step, !.status = status]],
         misses' \in [Hashes -> 0..MaxAttempts],
         UNCHANGED <<rows, chain, req>>
  PROVE  IInv'
<1> DEFINE taken == [worker[w] EXCEPT !.batch = @ \ {h}, !.hash = h, !.pc = step,
                       !.status = status]
<1>1. worker[w] \in WorkerRecords /\ worker \in [Workers -> WorkerRecords]
  BY DEF IInv, TypeOK
<1>2. worker' = [worker EXCEPT ![w] = taken]
  OBVIOUS
<1>3. taken \in WorkerRecords
  BY <1>1 DEF WorkerRecords
<1>4. /\ taken.batch = worker[w].batch \ {h} /\ taken.hash = h
      /\ taken.pc = step /\ taken.status = status
  BY <1>1 DEF WorkerRecords
<1> HIDE DEF taken
<1>5. /\ worker' \in [Workers -> WorkerRecords] /\ worker'[w] = taken
      /\ \A v \in Workers \ {w} : worker'[v] = worker[v]
  BY <1>1, <1>2, <1>3
<1>6. \A g \in worker[w].batch : owner[g] # None
  BY DEF IInv, WorkersKnow, WorkerKnows
<1>7. WorkerKnows(w)'
  BY <1>4, <1>5, <1>6 DEF WorkerKnows, Outcome, rows
<1> QED BY <1>5, <1>7, WorkerOnly

LEMMA ReadUnavailableStep ==
  ASSUME IInv, NEW w \in Workers, NEW h \in Hashes, ReadUnavailable(w, h)
  PROVE  IInv'
<1>1. /\ worker[w] \in WorkerRecords /\ worker \in [Workers -> WorkerRecords]
      /\ misses \in [Hashes -> 0..MaxAttempts]
      /\ \A g \in worker[w].batch : owner[g] # None
  BY DEF IInv, TypeOK, WorkersKnow, WorkerKnows
<1>2. /\ worker' = [worker EXCEPT ![w] = [worker[w] EXCEPT !.batch = @ \ {h}]]
      /\ worker[w].pc = "idle" /\ UNCHANGED <<rows, chain, misses, req>>
  BY DEF ReadUnavailable
<1>3. /\ worker' \in [Workers -> WorkerRecords]
      /\ worker'[w].pc = "idle" /\ worker'[w].batch = worker[w].batch \ {h}
      /\ \A v \in Workers \ {w} : worker'[v] = worker[v]
  <2>1. [worker[w] EXCEPT !.batch = @ \ {h}] \in WorkerRecords
    BY <1>1 DEF WorkerRecords
  <2> QED BY <1>1, <1>2, <2>1 DEF WorkerRecords
<1>4. WorkerKnows(w)'
  BY <1>1, <1>2, <1>3 DEF WorkerKnows, rows
<1> QED BY <1>1, <1>2, <1>3, <1>4, WorkerOnly

LEMMA ReadMissingStep ==
  ASSUME IInv, NEW w \in Workers, NEW h \in Hashes, ReadMissing(w, h)
  PROVE  IInv'
<1>1. /\ worker[w] \in WorkerRecords /\ misses \in [Hashes -> 0..MaxAttempts]
      /\ worker \in [Workers -> WorkerRecords]
  BY DEF IInv, TypeOK
<1>2. worker[w].status \in {"CONFIRMED", "REVERTED", None}
  BY <1>1 DEF WorkerRecords
<1>3. worker' = [worker EXCEPT ![w] = [worker[w] EXCEPT !.batch = @ \ {h}, !.hash = h,
                                         !.pc = "missing", !.status = worker[w].status]]
  BY <1>1 DEF ReadMissing, WorkerRecords
<1>4. misses' \in [Hashes -> 0..MaxAttempts]
  BY <1>1, AttemptsAssumption DEF ReadMissing
<1>5. worker[w].pc = "idle" /\ h \in worker[w].batch /\ UNCHANGED <<rows, chain, req>>
  BY DEF ReadMissing
<1> QED BY <1>2, <1>3, <1>4, <1>5, ReadStep

LEMMA ReadMinedStep ==
  ASSUME IInv, NEW w \in Workers, NEW h \in Hashes, ReadMined(w, h)
  PROVE  IInv'
<1>1. misses' \in [Hashes -> 0..MaxAttempts] /\ worker \in [Workers -> WorkerRecords]
  BY DEF ReadMined, IInv, TypeOK
<1>2. Outcome(h) \in {"CONFIRMED", "REVERTED", None}
  BY DEF Outcome
<1>3. worker' = [worker EXCEPT ![w] = [worker[w] EXCEPT !.batch = @ \ {h}, !.hash = h,
                                         !.pc = "mined", !.status = Outcome(h)]]
  BY <1>1 DEF ReadMined, Outcome, WorkerRecords
<1>4. /\ worker[w].pc = "idle" /\ h \in worker[w].batch /\ chain[h] # "unmined"
      /\ UNCHANGED <<rows, chain, req>>
  BY DEF ReadMined
<1> QED BY <1>1, <1>2, <1>3, <1>4, ReadStep

\* The two reads before a write, and every way back to the loop.
LEMMA BackToLoopStep ==
  ASSUME IInv, NEW w \in Workers, NextInBatch(w), UNCHANGED <<rows, chain, misses, req>>
  PROVE  IInv'
<1>1. TypeOK /\ misses' \in [Hashes -> 0..MaxAttempts]
  BY DEF IInv, TypeOK
<1>2. /\ worker' \in [Workers -> WorkerRecords]
      /\ worker'[w].pc = "idle" /\ worker'[w].batch = worker[w].batch
      /\ \A v \in Workers \ {w} : worker'[v] = worker[v]
  BY <1>1, NextInBatchFact
<1>3. WorkerKnows(w)'
  BY <1>2 DEF WorkerKnows, IInv, WorkersKnow, rows
<1> QED BY <1>1, <1>2, <1>3, WorkerOnly

LEMMA MissingLookupStep ==
  ASSUME IInv, NEW w \in Workers, MissingLookup(w)
  PROVE  IInv'
<1> DEFINE h == worker[w].hash
           s == state[owner[h]]
           next == [worker[w] EXCEPT !.pc = "missingWrite", !.seen = s, !.count = attempts[h]]
<1>1. /\ worker[w] \in WorkerRecords /\ worker \in [Workers -> WorkerRecords]
      /\ misses \in [Hashes -> 0..MaxAttempts]
      /\ worker[w].pc = "missing" /\ h \in Hashes /\ owner[h] # None
      /\ UNCHANGED <<rows, chain, misses, req>>
  BY DEF MissingLookup, IInv, TypeOK, WorkersKnow, WorkerKnows
<1>2. s \in States /\ attempts[h] \in Nat
  BY <1>1 DEF IInv, TypeOK
<1>3. CASE NextInBatch(w)
  BY <1>1, <1>3, BackToLoopStep
<1>4. CASE worker' = [worker EXCEPT ![w].pc = "missingWrite", ![w].seen = s,
                                    ![w].count = attempts[h]]
  <2>1. worker' = [worker EXCEPT ![w] = next]
    BY <1>1, <1>4
  <2>2. /\ next \in WorkerRecords /\ next.pc = "missingWrite" /\ next.hash = h
        /\ next.batch = worker[w].batch
    BY <1>1, <1>2 DEF WorkerRecords
  <2> HIDE DEF next
  <2>3. /\ worker' \in [Workers -> WorkerRecords] /\ worker'[w] = next
        /\ \A v \in Workers \ {w} : worker'[v] = worker[v]
    BY <1>1, <2>1, <2>2
  <2>4. WorkerKnows(w)'
    BY <1>1, <2>2, <2>3 DEF IInv, WorkersKnow, WorkerKnows, rows
  <2> QED BY <1>1, <2>3, <2>4, WorkerOnly
<1> QED BY <1>3, <1>4 DEF MissingLookup

LEMMA ReceiptLookupStep ==
  ASSUME IInv, NEW w \in Workers, ReceiptLookup(w)
  PROVE  IInv'
<1> DEFINE s == state[owner[worker[w].hash]]
           next == [worker[w] EXCEPT !.pc = "minedWrite", !.seen = s]
<1>1. /\ worker[w] \in WorkerRecords /\ worker \in [Workers -> WorkerRecords]
      /\ misses \in [Hashes -> 0..MaxAttempts] /\ worker[w].pc = "mined" /\ WorkerKnows(w)
      /\ UNCHANGED <<rows, chain, misses, req>>
  BY DEF ReceiptLookup, IInv, TypeOK, WorkersKnow
<1>2. CASE NextInBatch(w)
  BY <1>1, <1>2, BackToLoopStep
<1>3. CASE worker' = [worker EXCEPT ![w].pc = "minedWrite", ![w].seen = s]
  <2>1. worker' = [worker EXCEPT ![w] = next] /\ s \in States
    BY <1>1, <1>3 DEF WorkerKnows, IInv, TypeOK
  <2>2. /\ next \in WorkerRecords /\ next.pc = "minedWrite" /\ next.hash = worker[w].hash
        /\ next.batch = worker[w].batch /\ next.status = worker[w].status
    BY <1>1, <2>1 DEF WorkerRecords
  <2> HIDE DEF next
  <2>3. /\ worker' \in [Workers -> WorkerRecords] /\ worker'[w] = next
        /\ \A v \in Workers \ {w} : worker'[v] = worker[v]
    BY <1>1, <2>1, <2>2
  <2>4. WorkerKnows(w)'
    BY <1>1, <2>2, <2>3 DEF WorkerKnows, Outcome, rows
  <2> QED BY <1>1, <2>3, <2>4, WorkerOnly
<1> QED BY <1>2, <1>3 DEF ReceiptLookup

LEMMA TickFailsStep ==
  ASSUME IInv, NEW w \in Workers, TickFails(w)
  PROVE  IInv'
<1>1. /\ IdleWorker \in WorkerRecords /\ IdleWorker.pc = "idle" /\ IdleWorker.batch = {}
  BY DEF IdleWorker, WorkerRecords
<1>2. /\ worker' \in [Workers -> WorkerRecords] /\ worker'[w] = IdleWorker
      /\ \A v \in Workers \ {w} : worker'[v] = worker[v]
      /\ misses' \in [Hashes -> 0..MaxAttempts] /\ UNCHANGED <<rows, chain, req>>
  BY <1>1 DEF TickFails, IInv, TypeOK
<1>3. WorkerKnows(w)'
  BY <1>1, <1>2 DEF WorkerKnows
<1> QED BY <1>2, <1>3, WorkerOnly

\* What a worker's transaction needs to keep the invariant: it moves the trade of its own
\* recorded hash to a state that is polled or settled, and to a result only with the receipt.
LEMMA WriteStep ==
  ASSUME IInv, NEW w \in Workers, NEW h \in Hashes, h = worker[w].hash, owner[h] # None,
         NEW target \in Polled \cup Settled,
         NextInBatch(w),
         state' = [state EXCEPT ![owner[h]] = target],
         attempts' \in [Hashes -> Nat], before' \subseteq Hashes \X Hashes,
         \/ receipt' = receipt /\ target \notin {"CONFIRMED", "REVERTED"}
         \/ /\ receipt' = [receipt EXCEPT ![h] = target]
            /\ chain[h] # "unmined" /\ target = Outcome(h),
         UNCHANGED <<plan, owner, chain, misses, req>>
  PROVE  IInv'
<1>1. TypeOK /\ owner[h] \in Keys /\ target \in States
  BY DEF IInv, TypeOK, Polled, Settled, States
<1>2. /\ state'[owner[h]] = target
      /\ \A j \in Keys \ {owner[h]} : state'[j] = state[j]
  BY <1>1 DEF TypeOK
<1>3. /\ worker' \in [Workers -> WorkerRecords]
      /\ worker'[w].pc = "idle" /\ worker'[w].batch = worker[w].batch
      /\ \A v \in Workers \ {w} : worker'[v] = worker[v]
  BY <1>1, NextInBatchFact
<1>4. \A g \in Hashes \ {h} : receipt'[g] = receipt[g]
  BY <1>1 DEF TypeOK
<1>5. receipt'[h] = receipt[h] \/ (receipt'[h] = Outcome(h) /\ chain[h] # "unmined")
  BY <1>1 DEF TypeOK
<1>6. TypeOK'
  <2>1. receipt' \in [Hashes -> {"CONFIRMED", "REVERTED", None}]
    BY <1>1 DEF TypeOK, Outcome
  <2>2. state' \in [Keys -> States]
    BY <1>1 DEF TypeOK
  <2> QED BY <1>1, <1>3, <2>1, <2>2 DEF TypeOK
<1>7. WorkersKnow'
  <2>1. WorkerKnows(w)'
    BY <1>3 DEF IInv, WorkersKnow, WorkerKnows
  <2>2. \A v \in Workers \ {w} : WorkerKnows(v)'
    BY <1>3 DEF IInv, WorkersKnow, WorkerKnows, Outcome
  <2> QED BY <2>1, <2>2 DEF WorkersKnow
<1>8. \A g \in Hashes : receipt'[g] # None =>
        owner'[g] # None /\ chain'[g] # "unmined" /\ receipt'[g] = Outcome(g)'
  BY <1>4, <1>5 DEF IInv, SettledByReceipt, Outcome
<1>9. ASSUME NEW j \in Keys, state'[j] \in {"CONFIRMED", "REVERTED"}
      PROVE  \E g \in Hashes : owner'[g] = j /\ receipt'[g] = state'[j]
  <2>1. CASE j = owner[h]
    <3>1. receipt'[h] = target
      BY <1>1, <1>2, <1>9, <2>1 DEF TypeOK
    <3> QED BY <1>2, <2>1, <3>1
  <2>2. CASE j # owner[h]
    <3>1. PICK g \in Hashes : owner[g] = j /\ receipt[g] = state[j]
      BY <1>2, <1>9, <2>2 DEF IInv, SettledByReceipt
    <3> QED BY <1>2, <1>4, <2>2, <3>1
  <2> QED BY <2>1, <2>2
<1>10. SettledByReceipt'
  BY <1>8, <1>9 DEF SettledByReceipt
<1>11. RecordedIsReconciled'
  <2> SUFFICES ASSUME NEW g \in Hashes, owner[g] # None
               PROVE  plan[owner[g]] # None /\ state'[owner[g]] \in Polled \cup Settled
    BY DEF RecordedIsReconciled
  <2>1. owner[g] \in Keys
    BY <1>1 DEF TypeOK
  <2> QED BY <1>2, <2>1 DEF IInv, RecordedIsReconciled
<1>12. RequestsKnow' /\ IdempotentAnswers'
  BY DEF IInv, RequestsKnow, RequestKnows, IdempotentAnswers, Answered
<1> QED BY <1>6, <1>7, <1>10, <1>11, <1>12 DEF IInv

\* Whatever is checked, the order stays one of hashes.
LEMMA OrderOfHashes ==
  ASSUME TypeOK, NEW h \in Hashes, Checked(h)
  PROVE  before' \subseteq Hashes \X Hashes
BY DEF TypeOK, Checked

LEMMA MissingWriteStep ==
  ASSUME IInv, NEW w \in Workers, MissingWrite(w)
  PROVE  IInv'
<1> DEFINE h      == worker[w].hash
           count  == worker[w].count + 1
           target == MissingTarget(count)
<1>1. /\ h \in Hashes /\ owner[h] # None /\ worker[w] \in WorkerRecords
      /\ NextInBatch(w) /\ attempts' = [attempts EXCEPT ![h] = count]
      /\ UNCHANGED <<plan, owner, receipt, chain, misses, req>>
  BY DEF MissingWrite, IInv, TypeOK, WorkersKnow, WorkerKnows
<1>2. count \in Nat
  BY <1>1 DEF WorkerRecords
<1>3. attempts' \in [Hashes -> Nat] /\ before' \subseteq Hashes \X Hashes
  BY <1>1, <1>2, OrderOfHashes DEF MissingWrite, IInv, TypeOK
<1>4. target \in Polled \cup Settled /\ target \notin {"CONFIRMED", "REVERTED"}
  BY DEF MissingTarget, Polled, Settled
<1>5. CASE state' = [state EXCEPT ![owner[h]] = target]
  BY <1>1, <1>3, <1>4, <1>5, WriteStep
<1>6. CASE state' = state
  <2>1. owner[h] \in Keys /\ state \in [Keys -> States]
    BY <1>1 DEF IInv, TypeOK
  <2>2. state' = [state EXCEPT ![owner[h]] = state[owner[h]]]
    BY <1>6, <2>1
  <2>3. state[owner[h]] \in Polled \cup Settled
    BY <1>1 DEF IInv, RecordedIsReconciled
  <2>4. CASE state[owner[h]] \notin {"CONFIRMED", "REVERTED"}
    BY <1>1, <1>3, <2>2, <2>3, <2>4, WriteStep
  <2>5. CASE state[owner[h]] \in {"CONFIRMED", "REVERTED"}
    <3>1. TypeOK
      BY DEF IInv
    <3>2. /\ worker' \in [Workers -> WorkerRecords]
          /\ worker'[w].pc = "idle" /\ worker'[w].batch = worker[w].batch
          /\ \A v \in Workers \ {w} : worker'[v] = worker[v]
      BY <1>1, <3>1, NextInBatchFact
    <3>3. TypeOK'
      BY <1>1, <1>3, <1>6, <3>1, <3>2 DEF TypeOK
    <3>4. WorkersKnow'
      BY <1>1, <3>2 DEF IInv, WorkersKnow, WorkerKnows, Outcome
    <3>5. RequestsKnow' /\ SettledByReceipt' /\ RecordedIsReconciled' /\ IdempotentAnswers'
      BY <1>1, <1>6 DEF IInv, RequestsKnow, RequestKnows, SettledByReceipt, Outcome,
                        RecordedIsReconciled, IdempotentAnswers, Answered
    <3> QED BY <3>3, <3>4, <3>5 DEF IInv
  <2> QED BY <2>4, <2>5
<1> QED BY <1>5, <1>6 DEF MissingWrite

LEMMA ReceiptWriteStep ==
  ASSUME IInv, NEW w \in Workers, ReceiptWrite(w)
  PROVE  IInv'
<1> DEFINE h      == worker[w].hash
           target == worker[w].status
<1>1. /\ h \in Hashes /\ owner[h] # None /\ NextInBatch(w)
      /\ chain[h] # "unmined" /\ target = Outcome(h)
      /\ UNCHANGED <<plan, owner, chain, misses, req>>
  BY DEF ReceiptWrite, IInv, WorkersKnow, WorkerKnows
<1>2. target \in Polled \cup Settled
  BY <1>1 DEF Outcome, Settled
<1>3. attempts' \in [Hashes -> Nat] /\ before' \subseteq Hashes \X Hashes
  BY <1>1, OrderOfHashes DEF ReceiptWrite, IInv, TypeOK
<1>4. /\ receipt' = [receipt EXCEPT ![h] = target]
      /\ state' = [state EXCEPT ![owner[h]] = target]
  BY DEF ReceiptWrite
<1> QED BY <1>1, <1>2, <1>3, <1>4, WriteStep

-----------------------------------------------------------------------------
\* Every step of a handler, a listener or the chain keeps the invariant.
THEOREM StepInvariant == IInv /\ [Next]_vars => IInv'
<1> SUFFICES ASSUME IInv, [Next]_vars PROVE IInv'
  OBVIOUS
<1>1. ASSUME NEW r \in Requests, RequestStep(r) PROVE IInv'
  <2>1. ASSUME NEW k \in Keys, NEW p \in Plans, StartCreate(r, k, p) PROVE IInv'
    BY <2>1, StartStep DEF StartCreate
  <2>2. ASSUME NEW k \in Keys, NEW h \in Hashes, StartSubmit(r, k, h) PROVE IInv'
    BY <2>2, StartStep DEF StartSubmit
  <2> QED
    BY <1>1, <2>1, <2>2, CreateLookupStep, CreateInsertStep, SubmitLookupStep, SubmitCheckStep,
       SubmitRecordStep, RequestLostStep DEF RequestStep
<1>2. ASSUME NEW h \in Hashes, NEW outcome \in {"success", "reverted"}, Mine(h, outcome)
      PROVE  IInv'
  BY <1>2, MineStep
<1>3. ASSUME NEW w \in Workers, WorkerStep(w) PROVE IInv'
  BY <1>3, PollStep, ReadUnavailableStep, ReadMissingStep, ReadMinedStep, MissingLookupStep,
     MissingWriteStep, ReceiptLookupStep, ReceiptWriteStep, TickFailsStep DEF WorkerStep
<1>4. CASE UNCHANGED vars
  <2>1. TypeOK'
    BY <1>4 DEF vars, rows, IInv, TypeOK
  <2>2. RequestsKnow' /\ WorkersKnow'
    BY <1>4 DEF vars, rows, IInv, RequestsKnow, RequestKnows, WorkersKnow, WorkerKnows, Outcome
  <2>3. SettledByReceipt' /\ RecordedIsReconciled' /\ IdempotentAnswers'
    BY <1>4 DEF vars, rows, IInv, SettledByReceipt, Outcome, RecordedIsReconciled,
                IdempotentAnswers, Answered
  <2> QED BY <2>1, <2>2, <2>3 DEF IInv
<1> QED BY <1>1, <1>2, <1>3, <1>4 DEF Next

\* The invariant of the rows, requests and workers holds in every reachable state.
THEOREM Invariant == Spec => []IInv
BY InitInvariant, StepInvariant, PTL DEF Spec

\* Every variable keeps its type.
THEOREM TypeCorrect == Spec => []TypeOK
BY Invariant, PTL DEF IInv

\* No trade is ever called CONFIRMED or REVERTED without a matching receipt of its own hash.
THEOREM ResultsComeFromReceipts == Spec => []SettledByReceipt
BY Invariant, PTL DEF IInv

\* No recorded hash is ever left behind in a state that reconciliation does not poll.
THEOREM NoHashIsForgotten == Spec => []RecordedIsReconciled
BY Invariant, PTL DEF IInv

\* Retries and concurrent requests create one trade and are answered truthfully.
THEOREM AnswersAreIdempotent == Spec => []IdempotentAnswers
BY Invariant, PTL DEF IInv

\* What a key stands for and which trade a hash belongs to never change.
THEOREM IdentityIsKept == Spec => RowsKeepTheirIdentity
<1> DEFINE Kept == /\ \A k \in Keys : plan[k] # None => plan'[k] = plan[k]
                   /\ \A h \in Hashes : owner[h] # None => owner'[h] = owner[h]
<1>1. IInv /\ [Next]_vars => [Kept]_vars
  <2> SUFFICES ASSUME IInv, Next PROVE Kept
    OBVIOUS
  <2>1. plan \in [Keys -> Plans \cup {None}] /\ owner \in [Hashes -> Keys \cup {None}]
    BY DEF IInv, TypeOK
  <2>2. ASSUME NEW r \in Requests, CreateInsert(r) PROVE Kept
    BY <2>1, <2>2 DEF CreateInsert
  <2>3. ASSUME NEW r \in Requests, SubmitRecord(r) PROVE Kept
    BY <2>1, <2>3 DEF SubmitRecord
  <2>4. ASSUME NEW r \in Requests, RequestStep(r), ~CreateInsert(r), ~SubmitRecord(r) PROVE Kept
    BY <2>4 DEF RequestStep, StartCreate, StartSubmit, CreateLookup, SubmitLookup, SubmitCheck,
                RequestLost, rows
  <2>5. ASSUME NEW h \in Hashes, NEW outcome \in {"success", "reverted"}, Mine(h, outcome)
        PROVE  Kept
    BY <2>5 DEF Mine, rows
  <2>6. ASSUME NEW w \in Workers, WorkerStep(w) PROVE Kept
    BY <2>6 DEF WorkerStep, Poll, ReadUnavailable, ReadMissing, ReadMined, MissingLookup,
                MissingWrite, ReceiptLookup, ReceiptWrite, TickFails, rows
  <2> QED BY <2>2, <2>3, <2>4, <2>5, <2>6 DEF Next
<1> QED BY <1>1, Invariant, PTL DEF Spec, RowsKeepTheirIdentity

-----------------------------------------------------------------------------
(* Sustained absence.  A worker counts a missing receipt by writing back   *)
(* the counter it read before its await, and a found receipt moves the     *)
(* counter as well; with one worker neither can run ahead of the null      *)
(* receipts really read.  With two, and a replaced transaction, the first  *)
(* can read the counter the second just moved for a receipt.               *)

OneWorker == \A v, w \in Workers : v = w

\* A count of n for hash h is covered by the null receipts read for it.
Evident(h, n) == n <= misses[h] \/ misses[h] = MaxAttempts

AbsenceCounted ==
  /\ \A h \in Hashes : chain[h] = "unmined" => Evident(h, attempts[h])
  /\ \A w \in Workers :
       LET h == worker[w].hash
       IN /\ worker[w].pc = "missing"      => Evident(h, attempts[h] + 1)
          /\ worker[w].pc = "missingWrite" => Evident(h, worker[w].count + 1)

AInv == IInv /\ AbsenceCounted /\ DroppedOnlyAfterSustainedAbsence

\* A step of requests or the chain moves no counter and drops no trade.
LEMMA AbsenceElsewhere ==
  ASSUME AInv,
         UNCHANGED <<attempts, misses, worker>>,
         \A h \in Hashes : chain'[h] = "unmined" => chain[h] = "unmined",
         \A k \in Keys : state'[k] = "DROPPED" => state[k] = "DROPPED",
         \A h \in Hashes : owner[h] # None => owner'[h] = owner[h]
  PROVE  AbsenceCounted' /\ DroppedOnlyAfterSustainedAbsence'
<1>1. AbsenceCounted'
  BY DEF AInv, AbsenceCounted, Evident
<1>2. \A k \in Keys : k # None
  BY NoneAssumption
<1>3. DroppedOnlyAfterSustainedAbsence'
  BY <1>2 DEF AInv, DroppedOnlyAfterSustainedAbsence
<1> QED BY <1>1, <1>3

\* A step of a worker that writes no row and holds no uncounted missing receipt afterwards.
LEMMA AbsenceWaits ==
  ASSUME AInv, OneWorker, NEW w \in Workers,
         UNCHANGED <<rows, chain, misses>>,
         worker'[w].pc = "missing" => FALSE,
         worker'[w].pc = "missingWrite" => Evident(worker'[w].hash, worker'[w].count + 1)
  PROVE  AbsenceCounted' /\ DroppedOnlyAfterSustainedAbsence'
<1>1. \A v \in Workers : v = w
  BY DEF OneWorker
<1>2. AbsenceCounted'
  BY <1>1 DEF AInv, AbsenceCounted, Evident, rows
<1> QED BY <1>2 DEF AInv, DroppedOnlyAfterSustainedAbsence, rows

LEMMA AbsenceRead ==
  ASSUME AInv, OneWorker, NEW w \in Workers, NEW h \in Hashes, ReadMissing(w, h)
  PROVE  AbsenceCounted' /\ DroppedOnlyAfterSustainedAbsence'
<1>1. /\ misses \in [Hashes -> 0..MaxAttempts] /\ worker \in [Workers -> WorkerRecords]
      /\ attempts \in [Hashes -> Nat]
      /\ \A v \in Workers : v = w
  BY DEF AInv, IInv, TypeOK, OneWorker
<1>2. /\ misses' = [misses EXCEPT ![h] = IF @ < MaxAttempts THEN @ + 1 ELSE @]
      /\ UNCHANGED <<rows, chain>> /\ chain[h] = "unmined"
  BY DEF ReadMissing
<1>3. worker'[w].pc = "missing" /\ worker'[w].hash = h
  BY <1>1 DEF ReadMissing, WorkerRecords
<1>4. /\ \A g \in Hashes, n \in Nat : Evident(g, n) => Evident(g, n)'
      /\ \A n \in Nat : Evident(h, n) => Evident(h, n + 1)'
  BY <1>1, <1>2, AttemptsAssumption DEF Evident
<1>5. AbsenceCounted'
  BY <1>1, <1>2, <1>3, <1>4 DEF AInv, AbsenceCounted, rows, Evident
<1>6. \A g \in Hashes : misses[g] = MaxAttempts => misses'[g] = MaxAttempts
  BY <1>1, <1>2
<1> QED BY <1>2, <1>5, <1>6 DEF AInv, DroppedOnlyAfterSustainedAbsence, rows

\* The trade is dropped only by a count that null receipts cover up to the maximum.
LEMMA AbsenceWritten ==
  ASSUME AInv, OneWorker, NEW w \in Workers, MissingWrite(w)
  PROVE  AbsenceCounted' /\ DroppedOnlyAfterSustainedAbsence'
<1> DEFINE h      == worker[w].hash
           count  == worker[w].count + 1
           target == MissingTarget(count)
<1>1. /\ TypeOK /\ h \in Hashes /\ owner[h] # None /\ NextInBatch(w)
      /\ UNCHANGED <<plan, owner, receipt, chain, misses, req>>
      /\ attempts' = [attempts EXCEPT ![h] = count]
      /\ \A v \in Workers : v = w
  BY DEF MissingWrite, AInv, IInv, WorkersKnow, WorkerKnows, OneWorker
<1>2. worker'[w].pc = "idle"
  BY <1>1, NextInBatchFact
<1>3. count \in Nat /\ misses[h] \in 0..MaxAttempts /\ MaxAttempts \in Nat
  BY <1>1, AttemptsAssumption DEF TypeOK, WorkerRecords
<1>4. Evident(h, count)
  BY DEF AInv, AbsenceCounted, MissingWrite
<1>5. AbsenceCounted'
  <2>1. \A g \in Hashes : chain[g] = "unmined" => Evident(g, attempts'[g])
    BY <1>1, <1>4 DEF AInv, AbsenceCounted, TypeOK
  <2>2. \A v \in Workers : worker'[v].pc \notin {"missing", "missingWrite"}
    BY <1>1, <1>2
  <2> QED BY <1>1, <2>1, <2>2 DEF AbsenceCounted, Evident
<1>6. CASE state' = state
  BY <1>1, <1>5, <1>6 DEF AInv, DroppedOnlyAfterSustainedAbsence
<1>7. CASE state' = [state EXCEPT ![owner[h]] = target]
  <2>1. target = "DROPPED" => misses[h] = MaxAttempts
    BY <1>3, <1>4 DEF MissingTarget, Evident
  <2>2. DroppedOnlyAfterSustainedAbsence'
    BY <1>1, <1>7, <2>1 DEF AInv, DroppedOnlyAfterSustainedAbsence, TypeOK
  <2> QED BY <1>5, <2>2
<1> QED BY <1>6, <1>7 DEF MissingWrite

\* A receipt is written for a mined hash only, and by the only worker there is.
LEMMA AbsenceReceipt ==
  ASSUME AInv, OneWorker, NEW w \in Workers, ReceiptWrite(w)
  PROVE  AbsenceCounted' /\ DroppedOnlyAfterSustainedAbsence'
<1> DEFINE h == worker[w].hash
<1>1. /\ TypeOK /\ h \in Hashes /\ chain[h] # "unmined" /\ NextInBatch(w)
      /\ worker[w].status \in {"CONFIRMED", "REVERTED"}
      /\ state' = [state EXCEPT ![owner[h]] = worker[w].status]
      /\ attempts' = [attempts EXCEPT ![h] = @ + 1]
      /\ UNCHANGED <<owner, chain, misses>>
      /\ \A v \in Workers : v = w
  BY DEF ReceiptWrite, AInv, IInv, WorkersKnow, WorkerKnows, OneWorker, Outcome
<1>2. worker'[w].pc = "idle"
  BY <1>1, NextInBatchFact
<1>3. AbsenceCounted'
  BY <1>1, <1>2 DEF AInv, AbsenceCounted, Evident, TypeOK
<1>4. DroppedOnlyAfterSustainedAbsence'
  BY <1>1 DEF AInv, DroppedOnlyAfterSustainedAbsence, TypeOK
<1> QED BY <1>3, <1>4

\* Every other step of the worker.
LEMMA AbsenceInLoop ==
  ASSUME AInv, OneWorker, NEW w \in Workers, WorkerStep(w),
         \A h \in Hashes : ~ReadMissing(w, h), ~MissingWrite(w), ~ReceiptWrite(w)
  PROVE  AbsenceCounted' /\ DroppedOnlyAfterSustainedAbsence'
<1>1. TypeOK /\ worker[w] \in WorkerRecords /\ UNCHANGED <<rows, chain, misses>>
  BY DEF WorkerStep, Poll, ReadUnavailable, ReadMined, MissingLookup, ReceiptLookup, TickFails,
         AInv, IInv, TypeOK
<1>2. CASE \/ Poll(w)
           \/ \E h \in Hashes : ReadUnavailable(w, h) \/ ReadMined(w, h)
           \/ ReceiptLookup(w)
           \/ TickFails(w)
  <2>1. CASE Poll(w) \/ ReceiptLookup(w) \/ TickFails(w)
    <3>1. worker'[w].pc \notin {"missing", "missingWrite"}
      BY <1>1, <2>1 DEF Poll, ReceiptLookup, TickFails, NextInBatch, IdleWorker, TypeOK,
                        WorkerRecords
    <3> QED BY <1>1, <3>1, AbsenceWaits
  <2>2. CASE \E h \in Hashes : ReadUnavailable(w, h) \/ ReadMined(w, h)
    <3>1. worker'[w].pc \notin {"missing", "missingWrite"}
      BY <1>1, <2>2 DEF ReadUnavailable, ReadMined, TypeOK, WorkerRecords
    <3> QED BY <1>1, <3>1, AbsenceWaits
  <2> QED BY <1>2, <2>1, <2>2
<1>3. CASE MissingLookup(w)
  <2>1. Evident(worker[w].hash, attempts[worker[w].hash] + 1)
    BY <1>3 DEF MissingLookup, AInv, AbsenceCounted
  <2>2. \/ worker'[w].pc = "idle"
        \/ /\ worker'[w].pc = "missingWrite" /\ worker'[w].hash = worker[w].hash
           /\ worker'[w].count = attempts[worker[w].hash]
    BY <1>1, <1>3 DEF MissingLookup, NextInBatch, IdleWorker, TypeOK, WorkerRecords
  <2> QED BY <1>1, <2>1, <2>2, AbsenceWaits
<1> QED BY <1>2, <1>3 DEF WorkerStep

THEOREM AbsenceStep == AInv /\ OneWorker /\ [Next]_vars => AInv'
<1> SUFFICES ASSUME AInv, OneWorker, [Next]_vars PROVE AInv'
  OBVIOUS
<1>1. IInv'
  BY StepInvariant DEF AInv
<1>2. /\ owner \in [Hashes -> Keys \cup {None}] /\ chain \in [Hashes -> {"unmined", "success", "reverted"}]
      /\ state \in [Keys -> States]
  BY DEF AInv, IInv, TypeOK
<1>3. ASSUME NEW r \in Requests, RequestStep(r)
      PROVE  AbsenceCounted' /\ DroppedOnlyAfterSustainedAbsence'
  <2>1. UNCHANGED <<attempts, misses, worker, chain>>
    BY <1>3 DEF RequestStep, StartCreate, StartSubmit, CreateLookup, CreateInsert, SubmitLookup,
                SubmitCheck, SubmitRecord, RequestLost, rows
  <2>2. \/ UNCHANGED <<state, owner>>
        \/ /\ state' = [state EXCEPT ![req[r].key] = "READY_FOR_REVIEW"] /\ owner' = owner
        \/ /\ owner[req[r].arg] = None
           /\ owner' = [owner EXCEPT ![req[r].arg] = req[r].key]
           /\ state' = [state EXCEPT ![req[r].key] = "SUBMITTED"]
    BY <1>3 DEF RequestStep, StartCreate, StartSubmit, CreateLookup, CreateInsert, SubmitLookup,
                SubmitCheck, SubmitRecord, RequestLost, rows
  <2>3. \A k \in Keys : state'[k] = "DROPPED" => state[k] = "DROPPED"
    BY <1>2, <2>2
  <2>4. \A h \in Hashes : owner[h] # None => owner'[h] = owner[h]
    BY <1>2, <2>2
  <2> QED BY <2>1, <2>3, <2>4, AbsenceElsewhere
<1>4. ASSUME NEW h \in Hashes, NEW outcome \in {"success", "reverted"}, Mine(h, outcome)
      PROVE  AbsenceCounted' /\ DroppedOnlyAfterSustainedAbsence'
  <2>1. \A g \in Hashes : chain'[g] = "unmined" => chain[g] = "unmined"
    BY <1>2, <1>4 DEF Mine
  <2>2. UNCHANGED <<rows, misses, worker>>
    BY <1>4 DEF Mine
  <2> QED BY <2>1, <2>2, AbsenceElsewhere DEF rows
<1>5. ASSUME NEW w \in Workers, WorkerStep(w)
      PROVE  AbsenceCounted' /\ DroppedOnlyAfterSustainedAbsence'
  BY <1>5, AbsenceRead, AbsenceWritten, AbsenceReceipt, AbsenceInLoop
<1>6. ASSUME UNCHANGED vars PROVE AbsenceCounted' /\ DroppedOnlyAfterSustainedAbsence'
  BY <1>6, AbsenceElsewhere DEF vars, rows
<1>7. AbsenceCounted' /\ DroppedOnlyAfterSustainedAbsence'
  BY <1>3, <1>4, <1>5, <1>6 DEF Next
<1> QED BY <1>1, <1>7 DEF AInv

\* With one reconciliation worker, a trade is DROPPED only after MAX_RECONCILE_ATTEMPTS reads in
\* which the chain really knew no such transaction.
THEOREM DroppedAfterAbsence ==
  ASSUME OneWorker
  PROVE  Spec => []DroppedOnlyAfterSustainedAbsence
<1>1. Init => AInv
  <2> SUFFICES ASSUME Init PROVE AbsenceCounted /\ DroppedOnlyAfterSustainedAbsence
    BY InitInvariant DEF AInv
  <2>1. AbsenceCounted
    BY AttemptsAssumption DEF Init, AbsenceCounted, Evident, IdleWorker
  <2> QED BY <2>1 DEF Init, DroppedOnlyAfterSustainedAbsence
<1>2. AInv /\ [Next]_vars => AInv'
  BY AbsenceStep
<1>3. AInv => DroppedOnlyAfterSustainedAbsence
  BY DEF AInv
<1> QED BY <1>1, <1>2, <1>3, PTL DEF Spec

-----------------------------------------------------------------------------
(* The lifecycle, with any number of workers and of hashes per trade.      *)
(* What a handler read of a trade is still so when it writes, unless the   *)
(* trade has a second hash or there is a second worker: only then can a    *)
(* write leave TRANSITIONS.                                                *)

\* A trade is where it was created until a hash is recorded for it.
UnsubmittedIsFresh ==
  \A k \in Keys : (\A h \in Hashes : owner[h] # k) => state[k] = "READY_FOR_REVIEW"

\* A submission is recorded only if the state that was read accepts one.
RequestIsJudged(r) ==
  /\ req[r].pc \in {"check", "record"} => req[r].seen \in States
  /\ req[r].pc = "record" => MayAcceptSubmission(req[r].seen)

\* A worker alone with the only hash of a trade still knows the trade's state.
WorkerIsCurrent(w) ==
  LET k == owner[worker[w].hash]
  IN /\ worker[w].pc \in {"missingWrite", "minedWrite"} /\ Workers = {w} /\ ~Replaced(k)
          => worker[w].seen = state[k]
     /\ worker[w].pc = "minedWrite" => CanTransition(worker[w].seen, worker[w].status)

Judged == \A r \in Requests : RequestIsJudged(r)
Current == \A w \in Workers : WorkerIsCurrent(w)

LInv == IInv /\ UnsubmittedIsFresh /\ Judged /\ Current

\* Every existing trade stays or moves along TRANSITIONS, or a late write strays.
Legal ==
  \A k \in Keys : plan[k] # None =>
    CanTransition(state[k], state'[k]) \/ RequestStrays(k) \/ WorkerStrays(k)

\* A step that leaves the rows alone.
LEMMA LifecycleWaits ==
  ASSUME LInv, UNCHANGED rows
  PROVE  UnsubmittedIsFresh' /\ Legal
BY DEF LInv, UnsubmittedIsFresh, Legal, CanTransition, rows

\* And the workers too.
LEMMA WorkersStayCurrent ==
  ASSUME LInv, UNCHANGED <<rows, worker>>
  PROVE  Current'
BY DEF LInv, Current, WorkerIsCurrent, Replaced, CanTransition, rows

\* A request comes to its write only through the check.
LEMMA RequestsStayJudged ==
  ASSUME LInv, NEW r \in Requests, RequestStep(r)
  PROVE  Judged'
<1>1. req \in [Requests -> RequestRecords] /\ state \in [Keys -> States]
  BY DEF LInv, IInv, TypeOK
<1>2. \A s \in Requests \ {r} : req'[s] = req[s]
  BY <1>1 DEF RequestStep, StartCreate, StartSubmit, CreateLookup, CreateInsert, SubmitLookup,
              SubmitCheck, SubmitRecord, RequestLost, ReplayOrRefuse, ReplayOrConflict, Reply
<1>3. RequestIsJudged(r)'
  <2>1. CASE \/ \E k \in Keys, p \in Plans : StartCreate(r, k, p)
             \/ \E k \in Keys, h \in Hashes : StartSubmit(r, k, h)
             \/ RequestLost(r)
    BY <1>1, <2>1 DEF StartCreate, StartSubmit, RequestLost, IdleRequest, RequestIsJudged
  <2>2. CASE CreateLookup(r) \/ CreateInsert(r) \/ SubmitRecord(r)
    <3>1. req'[r].pc \in {"done", "insert"}
      BY <1>1, <2>2 DEF CreateLookup, CreateInsert, SubmitRecord, ReplayOrRefuse,
                        ReplayOrConflict, Reply, RequestRecords
    <3> QED BY <3>1 DEF RequestIsJudged
  <2>3. CASE SubmitLookup(r)
    <3>1. req[r].key \in Keys
      BY <2>3 DEF SubmitLookup, LInv, IInv, RequestsKnow, RequestKnows
    <3>2. req'[r].pc = "done" \/ (req'[r].pc = "check" /\ req'[r].seen = state[req[r].key])
      BY <1>1, <2>3 DEF SubmitLookup, Reply, RequestRecords
    <3> QED BY <1>1, <3>1, <3>2 DEF RequestIsJudged
  <2>4. CASE SubmitCheck(r)
    <3>1. \/ req'[r].pc = "done"
          \/ /\ req'[r].pc = "record" /\ req'[r].seen = req[r].seen
             /\ MayAcceptSubmission(req[r].seen)
      BY <1>1, <2>4 DEF SubmitCheck, ReplayOrConflict, Reply, RequestRecords
    <3>2. req[r].seen \in States
      BY <2>4 DEF SubmitCheck, LInv, Judged, RequestIsJudged
    <3> QED BY <3>1, <3>2 DEF RequestIsJudged, MayAcceptSubmission, CanTransition
  <2> QED BY <2>1, <2>2, <2>3, <2>4 DEF RequestStep
<1> QED BY <1>2, <1>3 DEF LInv, Judged, RequestIsJudged, MayAcceptSubmission, CanTransition

\* A new trade is fresh, and no recorded hash is its.
LEMMA LifecycleCreate ==
  ASSUME LInv, NEW r \in Requests, CreateInsert(r)
  PROVE  UnsubmittedIsFresh' /\ Current' /\ Legal
<1> DEFINE k == req[r].key
<1>1. UNCHANGED <<owner, attempts, before, receipt, worker>>
  BY DEF CreateInsert
<1>2. CASE UNCHANGED <<plan, state>>
  BY <1>1, <1>2, LifecycleWaits, WorkersStayCurrent DEF rows
<1>3. CASE plan[k] = None /\ state' = [state EXCEPT ![k] = "READY_FOR_REVIEW"]
  <2>1. k \in Keys /\ state \in [Keys -> States] /\ owner \in [Hashes -> Keys \cup {None}]
    BY DEF CreateInsert, LInv, IInv, TypeOK, RequestsKnow, RequestKnows
  <2>2. \A j \in Keys : j # k => state'[j] = state[j]
    BY <1>3, <2>1
  <2>3. \A h \in Hashes : owner[h] # None => owner[h] # k /\ state'[owner[h]] = state[owner[h]]
    BY <1>3, <2>1, <2>2 DEF LInv, IInv, RecordedIsReconciled
  <2>4. UnsubmittedIsFresh'
    BY <1>1, <1>3, <2>1, <2>2 DEF LInv, UnsubmittedIsFresh
  <2>5. Current'
    BY <1>1, <2>3 DEF LInv, Current, WorkerIsCurrent, Replaced, CanTransition,
                      IInv, WorkersKnow, WorkerKnows
  <2>6. Legal
    BY <1>3, <2>2 DEF Legal, CanTransition
  <2> QED BY <2>4, <2>5, <2>6
<1> QED BY <1>2, <1>3 DEF CreateInsert

\* A recorded submission: the trade is fresh, is where it was read, or has a second hash now.
LEMMA LifecycleRecord ==
  ASSUME LInv, NEW r \in Requests, SubmitRecord(r)
  PROVE  UnsubmittedIsFresh' /\ Current' /\ Legal
<1> DEFINE h == req[r].arg
<1>0. PICK k \in Keys : k = req[r].key
  BY DEF SubmitRecord, LInv, IInv, RequestsKnow, RequestKnows
<1>1. UNCHANGED <<plan, attempts, before, receipt, worker>>
  BY DEF SubmitRecord
<1>2. CASE UNCHANGED <<owner, state>>
  BY <1>1, <1>2, LifecycleWaits, WorkersStayCurrent DEF rows
<1>3. CASE /\ owner[h] = None
           /\ owner' = [owner EXCEPT ![h] = req[r].key]
           /\ state' = [state EXCEPT ![req[r].key] = "SUBMITTED"]
           /\ Reply(r, "RECORDED")
  <2>1. /\ h \in Hashes /\ state \in [Keys -> States]
        /\ owner \in [Hashes -> Keys \cup {None}] /\ k # None /\ req[r].pc = "record"
    BY <1>0, NoneAssumption DEF SubmitRecord, LInv, IInv, TypeOK, RequestsKnow, RequestKnows
  <2>2. /\ owner'[h] = k /\ state'[k] = "SUBMITTED"
        /\ \A g \in Hashes : owner[g] # None => g # h /\ owner'[g] = owner[g]
        /\ \A j \in Keys \ {k} : state'[j] = state[j]
    BY <1>0, <1>3, <2>1
  <2>3. UnsubmittedIsFresh'
    <3>1. ASSUME NEW j \in Keys, \A g \in Hashes : owner'[g] # j
          PROVE  j # k /\ \A g \in Hashes : owner[g] # j
      BY <1>0, <1>3, <2>1, <3>1, NoneAssumption
    <3> QED BY <2>2, <3>1 DEF LInv, UnsubmittedIsFresh
  <2>4. Current'
    <3> SUFFICES ASSUME NEW w \in Workers PROVE WorkerIsCurrent(w)'
      BY DEF Current
    <3>1. WorkerIsCurrent(w)
      BY DEF LInv, Current
    <3>2. CASE worker[w].pc \notin {"missingWrite", "minedWrite"}
      BY <1>1, <3>2 DEF WorkerIsCurrent
    <3>3. CASE worker[w].pc \in {"missingWrite", "minedWrite"}
      <4>1. PICK g \in Hashes : g = worker[w].hash /\ owner[g] # None
        BY <3>3 DEF LInv, IInv, WorkersKnow, WorkerKnows
      <4>2. PICK j \in Keys : j = owner[g] /\ owner'[g] = j /\ g # h
        BY <2>1, <2>2, <4>1
      <4>3. CASE j = k
        <5>1. Replaced(k)'
          BY <2>1, <2>2, <4>1, <4>2, <4>3 DEF Replaced
        <5> QED BY <1>1, <3>1, <4>1, <4>2, <4>3, <5>1 DEF WorkerIsCurrent, CanTransition
      <4>4. CASE j # k
        <5>1. Replaced(j) => Replaced(j)'
          <6>1. \A x \in Hashes : owner[x] = j => owner'[x] = j
            BY <2>2, NoneAssumption
          <6> QED BY <6>1 DEF Replaced
        <5>2. state'[j] = state[j]
          BY <2>2, <4>4
        <5> QED BY <1>1, <3>1, <4>1, <4>2, <5>1, <5>2 DEF WorkerIsCurrent, CanTransition
      <4> QED BY <4>3, <4>4
    <3> QED BY <3>2, <3>3
  <2>5. CanTransition(state[k], "SUBMITTED") \/ RequestStrays(k)
    <3>1. CASE req[r].seen = state[k]
      BY <2>1, <3>1 DEF LInv, Judged, RequestIsJudged, MayAcceptSubmission
    <3>2. CASE \A g \in Hashes : owner[g] # k
      <4>1. state[k] = "READY_FOR_REVIEW"
        BY <2>1, <3>2 DEF LInv, UnsubmittedIsFresh
      <4> QED BY <4>1 DEF CanTransition, Transitions, States
    <3>3. ASSUME NEW g \in Hashes, owner[g] = k, req[r].seen # state[k]
          PROVE  RequestStrays(k)
      <4>1. Replaced(k)'
        BY <2>1, <2>2, <3>3 DEF Replaced
      <4>2. req'[r].reply = "RECORDED"
        BY <1>3, ReplyFact DEF LInv, IInv, Replies
      <4> QED BY <1>0, <2>1, <3>3, <4>1, <4>2 DEF RequestStrays
    <3> QED BY <3>1, <3>2, <3>3
  <2>6. Legal
    BY <2>2, <2>5 DEF Legal, CanTransition
  <2> QED BY <2>3, <2>4, <2>6
<1> QED BY <1>2, <1>3 DEF SubmitRecord

\* A worker's transaction: the trade is where it was read, or something got in between.
LEMMA LifecycleWrite ==
  ASSUME LInv, NEW w \in Workers, worker[w].pc \in {"missingWrite", "minedWrite"},
         NEW target, CanTransition(worker[w].seen, target),
         state' = [state EXCEPT ![owner[worker[w].hash]] = target],
         NextInBatch(w), UNCHANGED <<plan, owner, req>>
  PROVE  UnsubmittedIsFresh' /\ Current' /\ Legal
<1>1. TypeOK
  BY DEF LInv, IInv
<1>2. PICK h \in Hashes, k \in Keys : h = worker[w].hash /\ k = owner[h]
  BY <1>1 DEF LInv, IInv, WorkersKnow, WorkerKnows, TypeOK
<1>3. state'[k] = target /\ \A j \in Keys \ {k} : state'[j] = state[j]
  BY <1>1, <1>2 DEF TypeOK
<1>4. worker'[w].pc = "idle" /\ \A v \in Workers \ {w} : worker'[v] = worker[v]
  BY <1>1, NextInBatchFact
<1>5. UnsubmittedIsFresh'
  BY <1>2, <1>3 DEF LInv, UnsubmittedIsFresh
<1>6. Current'
  BY <1>4 DEF LInv, Current, WorkerIsCurrent, CanTransition
<1>7. CanTransition(state[k], target) \/ WorkerStrays(k)
  BY <1>2, <1>4 DEF LInv, Current, WorkerIsCurrent, WorkerStrays
<1> QED BY <1>3, <1>5, <1>6, <1>7 DEF Legal, CanTransition

LEMMA LifecycleWorker ==
  ASSUME LInv, NEW w \in Workers, WorkerStep(w)
  PROVE  UnsubmittedIsFresh' /\ Judged' /\ Current' /\ Legal
<1>1. TypeOK /\ worker[w] \in WorkerRecords /\ req' = req
  BY DEF LInv, IInv, TypeOK, WorkerStep, Poll, ReadUnavailable, ReadMissing, ReadMined,
         MissingLookup, MissingWrite, ReceiptLookup, ReceiptWrite, TickFails
<1>2. Judged'
  BY <1>1 DEF LInv, Judged, RequestIsJudged, MayAcceptSubmission, CanTransition
<1>3. CASE MissingWrite(w)
  <2> DEFINE target == MissingTarget(worker[w].count + 1)
  <2>1. /\ worker[w].pc = "missingWrite" /\ NextInBatch(w)
        /\ UNCHANGED <<plan, owner, req>>
    BY <1>3 DEF MissingWrite
  <2>2. CASE CanTransition(worker[w].seen, target)
    <3>1. state' = [state EXCEPT ![owner[worker[w].hash]] = target]
      BY <1>3, <2>2 DEF MissingWrite
    <3> HIDE DEF target
    <3>2. UnsubmittedIsFresh' /\ Current' /\ Legal
      BY <2>1, <2>2, <3>1, LifecycleWrite
    <3> QED BY <1>2, <3>2
  <2>3. CASE ~CanTransition(worker[w].seen, target)
    <3>1. state' = state
      BY <1>3, <2>3 DEF MissingWrite
    <3>2. worker'[w].pc = "idle" /\ \A v \in Workers \ {w} : worker'[v] = worker[v]
      BY <1>1, <2>1, NextInBatchFact
    <3>3. Current'
      BY <3>2 DEF LInv, Current, WorkerIsCurrent, CanTransition
    <3>4. UnsubmittedIsFresh' /\ Legal
      BY <2>1, <3>1 DEF LInv, UnsubmittedIsFresh, Legal, CanTransition
    <3> QED BY <1>2, <3>3, <3>4
  <2> QED BY <1>2, <2>2, <2>3
<1>4. CASE ReceiptWrite(w)
  <2>1. /\ worker[w].pc = "minedWrite" /\ NextInBatch(w) /\ UNCHANGED <<plan, owner, req>>
        /\ state' = [state EXCEPT ![owner[worker[w].hash]] = worker[w].status]
    BY <1>4 DEF ReceiptWrite
  <2>2. CanTransition(worker[w].seen, worker[w].status)
    BY <2>1 DEF LInv, Current, WorkerIsCurrent
  <2> QED BY <1>2, <2>1, <2>2, LifecycleWrite
<1>5. CASE ~MissingWrite(w) /\ ~ReceiptWrite(w)
  <2>1. UNCHANGED rows
    BY <1>5 DEF WorkerStep, Poll, ReadUnavailable, ReadMissing, ReadMined, MissingLookup,
                ReceiptLookup, TickFails
  <2>2. \A v \in Workers \ {w} : worker'[v] = worker[v]
    BY <1>1, <1>5 DEF WorkerStep, Poll, ReadUnavailable, ReadMissing, ReadMined, MissingLookup,
                      ReceiptLookup, TickFails, NextInBatch, TypeOK
  <2>3. \/ worker'[w].pc \notin {"missingWrite", "minedWrite"}
        \/ /\ worker'[w].seen = state[owner[worker'[w].hash]]
           /\ worker'[w].pc = "minedWrite" =>
                CanTransition(worker'[w].seen, worker'[w].status)
    <3>1. CASE Poll(w) \/ TickFails(w)
      BY <1>1, <3>1 DEF Poll, TickFails, IdleWorker, TypeOK, WorkerRecords
    <3>2. CASE \E h \in Hashes : ReadUnavailable(w, h) \/ ReadMissing(w, h) \/ ReadMined(w, h)
      BY <1>1, <3>2 DEF ReadUnavailable, ReadMissing, ReadMined, TypeOK, WorkerRecords
    <3>3. CASE MissingLookup(w)
      BY <1>1, <3>3 DEF MissingLookup, NextInBatch, IdleWorker, TypeOK, WorkerRecords
    <3>4. CASE ReceiptLookup(w)
      BY <1>1, <3>4 DEF ReceiptLookup, NextInBatch, IdleWorker, TypeOK, WorkerRecords
    <3> QED BY <1>5, <3>1, <3>2, <3>3, <3>4 DEF WorkerStep
  <2>4. Current'
    BY <2>1, <2>2, <2>3 DEF LInv, Current, WorkerIsCurrent, Replaced, CanTransition, rows
  <2> QED BY <1>2, <2>1, <2>4, LifecycleWaits
<1> QED BY <1>3, <1>4, <1>5

THEOREM LifecycleStep == LInv /\ [Next]_vars => LInv' /\ [Legal]_vars
<1> SUFFICES ASSUME LInv, [Next]_vars
             PROVE  UnsubmittedIsFresh' /\ Judged' /\ Current' /\ [Legal]_vars
  BY StepInvariant DEF LInv
<1>1. ASSUME NEW r \in Requests, RequestStep(r)
      PROVE  UnsubmittedIsFresh' /\ Judged' /\ Current' /\ Legal
  <2>1. CASE CreateInsert(r) \/ SubmitRecord(r)
    BY <1>1, <2>1, RequestsStayJudged, LifecycleCreate, LifecycleRecord
  <2>2. CASE ~CreateInsert(r) /\ ~SubmitRecord(r)
    <3>1. UNCHANGED <<rows, worker>>
      BY <1>1, <2>2 DEF RequestStep, StartCreate, StartSubmit, CreateLookup, SubmitLookup,
                        SubmitCheck, RequestLost
    <3> QED BY <1>1, <3>1, RequestsStayJudged, LifecycleWaits, WorkersStayCurrent
  <2> QED BY <2>1, <2>2
<1>2. ASSUME NEW h \in Hashes, NEW outcome \in {"success", "reverted"}, Mine(h, outcome)
      PROVE  UnsubmittedIsFresh' /\ Judged' /\ Current' /\ Legal
  <2>1. UNCHANGED <<rows, worker, req>>
    BY <1>2 DEF Mine
  <2>2. Judged'
    BY <2>1 DEF LInv, Judged, RequestIsJudged, MayAcceptSubmission, CanTransition
  <2> QED BY <2>1, <2>2, LifecycleWaits, WorkersStayCurrent
<1>3. ASSUME NEW w \in Workers, WorkerStep(w)
      PROVE  UnsubmittedIsFresh' /\ Judged' /\ Current' /\ Legal
  BY <1>3, LifecycleWorker
<1>4. CASE UNCHANGED vars
  <2>1. UNCHANGED <<rows, worker, req>>
    BY <1>4 DEF vars
  <2>2. Judged'
    BY <2>1 DEF LInv, Judged, RequestIsJudged, MayAcceptSubmission, CanTransition
  <2> QED BY <1>4, <2>1, <2>2, LifecycleWaits, WorkersStayCurrent
<1> QED BY <1>1, <1>2, <1>3, <1>4 DEF Next

LEMMA LifecycleInit == Init => LInv
<1> SUFFICES ASSUME Init PROVE UnsubmittedIsFresh /\ Judged /\ Current
  BY InitInvariant DEF LInv
<1>1. UnsubmittedIsFresh /\ Judged
  BY DEF Init, UnsubmittedIsFresh, Judged, RequestIsJudged, IdleRequest
<1>2. Current
  BY DEF Init, Current, WorkerIsCurrent, IdleWorker
<1> QED BY <1>1, <1>2

\* For any workers and any hashes of a trade, a write leaves the TRANSITIONS of lifecycle.ts only
\* when the trade changed after it was read, and then it has a second hash or there is a second
\* process.
THEOREM OnlyRacesLeaveTheLifecycle == Spec => OnlyRacesStray
<1>1. LInv /\ [Next]_vars => LInv' /\ [Legal]_vars
  BY LifecycleStep
<1>2. [Legal]_vars => [\A k \in Keys : plan[k] # None =>
         CanTransition(state[k], state'[k]) \/ RequestStrays(k) \/ WorkerStrays(k)]_vars
  BY DEF Legal
<1> QED BY <1>1, <1>2, LifecycleInit, PTL DEF Spec, OnlyRacesStray

\* What is finished changes by such a race alone, whatever is polled, retried or submitted late.
FinishedChangesByRaces ==
  [][\A k \in Keys : state[k] \in TerminalStates /\ state'[k] # state[k] =>
       RequestStrays(k) \/ WorkerStrays(k)]_vars

\* A finished trade is reopened, or its result overwritten, by the two races and nothing else.
\* (MCExecutionReplaced.cfg shows that a replaced transaction really does it.)
THEOREM OnlyRacesReopen == Spec => FinishedChangesByRaces
<1> DEFINE Final == \A k \in Keys : state[k] \in TerminalStates /\ state'[k] # state[k] =>
                      RequestStrays(k) \/ WorkerStrays(k)
<1>1. LInv /\ [Next]_vars => LInv' /\ [Final]_vars
  <2> SUFFICES ASSUME LInv, Next, vars' # vars, NEW k \in Keys,
                      state[k] \in TerminalStates, state'[k] # state[k]
               PROVE  RequestStrays(k) \/ WorkerStrays(k)
    BY LifecycleStep DEF Final
  <2>1. state[k] # "READY_FOR_REVIEW" /\ Transitions[state[k]] = {}
    BY DEF TerminalStates, Transitions, States
  <2>2. PICK h \in Hashes : owner[h] = k
    BY <2>1 DEF LInv, UnsubmittedIsFresh
  <2>3. plan[k] # None
    BY <2>2, NoneAssumption DEF LInv, IInv, RecordedIsReconciled
  <2> QED BY <2>1, <2>3, LifecycleStep DEF Legal, CanTransition
<1> QED BY <1>1, LifecycleInit, PTL DEF Spec, FinishedChangesByRaces
=============================================================================
