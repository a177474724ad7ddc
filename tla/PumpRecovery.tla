------------------------------ MODULE PumpRecovery ------------------------------
(***************************************************************************)
(* Which pump.fun transactions reach the database: signatures announced on *)
(* the socket go through a bounded queue to the fetching workers, and a    *)
(* recovery sweep walks the node's index back to the checkpoint for what   *)
(* the live stream missed.  Transactions are numbered as they land.        *)
(***************************************************************************)
EXTENDS Integers, Sequences, FiniteSetsExt

CONSTANTS
  Workers,      \* fetchConcurrency
  Sweep,        \* the recovery, which processes one signature after the other
  Txs,          \* bound: how many transactions land
  TxsPerSlot,
  Unsupported,  \* transactions of a version the node's client cannot read
  Empty,        \* transactions without an event of the program
  MaxQueue,     \* maxQueueDepth
  Budget,       \* maxRecoverySignatures
  MaxFaults     \* bound: failed calls, throws, lost sockets and restarts

\* What the theorems assume.
ConstantsOK == Txs \in Nat /\ TxsPerSlot \in Nat \ {0} /\ MaxQueue \in Nat /\ MaxFaults \in Nat

VARIABLES
  landed,      \* how many transactions are confirmed
  open,        \* the socket is subscribed
  queue,
  work,        \* work[p]: the signature p processes: [pc, tx]
  deferred,    \* signatures to be tried again, in memory
  stored,      \* those whose facts are in the database
  checkpoint,  \* lastHeight, 0 if there is no row
  settled,     \* lastHeightTimestamp, as the slot it is the time of
  fin,         \* the finality reconciler between its read of the row and its write: [height, slot]
  rec,         \* the sweep: [pc, floor, todo]
  lost,        \* history: deferred signatures forgotten by a throw or a restart
  faults

feed == <<landed, open, queue>>
memory == <<work, deferred, rec>>
row == <<checkpoint, settled>>
vars == <<feed, memory, stored, row, fin, lost, faults>>

Procs == Workers \cup {Sweep}
SlotOf(t) == (t - 1) \div TxsPerSlot + 1
Idle == [pc |-> "idle", tx |-> 0]
NoSweep == [pc |-> "idle", floor |-> 0, todo |-> {}]
NoWrite == [height |-> 0, slot |-> 0]

Init ==
  /\ landed = 0 /\ open = FALSE /\ queue = <<>>
  /\ work = [p \in Procs |-> Idle] /\ deferred = {} /\ rec = NoSweep
  /\ stored = {} /\ checkpoint = 0 /\ settled = 0 /\ fin = NoWrite
  /\ lost = {} /\ faults = 0

Fault == faults < MaxFaults /\ faults' = faults + 1

-----------------------------------------------------------------------------
(* The live stream. *)

\* enqueue: a signature that finds the queue full is counted and left to the sweep.
Land ==
  /\ landed < Txs /\ landed' = landed + 1
  /\ queue' = IF open /\ Len(queue) < MaxQueue THEN Append(queue, landed + 1) ELSE queue
  /\ UNCHANGED <<open, memory, stored, row, fin, lost, faults>>

Take(w) ==
  /\ work[w].pc = "idle" /\ queue # <<>>
  /\ work' = [work EXCEPT ![w] = [pc |-> "fetch", tx |-> Head(queue)]]
  /\ queue' = Tail(queue)
  /\ UNCHANGED <<landed, open, deferred, rec, stored, row, fin, lost, faults>>

\* Mutant: the sweep leaves the deferred signatures alone.
BeginWithTheWalk == IF rec.pc = "idle" THEN [NoSweep EXCEPT !.pc = "deferred"] ELSE rec

\* runRecovery returns at once when one is under way.
Begin == IF rec.pc = "idle" THEN [NoSweep EXCEPT !.pc = "deferred", !.todo = deferred] ELSE rec

Connect ==
  /\ ~open /\ open' = TRUE /\ rec' = Begin
  /\ UNCHANGED <<landed, queue, work, deferred, stored, row, fin, lost, faults>>

Close ==
  /\ open /\ open' = FALSE /\ Fault
  /\ UNCHANGED <<landed, queue, memory, stored, row, fin, lost>>

\* The process stops and starts again; start() does not wait for its sweep with the live stream.
Restart ==
  /\ landed > 0 /\ Fault
  /\ open' = FALSE /\ queue' = <<>> /\ deferred' = {}
  /\ work' = [p \in Procs |-> Idle] /\ fin' = NoWrite
  /\ rec' = [NoSweep EXCEPT !.pc = "deferred"]
  /\ lost' = lost \cup deferred \cup ({work[p].tx : p \in Procs} \ {0})
  /\ UNCHANGED <<landed, stored, row>>

-----------------------------------------------------------------------------
(* processSignature. *)

Done(p) == work' = [work EXCEPT ![p] = Idle]
Goes(p, pc) == work' = [work EXCEPT ![p].pc = pc]

\* The node does not know the signature yet.
NotVisible(p) ==
  /\ work[p].pc = "fetch" /\ Fault /\ Done(p)
  /\ deferred' = deferred \cup {work[p].tx}
  /\ lost' = lost \ {work[p].tx} /\ UNCHANGED <<feed, rec, stored, row, fin>>

FetchFails(p) ==
  /\ work[p].pc = "fetch" /\ Fault /\ Done(p)
  /\ UNCHANGED <<feed, deferred, rec, stored, row, fin, lost>>

\* It cannot be read.  A signature that was deferred before stays so.
NotReadable(p) ==
  /\ work[p].pc = "fetch" /\ work[p].tx \in Unsupported /\ Done(p)
  /\ UNCHANGED <<feed, deferred, rec, stored, row, fin, lost, faults>>

Fetched(p) ==
  /\ work[p].pc = "fetch" /\ work[p].tx \notin Unsupported /\ Goes(p, "persist")
  /\ deferred' = deferred \ {work[p].tx}
  /\ UNCHANGED <<feed, rec, stored, row, fin, lost, faults>>

\* The block's identity cannot be read.
NoBlock(p) ==
  /\ work[p].pc = "persist" /\ Fault /\ Done(p)
  /\ deferred' = deferred \cup {work[p].tx}
  /\ lost' = lost \ {work[p].tx} /\ UNCHANGED <<feed, rec, stored, row, fin>>

NoEvents(p) ==
  /\ work[p].pc = "persist" /\ work[p].tx \in Empty /\ Done(p)
  /\ UNCHANGED <<feed, deferred, rec, stored, row, fin, lost, faults>>

Persist(p) ==
  /\ work[p].pc = "persist" /\ work[p].tx \notin Empty /\ Goes(p, "checkpoint")
  /\ stored' = stored \cup {work[p].tx}
  /\ UNCHANGED <<feed, deferred, rec, row, fin, lost, faults>>

\* A database call throws: the signature is let go, and a sweep ends with it.
Throws(p) ==
  /\ work[p].pc \in {"persist", "checkpoint", "advance"} /\ work[p].tx \notin Empty
  /\ Fault /\ Done(p)
  /\ lost' = lost \cup {work[p].tx}
  /\ rec' = IF p = Sweep THEN NoSweep ELSE rec
  /\ UNCHANGED <<feed, deferred, stored, row, fin>>

\* advanceCheckpoint: the row is read, compared with the slot ...
Compare(p) ==
  /\ work[p].pc = "checkpoint"
  /\ IF checkpoint >= SlotOf(work[p].tx) THEN Done(p) ELSE Goes(p, "advance")
  /\ UNCHANGED <<feed, deferred, rec, stored, row, fin, lost, faults>>

\* ... and written, whatever it holds by now.
Advance(p) ==
  /\ work[p].pc = "advance" /\ Done(p)
  /\ checkpoint' = SlotOf(work[p].tx)
  /\ UNCHANGED <<feed, deferred, rec, stored, settled, fin, lost, faults>>

-----------------------------------------------------------------------------
(* reconcilePumpfunFinality writes the checkpoint's row too, for the time of the latest slot it *)
(* found final.  The height it writes is the one it read.                                       *)

ReadRow ==
  /\ fin = NoWrite /\ checkpoint > 0
  /\ \E t \in stored : SlotOf(t) > settled /\ fin' = [height |-> checkpoint, slot |-> SlotOf(t)]
  /\ UNCHANGED <<feed, memory, stored, row, lost, faults>>

WriteRow ==
  /\ fin # NoWrite /\ fin' = NoWrite
  /\ checkpoint' = fin.height /\ settled' = fin.slot
  /\ UNCHANGED <<feed, memory, stored, lost, faults>>

-----------------------------------------------------------------------------
(* runRecovery. *)

SweepDue ==
  /\ rec.pc = "idle" /\ rec' = Begin
  /\ UNCHANGED <<feed, work, deferred, stored, row, fin, lost, faults>>

\* The walked signatures are taken oldest first.
NextOf(todo) == {t \in todo : rec.pc = "walked" => t = Min(todo)}

SweepTakes ==
  /\ work[Sweep].pc = "idle"
  /\ \E t \in NextOf(rec.todo) :
       /\ work' = [work EXCEPT ![Sweep] = [pc |-> "fetch", tx |-> t]]
       /\ rec' = [rec EXCEPT !.todo = @ \ {t}]
  /\ UNCHANGED <<feed, deferred, stored, row, fin, lost, faults>>

SweepIsThrough == work[Sweep].pc = "idle" /\ rec.todo = {}

\* Without a checkpoint there is no gap to close.
ReadFloor ==
  /\ rec.pc = "deferred" /\ SweepIsThrough
  /\ rec' = IF checkpoint = 0 THEN NoSweep ELSE [rec EXCEPT !.pc = "walk", !.floor = checkpoint]
  /\ UNCHANGED <<feed, work, deferred, stored, row, fin, lost, faults>>

\* What is above the floor, newest first, as far as the budget goes.
Walked == {t \in 1..landed : SlotOf(t) > rec.floor /\ landed - t < Budget}

Walk ==
  /\ rec.pc = "walk" /\ rec' = [rec EXCEPT !.pc = "walked", !.todo = Walked]
  /\ UNCHANGED <<feed, work, deferred, stored, row, fin, lost, faults>>

\* A page cannot be read: what the pages before it held is processed.
WalkFails ==
  /\ rec.pc = "walk" /\ Fault
  /\ \E first \in 1..landed : rec' = [rec EXCEPT !.pc = "walked", !.todo = {t \in Walked : t >= first}]
  /\ UNCHANGED <<feed, work, deferred, stored, row, fin, lost>>

SweepEnds ==
  /\ rec.pc = "walked" /\ SweepIsThrough /\ rec' = NoSweep
  /\ UNCHANGED <<feed, work, deferred, stored, row, fin, lost, faults>>

-----------------------------------------------------------------------------
Progress(p) == NotReadable(p) \/ Fetched(p) \/ NoEvents(p) \/ Persist(p) \/ Compare(p) \/ Advance(p)

Mishap(p) == NotVisible(p) \/ FetchFails(p) \/ NoBlock(p) \/ Throws(p)

SweepStep ==
  SweepDue \/ SweepTakes \/ ReadFloor \/ Walk \/ SweepEnds \/ Progress(Sweep)

Next ==
  \/ Land \/ Connect \/ Close \/ Restart \/ ReadRow \/ WriteRow
  \/ SweepStep \/ WalkFails \/ Mishap(Sweep)
  \/ \E w \in Workers : Take(w) \/ Progress(w) \/ Mishap(w)

Spec == Init /\ [][Next]_vars

\* The loops go on, the interval sweeps, and the socket is opened again.
Fairness ==
  /\ WF_vars(SweepStep) /\ WF_vars(Connect)
  /\ \A w \in Workers : WF_vars(Take(w) \/ Progress(w))

FairSpec == Spec /\ Fairness

-----------------------------------------------------------------------------
Tx == 1..Txs

\* The transactions that have something to store.
Facts == Tx \ (Unsupported \cup Empty)

TypeOK ==
  /\ landed \in 0..Txs /\ open \in BOOLEAN
  /\ queue \in Seq(Tx) /\ Len(queue) <= MaxQueue
  /\ work \in [Procs -> [pc: {"idle", "fetch", "persist", "checkpoint", "advance"}, tx: 0..Txs]]
  /\ deferred \subseteq Tx /\ stored \subseteq 1..landed
  /\ checkpoint \in 0..SlotOf(Txs) /\ settled \in 0..SlotOf(Txs)
  /\ fin \in [height: 0..SlotOf(Txs), slot: 0..SlotOf(Txs)]
  /\ rec \in [pc: {"idle", "deferred", "walk", "walked"}, floor: 0..SlotOf(Txs), todo: SUBSET Tx]
  /\ lost \subseteq Tx /\ faults \in 0..MaxFaults

\* The checkpoint names a slot something was stored from, whatever crashes and whoever writes it last,
\* the finality reconciler with the height it read before included.
CheckpointHasData == checkpoint > 0 => \E t \in stored : SlotOf(t) = checkpoint

\* The newest transactions, as many as the budget covers, hold something to store.
WithinBudget == \E t \in Facts : t <= landed /\ landed - t < Budget

\* Once there is a checkpoint, what has facts and lands is stored or passed by it.
StoredOrPassed ==
  checkpoint > 0 /\ WithinBudget =>
    \A t \in Facts : t <= landed => t \in stored \/ checkpoint >= SlotOf(t)

\* A signature the node could not resolve is stored if it has facts, unless a throw or a restart
\* forgot it.  (One of an unsupported version stays deferred.)
DeferredIsSettled ==
  \A t \in Facts :
    t \in deferred \/ (\E p \in Procs : work[p] = [pc |-> "persist", tx |-> t]) => t \in stored \cup lost

\* Both come true: no fault, and no transaction without facts, stops the sweeps, as long as their
\* budget reaches one that has.
Recovers == []<>(StoredOrPassed /\ DeferredIsSettled)
=============================================================================
