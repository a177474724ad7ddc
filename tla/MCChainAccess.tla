----------------------------- MODULE MCChainAccess -----------------------------
(* What the listeners know of the chain.  The head wakeup with its loop and the failover     *)
(* client are checked in one run: they share no state, so a behaviour is one of either part.  *)
(* The recovery from forks has a run and a specification of its own, RecoverySpec.            *)
EXTENDS HeadWakeup, TLC

CONSTANTS
  Widest, Answers, Cooldown, Timeout, Deadline, Escalations, Retries, MaxGap,
  discovery, trades, launch, swap,
  Sources, Gate, Refreshing, Items, SourceOf, MaxHeight, MaxForks, MaxRange, MaxDepth

VARIABLES
  part,
  cool, fails, verified, todo, partial, attempt, elapsed, reply,
  head, fork, place, cp, past, row, unresolved, overtaken, moved

F == INSTANCE Failover
R == INSTANCE ReorgRecovery

ASSUME AccessConstants == F!ConstantsOK /\ R!ConstantsOK

client == <<cool, fails, verified, todo, partial, attempt, elapsed, reply>>
chain == <<head, fork, place, cp, past, row, unresolved, overtaken, moved>>

Answering ==
  <<{"OK", "TIMEOUT", "RANGE"}, {"TIMEOUT", "ADVANCE", "FAULT"}, {"OK", "RANGE", "DOWN"}>>
Cooling == [TIMEOUT |-> 3, DOWN |-> 1]

\* The run of the loop and the client needs no chain contents.
NoItems == \A i \in Items : place[i] = R!Nowhere

\* One launch and one swap; the trade listener waits for discovery.
Barriers == discovery :> {} @@ trades :> {discovery}
Stores   == launch :> discovery @@ swap :> trades

AccessInit == part \in {"wakeup", "failover"} /\ WakeupInit /\ F!Init /\ R!Init /\ NoItems

AccessNext ==
  /\ UNCHANGED <<part, chain>>
  /\ \/ part = "wakeup" /\ WakeupNext /\ UNCHANGED client
     \/ part = "failover" /\ ~stopped /\ Shutdown /\ UNCHANGED client
     \/ part = "failover" /\ stopped /\ F!Next /\ UNCHANGED all

Awake(A) == part = "wakeup" /\ A

AccessSpec ==
  /\ AccessInit /\ [][AccessNext]_<<part, all, client, chain>>
  /\ WF_all(Awake(LoopRuns)) /\ WF_all(Awake(LoopEnds)) /\ WF_all(Awake(Passes))
  /\ WF_all(Awake(Connect)) /\ WF_all(Awake(Overdue /\ Closes)) /\ WF_all(Awake(GoodAnswers))
  /\ WF_all(part = "failover" /\ ~stopped /\ Shutdown)
  /\ WF_client(part = "failover" /\ stopped /\ F!Next)

\* Forks, with ReorgRecovery's own fairness: blocks keep coming and every source's timer fires.
RecoveryInit == part = "forks" /\ WakeupInit /\ F!Init /\ R!Init

RecoveryNext == R!Next /\ UNCHANGED <<part, all, client>>

RecoverySpec ==
  /\ RecoveryInit /\ [][RecoveryNext]_<<part, all, client, chain>>
  /\ WF_chain(R!NewBlock)
  /\ \A s \in Sources : WF_chain(R!Commit(s)) /\ WF_chain(R!Recover(s))

\* What makes the curve listener narrow its window is only ever a cap of the widest endpoint.
RangeCapIsEvidence == F!RangeCapIsEvidence

\* A last endpoint that answers is not starved by slow ones before it: after every request there
\* is one that is not given up.
NotAlwaysTooLate == F!NotAlwaysTooLate

\* The rows of a source that nobody overtook are those of the live chain up to its checkpoint.
RowsFollowTheChain == R!RowsFollowTheChain

\* Every recovery keeps the common past, and after the last fork the sources get back to the
\* tip: the rollback neither orphans too much nor leaves a checkpoint on the dead fork.
RecoveryConverges == R!RecoveryConverges
=============================================================================
