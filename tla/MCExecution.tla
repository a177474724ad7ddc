---------------------------- MODULE MCExecution ----------------------------
(* Small instances of Execution.  What makes it hard - retries, more submissions than a pass   *)
(* takes, a replaced transaction, a second API process - comes in cases of one run, so that    *)
(* its states add up and do not multiply; every behaviour is one of Execution.                 *)
EXTENDS Execution, TLC

CONSTANTS k1, k2, p1, p2, h1, h2, w1, w2,
          Cases  \* those a run goes through

VARIABLE case

\* retries: two trades; the first is created twice, once perhaps as another trade; both claim
\* the hash.  queue: two trades wait for the worker.  replaced: the wallet reports a second hash.
\* processes: two workers, one hash.
Asked ==
  [retries   |-> <<{<<k1, p1>>}, {<<k1, p1>>, <<k1, p2>>, <<k2, p1>>}, {<<k1, h1>>}, {<<k1, h1>>, <<k2, h1>>}>>,
   queue     |-> <<{<<k1, p1>>}, {<<k2, p1>>}, {<<k1, h1>>}, {<<k2, h2>>}>>,
   replaced  |-> <<{<<k1, p1>>}, {<<k1, h1>>}, {<<k1, h2>>}, {}>>,
   processes |-> <<{<<k1, p1>>}, {<<k1, h1>>}, {}, {}>>]

Running(c) == IF c = "processes" THEN {w1, w2} ELSE {w1}

AllAsked == [r \in Requests |-> UNION {Asked[c][r] : c \in Cases}]

\* Nobody sends the other transactions of the case.
Sent == {pair[2] : pair \in UNION {Asked[case][r] : r \in Requests}}

CaseInit == case \in Cases /\ Init

CaseNext ==
  /\ Next /\ case' = case
  /\ \A r \in Requests : req[r].pc = "idle" /\ req'[r].pc # "idle" =>
       <<req'[r].key, req'[r].arg>> \in Asked[case][r]
  /\ \A h \in Hashes : h \notin Sent => chain'[h] = chain[h]
  /\ \A w \in Workers \ Running(case) : worker'[w] = worker[w]

\* Of two processes only the first has to go on.
CaseSpec == CaseInit /\ [][CaseNext]_<<vars, case>> /\ Persistent(w1)
=============================================================================
