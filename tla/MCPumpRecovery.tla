------------------------------ MODULE MCPumpRecovery ------------------------------
(* What becomes of the deliveries an open subscription dropped. *)
EXTENDS PumpRecovery

VARIABLE dropped  \* history: what landed after the first checkpoint, on an open socket, at a full queue

Dropping == landed' > landed /\ open /\ Len(queue) = MaxQueue /\ checkpoint > 0

DroppingInit == Init /\ dropped = {}

DroppingNext == Next /\ dropped' = IF Dropping THEN dropped \cup {landed'} ELSE dropped

DroppingSpec == DroppingInit /\ [][DroppingNext]_<<vars, dropped>> /\ Fairness

\* "re-walks ... and processes anything the live stream did not": what the full queue dropped, once
\* there was a checkpoint to walk back to, is stored in the end.
MissedIsRecovered == \A t \in Facts : t \in dropped ~> t \in stored
=============================================================================
