------------------------------ MODULE MCLateTrades ------------------------------
(* One token whose curve and pool are traded on the same day. *)
EXTENDS LateTrades, TLC

CONSTANTS t1

Launches    == t1 :> 0
Graduations == t1 :> 1
OnCurves    == t1 :> {0, 1}
InPools     == t1 :> {2}
=============================================================================
