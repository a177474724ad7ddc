-------------------------------- MODULE Doorbell --------------------------------
(***************************************************************************)
(* What a loop that can be woken promises: at most one pass at a time, and *)
(* while it is open passes never cease, so a ring is answered by a pass    *)
(* that begins after it.                                                   *)
(***************************************************************************)
VARIABLES rung, busy, closed

bell == <<rung, busy, closed>>

Init == ~rung /\ ~busy /\ ~closed

Ring  == ~closed /\ rung' = TRUE /\ UNCHANGED <<busy, closed>>
Begin == ~closed /\ ~busy /\ busy' = TRUE /\ rung' = FALSE /\ UNCHANGED closed
End   == busy /\ busy' = FALSE /\ UNCHANGED <<rung, closed>>
Close == closed' = TRUE /\ UNCHANGED <<rung, busy>>

Next == Ring \/ Begin \/ End \/ Close

Spec     == Init /\ [][Next]_bell
FairSpec == Spec /\ WF_bell(Begin) /\ WF_bell(End)
=============================================================================
