------------------------------ MODULE SyncLease ------------------------------
(***************************************************************************)
(* What canvas_sync_status promises about the sync of one key: a lease.    *)
(* It is held by at most one worker and shown to everybody for as long as  *)
(* it is held.  A holder that dies leaves it shown; only then may someone  *)
(* else take it back or take it over.                                      *)
(***************************************************************************)
CONSTANT Workers

VARIABLES
    holders,        \* the workers that run the sync
    shown           \* pages are told that a sync runs

vars == <<holders, shown>>

Init == holders = {} /\ shown = FALSE

Acquire(w) ==
    /\ holders = {}
    /\ holders' = {w} /\ shown' = TRUE

Release ==
    /\ holders # {}
    /\ holders' = {} /\ shown' = FALSE

Die ==
    /\ holders # {}
    /\ holders' = {} /\ shown' = shown

Reclaim ==
    /\ holders = {} /\ shown
    /\ shown' = FALSE /\ holders' = holders

Next == (\E w \in Workers : Acquire(w)) \/ Release \/ Die \/ Reclaim

Spec == Init /\ [][Next]_vars
=============================================================================
