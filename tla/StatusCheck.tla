---------------------------- MODULE StatusCheck ----------------------------
(***************************************************************************)
(* What one status_for_order promises (crates/tracker/src/order_tracker.rs)*)
(* whatever else it asks the RPC nodes and however long that takes: the    *)
(* clock is read, then the nonce is asked for, and with the answer the     *)
(* status is decided.  The requests that follow (the fill, the balances,   *)
(* the allowances) neither change it nor prevent it from being returned    *)
(* once they are over.                                                     *)
(*   used      the Permit2 nonce of the order is used                      *)
(*   clock     what the clock said of the deadline when it was read        *)
(*   decided   the status, when the nonce was answered                     *)
(*   returned  the status the call returned                                *)
(* The state manager is modelled with this check cut down to its two reads *)
(* and StatusOf; OrderTracker has all its requests and implements it.      *)
(***************************************************************************)
EXTENDS OrderStatus

VARIABLES used, clock, decided, returned

checkVars == <<used, clock, decided, returned>>

CheckInit ==
    /\ used = FALSE /\ clock = "unread"
    /\ decided = NotTracked /\ returned = NotTracked

\* The chain: a nonce stays used.
Use ==
    /\ used' = TRUE
    /\ UNCHANGED <<clock, decided, returned>>

ReadClock ==
    /\ clock = "unread"
    /\ clock' \in {"in_time", "late"}
    /\ UNCHANGED <<used, decided, returned>>

\* The node answers, or fails; in that case nothing else is asked for.
Decide ==
    /\ clock # "unread" /\ decided = NotTracked
    /\ \/ /\ decided' = StatusOf(clock = "late", IF used THEN "used" ELSE "unused")
          /\ UNCHANGED returned
       \/ /\ decided' = StatusOf(clock = "late", "unknown")
          /\ returned' = decided'
    /\ UNCHANGED <<used, clock>>

Return ==
    /\ decided # NotTracked /\ returned = NotTracked
    /\ returned' = decided
    /\ UNCHANGED <<used, clock, decided>>

CheckNext == Use \/ ReadClock \/ Decide \/ Return

CheckSpec == CheckInit /\ [][CheckNext]_checkVars
=============================================================================
