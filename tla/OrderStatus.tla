---------------------------- MODULE OrderStatus ----------------------------
(***************************************************************************)
(* The kinds of OrderStatus (crates/tracker/src/order_status.rs); the      *)
(* diagnostics and fill details they carry are modelled where they matter. *)
(***************************************************************************)
NotTracked == "none"          \* no entry in the table, nothing sent

Terminal == {"filled", "expired"}

Statuses == {"pending"} \cup Terminal

\* What status_for_order says: nonce is what the RPC node answered ("used",
\* "unused", "unknown" when it failed), late whether the clock was past the
\* deadline when it was read.
StatusOf(late, nonce) ==
    IF nonce = "used" THEN "filled"
    ELSE IF nonce = "unused" /\ late THEN "expired"
    ELSE "pending"
=============================================================================
