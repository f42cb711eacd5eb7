---------------------------- MODULE Subscription ----------------------------
(***************************************************************************)
(* What the two watchers share: the cancellation token they are given, and *)
(* the subscriptions they read, broadcast channels of a fixed capacity. A  *)
(* channel that is full loses its oldest item to the next one, and tells   *)
(* its reader at the next recv.                                            *)
(***************************************************************************)
EXTENDS Naturals, Sequences

CONSTANT Capacity   \* headers or logs a subscription holds

ASSUME CapacityAssumption == Capacity \in Nat \ {0}

VARIABLE token      \* the cancellation token is cancelled

Full(queue) == Len(queue) = Capacity

Push(queue, item) == Append(IF Full(queue) THEN Tail(queue) ELSE queue, item)
=============================================================================
