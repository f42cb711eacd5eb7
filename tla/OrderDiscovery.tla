--------------------------- MODULE OrderDiscovery ---------------------------
(***************************************************************************)
(* The discovery task (tracker-server/src/ingestion/order_discovery.rs):   *)
(* it polls the tx-cache, publishes the hashes listed there, and forwards  *)
(* each order it has not seen to the state manager.                        *)
(*                                                                         *)
(*   cache           orders the tx-cache lists (they come and go)          *)
(*   seen_hashes     hashes that need not be forwarded                     *)
(*   published       the all_order_hashes watch channel                    *)
(*   phase           "idle", "streaming" (poll_cache), "sending"           *)
(*   toStream        listed orders the response has still to yield         *)
(*   current_hashes, new_orders     locals of poll_cache                   *)
(*   forwarded       orders sent and listed by every completed poll since  *)
(*   dropped         orders collected by a poll that failed                *)
(* The last two are for the properties only.                               *)
(***************************************************************************)
CONSTANT Orders

VARIABLES cache, seen_hashes, published, phase, toStream, current_hashes,
          new_orders, forwarded, dropped

vars == <<cache, seen_hashes, published, phase, toStream, current_hashes,
          new_orders, forwarded, dropped>>

Init ==
    /\ cache \in SUBSET Orders
    /\ seen_hashes = {} /\ published = {}
    /\ phase = "idle"
    /\ toStream = {} /\ current_hashes = {} /\ new_orders = {}
    /\ forwarded = {} /\ dropped = {}

\* The tx-cache gains or loses an order.
Relist(o) ==
    /\ cache' = IF o \in cache THEN cache \ {o} ELSE cache \cup {o}
    /\ UNCHANGED <<seen_hashes, published, phase, toStream, current_hashes,
                   new_orders, forwarded, dropped>>

\* The interval ticks and the request is answered with what is listed now.
StartPoll ==
    /\ phase = "idle"
    /\ phase' = "streaming"
    /\ toStream' = cache
    /\ current_hashes' = {} /\ new_orders' = {}
    /\ UNCHANGED <<cache, seen_hashes, published, forwarded, dropped>>

\* The hash is not marked.
Bug_StreamOrder(o) ==
    /\ phase = "streaming" /\ o \in toStream
    /\ toStream' = toStream \ {o}
    /\ current_hashes' = current_hashes \cup {o}
    /\ new_orders' = IF o \in seen_hashes THEN new_orders ELSE new_orders \cup {o}
    /\ UNCHANGED <<cache, seen_hashes, published, phase, forwarded, dropped>>

\* The filter closure: the hash is marked as seen while the orders stream in,
\* and the order kept if it was not.
StreamOrder(o) ==
    /\ phase = "streaming" /\ o \in toStream
    /\ toStream' = toStream \ {o}
    /\ current_hashes' = current_hashes \cup {o}
    /\ seen_hashes' = seen_hashes \cup {o}
    /\ new_orders' = IF o \in seen_hashes THEN new_orders ELSE new_orders \cup {o}
    /\ UNCHANGED <<cache, published, phase, forwarded, dropped>>

\* A failed poll starts over with nothing seen.
Bug_PollFails ==
    /\ phase = "streaming"
    /\ phase' = "idle"
    /\ seen_hashes' = {}
    /\ dropped' = dropped \cup new_orders
    /\ UNCHANGED <<cache, published, toStream, current_hashes, new_orders, forwarded>>

\* The request or one of its pages fails: try_collect returns early and the
\* orders collected so far are gone, while their hashes stay marked.
PollFails ==
    /\ phase = "streaming"
    /\ phase' = "idle"
    /\ dropped' = dropped \cup new_orders
    /\ UNCHANGED <<cache, seen_hashes, published, toStream, current_hashes,
                   new_orders, forwarded>>

\* Hashes are not pruned.
Bug_EndPoll ==
    /\ phase = "streaming" /\ toStream = {}
    /\ published' = current_hashes
    /\ forwarded' = forwarded \cap current_hashes
    /\ dropped' = dropped \cap current_hashes
    /\ phase' = "sending"
    /\ UNCHANGED <<cache, seen_hashes, toStream, current_hashes, new_orders>>

\* Unlisted hashes are pruned, the listed ones published.
EndPoll ==
    /\ phase = "streaming" /\ toStream = {}
    /\ seen_hashes' = seen_hashes \cap current_hashes
    /\ published' = current_hashes
    /\ forwarded' = forwarded \cap current_hashes
    /\ dropped' = dropped \cap current_hashes
    /\ phase' = "sending"
    /\ UNCHANGED <<cache, toStream, current_hashes, new_orders>>

\* send_new_orders: the channel is bounded, and the state manager drains it.
SendOrder(o) ==
    /\ phase = "sending" /\ o \in new_orders
    /\ new_orders' = new_orders \ {o}
    /\ forwarded' = forwarded \cup {o}
    /\ UNCHANGED <<cache, seen_hashes, published, phase, toStream,
                   current_hashes, dropped>>

AllSent ==
    /\ phase = "sending" /\ new_orders = {}
    /\ phase' = "idle"
    /\ UNCHANGED <<cache, seen_hashes, published, toStream, current_hashes,
                   new_orders, forwarded, dropped>>

TaskStep ==
    \/ StartPoll \/ EndPoll \/ AllSent
    \/ \E o \in Orders : StreamOrder(o) \/ SendOrder(o)

Next == TaskStep \/ PollFails \/ \E o \in Orders : Relist(o)

Spec == Init /\ [][Next]_vars

\* The interval keeps ticking, and again and again a poll completes.
FairSpec == Spec /\ WF_vars(TaskStep) /\ []<><<EndPoll>>_vars

-----------------------------------------------------------------------------
(* Properties *)

\* The type invariant; what a poll collected is marked.
TypeOK ==
    /\ new_orders \subseteq seen_hashes
    /\ {cache, seen_hashes, published, toStream, current_hashes, new_orders,
        forwarded, dropped} \subseteq SUBSET Orders
    /\ phase \in {"idle", "streaming", "sending"}

\* No order is forwarded twice as long as the polls keep listing it, even when
\* some of them fail.
NoDuplicates == phase = "sending" => new_orders \cap forwarded = {}

\* After a completed poll, what counts as seen is what is listed: the set of
\* seen hashes does not grow without bound, and orders that come back are new.
SeenIsListed == phase = "sending" => seen_hashes = published

\* A listed order is forwarded, unless it is unlisted again or a poll that
\* failed had collected it.
ListedIsForwarded ==
    \A o \in Orders :
        o \in cache ~> (o \in forwarded \/ o \notin cache \/ o \in dropped)

\* order_discovery.rs:13: "Polls the tx-cache for new orders and forwards them to
\* the state manager".
NewOrdersForwarded ==
    \A o \in Orders : o \in cache ~> (o \in forwarded \/ o \notin cache)
=============================================================================
