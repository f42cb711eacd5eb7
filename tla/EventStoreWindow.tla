-------------------------- MODULE EventStoreWindow --------------------------
(***************************************************************************)
(* The event store under any sequence of its operations, beside a record   *)
(* of everything it was ever given:                                        *)
(*   filledSeen   every Filled event inserted                              *)
(*   orderSeen    the Order event inserted last under each key             *)
(*   fresh        what was inserted since the last update of the tips      *)
(* The two tips advance independently and never go back; events may be     *)
(* older or newer than them.                                               *)
(***************************************************************************)
EXTENDS EventStore

CONSTANTS Keys, Txs,
          Blocks      \* bound: block numbers that occur

ASSUME BlocksAssumption == Blocks \subseteq Nat

VARIABLES store, filledSeen, orderSeen, fresh

vars == <<store, filledSeen, orderSeen, fresh>>

FilledEvents == [chain : Chains, block : Blocks, tx : Txs]
OrderEvents  == [key : Keys, block : Blocks, tx : Txs]

Init ==
    /\ store = EmptyStore
    /\ filledSeen = {} /\ orderSeen = {} /\ fresh = {}

GiveFilled(event) ==
    /\ store' = InsertFilled(store, event)
    /\ filledSeen' = filledSeen \cup {event}
    /\ fresh' = fresh \cup {event}
    /\ UNCHANGED orderSeen

GiveOrder(event) ==
    /\ store' = InsertOrder(store, event.key, event.block, event.tx)
    /\ orderSeen' = {e \in orderSeen : e.key # event.key} \cup {event}
    /\ fresh' = fresh \cup {event}
    /\ UNCHANGED filledSeen

Advance(tip) ==
    /\ tip.rollup >= store.rollup.tip /\ tip.host >= store.host.tip
    /\ store' = UpdateTips(store, tip)
    /\ fresh' = {}
    /\ UNCHANGED <<filledSeen, orderSeen>>

Next ==
    \/ \E event \in FilledEvents : GiveFilled(event)
    \/ \E event \in OrderEvents : GiveOrder(event)
    \/ \E tip \in [rollup : Blocks, host : Blocks] : Advance(tip)

Spec == Init /\ [][Next]_vars

-----------------------------------------------------------------------------

\* The type invariant; order_events is a map, one entry per key.
TypeOK ==
    /\ store \in [rollup : [filled : SUBSET FilledEvents, tip : Nat],
                  host : [filled : SUBSET FilledEvents, tip : Nat],
                  order_events : SUBSET OrderEvents]
    /\ filledSeen \subseteq FilledEvents
    /\ orderSeen \subseteq OrderEvents
    /\ fresh \subseteq FilledEvents \cup OrderEvents
    /\ \A e, f \in store.order_events : e.key = f.key => e = f

InWindow(event, tip) == event.block >= Cutoff(tip) \/ event \in fresh

\* The store holds exactly the Filled events of each chain that are within
\* RetentionBlocks of that chain's tip or came after it: update_tips loses none
\* too early, keeps none too long, and mixes up no chains.
FilledWindow ==
    \A c \in Chains :
        store[c].filled = {e \in filledSeen : e.chain = c /\ InWindow(e, store[c].tip)}

\* The same of the Order events that were not replaced, by the rollup's tip.
OrderWindow ==
    store.order_events = {e \in orderSeen : InWindow(e, store.rollup.tip)}
=============================================================================
