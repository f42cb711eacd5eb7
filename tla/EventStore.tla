----------------------------- MODULE EventStore -----------------------------
(***************************************************************************)
(* The store of recent chain events (tracker-server/src/state/             *)
(* event_store.rs) as operators on a store value:                          *)
(*   rollup, host   Filled events and the block tip of each chain          *)
(*   order_events   Order events [key, block, tx], at most one per key     *)
(* A Filled event carries at least the fields chain and block.             *)
(***************************************************************************)
EXTENDS Integers, FiniteSets

CONSTANT RetentionBlocks      \* EventStore.retention_blocks

ASSUME RetentionAssumption == RetentionBlocks \in Nat

Chains == {"rollup", "host"}

EmptyChain == [filled |-> {}, tip |-> 0]

EmptyStore == [rollup |-> EmptyChain, host |-> EmptyChain, order_events |-> {}]

\* A wrapping subtraction (of 16 bits, for brevity).
Bug_Cutoff(tip) == (tip - RetentionBlocks) % 65536

\* u64::saturating_sub: the first block that is still retained.
Cutoff(tip) == IF tip >= RetentionBlocks THEN tip - RetentionBlocks ELSE 0

\* split_off(&cutoff) and retain(>= cutoff): the cutoff block itself stays.
Retained(events, tip) == {e \in events : e.block >= Cutoff(tip)}

PruneChain(chain, tip) == [filled |-> Retained(chain.filled, tip), tip |-> tip]

\* The host tip prunes the order events.
Bug_UpdateTips(store, tip) ==
    [rollup       |-> PruneChain(store.rollup, tip.rollup),
     host         |-> PruneChain(store.host, tip.host),
     order_events |-> Retained(store.order_events, tip.host)]

\* Order events live on the rollup, so the rollup tip prunes them.
UpdateTips(store, tip) ==
    [rollup       |-> PruneChain(store.rollup, tip.rollup),
     host         |-> PruneChain(store.host, tip.host),
     order_events |-> Retained(store.order_events, tip.rollup)]

\* The arms of the match are swapped.
Bug_InsertFilled(store, event) ==
    LET other == IF event.chain = "rollup" THEN "host" ELSE "rollup"
    IN  [store EXCEPT ![other].filled = @ \cup {event}]

InsertFilled(store, event) ==
    [store EXCEPT ![event.chain].filled = @ \cup {event}]

\* The entry is added next to an older one.
Bug_InsertOrder(store, key, block, tx) ==
    [store EXCEPT !.order_events = @ \cup {[key |-> key, block |-> block, tx |-> tx]}]

\* HashMap::insert: a later event with the same key replaces the entry.
InsertOrder(store, key, block, tx) ==
    [store EXCEPT !.order_events =
        {e \in @ : e.key # key} \cup {[key |-> key, block |-> block, tx |-> tx]}]

\* The initiation transactions found under a key: a singleton, or {} for None.
FindOrderTx(store, key) == {e.tx : e \in {f \in store.order_events : f.key = key}}
=============================================================================
