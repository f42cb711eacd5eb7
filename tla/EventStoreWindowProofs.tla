----------------------- MODULE EventStoreWindowProofs -----------------------
(***************************************************************************)
(* Proofs about the event store, for every retention window and every set  *)
(* of keys, transactions and block numbers.                                *)
(***************************************************************************)
EXTENDS EventStoreWindow, TLAPS

\* The map of Order events given, like the one kept, has one entry per key.
OneSeenPerKey == \A e, f \in orderSeen : e.key = f.key => e = f

IInv == TypeOK /\ OneSeenPerKey /\ FilledWindow /\ OrderWindow

USE DEF Chains

\* The cutoff never falls while the tip does not.
LEMMA CutoffMonotonic ==
  ASSUME NEW s \in Nat, NEW t \in Nat, s <= t
  PROVE  Cutoff(s) \in Nat /\ Cutoff(t) \in Nat /\ Cutoff(s) <= Cutoff(t)
BY RetentionAssumption DEF Cutoff

\* Pruning what the window and the newcomers hold leaves the next window.
LEMMA PruneWindow ==
  ASSUME NEW s \in Nat, NEW t \in Nat, s <= t,
         NEW seen, \A e \in seen : e.block \in Nat,
         NEW kept, kept = {e \in seen : InWindow(e, s)}
  PROVE  Retained(kept, t) = {e \in seen : e.block >= Cutoff(t)}
BY CutoffMonotonic DEF Retained, InWindow

LEMMA InitIInv == Init => IInv
BY DEF Init, IInv, TypeOK, OneSeenPerKey, FilledWindow, OrderWindow, EmptyStore,
       EmptyChain

LEMMA GiveFilledIInv ==
  ASSUME NEW event \in FilledEvents, IInv, GiveFilled(event) PROVE IInv'
<1> USE DEF IInv
<1> DEFINE c == event.chain
<1>1. event.chain \in Chains /\ event \notin OrderEvents
  BY DEF FilledEvents, OrderEvents
<1>2. /\ store'[c].filled = store[c].filled \cup {event}
      /\ store'[c].tip = store[c].tip
      /\ \A d \in Chains \ {c} : store'[d] = store[d]
      /\ store'.order_events = store.order_events
      /\ store' \in [rollup : [filled : SUBSET FilledEvents, tip : Nat],
                     host : [filled : SUBSET FilledEvents, tip : Nat],
                     order_events : SUBSET OrderEvents]
  BY <1>1 DEF GiveFilled, InsertFilled, TypeOK
<1>3. TypeOK'
  BY <1>2 DEF GiveFilled, TypeOK
<1>4. OneSeenPerKey'
  BY DEF GiveFilled, OneSeenPerKey
<1>5. FilledWindow'
  BY <1>1, <1>2 DEF GiveFilled, FilledWindow, InWindow
<1>6. OrderWindow'
  BY <1>1, <1>2 DEF GiveFilled, OrderWindow, InWindow, TypeOK
<1>. QED  BY <1>3, <1>4, <1>5, <1>6

LEMMA GiveOrderIInv ==
  ASSUME NEW event \in OrderEvents, IInv, GiveOrder(event) PROVE IInv'
<1> USE DEF IInv
<1>1. event \notin FilledEvents
      /\ event = [key |-> event.key, block |-> event.block, tx |-> event.tx]
  BY DEF FilledEvents, OrderEvents
<1>2. /\ store'.rollup = store.rollup /\ store'.host = store.host
      /\ store'.order_events =
            {e \in store.order_events : e.key # event.key} \cup {event}
      /\ store' \in [rollup : [filled : SUBSET FilledEvents, tip : Nat],
                     host : [filled : SUBSET FilledEvents, tip : Nat],
                     order_events : SUBSET OrderEvents]
  BY <1>1 DEF GiveOrder, InsertOrder, TypeOK
<1>3. TypeOK'
  BY <1>2 DEF GiveOrder, TypeOK
<1>4. OneSeenPerKey'
  BY DEF GiveOrder, OneSeenPerKey
<1>5. FilledWindow'
  BY <1>1, <1>2 DEF GiveOrder, FilledWindow, InWindow, TypeOK
<1>6. OrderWindow'
  BY <1>2 DEF GiveOrder, OrderWindow, InWindow
<1>. QED  BY <1>3, <1>4, <1>5, <1>6

LEMMA AdvanceIInv ==
  ASSUME NEW tip \in [rollup : Blocks, host : Blocks], IInv, Advance(tip)
  PROVE  IInv'
<1> USE BlocksAssumption DEF IInv
<1>1. /\ \A e \in filledSeen : e.block \in Nat
      /\ \A e \in orderSeen : e.block \in Nat
      /\ store.rollup.tip \in Nat /\ store.host.tip \in Nat
      /\ tip.rollup \in Nat /\ tip.host \in Nat
  BY DEF TypeOK, FilledEvents, OrderEvents
<1>2. \A c \in Chains :
         store'[c] = [filled |-> Retained(store[c].filled, tip[c]), tip |-> tip[c]]
  BY DEF Advance, UpdateTips, PruneChain
<1>3. store'.order_events = Retained(store.order_events, tip.rollup)
  BY DEF Advance, UpdateTips
<1>4. \A c \in Chains : tip[c] \in Nat /\ store[c].tip \in Nat
                        /\ store[c].tip <= tip[c]
  BY <1>1 DEF Advance
<1>5. fresh' = {} /\ UNCHANGED <<filledSeen, orderSeen>>
  BY DEF Advance
<1>6. TypeOK'
  <2>1. \A S, t : Retained(S, t) \subseteq S
    BY DEF Retained
  <2>. QED  BY <1>1, <1>5, <2>1 DEF Advance, UpdateTips, PruneChain, TypeOK
<1>7. OneSeenPerKey'
  BY <1>5 DEF OneSeenPerKey
<1>8. FilledWindow'
  <2>1. SUFFICES ASSUME NEW c \in Chains
                 PROVE  store'[c].filled =
                          {e \in filledSeen : e.chain = c /\ e.block >= Cutoff(tip[c])}
    <3>1. \A c \in Chains : store'[c].tip = tip[c]
      BY <1>2
    <3>. QED  BY <1>5, <3>1 DEF FilledWindow, InWindow
  <2> DEFINE seen == {e \in filledSeen : e.chain = c}
  <2>2. store[c].filled = {e \in seen : InWindow(e, store[c].tip)}
    BY DEF FilledWindow
  <2>3. Retained(store[c].filled, tip[c]) = {e \in seen : e.block >= Cutoff(tip[c])}
    <3>1. \A e \in seen : e.block \in Nat
      BY <1>1
    <3> HIDE DEF seen
    <3>. QED  BY <1>4, <2>2, <3>1, PruneWindow
  <2>. QED  BY <1>2, <2>3
<1>9. OrderWindow'
  <2>1. Retained(store.order_events, tip.rollup) =
           {e \in orderSeen : e.block >= Cutoff(tip.rollup)}
    BY <1>1, <1>4, PruneWindow DEF OrderWindow
  <2>. QED  BY <1>2, <1>3, <1>5, <2>1 DEF OrderWindow, InWindow
<1>. QED  BY <1>6, <1>7, <1>8, <1>9

LEMMA Invariance == Spec => []IInv
<1>1. IInv /\ UNCHANGED vars => IInv'
  BY DEF vars, IInv, TypeOK, OneSeenPerKey, FilledWindow, OrderWindow, InWindow
<1>2. IInv /\ [Next]_vars => IInv'
  BY <1>1, GiveFilledIInv, GiveOrderIInv, AdvanceIInv DEF Next
<1>. QED  BY <1>2, InitIInv, PTL DEF Spec

\* The store keeps its type, and a key never has two Order events, for any
\* retention, keys and blocks.
THEOREM StoreType == Spec => []TypeOK
<1>1. IInv => TypeOK
  BY DEF IInv
<1>. QED  BY <1>1, Invariance, PTL

\* Each chain's Filled events are always the window of those given: the tips of
\* the two chains prune their own events only, and none leaves early or stays.
THEOREM Window == Spec => []FilledWindow
<1>1. IInv => FilledWindow
  BY DEF IInv
<1>. QED  BY <1>1, Invariance, PTL

\* So are the Order events, which the rollup's tip prunes and never the host's.
THEOREM OrdersWindow == Spec => []OrderWindow
<1>1. IInv => OrderWindow
  BY DEF IInv
<1>. QED  BY <1>1, Invariance, PTL
=============================================================================
