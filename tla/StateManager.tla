---------------------------- MODULE StateManager ----------------------------
(***************************************************************************)
(* The state manager task (tracker-server/src/state/state_manager.rs): one *)
(* loop that owns the table of tracked orders and the event store, takes   *)
(* its input from four queues in a fixed order of preference, and awaits   *)
(* RPC answers in the middle of every handler while the chain, the clock   *)
(* and the other tasks move on.                                            *)
(*                                                                         *)
(*   world    now         wall clock, as now_unix() reads it               *)
(*            nonce       Permit2 nonce of each order, as the RPC node     *)
(*                        shows it: unused, or used in time or late with   *)
(*                        respect to the order's deadline                  *)
(*   inputs   tip,changed the watch channel of block tips                  *)
(*            events, discovered, requests      the mpsc channels          *)
(*   books    tracked, store     tracked_orders and event_store            *)
(*            fillInfo    provenance of the FillInfo of a filled order     *)
(*            announced   last status broadcast for each order             *)
(*            reply       initial report each client received              *)
(*   locals   handler     which handler runs ("select": none)              *)
(*            todo        hashes its loop has still to visit               *)
(*            check       the status_for_order call in progress            *)
(*            current     orders settled by the Filled event being checked *)
(*            client      who asked for the registration in progress       *)
(*                                                                         *)
(* Definitions named Bug_... are wrong variants that the properties must   *)
(* tell from the code; no specification uses them.                         *)
(*                                                                         *)
(* Left out: cancellation (the task supervision's), the snapshot request   *)
(* (the WebSocket handlers'), metrics and diagnostics.                     *)
(***************************************************************************)
EXTENDS EventStore, FillOutputs, OrderStatus

CONSTANTS
    Orders,        \* order hashes
    Cached,        \* the orders the discovery task may find in the tx-cache
    Clients,       \* WebSocket sessions that track one order
    NoOrder, NoClient,
    DeadlineOf,    \* permit.deadline of each order
    OutputsOf,     \* outputs of each order
    HostOffset,    \* host block number of rollup block 0
    MaxTime,       \* bound: the clock stops here
    MaxBlock       \* bound: this block number stands for every later one

ASSUME StateManagerAssumption ==
    /\ IsFiniteSet(Orders) /\ Cached \subseteq Orders
    /\ NoOrder \notin Orders /\ NoClient \notin Clients
    /\ DeadlineOf \in [Orders -> Nat]
    /\ HostOffset \in Nat /\ MaxTime \in Nat /\ MaxBlock \in Nat

VARIABLES now, nonce, tip, changed, events, discovered, requests,
          tracked, store, fillInfo, announced, reply,
          handler, todo, check, current, client

world  == <<now, nonce>>
inputs == <<tip, changed, events, discovered, requests>>
books  == <<tracked, store, fillInfo, announced, reply>>
locals == <<handler, todo, check, current, client>>
vars   == <<world, inputs, books, locals>>

NoCheck == [order |-> NoOrder, clock |-> 0, answer |-> "none"]

\* FillInfo is known only on the event path; status_for_order searches for its
\* own.
NoInfo == [initiation |-> {}, fills |-> {}]

TipAt(n) == [rollup |-> n, host |-> HostOffset + n]

\* The filter on is_terminal is missing.
Bug_Pending == {o \in Orders : tracked[o] # NotTracked}

Pending == {o \in Orders : tracked[o] = "pending"}

Used(o) == nonce[o] # "unused"

\* The outputs are left out of the hash.
Bug_OrderEventKey(o) == <<DeadlineOf[o], <<>>>>

\* hash(deadline, outputs): what an order can be recognised by in Order events.
OrderEventKey(o) == <<DeadlineOf[o], OutputsOf[o]>>

Init ==
    /\ now = 0 /\ nonce = [o \in Orders |-> "unused"]
    /\ tip = TipAt(0) /\ changed = FALSE
    /\ events = <<>> /\ discovered = <<>> /\ requests = <<>>
    /\ tracked = [o \in Orders |-> NotTracked]
    /\ store = EmptyStore
    /\ fillInfo = [o \in Orders |-> NoInfo]
    /\ announced = [o \in Orders |-> NotTracked]
    /\ reply = [c \in Clients |-> NotTracked]
    /\ handler = "select" /\ todo = {} /\ check = NoCheck
    /\ current = {} /\ client = NoClient

-----------------------------------------------------------------------------
(* The rest of the system. *)

Tick ==
    /\ now < MaxTime
    /\ now' = now + 1
    /\ UNCHANGED <<nonce, inputs, books, locals>>

\* The logs of a transaction that settles the orders in S: one Filled event
\* over all their outputs, one Order event for each.
LogsOf(S, block) ==
    {[type |-> "Filled", chain |-> "rollup", block |-> block, fills |-> S]}
    \cup {[type |-> "Order", block |-> block, order |-> o] : o \in S}

\* A transaction uses the nonces of S. Any of its logs, in any order, reach the
\* event watcher: the others are lost to a lagging subscription, emitted on the
\* host, which is not watched, or never emitted (the owner revoked the nonce).
\* The clock does not bound it: a block mined in time may become visible late,
\* and then counts as late.
UseNonces(S) ==
    /\ \A o \in S : ~Used(o)
    /\ nonce' = [o \in Orders |->
                    IF o \notin S THEN nonce[o]
                    ELSE IF now <= DeadlineOf[o] THEN "in_time" ELSE "late"]
    /\ \E logs \in SeqOf(LogsOf(S, tip.rollup), Cardinality(S) + 1) :
          /\ IsInjective(logs)
          /\ events' = events \o logs
    /\ UNCHANGED <<now, tip, changed, discovered, requests, books, locals>>

\* A block watcher update; a tip that was not taken yet is overwritten.
PublishTip ==
    /\ tip' = TipAt(IF tip.rollup < MaxBlock THEN tip.rollup + 1 ELSE MaxBlock)
    /\ changed' = TRUE
    /\ UNCHANGED <<world, events, discovered, requests, books, locals>>

\* The discovery task found o in the tx-cache.
Discover(o) ==
    /\ \A i \in DOMAIN discovered : discovered[i] # o
    /\ discovered' = Append(discovered, o)
    /\ UNCHANGED <<world, tip, changed, events, requests, books, locals>>

\* A WebSocket session asks for o, once.
Request(c, o) ==
    /\ reply[c] = NotTracked /\ client # c
    /\ \A i \in DOMAIN requests : requests[i].client # c
    /\ requests' = Append(requests, [client |-> c, order |-> o])
    /\ UNCHANGED <<world, tip, changed, events, discovered, books, locals>>

-----------------------------------------------------------------------------
(* status_for_order: the clock is read first, then the nonce is asked for. *)

Ask(o) == [order |-> o, clock |-> now, answer |-> "asked"]

NonceAnswer(o) ==
    /\ check.order = o /\ check.answer = "asked"
    /\ check' = [check EXCEPT !.answer = IF Used(o) THEN "used" ELSE "unused"]
    /\ UNCHANGED <<world, inputs, books, handler, todo, current, client>>

NonceError(o) ==
    /\ check.order = o /\ check.answer = "asked"
    /\ check' = [check EXCEPT !.answer = "unknown"]
    /\ UNCHANGED <<world, inputs, books, handler, todo, current, client>>

\* The clock is read after the nonce was answered.
Bug_Verdict_LateClock(o, clock, answer) ==
    IF answer = "used" THEN "filled"
    ELSE IF answer = "unused" /\ DeadlineOf[o] < now THEN "expired"
    ELSE "pending"

\* The deadline is not looked at.
Bug_Verdict_NoDeadline(o, clock, answer) ==
    IF answer = "used" THEN "filled" ELSE "pending"

\* A failed request is taken for an unused nonce.
Bug_Verdict_ErrorIsUnused(o, clock, answer) ==
    IF answer = "used" THEN "filled"
    ELSE IF DeadlineOf[o] < clock THEN "expired"
    ELSE "pending"

Verdict(o, clock, answer) == StatusOf(DeadlineOf[o] < clock, answer)

Answered == check.answer \in {"used", "unused", "unknown"}

-----------------------------------------------------------------------------
(* handle_new_blocks *)

HandleNewBlocks ==
    /\ handler = "select" /\ changed
    /\ changed' = FALSE
    /\ store' = UpdateTips(store, tip)
    /\ todo' = Pending
    /\ handler' = "blocks"
    /\ UNCHANGED <<world, tip, events, discovered, requests,
                   tracked, fillInfo, announced, reply, check, current, client>>

CheckPending(o) ==
    /\ handler = "blocks" /\ check = NoCheck /\ o \in todo
    /\ check' = Ask(o)
    /\ todo' = todo \ {o}
    /\ UNCHANGED <<world, inputs, books, handler, current, client>>

\* Only pending updates are broadcast.
Bug_PublishUpdate(o) ==
    /\ handler = "blocks" /\ check.order = o /\ Answered
    /\ LET status == Verdict(o, check.clock, check.answer) IN
          /\ tracked' = [tracked EXCEPT ![o] = status]
          /\ announced' = IF status = "pending"
                          THEN [announced EXCEPT ![o] = status]
                          ELSE announced
    /\ check' = NoCheck
    /\ UNCHANGED <<world, inputs, store, fillInfo, reply,
                   handler, todo, current, client>>

\* Broadcast when the status changed, and always while it is pending.
PublishUpdate(o) ==
    /\ handler = "blocks" /\ check.order = o /\ Answered
    /\ LET status == Verdict(o, check.clock, check.answer) IN
          /\ tracked' = [tracked EXCEPT ![o] = status]
          /\ announced' = IF status # tracked[o] \/ status = "pending"
                          THEN [announced EXCEPT ![o] = status]
                          ELSE announced
    /\ check' = NoCheck
    /\ UNCHANGED <<world, inputs, store, fillInfo, reply,
                   handler, todo, current, client>>

\* The predicate of retain is not negated.
Bug_EvictTerminal ==
    /\ handler = "blocks" /\ check = NoCheck /\ todo = {}
    /\ tracked' = [o \in Orders |-> IF tracked[o] \in Terminal
                                    THEN tracked[o] ELSE NotTracked]
    /\ handler' = "select"
    /\ UNCHANGED <<world, inputs, store, fillInfo, announced, reply,
                   todo, check, current, client>>

EvictTerminal ==
    /\ handler = "blocks" /\ check = NoCheck /\ todo = {}
    /\ tracked' = [o \in Orders |-> IF tracked[o] \in Terminal
                                    THEN NotTracked ELSE tracked[o]]
    /\ fillInfo' = [o \in Orders |-> IF tracked[o] \in Terminal
                                     THEN NoInfo ELSE fillInfo[o]]
    /\ handler' = "select"
    /\ UNCHANGED <<world, inputs, store, announced, reply,
                   todo, check, current, client>>

-----------------------------------------------------------------------------
(* handle_chain_event and check_fills_against_pending *)

\* The select is biased: no event is taken while a new tip waits.
EventReady(type) ==
    handler = "select" /\ ~changed /\ events # <<>> /\ Head(events).type = type

HandleOrderEvent ==
    /\ EventReady("Order")
    /\ LET event == Head(events) IN
          store' = InsertOrder(store, OrderEventKey(event.order), event.block, event.order)
    /\ events' = Tail(events)
    /\ UNCHANGED <<world, tip, changed, discovered, requests,
                   tracked, fillInfo, announced, reply, locals>>

\* A fill of S covers the outputs of all orders in S, one after the other.
FillOutputsOf(S) ==
    LET order == SetToSeq(S)
    IN  FlattenSeq([i \in DOMAIN order |-> OutputsOf[order[i]]])

\* Every pending order is taken for a candidate.
Bug_Candidates(fills) == Pending

Candidates(fills) ==
    {o \in Pending : FillOutputsAreSuperset(FillOutputsOf(fills), OutputsOf[o])}

HandleFilledEvent ==
    /\ EventReady("Filled")
    /\ store' = InsertFilled(store, Head(events))
    /\ todo' = Candidates(Head(events).fills)
    /\ current' = Head(events).fills
    /\ handler' = "fills"
    /\ events' = Tail(events)
    /\ UNCHANGED <<world, tip, changed, discovered, requests,
                   tracked, fillInfo, announced, reply, check, client>>

\* The event is believed without asking for the nonce.
Bug_ConfirmFill(o) ==
    /\ handler = "fills" /\ o \in todo
    /\ tracked' = [tracked EXCEPT ![o] = "filled"]
    /\ announced' = [announced EXCEPT ![o] = "filled"]
    /\ todo' = todo \ {o}
    /\ UNCHANGED <<world, inputs, store, fillInfo, reply,
                   handler, check, current, client>>

\* is_nonce_consumed answers true; nothing is awaited between the answer and
\* the update.
ConfirmFill(o) ==
    /\ handler = "fills" /\ o \in todo
    /\ Used(o)
    /\ tracked' = [tracked EXCEPT ![o] = "filled"]
    /\ fillInfo' = [fillInfo EXCEPT ![o] =
                       [initiation |-> FindOrderTx(store, OrderEventKey(o)),
                        fills |-> current]]
    /\ announced' = [announced EXCEPT ![o] = "filled"]
    /\ todo' = todo \ {o}
    /\ UNCHANGED <<world, inputs, store, reply, handler, check, current, client>>

\* It answers false, or fails.
RejectFill(o) ==
    /\ handler = "fills" /\ o \in todo
    /\ todo' = todo \ {o}
    /\ UNCHANGED <<world, inputs, books, handler, check, current, client>>

FillChecked ==
    /\ handler = "fills" /\ todo = {}
    /\ handler' = "select" /\ current' = {}
    /\ UNCHANGED <<world, inputs, books, todo, check, client>>

-----------------------------------------------------------------------------
(* register_order, for a discovered order (no client) or a track request *)

\* The early return forgets the client.
Bug_Register(o, c) ==
    IF tracked[o] # NotTracked
    THEN UNCHANGED <<reply, handler, check, client>>
    ELSE /\ handler' = "register" /\ check' = Ask(o) /\ client' = c
         /\ UNCHANGED reply

Register(o, c) ==
    IF tracked[o] # NotTracked
    THEN /\ reply' = [d \in Clients |-> IF d = c THEN tracked[o] ELSE reply[d]]
         /\ UNCHANGED <<handler, check, client>>
    ELSE /\ handler' = "register" /\ check' = Ask(o) /\ client' = c
         /\ UNCHANGED reply

HandleDiscovered ==
    /\ handler = "select" /\ ~changed /\ events = <<>> /\ discovered # <<>>
    /\ Register(Head(discovered), NoClient)
    /\ discovered' = Tail(discovered)
    /\ UNCHANGED <<world, tip, changed, events, requests,
                   tracked, store, fillInfo, announced, todo, current>>

HandleTrackRequest ==
    /\ handler = "select" /\ ~changed /\ events = <<>> /\ discovered = <<>>
    /\ requests # <<>>
    /\ Register(Head(requests).order, Head(requests).client)
    /\ requests' = Tail(requests)
    /\ UNCHANGED <<world, tip, changed, events, discovered,
                   tracked, store, fillInfo, announced, todo, current>>

PublishRegistration(o) ==
    /\ handler = "register" /\ check.order = o /\ Answered
    /\ LET status == Verdict(o, check.clock, check.answer) IN
          /\ tracked' = [tracked EXCEPT ![o] = status]
          /\ reply' = [d \in Clients |-> IF d = client THEN status ELSE reply[d]]
          /\ announced' = [announced EXCEPT ![o] = status]
    /\ handler' = "select" /\ check' = NoCheck /\ client' = NoClient
    /\ UNCHANGED <<world, inputs, store, fillInfo, todo, current>>
-----------------------------------------------------------------------------

Environment ==
    \/ Tick
    \/ PublishTip
    \/ \E S \in SUBSET Orders \ {{}} : UseNonces(S)
    \/ \E o \in Cached : Discover(o)
    \/ \E c \in Clients, o \in Orders : Request(c, o)

\* Steps the task takes by itself.
TaskStep ==
    \/ HandleNewBlocks \/ EvictTerminal
    \/ HandleOrderEvent \/ HandleFilledEvent \/ FillChecked
    \/ HandleDiscovered \/ HandleTrackRequest
    \/ \E o \in Orders : \/ CheckPending(o) \/ PublishUpdate(o)
                         \/ ConfirmFill(o) \/ RejectFill(o)
                         \/ PublishRegistration(o)

\* Steps of the RPC node.
RpcStep == \E o \in Orders : NonceAnswer(o) \/ NonceError(o)

Next == Environment \/ TaskStep \/ RpcStep

Spec == Init /\ [][Next]_vars

-----------------------------------------------------------------------------
(* Fairness: the task is a spawned tokio task that never blocks outside its *)
(* awaits; a select that finds an arm ready and no better one again and     *)
(* again takes it; blocks keep coming; and an RPC node that is asked again  *)
(* and again about an order answers in the end.                             *)

Fairness ==
    /\ WF_vars(TaskStep)
    /\ SF_vars(HandleOrderEvent) /\ SF_vars(HandleFilledEvent)
    /\ SF_vars(HandleDiscovered) /\ SF_vars(HandleTrackRequest)
    /\ WF_vars(PublishTip)
    /\ WF_vars(RpcStep)
    /\ \A o \in Orders : SF_vars(NonceAnswer(o))

FairSpec == Spec /\ Fairness

-----------------------------------------------------------------------------
(* Properties *)

FilledEvents ==
    [type : {"Filled"}, chain : Chains, block : Nat, fills : SUBSET Orders]

OrderEvents == [type : {"Order"}, block : Nat, order : Orders]

ChainStores(c) == [filled : SUBSET {e \in FilledEvents : e.chain = c}, tip : Nat]

OrderEntries == [key : {OrderEventKey(o) : o \in Orders}, block : Nat, tx : Orders]

WorldType ==
    /\ now \in Nat
    /\ nonce \in [Orders -> {"unused", "in_time", "late"}]

InputsType ==
    /\ tip \in [rollup : Nat, host : Nat] /\ changed \in BOOLEAN
    /\ events \in Seq(FilledEvents \cup OrderEvents)
    /\ discovered \in Seq(Orders)
    /\ requests \in Seq([client : Clients, order : Orders])

BooksType ==
    /\ tracked \in [Orders -> Statuses \cup {NotTracked}]
    /\ announced \in [Orders -> Statuses \cup {NotTracked}]
    /\ reply \in [Clients -> Statuses \cup {NotTracked}]
    /\ fillInfo \in [Orders -> [initiation : SUBSET Orders, fills : SUBSET Orders]]
    /\ store \in [rollup : ChainStores("rollup"), host : ChainStores("host"),
                  order_events : SUBSET OrderEntries]

LocalsType ==
    /\ handler \in {"select", "blocks", "fills", "register"}
    /\ todo \in SUBSET Orders
    /\ check \in [order : Orders \cup {NoOrder}, clock : Nat,
                  answer : {"none", "asked", "used", "unused", "unknown"}]
    /\ current \in SUBSET Orders
    /\ client \in Clients \cup {NoClient}

\* The type invariant; the store of a chain holds events of that chain only.
TypeOK == WorldType /\ InputsType /\ BooksType /\ LocalsType

\* Filled is never said of an order whose nonce is unused, whichever of the
\* three paths said it (new block, Filled event, registration).
FilledIsTruthful ==
    \A o \in Orders : "filled" \in {tracked[o], announced[o]} => Used(o)

\* Expired is never said of an order whose nonce the RPC node showed as used by
\* its deadline: this is why status_for_order reads the clock before it asks for the nonce.
ExpiredIsTruthful ==
    \A o \in Orders :
        "expired" \in {tracked[o], announced[o]} => nonce[o] # "in_time"

\* The last broadcast about a tracked order is its status, and an order that
\* left the table was announced as terminal before ("their final status has
\* already been broadcast").
SubscribersUpToDate ==
    \A o \in Orders : IF tracked[o] # NotTracked THEN announced[o] = tracked[o]
                      ELSE announced[o] \in Terminal \cup {NotTracked}

\* A terminal status is not revised while the order is in the table.
TerminalIsFinal ==
    [][\A o \in Orders : tracked[o] \in Terminal =>
          tracked'[o] \in {tracked[o], NotTracked}]_vars

\* What was announced as terminal, possibly of an entry long evicted, is taken
\* back only by a check whose nonce request failed, and then as pending; and
\* expired becomes filled, when a late fill shows.
RevisedByErrorOnly ==
    [][\A o \in Orders :
          announced[o] \in Terminal /\ announced'[o] # announced[o] =>
             \/ announced'[o] = "filled"
             \/ /\ announced'[o] = "pending"
                /\ check.order = o /\ check.answer = "unknown"]_vars

\* The initiation shown in a FillInfo is that of a used order with the same
\* deadline and outputs.
InitiationMatches ==
    \A o \in Orders : \A p \in fillInfo[o].initiation :
        DeadlineOf[p] = DeadlineOf[o] /\ OutputsOf[p] = OutputsOf[o] /\ Used(p)

\* The fill shown in a FillInfo paid all the outputs of the order, and is shown
\* of an order reported as filled: one Filled event may settle several orders,
\* and the candidates it was compared with must not have changed by the time
\* their nonces were asked for. (It may still be the fill of another order with
\* the same outputs.)
FillMatches ==
    \A o \in Orders : fillInfo[o].fills # {} =>
        /\ tracked[o] = "filled"
        /\ FillOutputsAreSuperset(FillOutputsOf(fillInfo[o].fills), OutputsOf[o])

\* The state manager implements the feed its listeners rely on.
Feed == INSTANCE OrderFeed WITH tracked <- tracked, announced <- announced
ImplementsOrderFeed == Feed!FeedSpec

\* An order that is used or past its deadline is announced as terminal, however
\* many of its events were lost.
OrdersConclude ==
    \A o \in Orders :
        (tracked[o] = "pending" /\ (Used(o) \/ now > DeadlineOf[o]))
            ~> announced[o] \in Terminal

\* A track request is answered, unless inputs of higher preference never cease
\* to wait (the select is biased: they may starve it).
Quiet == handler = "select" /\ ~changed /\ events = <<>> /\ discovered = <<>>
Queued(c) == \E i \in DOMAIN requests : requests[i].client = c
RequestsAnswered ==
    \A c \in Clients : Queued(c) ~> (reply[c] # NotTracked \/ <>[]~Quiet)

-----------------------------------------------------------------------------
(* A statement of the documentation that the code departs from. *)

\* event_store.rs:24: the key "uniquely" identifies "this order".
InitiationIsOwn == \A o \in Orders : fillInfo[o].initiation \subseteq {o}

=============================================================================
