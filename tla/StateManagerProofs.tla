------------------------- MODULE StateManagerProofs -------------------------
(***************************************************************************)
(* Proofs about the state manager, for every set of orders and clients,    *)
(* every deadline, every output and every retention window.                *)
(***************************************************************************)
EXTENDS StateManager, FiniteSetTheorems, TLAPS

-----------------------------------------------------------------------------
(* The inductive invariant. *)

\* What the handler that runs may assume about its local state: a hash it has
\* still to visit is pending, and so is (registration: not tracked) the one
\* being checked; nothing but this task changes the table.
LocalOK ==
    /\ check = NoCheck \/
          /\ check.order \in Orders \ todo
          /\ check.answer # "none"
          /\ check.clock <= now
    /\ handler \in {"select", "fills"} => check = NoCheck
    /\ handler \in {"select", "register"} => todo = {}
    /\ \A o \in todo : tracked[o] = "pending"
    /\ handler = "blocks" /\ check # NoCheck => tracked[check.order] = "pending"
    /\ handler = "register" =>
          check.order \in Orders /\ tracked[check.order] = NotTracked

\* An answer of the RPC node stays good: a used nonce remains used, and one that
\* was unused when the clock had passed the deadline is used late if ever.
AnswerOK ==
    check.order \in Orders =>
        /\ check.answer = "used" => Used(check.order)
        /\ check.answer = "unused" /\ DeadlineOf[check.order] < check.clock
              => nonce[check.order] # "in_time"

\* Order events, on their way and stored, are of used orders.
OrderEventsOK ==
    /\ \A i \in DOMAIN events : events[i].type = "Order" => Used(events[i].order)
    /\ \A e \in store.order_events : e.key = OrderEventKey(e.tx) /\ Used(e.tx)

\* An order that was said to be expired is past its deadline for good.
ExpiredIsLate ==
    \A o \in Orders : "expired" \in {tracked[o], announced[o]} => DeadlineOf[o] < now

\* What listeners are told.
Claims ==
    /\ FilledIsTruthful /\ ExpiredIsTruthful /\ ExpiredIsLate
    /\ SubscribersUpToDate /\ InitiationMatches

IInv == TypeOK /\ LocalOK /\ AnswerOK /\ OrderEventsOK /\ Claims

LEMMA ClaimsKept ==
    Claims /\ UNCHANGED <<now, nonce, tracked, announced, fillInfo>> => Claims'
BY DEF Claims, FilledIsTruthful, ExpiredIsTruthful, ExpiredIsLate,
       SubscribersUpToDate, InitiationMatches, Used, OrderEventKey
-----------------------------------------------------------------------------
(* The initial states. *)

LEMMA InitIInv == Init => IInv
<1> SUFFICES ASSUME Init PROVE IInv
  OBVIOUS
<1> USE StateManagerAssumption
<1>1. TypeOK
  <2>1. WorldType
    BY DEF Init, WorldType
  <2>2. tip \in [rollup : Nat, host : Nat]
    BY DEF Init, TipAt
  <2>6. changed \in BOOLEAN
    BY Zenon DEF Init
  <2>3. /\ events \in Seq(FilledEvents \cup OrderEvents)
        /\ discovered \in Seq(Orders)
        /\ requests \in Seq([client : Clients, order : Orders])
    BY DEF Init
  <2>4. BooksType
    BY DEF Init, BooksType, NoInfo, EmptyStore, EmptyChain, ChainStores, Statuses
  <2>5. LocalsType
    BY DEF Init, LocalsType, NoCheck
  <2>. QED  BY <2>1, <2>2, <2>3, <2>4, <2>5, <2>6 DEF TypeOK, InputsType
<1>2. LocalOK /\ AnswerOK
  BY DEF Init, LocalOK, AnswerOK, NoCheck
<1>3. OrderEventsOK
  BY DEF Init, OrderEventsOK, EmptyStore
<1>4. FilledIsTruthful /\ ExpiredIsTruthful /\ SubscribersUpToDate
  BY DEF Init, FilledIsTruthful, ExpiredIsTruthful, SubscribersUpToDate,
         NotTracked, Terminal
<1>6. ExpiredIsLate
  BY DEF Init, ExpiredIsLate, NotTracked
<1>5. InitiationMatches
  BY DEF Init, InitiationMatches, NoInfo
<1>. QED  BY <1>1, <1>2, <1>3, <1>4, <1>5, <1>6 DEF IInv, Claims

-----------------------------------------------------------------------------
(* The environment. *)

LEMMA TickIInv == IInv /\ Tick => IInv'
<1> SUFFICES ASSUME IInv, Tick PROVE IInv'
  OBVIOUS
<1> USE StateManagerAssumption DEF IInv, Tick, inputs, books, locals
<1>1. TypeOK'
  BY DEF TypeOK, WorldType, InputsType, BooksType, LocalsType
<1>2. LocalOK'
  BY DEF TypeOK, WorldType, LocalsType, LocalOK, NoCheck
<1>3. AnswerOK' /\ OrderEventsOK'
  BY DEF AnswerOK, OrderEventsOK, Used
<1>4. Claims'
  BY DEF Claims, FilledIsTruthful, ExpiredIsTruthful, ExpiredIsLate,
         SubscribersUpToDate, InitiationMatches, Used, OrderEventKey,
         TypeOK, WorldType
<1>. QED  BY <1>1, <1>2, <1>3, <1>4

LEMMA PublishTipIInv == IInv /\ PublishTip => IInv'
<1> SUFFICES ASSUME IInv, PublishTip PROVE IInv'
  OBVIOUS
<1> USE StateManagerAssumption DEF IInv, PublishTip, world, books, locals
<1>1. TypeOK'
  <2>1. tip' \in [rollup : Nat, host : Nat] /\ changed' \in BOOLEAN
    BY DEF TypeOK, InputsType, TipAt
  <2>. QED
    BY <2>1 DEF TypeOK, WorldType, InputsType, BooksType, LocalsType
<1>2. LocalOK' /\ AnswerOK' /\ OrderEventsOK'
  BY DEF LocalOK, AnswerOK, OrderEventsOK, Used, NoCheck
<1>3. Claims'
  BY ClaimsKept
<1>. QED  BY <1>1, <1>2, <1>3

LEMMA DiscoverIInv == ASSUME NEW o \in Cached PROVE IInv /\ Discover(o) => IInv'
<1> SUFFICES ASSUME IInv, Discover(o) PROVE IInv'
  OBVIOUS
<1> USE StateManagerAssumption DEF IInv, Discover, world, books, locals
<1>1. TypeOK'
  <2>1. discovered' \in Seq(Orders)
    BY DEF TypeOK, InputsType
  <2>. QED
    BY <2>1 DEF TypeOK, WorldType, InputsType, BooksType, LocalsType
<1>2. LocalOK' /\ AnswerOK' /\ OrderEventsOK'
  BY DEF LocalOK, AnswerOK, OrderEventsOK, Used, NoCheck
<1>3. Claims'
  BY ClaimsKept
<1>. QED  BY <1>1, <1>2, <1>3

LEMMA RequestIInv ==
  ASSUME NEW c \in Clients, NEW o \in Orders PROVE IInv /\ Request(c, o) => IInv'
<1> SUFFICES ASSUME IInv, Request(c, o) PROVE IInv'
  OBVIOUS
<1> USE StateManagerAssumption DEF IInv, Request, world, books, locals
<1>1. TypeOK'
  <2>1. requests' \in Seq([client : Clients, order : Orders])
    BY DEF TypeOK, InputsType
  <2>. QED
    BY <2>1 DEF TypeOK, WorldType, InputsType, BooksType, LocalsType
<1>2. LocalOK' /\ AnswerOK' /\ OrderEventsOK'
  BY DEF LocalOK, AnswerOK, OrderEventsOK, Used, NoCheck
<1>3. Claims'
  BY ClaimsKept
<1>. QED  BY <1>1, <1>2, <1>3

LEMMA LogsType ==
  ASSUME NEW S \in SUBSET Orders, NEW b \in Nat, NEW n \in Nat,
         NEW logs \in SeqOf(LogsOf(S, b), n)
  PROVE  /\ logs \in Seq(FilledEvents \cup OrderEvents)
         /\ \A i \in DOMAIN logs : logs[i].type = "Order" => logs[i].order \in S
<1>1. PICK m \in 0..n : logs \in [1..m -> LogsOf(S, b)]
  BY DEF SeqOf
<1>2. LogsOf(S, b) \subseteq FilledEvents \cup OrderEvents
  BY DEF LogsOf, FilledEvents, OrderEvents, Chains
<1>3. logs \in Seq(FilledEvents \cup OrderEvents)
  BY <1>1, <1>2
<1>4. ASSUME NEW e \in LogsOf(S, b), e.type = "Order" PROVE e.order \in S
  BY <1>4 DEF LogsOf
<1>. QED  BY <1>1, <1>3, <1>4

LEMMA UseNoncesIInv ==
  ASSUME NEW S \in SUBSET Orders PROVE IInv /\ UseNonces(S) => IInv'
<1> SUFFICES ASSUME IInv, UseNonces(S) PROVE IInv'
  OBVIOUS
<1> USE StateManagerAssumption DEF IInv
<1>1. PICK logs \in SeqOf(LogsOf(S, tip.rollup), Cardinality(S) + 1) :
         events' = events \o logs
  BY DEF UseNonces
<1>2. /\ logs \in Seq(FilledEvents \cup OrderEvents)
      /\ \A i \in DOMAIN logs : logs[i].type = "Order" => logs[i].order \in S
  <2>1. Cardinality(S) + 1 \in Nat
    BY FS_Subset, FS_CardinalityType
  <2>2. tip.rollup \in Nat
    BY DEF TypeOK, InputsType
  <2>. QED  BY <2>1, <2>2, LogsType
<1>3. nonce' \in [Orders -> {"unused", "in_time", "late"}]
  BY DEF UseNonces, TypeOK, WorldType
<1>4. \A o \in Orders :
         /\ Used(o) => Used(o)'
         /\ o \in S => Used(o)'
         /\ nonce'[o] = "in_time" /\ nonce[o] # "in_time" => now <= DeadlineOf[o]
  BY DEF UseNonces, Used
<1>5. TypeOK'
  BY <1>1, <1>2, <1>3 DEF UseNonces, books, locals,
                          TypeOK, WorldType, InputsType, BooksType, LocalsType
<1>6. LocalOK'
  BY DEF UseNonces, books, locals, LocalOK, NoCheck
<1>7. AnswerOK'
  BY <1>4 DEF UseNonces, books, locals, AnswerOK, LocalOK, NoCheck,
              TypeOK, WorldType, LocalsType
<1>8. OrderEventsOK'
  <2>1. ASSUME NEW i \in DOMAIN events', events'[i].type = "Order"
        PROVE  Used(events[i].order)'
    <3>1. events' \in Seq(FilledEvents \cup OrderEvents)
      BY <1>5 DEF TypeOK, InputsType
    <3>2. i \in 1..Len(events) + Len(logs)
      BY <1>1, <1>2 DEF TypeOK, InputsType
    <3>3. CASE i \in DOMAIN events
      <4>1. events'[i] = events[i] /\ events[i] \in FilledEvents \cup OrderEvents
        BY <1>1, <1>2, <3>3 DEF TypeOK, InputsType
      <4>2. events[i].order \in Orders /\ Used(events[i].order)
        BY <2>1, <3>3, <4>1 DEF OrderEventsOK, FilledEvents, OrderEvents
      <4>. QED  BY <1>4, <4>1, <4>2
    <3>4. CASE i \notin DOMAIN events
      <4>1. i - Len(events) \in DOMAIN logs /\ events'[i] = logs[i - Len(events)]
        BY <1>1, <1>2, <3>2, <3>4 DEF TypeOK, InputsType
      <4>2. events'[i].order \in S
        BY <1>2, <2>1, <4>1
      <4>. QED  BY <1>4, <4>2
    <3>. QED  BY <3>3, <3>4
  <2>2. ASSUME NEW e \in store.order_events
        PROVE  e.key = OrderEventKey(e.tx) /\ Used(e.tx)'
    BY <1>4 DEF OrderEventsOK, TypeOK, BooksType, OrderEntries
  <2>. QED  BY <2>1, <2>2 DEF OrderEventsOK, UseNonces, books, OrderEventKey
<1>9. Claims'
  <2>1. UNCHANGED <<now, tracked, announced, fillInfo>>
    BY DEF UseNonces, books
  <2>2. FilledIsTruthful' /\ SubscribersUpToDate'
    BY <1>4, <2>1 DEF Claims, FilledIsTruthful, SubscribersUpToDate
  <2>3. ExpiredIsTruthful' /\ ExpiredIsLate'
    BY <1>4, <2>1 DEF Claims, ExpiredIsTruthful, ExpiredIsLate, TypeOK, WorldType
  <2>4. InitiationMatches'
    BY <1>4, <2>1 DEF Claims, InitiationMatches, OrderEventKey, TypeOK, BooksType
  <2>. QED  BY <2>2, <2>3, <2>4 DEF Claims
<1>. QED  BY <1>5, <1>6, <1>7, <1>8, <1>9

-----------------------------------------------------------------------------
(* status_for_order *)

LEMMA NonceAnswerIInv ==
  ASSUME NEW o \in Orders PROVE IInv /\ NonceAnswer(o) => IInv'
<1> SUFFICES ASSUME IInv, NonceAnswer(o) PROVE IInv'
  OBVIOUS
<1> USE StateManagerAssumption DEF IInv, NonceAnswer, world, inputs, books
<1>1. /\ check' \in [order : Orders \cup {NoOrder}, clock : Nat,
                     answer : {"none", "asked", "used", "unused", "unknown"}]
      /\ check'.order = o /\ check'.clock = check.clock
      /\ check'.answer = IF Used(o) THEN "used" ELSE "unused"
  BY DEF TypeOK, LocalsType
<1>2. TypeOK'
  BY <1>1 DEF TypeOK, WorldType, InputsType, BooksType, LocalsType
<1>3. LocalOK'
  BY <1>1 DEF LocalOK, NoCheck
<1>4. AnswerOK' /\ OrderEventsOK'
  BY <1>1 DEF AnswerOK, OrderEventsOK, Used, OrderEventKey
<1>5. Claims'
  BY ClaimsKept
<1>. QED  BY <1>2, <1>3, <1>4, <1>5

LEMMA NonceErrorIInv ==
  ASSUME NEW o \in Orders PROVE IInv /\ NonceError(o) => IInv'
<1> SUFFICES ASSUME IInv, NonceError(o) PROVE IInv'
  OBVIOUS
<1> USE StateManagerAssumption DEF IInv, NonceError, world, inputs, books
<1>1. /\ check' \in [order : Orders \cup {NoOrder}, clock : Nat,
                     answer : {"none", "asked", "used", "unused", "unknown"}]
      /\ check'.order = o /\ check'.clock = check.clock
      /\ check'.answer = "unknown"
  BY DEF TypeOK, LocalsType
<1>2. TypeOK'
  BY <1>1 DEF TypeOK, WorldType, InputsType, BooksType, LocalsType
<1>3. LocalOK'
  BY <1>1 DEF LocalOK, NoCheck
<1>4. AnswerOK' /\ OrderEventsOK'
  BY <1>1 DEF AnswerOK, OrderEventsOK, Used, OrderEventKey
<1>5. Claims'
  BY ClaimsKept
<1>. QED  BY <1>2, <1>3, <1>4, <1>5

\* What a completed check may say.
Sayable(o, s) ==
    /\ s \in Statuses
    /\ s = "filled" => Used(o)
    /\ s = "expired" => nonce[o] # "in_time" /\ DeadlineOf[o] < now

LEMMA VerdictSayable ==
  ASSUME NEW o \in Orders, IInv, check.order = o, Answered
  PROVE  Sayable(o, Verdict(o, check.clock, check.answer))
<1>1. /\ DeadlineOf[o] \in Nat /\ check.clock \in Nat /\ now \in Nat
      /\ check.clock <= now
  BY StateManagerAssumption
     DEF IInv, TypeOK, WorldType, LocalsType, LocalOK, NoCheck
<1>2. /\ check.answer = "used" => Used(o)
      /\ check.answer = "unused" /\ DeadlineOf[o] < check.clock
            => nonce[o] # "in_time"
  BY DEF IInv, AnswerOK
<1>. QED  BY <1>1, <1>2 DEF Sayable, Verdict, StatusOf, Statuses, Terminal

\* To announce what may be said keeps every claim.
LEMMA AnnounceClaims ==
  ASSUME NEW o \in Orders, NEW s, IInv, Sayable(o, s),
         tracked' = [tracked EXCEPT ![o] = s],
         announced' = [announced EXCEPT ![o] = s],
         UNCHANGED <<now, nonce>>
  PROVE  /\ FilledIsTruthful' /\ ExpiredIsTruthful' /\ ExpiredIsLate'
         /\ SubscribersUpToDate'
         /\ tracked' \in [Orders -> Statuses \cup {NotTracked}]
         /\ announced' \in [Orders -> Statuses \cup {NotTracked}]
<1>1. /\ tracked \in [Orders -> Statuses \cup {NotTracked}]
      /\ announced \in [Orders -> Statuses \cup {NotTracked}]
  BY DEF IInv, TypeOK, BooksType
<1>2. /\ tracked' \in [Orders -> Statuses \cup {NotTracked}]
      /\ announced' \in [Orders -> Statuses \cup {NotTracked}]
  BY <1>1 DEF Sayable
<1>3. tracked'[o] = s /\ announced'[o] = s
  BY <1>1
<1>4. \A p \in Orders \ {o} : tracked'[p] = tracked[p] /\ announced'[p] = announced[p]
  BY <1>1
<1>5. FilledIsTruthful' /\ ExpiredIsTruthful' /\ ExpiredIsLate'
  BY <1>3, <1>4 DEF IInv, Claims, FilledIsTruthful, ExpiredIsTruthful,
                    ExpiredIsLate, Sayable, Used
<1>6. SubscribersUpToDate'
  BY <1>3, <1>4 DEF IInv, Claims, SubscribersUpToDate, Sayable, Statuses,
                    Terminal, NotTracked
<1>. QED  BY <1>2, <1>5, <1>6

-----------------------------------------------------------------------------
(* handle_new_blocks *)

LEMMA RetainedSubset == \A S, t : Retained(S, t) \subseteq S
BY DEF Retained

LEMMA HandleNewBlocksIInv == IInv /\ HandleNewBlocks => IInv'
<1> SUFFICES ASSUME IInv, HandleNewBlocks PROVE IInv'
  OBVIOUS
<1> USE StateManagerAssumption DEF IInv, HandleNewBlocks, world
<1>1. store' \in [rollup : ChainStores("rollup"), host : ChainStores("host"),
                  order_events : SUBSET OrderEntries]
  BY RetainedSubset DEF TypeOK, BooksType, InputsType, UpdateTips, PruneChain,
                        ChainStores
<1>2. store'.order_events \subseteq store.order_events
  BY RetainedSubset DEF UpdateTips
<1>3. TypeOK'
  BY <1>1 DEF TypeOK, WorldType, InputsType, BooksType, LocalsType, Pending
<1>4. LocalOK'
  BY DEF LocalOK, Pending, NoCheck
<1>5. AnswerOK'
  BY DEF AnswerOK, Used
<1>6. OrderEventsOK'
  BY <1>2 DEF OrderEventsOK, Used, OrderEventKey
<1>7. Claims'
  BY ClaimsKept
<1>. QED  BY <1>3, <1>4, <1>5, <1>6, <1>7

LEMMA CheckPendingIInv ==
  ASSUME NEW o \in Orders PROVE IInv /\ CheckPending(o) => IInv'
<1> SUFFICES ASSUME IInv, CheckPending(o) PROVE IInv'
  OBVIOUS
<1> USE StateManagerAssumption DEF IInv, CheckPending, world, inputs, books
<1>1. check' = [order |-> o, clock |-> now, answer |-> "asked"]
  BY DEF Ask
<1>2. TypeOK'
  BY <1>1 DEF TypeOK, WorldType, InputsType, BooksType, LocalsType
<1>3. LocalOK'
  BY <1>1 DEF LocalOK, NoCheck, TypeOK, WorldType
<1>4. AnswerOK' /\ OrderEventsOK'
  BY <1>1 DEF AnswerOK, OrderEventsOK, Used, OrderEventKey
<1>5. Claims'
  BY ClaimsKept
<1>. QED  BY <1>2, <1>3, <1>4, <1>5

LEMMA PublishUpdateIInv ==
  ASSUME NEW o \in Orders PROVE IInv /\ PublishUpdate(o) => IInv'
<1> SUFFICES ASSUME IInv, PublishUpdate(o) PROVE IInv'
  OBVIOUS
<1> USE StateManagerAssumption DEF IInv, world, inputs
<1> DEFINE s == Verdict(o, check.clock, check.answer)
<1>1. Sayable(o, s)
  BY VerdictSayable DEF PublishUpdate
<1>2. tracked[o] = "pending" /\ o \notin todo
  BY DEF PublishUpdate, LocalOK, NoCheck
<1>3. /\ tracked' = [tracked EXCEPT ![o] = s]
      /\ announced' = [announced EXCEPT ![o] = s]
      /\ UNCHANGED <<now, nonce, inputs, store, fillInfo, reply,
                     handler, todo, current, client>>
      /\ check' = NoCheck /\ handler = "blocks"
  BY <1>2 DEF PublishUpdate
<1> HIDE DEF s
<1>4. /\ FilledIsTruthful' /\ ExpiredIsTruthful' /\ ExpiredIsLate'
      /\ SubscribersUpToDate'
      /\ tracked' \in [Orders -> Statuses \cup {NotTracked}]
      /\ announced' \in [Orders -> Statuses \cup {NotTracked}]
  BY <1>1, <1>3, AnnounceClaims
<1>5. TypeOK'
  BY <1>3, <1>4 DEF TypeOK, WorldType, InputsType, BooksType, LocalsType, NoCheck
<1>6. LocalOK'
  BY <1>2, <1>3 DEF LocalOK, NoCheck, TypeOK, LocalsType, BooksType
<1>7. AnswerOK' /\ OrderEventsOK'
  BY <1>3 DEF AnswerOK, OrderEventsOK, NoCheck, Used, OrderEventKey
<1>8. InitiationMatches'
  BY <1>3 DEF Claims, InitiationMatches, Used, OrderEventKey
<1>. QED  BY <1>4, <1>5, <1>6, <1>7, <1>8 DEF Claims

LEMMA EvictTerminalIInv == IInv /\ EvictTerminal => IInv'
<1> SUFFICES ASSUME IInv, EvictTerminal PROVE IInv'
  OBVIOUS
<1> USE StateManagerAssumption DEF IInv, EvictTerminal, world, inputs
<1>1. /\ tracked' \in [Orders -> Statuses \cup {NotTracked}]
      /\ fillInfo' \in [Orders -> [initiation : SUBSET Orders, fills : SUBSET Orders]]
  BY DEF TypeOK, BooksType, NoInfo
<1>2. TypeOK'
  BY <1>1 DEF TypeOK, WorldType, InputsType, BooksType, LocalsType
<1>3. LocalOK' /\ AnswerOK' /\ OrderEventsOK'
  BY DEF LocalOK, AnswerOK, OrderEventsOK, NoCheck, Used, OrderEventKey
<1>4. \A o \in Orders : /\ tracked'[o] \in {tracked[o], NotTracked}
                        /\ tracked'[o] = NotTracked =>
                              tracked[o] \in Terminal \cup {NotTracked}
                        /\ fillInfo'[o] \in {fillInfo[o], NoInfo}
  BY DEF Terminal, NotTracked
<1>5. FilledIsTruthful' /\ ExpiredIsTruthful' /\ ExpiredIsLate'
  BY <1>4 DEF Claims, FilledIsTruthful, ExpiredIsTruthful, ExpiredIsLate,
              NotTracked, Used
<1>6. SubscribersUpToDate'
  BY <1>4 DEF Claims, SubscribersUpToDate, NotTracked
<1>7. InitiationMatches'
  BY <1>4 DEF Claims, InitiationMatches, NoInfo, Used, OrderEventKey
<1>. QED  BY <1>2, <1>3, <1>5, <1>6, <1>7 DEF Claims

-----------------------------------------------------------------------------
(* handle_chain_event *)

\* Taking the head of the queue leaves its other events as they were.
LEMMA TakeEvent ==
  ASSUME IInv, events # <<>>
  PROVE  /\ Head(events) \in FilledEvents \cup OrderEvents
         /\ Tail(events) \in Seq(FilledEvents \cup OrderEvents)
         /\ Head(events).type = "Order" => Used(Head(events).order)
         /\ \A i \in DOMAIN Tail(events) : Tail(events)[i].type = "Order"
               => Used(Tail(events)[i].order)
<1>1. events \in Seq(FilledEvents \cup OrderEvents) /\ Len(events) > 0
  BY DEF IInv, TypeOK, InputsType
<1>2. Head(events) = events[1] /\ 1 \in DOMAIN events
  BY <1>1
<1>3. \A i \in DOMAIN Tail(events) : i + 1 \in DOMAIN events
                                     /\ Tail(events)[i] = events[i + 1]
  BY <1>1
<1>. QED  BY <1>1, <1>2, <1>3 DEF IInv, OrderEventsOK

LEMMA HandleOrderEventIInv == IInv /\ HandleOrderEvent => IInv'
<1> SUFFICES ASSUME IInv, HandleOrderEvent PROVE IInv'
  OBVIOUS
<1> USE StateManagerAssumption DEF IInv, HandleOrderEvent, EventReady, world, locals
<1> DEFINE event == Head(events)
           entry == [key |-> OrderEventKey(event.order), block |-> event.block,
                     tx |-> event.order]
           others == {e \in store.order_events : e.key # OrderEventKey(event.order)}
<1>1. /\ event \in OrderEvents
      /\ events' \in Seq(FilledEvents \cup OrderEvents)
      /\ Used(event.order)
      /\ \A i \in DOMAIN events' : events'[i].type = "Order" => Used(events'[i].order)
  BY TakeEvent DEF FilledEvents
<1>2. entry \in OrderEntries
  BY <1>1 DEF OrderEvents, OrderEntries
<1>3. /\ store' = [store EXCEPT !.order_events = others \cup {entry}]
      /\ others \subseteq store.order_events
      /\ entry.key = OrderEventKey(entry.tx) /\ entry.tx = event.order
  BY DEF InsertOrder
<1> HIDE DEF entry, others
<1>4. /\ store' \in [rollup : ChainStores("rollup"), host : ChainStores("host"),
                     order_events : SUBSET OrderEntries]
      /\ store'.order_events \subseteq store.order_events \cup {entry}
  <2>1. store \in [rollup : ChainStores("rollup"), host : ChainStores("host"),
                   order_events : SUBSET OrderEntries]
    BY DEF TypeOK, BooksType
  <2>2. others \cup {entry} \subseteq OrderEntries
    BY <1>2, <1>3, <2>1
  <2>. QED  BY ONLY <1>3, <2>1, <2>2
<1>5. TypeOK'
  BY <1>1, <1>4 DEF TypeOK, WorldType, InputsType, BooksType, LocalsType
<1>6. LocalOK' /\ AnswerOK'
  BY DEF LocalOK, AnswerOK, NoCheck, Used
<1>7. OrderEventsOK'
  <2>1. (\A i \in DOMAIN events : events[i].type = "Order" => Used(events[i].order))'
    BY <1>1 DEF Used
  <2>2. (\A e \in store.order_events : e.key = OrderEventKey(e.tx) /\ Used(e.tx))'
    BY <1>1, <1>3, <1>4 DEF OrderEventsOK, Used, OrderEventKey
  <2>. QED  BY <2>1, <2>2 DEF OrderEventsOK
<1>8. Claims'
  BY ClaimsKept
<1>. QED  BY <1>5, <1>6, <1>7, <1>8

LEMMA HandleFilledEventIInv == IInv /\ HandleFilledEvent => IInv'
<1> SUFFICES ASSUME IInv, HandleFilledEvent PROVE IInv'
  OBVIOUS
<1> USE StateManagerAssumption DEF IInv, HandleFilledEvent, EventReady, world
<1> DEFINE event == Head(events)
<1>1. /\ event \in FilledEvents
      /\ events' \in Seq(FilledEvents \cup OrderEvents)
      /\ \A i \in DOMAIN events' : events'[i].type = "Order" => Used(events'[i].order)
  BY TakeEvent DEF OrderEvents
<1>2. /\ store' \in [rollup : ChainStores("rollup"), host : ChainStores("host"),
                     order_events : SUBSET OrderEntries]
      /\ store'.order_events = store.order_events
  <2>1. event.chain \in {"rollup", "host"}
    BY <1>1 DEF FilledEvents, Chains
  <2>2. store' = [store EXCEPT ![event.chain] =
                     [store[event.chain] EXCEPT !.filled = @ \cup {event}]]
    BY <2>1 DEF InsertFilled, TypeOK, BooksType
  <2>3. [store[event.chain] EXCEPT !.filled = @ \cup {event}] \in ChainStores(event.chain)
    BY <1>1, <2>1 DEF TypeOK, BooksType, ChainStores
  <2>. QED  BY <2>1, <2>2, <2>3 DEF TypeOK, BooksType
<1>3. todo' \subseteq Pending /\ Pending \subseteq Orders
  BY DEF Candidates, Pending
<1>4. TypeOK'
  BY <1>1, <1>2, <1>3 DEF TypeOK, WorldType, InputsType, BooksType, LocalsType,
                          FilledEvents
<1>5. LocalOK' /\ AnswerOK'
  BY <1>3 DEF LocalOK, AnswerOK, NoCheck, Used, Pending
<1>6. OrderEventsOK'
  BY <1>1, <1>2 DEF OrderEventsOK, Used, OrderEventKey
<1>7. Claims'
  BY ClaimsKept
<1>. QED  BY <1>4, <1>5, <1>6, <1>7

LEMMA FindOrderTxFacts ==
  ASSUME NEW o \in Orders, IInv
  PROVE  /\ FindOrderTx(store, OrderEventKey(o)) \subseteq Orders
         /\ \A p \in FindOrderTx(store, OrderEventKey(o)) :
               OrderEventKey(p) = OrderEventKey(o) /\ Used(p)
BY DEF FindOrderTx, IInv, OrderEventsOK, TypeOK, BooksType, OrderEntries

LEMMA ConfirmFillIInv ==
  ASSUME NEW o \in Orders PROVE IInv /\ ConfirmFill(o) => IInv'
<1> SUFFICES ASSUME IInv, ConfirmFill(o) PROVE IInv'
  OBVIOUS
<1> USE StateManagerAssumption DEF IInv, world, inputs
<1> DEFINE info == [initiation |-> FindOrderTx(store, OrderEventKey(o)),
                    fills |-> current]
<1>1. /\ tracked' = [tracked EXCEPT ![o] = "filled"]
      /\ announced' = [announced EXCEPT ![o] = "filled"]
      /\ fillInfo' = [fillInfo EXCEPT ![o] = info]
      /\ todo' = todo \ {o} /\ o \in todo /\ handler = "fills"
      /\ UNCHANGED <<now, nonce, inputs, store, reply,
                     handler, check, current, client>>
  BY DEF ConfirmFill
<1>2. Sayable(o, "filled")
  BY DEF ConfirmFill, Sayable, Statuses, Terminal
<1>3. /\ FilledIsTruthful' /\ ExpiredIsTruthful' /\ ExpiredIsLate'
      /\ SubscribersUpToDate'
      /\ tracked' \in [Orders -> Statuses \cup {NotTracked}]
      /\ announced' \in [Orders -> Statuses \cup {NotTracked}]
  BY <1>1, <1>2, AnnounceClaims
<1>4. info \in [initiation : SUBSET Orders, fills : SUBSET Orders]
  BY FindOrderTxFacts DEF TypeOK, LocalsType
<1>5. info.initiation = FindOrderTx(store, OrderEventKey(o))
  OBVIOUS
<1> HIDE DEF info
<1>6. TypeOK'
  BY <1>1, <1>3, <1>4 DEF TypeOK, WorldType, InputsType, BooksType, LocalsType
<1>7. LocalOK'
  BY <1>1 DEF LocalOK, NoCheck, TypeOK, LocalsType, BooksType
<1>8. AnswerOK' /\ OrderEventsOK'
  BY <1>1 DEF AnswerOK, OrderEventsOK, Used, OrderEventKey
<1>9. InitiationMatches'
  <2>1. \A q \in Orders : fillInfo'[q] = IF q = o THEN info ELSE fillInfo[q]
    BY <1>1 DEF TypeOK, BooksType
  <2>. QED
    BY <1>1, <1>5, <2>1, FindOrderTxFacts
       DEF Claims, InitiationMatches, Used, OrderEventKey
<1>. QED  BY <1>3, <1>6, <1>7, <1>8, <1>9 DEF Claims

LEMMA RejectFillIInv ==
  ASSUME NEW o \in Orders PROVE IInv /\ RejectFill(o) => IInv'
<1> SUFFICES ASSUME IInv, RejectFill(o) PROVE IInv'
  OBVIOUS
<1> USE StateManagerAssumption DEF IInv, RejectFill, world, inputs, books
<1>1. TypeOK'
  BY DEF TypeOK, WorldType, InputsType, BooksType, LocalsType
<1>2. LocalOK' /\ AnswerOK' /\ OrderEventsOK'
  BY DEF LocalOK, AnswerOK, OrderEventsOK, NoCheck, Used, OrderEventKey
<1>3. Claims'
  BY ClaimsKept
<1>. QED  BY <1>1, <1>2, <1>3

LEMMA FillCheckedIInv == IInv /\ FillChecked => IInv'
<1> SUFFICES ASSUME IInv, FillChecked PROVE IInv'
  OBVIOUS
<1> USE StateManagerAssumption DEF IInv, FillChecked, world, inputs, books
<1>1. TypeOK'
  BY DEF TypeOK, WorldType, InputsType, BooksType, LocalsType
<1>2. LocalOK' /\ AnswerOK' /\ OrderEventsOK'
  BY DEF LocalOK, AnswerOK, OrderEventsOK, NoCheck, Used, OrderEventKey
<1>3. Claims'
  BY ClaimsKept
<1>. QED  BY <1>1, <1>2, <1>3

-----------------------------------------------------------------------------
(* register_order *)

LEMMA HeadTailType ==
  ASSUME NEW T, NEW s \in Seq(T), s # <<>>
  PROVE  Head(s) \in T /\ Tail(s) \in Seq(T)
OBVIOUS

LEMMA RegisterFacts ==
  ASSUME NEW o \in Orders, NEW c \in Clients \cup {NoClient},
         IInv, handler = "select", Register(o, c)
  PROVE  /\ handler' \in {"select", "register"}
         /\ handler' = "select" => check' = NoCheck
         /\ handler' = "register" =>
               check' = [order |-> o, clock |-> now, answer |-> "asked"]
               /\ tracked[o] = NotTracked
         /\ client' \in Clients \cup {NoClient}
         /\ reply' \in [Clients -> Statuses \cup {NotTracked}]
BY DEF Register, Ask, IInv, TypeOK, BooksType, LocalsType, LocalOK, NotTracked

LEMMA TakenRegistration ==
  ASSUME NEW o \in Orders, NEW c \in Clients \cup {NoClient},
         IInv, handler = "select", Register(o, c), InputsType',
         UNCHANGED <<world, events, tracked, store, fillInfo, announced,
                     todo, current>>
  PROVE  IInv'
<1> USE StateManagerAssumption DEF IInv, world
<1>1. /\ \/ /\ check' = NoCheck /\ handler' = "select"
         \/ /\ check' = [order |-> o, clock |-> now, answer |-> "asked"]
            /\ handler' = "register" /\ tracked[o] = NotTracked
      /\ client' \in Clients \cup {NoClient}
      /\ reply' \in [Clients -> Statuses \cup {NotTracked}]
  BY RegisterFacts
<1>2. TypeOK'
  BY <1>1 DEF TypeOK, WorldType, BooksType, LocalsType, NoCheck
<1>3. LocalOK'
  BY <1>1 DEF LocalOK, NoCheck, TypeOK, WorldType
<1>4. AnswerOK' /\ OrderEventsOK'
  BY <1>1 DEF AnswerOK, OrderEventsOK, NoCheck, Used, OrderEventKey
<1>5. Claims'
  BY ClaimsKept
<1>. QED  BY <1>2, <1>3, <1>4, <1>5

LEMMA HandleDiscoveredIInv == IInv /\ HandleDiscovered => IInv'
<1> SUFFICES ASSUME IInv, HandleDiscovered PROVE IInv'
  OBVIOUS
<1>1. discovered \in Seq(Orders) /\ discovered # <<>>
  BY DEF IInv, TypeOK, InputsType, HandleDiscovered
<1>2. Head(discovered) \in Orders /\ discovered' \in Seq(Orders)
  BY <1>1, HeadTailType DEF HandleDiscovered
<1>3. InputsType'
  BY <1>2 DEF IInv, TypeOK, InputsType, HandleDiscovered
<1>. QED  BY <1>2, <1>3, TakenRegistration DEF HandleDiscovered

LEMMA HandleTrackRequestIInv == IInv /\ HandleTrackRequest => IInv'
<1> SUFFICES ASSUME IInv, HandleTrackRequest PROVE IInv'
  OBVIOUS
<1>1. requests \in Seq([client : Clients, order : Orders]) /\ requests # <<>>
  BY DEF IInv, TypeOK, InputsType, HandleTrackRequest
<1>2. /\ Head(requests) \in [client : Clients, order : Orders]
      /\ requests' \in Seq([client : Clients, order : Orders])
  BY <1>1, HeadTailType DEF HandleTrackRequest
<1>3. UNCHANGED <<tip, changed, events, discovered>>
  BY DEF HandleTrackRequest
<1>4. InputsType'
  BY <1>2, <1>3 DEF IInv, TypeOK, InputsType
<1>. QED  BY <1>2, <1>4, TakenRegistration DEF HandleTrackRequest

LEMMA PublishRegistrationIInv ==
  ASSUME NEW o \in Orders PROVE IInv /\ PublishRegistration(o) => IInv'
<1> SUFFICES ASSUME IInv, PublishRegistration(o) PROVE IInv'
  OBVIOUS
<1> USE StateManagerAssumption DEF IInv, world, inputs
<1> DEFINE s == Verdict(o, check.clock, check.answer)
<1>1. Sayable(o, s)
  BY VerdictSayable DEF PublishRegistration
<1>2. /\ tracked' = [tracked EXCEPT ![o] = s]
      /\ announced' = [announced EXCEPT ![o] = s]
      /\ reply' = [d \in Clients |-> IF d = client THEN s ELSE reply[d]]
      /\ handler' = "select" /\ check' = NoCheck /\ client' = NoClient
      /\ UNCHANGED <<world, inputs, store, fillInfo, todo, current>>
      /\ handler = "register"
  BY DEF PublishRegistration
<1> HIDE DEF s
<1>3. /\ FilledIsTruthful' /\ ExpiredIsTruthful' /\ ExpiredIsLate'
      /\ SubscribersUpToDate'
      /\ tracked' \in [Orders -> Statuses \cup {NotTracked}]
      /\ announced' \in [Orders -> Statuses \cup {NotTracked}]
  BY <1>1, <1>2, AnnounceClaims
<1>4. reply' \in [Clients -> Statuses \cup {NotTracked}]
  BY <1>1, <1>2 DEF Sayable, TypeOK, BooksType
<1>5. TypeOK'
  BY <1>2, <1>3, <1>4 DEF TypeOK, WorldType, InputsType, BooksType, LocalsType,
                          NoCheck
<1>6. LocalOK' /\ AnswerOK' /\ OrderEventsOK'
  <2>1. LocalOK'
    BY <1>2 DEF LocalOK, NoCheck
  <2>2. AnswerOK'
    BY <1>2 DEF AnswerOK, NoCheck
  <2>3. OrderEventsOK'
    BY <1>2 DEF OrderEventsOK, Used, OrderEventKey
  <2>. QED  BY <2>1, <2>2, <2>3
<1>7. InitiationMatches'
  BY <1>2 DEF Claims, InitiationMatches, Used, OrderEventKey
<1>. QED  BY <1>3, <1>5, <1>6, <1>7 DEF Claims

-----------------------------------------------------------------------------
(* The invariant of the specification, and what follows from it. *)

LEMMA NextIInv == IInv /\ [Next]_vars => IInv'
<1> SUFFICES ASSUME IInv, [Next]_vars PROVE IInv'
  OBVIOUS
<1>1. CASE Environment
  <2>1. Cached \subseteq Orders
    BY StateManagerAssumption
  <2>. QED
    BY <1>1, <2>1, TickIInv, PublishTipIInv, UseNoncesIInv, DiscoverIInv,
       RequestIInv DEF Environment
<1>2. CASE TaskStep
  BY <1>2, HandleNewBlocksIInv, EvictTerminalIInv, HandleOrderEventIInv,
     HandleFilledEventIInv, FillCheckedIInv, HandleDiscoveredIInv,
     HandleTrackRequestIInv, CheckPendingIInv, PublishUpdateIInv,
     ConfirmFillIInv, RejectFillIInv, PublishRegistrationIInv DEF TaskStep
<1>3. CASE RpcStep
  BY <1>3, NonceAnswerIInv, NonceErrorIInv DEF RpcStep
<1>4. CASE UNCHANGED vars
  <2>1. TypeOK'
    BY <1>4 DEF vars, world, inputs, books, locals, IInv, TypeOK, WorldType,
                InputsType, BooksType, LocalsType
  <2>2. LocalOK' /\ AnswerOK' /\ OrderEventsOK'
    BY <1>4 DEF vars, world, inputs, books, locals, IInv, LocalOK, AnswerOK,
                OrderEventsOK, NoCheck, Used, OrderEventKey
  <2>3. Claims'
    BY <1>4, ClaimsKept DEF vars, world, books, IInv
  <2>. QED  BY <2>1, <2>2, <2>3 DEF IInv
<1>. QED  BY <1>1, <1>2, <1>3, <1>4 DEF Next

THEOREM Invariance == Spec => []IInv
<1>1. Init => IInv
  BY InitIInv
<1>2. IInv /\ [Next]_vars => IInv'
  BY NextIInv
<1>. QED  BY <1>1, <1>2, PTL DEF Spec

\* Every variable stays in its type.
THEOREM TypeCorrect == Spec => []TypeOK
<1>1. IInv => TypeOK
  BY DEF IInv
<1>. QED  BY <1>1, Invariance, PTL

\* Filled is only ever said of orders whose nonce is used.
THEOREM FilledTruth == Spec => []FilledIsTruthful
<1>1. IInv => FilledIsTruthful
  BY DEF IInv, Claims
<1>. QED  BY <1>1, Invariance, PTL

\* Expired is never said of an order that was used in time.
THEOREM ExpiredTruth == Spec => []ExpiredIsTruthful
<1>1. IInv => ExpiredIsTruthful
  BY DEF IInv, Claims
<1>. QED  BY <1>1, Invariance, PTL

\* The last broadcast is the tracked status, and nothing is evicted unannounced.
THEOREM Announcements == Spec => []SubscribersUpToDate
<1>1. IInv => SubscribersUpToDate
  BY DEF IInv, Claims
<1>. QED  BY <1>1, Invariance, PTL

\* A FillInfo shows the initiation of a used order with the same key.
THEOREM Initiations == Spec => []InitiationMatches
<1>1. IInv => InitiationMatches
  BY DEF IInv, Claims
<1>. QED  BY <1>1, Invariance, PTL

-----------------------------------------------------------------------------
(* The state manager implements the feed. *)

LEMMA InitFeed == Init => Feed!FeedInit
BY DEF Init, Feed!FeedInit, NotTracked, Feed!NotTracked

\* Each handler announces one order, evicts, or leaves the feed alone.
LEMMA NextFeed == IInv /\ [Next]_vars => [Feed!FeedNext]_<<tracked, announced>>
<1> SUFFICES ASSUME IInv, [Next]_vars
             PROVE  [Feed!FeedNext]_<<tracked, announced>>
  OBVIOUS
<1> USE DEF world, inputs, books, locals
<1>1. ASSUME NEW o \in Orders, NEW s, Sayable(o, s),
             tracked[o] \notin Terminal,
             tracked' = [tracked EXCEPT ![o] = s],
             announced' = [announced EXCEPT ![o] = s]
      PROVE  Feed!FeedNext
  BY <1>1 DEF Feed!FeedNext, Feed!Announce, Feed!Statuses, Feed!Terminal,
              Sayable, Statuses, Terminal
<1>2. ASSUME NEW o \in Orders, PublishUpdate(o) PROVE Feed!FeedNext
  <2>1. tracked[o] = "pending"
    BY <1>2, StateManagerAssumption DEF PublishUpdate, IInv, LocalOK, NoCheck
  <2>. QED
    BY <1>1, <1>2, <2>1, VerdictSayable DEF PublishUpdate, Terminal
<1>3. ASSUME NEW o \in Orders, ConfirmFill(o) PROVE Feed!FeedNext
  <2>1. tracked[o] = "pending" /\ Sayable(o, "filled")
    BY <1>3 DEF ConfirmFill, IInv, LocalOK, Sayable, Statuses, Terminal
  <2>. QED  BY <1>1, <1>3, <2>1 DEF ConfirmFill, Terminal
<1>4. ASSUME NEW o \in Orders, PublishRegistration(o) PROVE Feed!FeedNext
  <2>1. tracked[o] = NotTracked
    BY <1>4 DEF PublishRegistration, IInv, LocalOK
  <2>. QED
    BY <1>1, <1>4, <2>1, VerdictSayable
       DEF PublishRegistration, Terminal, NotTracked
<1>5. EvictTerminal => Feed!FeedNext
  BY DEF EvictTerminal, Feed!FeedNext, Feed!Evict, Terminal, Feed!Terminal,
         NotTracked, Feed!NotTracked
<1>6. ASSUME \/ Environment \/ RpcStep \/ UNCHANGED vars
             \/ HandleNewBlocks \/ HandleOrderEvent \/ HandleFilledEvent
             \/ FillChecked \/ HandleDiscovered \/ HandleTrackRequest
             \/ \E o \in Orders : CheckPending(o) \/ RejectFill(o)
      PROVE  UNCHANGED <<tracked, announced>>
  BY <1>6 DEF Environment, Tick, PublishTip, UseNonces, Discover, Request,
              RpcStep, NonceAnswer, NonceError, vars, HandleNewBlocks,
              HandleOrderEvent, HandleFilledEvent, FillChecked,
              HandleDiscovered, HandleTrackRequest, CheckPending, RejectFill
<1>. QED  BY <1>2, <1>3, <1>4, <1>5, <1>6 DEF Next, TaskStep

\* Listeners may rely on the feed: whatever the task interleaves with, it only
\* announces, one order at a time, and evicts what was announced as terminal.
THEOREM Refinement == Spec => ImplementsOrderFeed
<1>1. Init => Feed!FeedInit
  BY InitFeed
<1>2. IInv /\ [Next]_vars => [Feed!FeedNext]_<<tracked, announced>>
  BY NextFeed
<1>. QED
  BY <1>1, <1>2, Invariance, PTL
     DEF Spec, ImplementsOrderFeed, Feed!FeedSpec, Feed!feedVars

\* A terminal status stays until the order leaves the table.
THEOREM Finality == Spec => TerminalIsFinal
<1> DEFINE Final == \A o \in Orders : tracked[o] \in Terminal =>
                       tracked'[o] \in {tracked[o], NotTracked}
<1>1. [Feed!FeedNext]_<<tracked, announced>> /\ IInv /\ [Next]_vars => [Final]_vars
  <2> SUFFICES ASSUME [Feed!FeedNext]_<<tracked, announced>>, IInv
               PROVE  Final
    OBVIOUS
  <2>1. tracked \in [Orders -> Statuses \cup {NotTracked}]
    BY DEF IInv, TypeOK, BooksType
  <2>2. CASE UNCHANGED <<tracked, announced>>
    BY <2>2
  <2>3. CASE Feed!Evict
    BY <2>3 DEF Feed!Evict, Feed!Terminal, Feed!NotTracked, Terminal, NotTracked
  <2>4. ASSUME NEW p \in Orders, NEW s \in Feed!Statuses, Feed!Announce(p, s)
        PROVE  Final
    BY <2>1, <2>4 DEF Feed!Announce, Feed!Terminal, Terminal
  <2>. QED  BY <2>2, <2>3, <2>4 DEF Feed!FeedNext
<1>2. IInv /\ [Next]_vars => [Final]_vars
  BY <1>1, NextFeed
<1>. QED  BY <1>2, Invariance, PTL DEF Spec, TerminalIsFinal

-----------------------------------------------------------------------------
(* What a check in progress knows of the last announcement about its order. *)

Memory ==
    check # NoCheck =>
        /\ announced[check.order] = "expired" =>
              DeadlineOf[check.order] < check.clock
        /\ check.answer = "unused" => announced[check.order] # "filled"

LEMMA InitMemory == Init => Memory
BY DEF Init, Memory

\* An announcement ends the check of the order, or comes when there is none.
LEMMA NextMemory == IInv /\ Memory /\ [Next]_vars => Memory'
<1> SUFFICES ASSUME IInv, Memory, [Next]_vars PROVE Memory'
  OBVIOUS
<1> USE DEF world, inputs, books, locals
<1>1. ASSUME UNCHANGED <<check, announced>> PROVE Memory'
  BY <1>1 DEF Memory, NoCheck
<1>2. ASSUME check' = NoCheck PROVE Memory'
  BY <1>2 DEF Memory, NoCheck
<1>3. ASSUME NEW o \in Orders, check' = Ask(o), announced' = announced
      PROVE  Memory'
  BY <1>3 DEF Memory, Ask, NoCheck, IInv, Claims, ExpiredIsLate
<1>4. ASSUME \/ Environment \/ HandleNewBlocks \/ EvictTerminal
             \/ HandleOrderEvent \/ HandleFilledEvent \/ FillChecked
             \/ UNCHANGED vars
             \/ \E o \in Orders : RejectFill(o)
      PROVE  Memory'
  BY <1>1, <1>4 DEF Environment, Tick, PublishTip, UseNonces, Discover, Request,
              HandleNewBlocks, EvictTerminal, HandleOrderEvent,
              HandleFilledEvent, FillChecked, RejectFill, vars
<1>5. ASSUME NEW o \in Orders, PublishUpdate(o) \/ PublishRegistration(o)
      PROVE  Memory'
  BY <1>2, <1>5 DEF PublishUpdate, PublishRegistration
<1>6. ASSUME NEW o \in Orders, ConfirmFill(o) PROVE Memory'
  BY <1>2, <1>6 DEF ConfirmFill, IInv, LocalOK
<1>7. ASSUME NEW o \in Orders, CheckPending(o) PROVE Memory'
  BY <1>3, <1>7 DEF CheckPending
<1>8. ASSUME NEW o \in Orders, NEW c, Register(o, c), announced' = announced
      PROVE  Memory'
  BY <1>1, <1>3, <1>8 DEF Register
<1>9. CASE HandleDiscovered
  <2>1. discovered \in Seq(Orders) /\ discovered # <<>>
    BY <1>9 DEF HandleDiscovered, IInv, TypeOK, InputsType
  <2>2. Head(discovered) \in Orders
    BY <2>1, HeadTailType
  <2>. QED  BY <1>8, <1>9, <2>2 DEF HandleDiscovered
<1>10. CASE HandleTrackRequest
  <2>1. requests \in Seq([client : Clients, order : Orders]) /\ requests # <<>>
    BY <1>10 DEF HandleTrackRequest, IInv, TypeOK, InputsType
  <2>2. Head(requests) \in [client : Clients, order : Orders]
    BY <2>1, HeadTailType
  <2>3. Head(requests).order \in Orders
    BY <2>2
  <2>. QED  BY <1>8, <1>10, <2>3 DEF HandleTrackRequest
<1>11. ASSUME NEW o \in Orders, NonceAnswer(o) PROVE Memory'
  BY <1>11 DEF NonceAnswer, Memory, NoCheck, IInv, TypeOK, LocalsType, Claims,
               FilledIsTruthful
<1>12. ASSUME NEW o \in Orders, NonceError(o) PROVE Memory'
  BY <1>12 DEF NonceError, Memory, NoCheck, IInv, TypeOK, LocalsType
<1>. QED
  BY <1>4, <1>5, <1>6, <1>7, <1>9, <1>10, <1>11, <1>12
     DEF Next, TaskStep, RpcStep

\* A terminal announcement is revised only for lack of an answer, or when an
\* expired order turns out to be filled.
THEOREM Revisions == Spec => RevisedByErrorOnly
<1> DEFINE Revised ==
      \A o \in Orders :
          announced[o] \in Terminal /\ announced'[o] # announced[o] =>
             \/ announced'[o] = "filled"
             \/ /\ announced'[o] = "pending"
                /\ check.order = o /\ check.answer = "unknown"
<1>1. IInv /\ Memory /\ [Next]_vars => [Revised]_vars
  <2> SUFFICES ASSUME IInv, Memory, [Next]_vars PROVE Revised
    OBVIOUS
  <2>0. announced \in [Orders -> Statuses \cup {NotTracked}]
    BY DEF IInv, TypeOK, BooksType
  <2>1. ASSUME NEW o \in Orders, check.order = o, Answered,
               announced' = [announced EXCEPT
                                ![o] = Verdict(o, check.clock, check.answer)]
        PROVE  Revised
    <3>1. check # NoCheck
      BY <2>1, StateManagerAssumption DEF NoCheck
    <3>2. check.answer = "unused" /\ announced[o] \in Terminal
             => Verdict(o, check.clock, check.answer) = announced[o]
      BY <2>1, <3>1 DEF Memory, Verdict, StatusOf, Terminal
    <3>3. /\ check.answer = "used" => Verdict(o, check.clock, check.answer) = "filled"
          /\ check.answer = "unknown" =>
                Verdict(o, check.clock, check.answer) = "pending"
      BY DEF Verdict, StatusOf
    <3>. QED  BY <2>0, <2>1, <3>2, <3>3 DEF Answered
  <2>2. ASSUME NEW o \in Orders, PublishUpdate(o) \/ PublishRegistration(o)
        PROVE  Revised
    BY <2>1, <2>2 DEF PublishUpdate, PublishRegistration
  <2>3. ASSUME NEW o \in Orders, ConfirmFill(o) PROVE Revised
    BY <2>0, <2>3 DEF ConfirmFill
  <2>4. UNCHANGED announced => Revised
    OBVIOUS
  <2>5. ASSUME \/ Environment \/ RpcStep \/ UNCHANGED vars
               \/ HandleNewBlocks \/ EvictTerminal \/ HandleOrderEvent
               \/ HandleFilledEvent \/ FillChecked \/ HandleDiscovered
               \/ HandleTrackRequest
               \/ \E o \in Orders : CheckPending(o) \/ RejectFill(o)
        PROVE  UNCHANGED announced
    BY <2>5 DEF Environment, Tick, PublishTip, UseNonces, Discover, Request,
           RpcStep, NonceAnswer, NonceError, vars, world, inputs, books, locals,
           HandleNewBlocks, EvictTerminal, HandleOrderEvent, HandleFilledEvent,
           FillChecked, HandleDiscovered, HandleTrackRequest, CheckPending,
           RejectFill
  <2>. QED  BY <2>2, <2>3, <2>4, <2>5 DEF Next, TaskStep
<1>. QED
  BY <1>1, InitMemory, NextMemory, Invariance, PTL DEF Spec, RevisedByErrorOnly

-----------------------------------------------------------------------------
(* The fills that are shown. *)

\* The candidates still to be asked about match the event being checked.
CandidatesMatch ==
    handler = "fills" =>
        \A o \in todo : FillOutputsAreSuperset(FillOutputsOf(current), OutputsOf[o])

FillsInv == FillMatches /\ CandidatesMatch

LEMMA InitFills == Init => FillsInv
BY DEF Init, FillsInv, FillMatches, CandidatesMatch, NoInfo

\* A check is of an order that is not reported as filled: what is said of it at
\* the end leaves no fill behind.
LEMMA SaidFills ==
  ASSUME NEW o \in Orders, IInv, FillMatches, tracked[o] # "filled", NEW s,
         tracked' = [tracked EXCEPT ![o] = s], fillInfo' = fillInfo
  PROVE  FillMatches'
<1>1. tracked \in [Orders -> Statuses \cup {NotTracked}]
  BY DEF IInv, TypeOK, BooksType
<1>2. fillInfo[o].fills = {}
  BY DEF FillMatches
<1>. QED  BY <1>1, <1>2 DEF FillMatches

LEMMA NextFills == IInv /\ FillsInv /\ [Next]_vars => FillsInv'
<1> SUFFICES ASSUME IInv, FillsInv, [Next]_vars PROVE FillsInv'
  OBVIOUS
<1> USE DEF world, inputs, books, locals
<1>1. /\ tracked \in [Orders -> Statuses \cup {NotTracked}]
      /\ fillInfo \in [Orders -> [initiation : SUBSET Orders, fills : SUBSET Orders]]
  BY DEF IInv, TypeOK, BooksType
<1>2. ASSUME UNCHANGED <<tracked, fillInfo>> PROVE FillMatches'
  BY <1>2 DEF FillsInv, FillMatches
<1>3. ASSUME UNCHANGED <<handler, current>>, todo' \subseteq todo
      PROVE  CandidatesMatch'
  BY <1>3 DEF FillsInv, CandidatesMatch
<1>4. ASSUME handler' # "fills" PROVE CandidatesMatch'
  BY <1>4 DEF CandidatesMatch
<1>5. CASE Environment \/ RpcStep \/ UNCHANGED vars
  <2>1. UNCHANGED <<tracked, fillInfo, handler, current, todo>>
    BY <1>5 DEF Environment, Tick, PublishTip, UseNonces, Discover, Request,
                RpcStep, NonceAnswer, NonceError, vars
  <2>. QED  BY <1>2, <1>3, <2>1 DEF FillsInv
<1>6. CASE HandleNewBlocks
  BY <1>2, <1>4, <1>6 DEF HandleNewBlocks, FillsInv
<1>7. ASSUME NEW o \in Orders, CheckPending(o) PROVE FillsInv'
  BY <1>2, <1>3, <1>7 DEF CheckPending, FillsInv
<1>8. ASSUME NEW o \in Orders, PublishUpdate(o) PROVE FillsInv'
  <2>1. tracked[o] # "filled"
    BY <1>8, StateManagerAssumption DEF PublishUpdate, IInv, LocalOK, NoCheck
  <2>2. FillMatches'
    BY <1>8, <2>1, SaidFills DEF PublishUpdate, FillsInv
  <2>. QED  BY <1>3, <1>8, <2>2 DEF PublishUpdate, FillsInv
<1>9. ASSUME NEW o \in Orders, PublishRegistration(o) PROVE FillsInv'
  <2>1. tracked[o] # "filled"
    BY <1>9 DEF PublishRegistration, IInv, LocalOK, NotTracked
  <2>2. FillMatches'
    BY <1>9, <2>1, SaidFills DEF PublishRegistration, FillsInv
  <2>. QED  BY <1>4, <1>9, <2>2 DEF PublishRegistration, FillsInv
<1>10. CASE EvictTerminal
  <2>1. FillMatches'
    BY <1>1, <1>10 DEF EvictTerminal, FillsInv, FillMatches, NoInfo, Terminal
  <2>. QED  BY <1>4, <1>10, <2>1 DEF EvictTerminal, FillsInv
<1>11. CASE HandleOrderEvent
  BY <1>2, <1>3, <1>11 DEF HandleOrderEvent, FillsInv
<1>12. CASE HandleFilledEvent
  <2>1. CandidatesMatch'
    BY <1>12 DEF HandleFilledEvent, CandidatesMatch, Candidates, FillOutputsOf
  <2>. QED  BY <1>2, <1>12, <2>1 DEF HandleFilledEvent, FillsInv
<1>13. ASSUME NEW o \in Orders, ConfirmFill(o) PROVE FillsInv'
  <2>1. FillOutputsAreSuperset(FillOutputsOf(current), OutputsOf[o])
    BY <1>13 DEF ConfirmFill, FillsInv, CandidatesMatch
  <2>2. /\ tracked'[o] = "filled" /\ fillInfo'[o].fills = current
        /\ \A p \in Orders \ {o} : /\ tracked'[p] = tracked[p]
                                   /\ fillInfo'[p] = fillInfo[p]
    BY <1>1, <1>13 DEF ConfirmFill
  <2>3. FillMatches'
    BY <2>1, <2>2 DEF FillsInv, FillMatches
  <2>. QED  BY <1>3, <1>13, <2>3 DEF ConfirmFill, FillsInv
<1>14. ASSUME NEW o \in Orders, RejectFill(o) PROVE FillsInv'
  BY <1>2, <1>3, <1>14 DEF RejectFill, FillsInv
<1>15. CASE FillChecked
  BY <1>2, <1>4, <1>15 DEF FillChecked, FillsInv
<1>16. CASE HandleDiscovered \/ HandleTrackRequest
  <2>1. UNCHANGED <<tracked, fillInfo>> /\ handler' \in {"select", "register"}
    BY <1>16 DEF HandleDiscovered, HandleTrackRequest, Register
  <2>. QED  BY <1>2, <1>4, <2>1 DEF FillsInv
<1>. QED
  BY <1>5, <1>6, <1>7, <1>8, <1>9, <1>10, <1>11, <1>12, <1>13, <1>14, <1>15, <1>16
     DEF Next, TaskStep

\* The fill shown of an order paid all its outputs, and the order is reported as
\* filled, however many orders the Filled event matched.
THEOREM ShownFills == Spec => []FillMatches
BY InitFills, NextFills, Invariance, PTL DEF Spec, FillsInv
=============================================================================

