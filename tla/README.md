# TLA+ specifications of the Signet order tracker

The order tracker watches a transaction cache and two chains, keeps the status
of every order it knows (`Pending`, `Filled`, `Expired`) and tells WebSocket
clients when it changes. These modules model the tasks of the server and the
calls of the tracker library, and check what they promise: that a status is true
of the chain when it is given, that everybody who listens is told, that nothing
is forgotten, and that the process ends the way it should. Paths below are relative to `crates/`.

## Inventory

| Component | State | Operations | Interacts with | Hard behaviour | What makes it correct |
|---|---|---|---|---|---|
| State manager `tracker-server/src/state/state_manager.rs`, `tracked_order.rs` | `tracked_orders`, `event_store` | `handle_new_blocks`, `handle_chain_event`, `check_fills_against_pending`, `register_order`, snapshot | mpsc channels from the watchers, discovery and the handlers; watch channels of tips and hashes; broadcast to the handlers; RPC node | awaits in the middle of every handler, biased select, lost events, failing RPC | statuses are true, listeners are told every status, terminal is final, every order concludes |
| Event store `state/event_store.rs` | Filled events per chain, Order events by key | `update_tips`, `insert_filled`, `insert_order`, `find_order_tx` | owned by the state manager | two unrelated block numberings, chains shorter than the window, late events | holds exactly the retention window |
| Status decision `tracker/src/order_tracker.rs`, `order_status.rs`, `order_diagnostics.rs` | none | `status`, `status_for_order`, `is_nonce_consumed`, `find_fill`, balance and allowance checks | RPC nodes of both chains, tx-cache | the clock and the chain move during the call; each query may fail | `Filled` and `Expired` are never said wrongly; a fill that can be found is; summaries say what the checks support |
| Fill matching `tracker/src/fill_search.rs` | none | superset of outputs, log searches | RPC nodes | duplicates, orders with equal outputs or deadline | a multiset comparison |
| HTTP status endpoint `service.rs` | none | one call of `status` per request | status decision | errors of the call | the call's answer, 404 or 500 |
| WebSocket sessions `tracker-server/src/ws/handlers.rs` | one handler per connection | lookup, register or subscribe and snapshot, receive, filter, send, close | state manager, broadcast ring, client | subscription races with updates, overrun of the ring, slow clients | a client that has read everything shows what was announced |
| Order discovery `ingestion/order_discovery.rs` | `seen_hashes` | poll, publish hashes, forward new orders | tx-cache, state manager | polls that fail half-way, orders that come back | every listed order is forwarded once |
| Block watcher `ingestion/block_watcher.rs` | last tip | receive rollup header, poll host, publish | RPC nodes, state manager | lag, a host that does not advance, reorganisations, cancellation in a poll | no header is left behind, the host's tip advances |
| Event watcher `ingestion/event_watcher.rs` | none | receive log, decode, forward | RPC node, state manager | lag, full channel, a receiver that is gone | what arrives is forwarded, once and in order |
| Task supervision `lib.rs`, `service.rs` | cancellation token, join handles | startup, signals, `handle_task_exit`, join | all tasks | several tasks end at once, closed channels, blocked sends, panics | `Ok` only when asked, errors name their cause, any exit ends all |
| Token symbols `tracker/src/token_symbol_cache.rs` | map behind a lock | `resolve` | RPC node | two lookups race, a failure is cached | a settled entry stays |
| Provider connections `config.rs` | none | connect with retry | RPC nodes, tx-cache | transient and permanent errors | retried until connected or permanent |

`PROJECT.json` lists the hazards line by line, each with the properties that
would catch it, or the reason why none does.

## Modules

* `OrderStatus` — the statuses, and which one follows from the clock and the nonce
  (`StatusOf`); `FillOutputs` — the output comparison, as the
  multiset inclusion it means; `EventStore` — the event store as operators on a
  value, shared by the two state machines that use it.
* `OrderFeed` — the abstract specification: a table of tracked orders, an
  announcement on every change, terminal orders that leave the table together.
* `StatusCheck` — the abstract specification of one `status_for_order`: the clock
  is read, the nonce is answered and decides the status, and nothing that is asked
  for after that changes it. `StateManager` has this much of the call.
* `StateManager` — the detailed one, shown to implement `OrderFeed`. It is one
  task, so a handler is cut only where it awaits: `HandleNewBlocks` takes the
  tip and collects the pending hashes, `CheckPending` reads the clock and asks
  for a nonce, `NonceAnswer` or `NonceError` is the RPC node, `PublishUpdate`
  stores and broadcasts, `EvictTerminal` ends the handler; likewise
  `HandleFilledEvent` with `ConfirmFill` and `RejectFill`, and `HandleDiscovered`
  or `HandleTrackRequest` with `PublishRegistration`. The order of the guards is
  the biased order of the select. The world around it (clock, nonces, logs, tips,
  discovery, requests) moves at any time. A transaction uses the nonces of any
  set of orders, and any part of its logs reaches the event watcher, in any
  order: this stands for lagging subscriptions, fills on the host (which is not
  watched) and nonces that their owner revoked.
* `EventStoreWindow` — the store under any sequence of its operations, beside a
  record of everything it was given.
* `WsHandlers` — the sessions on top of `OrderFeed` (its `Announce` and `Evict`
  steps are the state manager), with the broadcast ring. It extends the abstract
  feed, not `StateManager`: the refinement makes that enough. A handler that ends
  drops what it holds (`Drop`).
* `OrderDiscovery` — the polling task.
* `TaskSupervision` — the process: startup with its nine connections and their
  retries, five tasks as far as their ends are concerned, `handle_task_exit`
  split between its check and its cancellation, and the join. The watchers, the
  discovery and the state manager drop their channels when they have ended, after
  `handle_task_exit`, because the function that calls it owns them. The server
  drops the request senders before: `serve_tracker` moves its `AppState` into the
  async block (`service.rs:113`) that has ended when the exit is handled (line
  132). `Dropped` makes the difference.
* `Subscription` — the queue behind a node's subscription, and the cancellation
  token, which the two watchers share. `BlockWatcher` — the first block numbers,
  the header loop, `poll_host_tip` with tick and answer apart, the watch channel
  and its consumer. `EventWatcher` — the log loop, the send that waits for room,
  and the other end of the channel. `Ingestion` composes them on one rollup node:
  a block is announced to both, and one token stops both.
* `TipFeed` — the abstract specification of the block watcher: a channel that
  always holds a tip once it exists, in which the host's number never falls.
* `TokenSymbols` — the symbol cache under any callers; a lookup and its answer
  are two steps. `FillSearch` — the chains as the logs of their orders contracts,
  and the searches over them: one sequence of Filled logs for both chains, each log
  with its chain; `Covers` is the loop with its `swap_remove` (`Available`: the
  vector after each output).
  `OrderTracker` composes them: one call of `status` with a step per RPC request,
  each of which may fail, while blocks are mined and other callers look symbols
  up. Which of the joined searches answers first is left open.
* `MCStateManager`, `MCWsHandlers`, `MCOrderTracker` — values for the model
  checker.
* `StateManagerProofs`, `EventStoreWindowProofs`, `OrderDiscoveryProofs`,
  `WsHandlersProofs`, `TaskSupervisionProofs`, `IngestionProofs`,
  `FillSearchProofs`, `OrderTrackerProofs`.

Three refinements tie the levels together: `StateManager` implements `OrderFeed`,
`BlockWatcher` implements `TipFeed`, and `OrderTracker` implements `StatusCheck`,
all as `INSTANCE ... WITH` and all checked and proved. `StateManager!Ask`,
`NonceAnswer` or `NonceError`, and `Verdict` stand for the `ReadClock`, `Decide` and
`Return` of `StatusCheck`, with the deadlines written out; its `PublishTip` and
`HandleNewBlocks` stand for a `Replace` and a `Take` of `TipFeed`.

Definitions named `Bug_...` are wrong variants of the definition that follows
them (a dropped guard, a swapped order); substituting one must violate the
property it is paired with in `PROJECT.json`. No specification uses them.

## Runs

| Run | Bounds | What it shows |
|---|---|---|
| `StateManager.cfg` | 2 orders with deadline 0, one of them in the tx-cache and the other asked for by 1 client; clock to 1; block numbers to 1; retention 0 | statuses are truthful, fills shown pay the order, listeners up to date, terminal is final, `OrderFeed` is implemented (1.5 million states) |
| `StateManagerLive.cfg` | 1 order, under fairness | orders conclude and requests are answered |
| `StateManagerTwins.cfg` | as the first, with equal outputs | an order is shown with the initiation of another |
| `EventStoreWindow.cfg` | 2 keys, blocks 0 to 2, retention 1 | the store is exactly its window, for both chains (1.7 million states) |
| `Ws.cfg` | 2 orders, a single-order and an all-orders session, ring of 2, 2 filters, under fairness | a session that caught up is current, no gap between snapshot and updates, a terminal update ends a session (470,000 states) |
| `WsSingleCloses.cfg` | 2 orders, a single-order session, ring of 2 | the gap between report and subscription leaves a connection open |
| `OrderDiscovery.cfg` | 2 orders, under fairness | no duplicates, bounded memory, listed orders are forwarded |
| `OrderDiscoveryLoss.cfg` | as above | an order collected by a failed poll is lost |
| `TaskSupervision.cfg` | the 5 tasks, at most 1 panic, under fairness | the result is right, errors lead to their causes, any exit or signal ends everything, also while connecting (168,000 states) |
| `TaskSupervisionServer.cfg` | as above, without fairness | the server's error is lost when the state manager reports its closed channel first |
| `Ingestion.cfg` | blocks 0 to 2 on each chain, subscriptions of 1, event channel of 1, 2 logs, under fairness | the newest header is shown, tips are published when the host advances, events arrive once and in order, a shutdown ends both watchers, `TipFeed` is implemented (295,000 states) |
| `OrderTracker.cfg` | blocks 0 to 3 of up to 2 transactions, the order's own and one more; a window of 1; 2 equal outputs; 2 inputs; 2 callers, 2 tokens | a fill shown covers the order, no fill that can be found is missed, summaries are sound, symbols settle, `StatusCheck` is implemented (2.7 million states) |

Why the bounds are enough. Two orders let one fill cover both, cover one and
match the other, or replace the other's key; the client asks for either, so both
ways of registration race for one order. Deadline 0 with a clock of two values
has the instants before and after, and a block number above the cutoff and one
below exist with retention 0. No update relates three orders. A ring of two is
overrun while something is left in it. The last block number (`MaxBlock`) stands
for all later ones, so tips never cease; the clock stops at `MaxTime`.
Subscriptions and a channel of 1 are full with one item, so that the second of
two headers or logs overruns the one and waits for the other; two host blocks
let a poll succeed, and find nothing new again. Two logs do not fill the channel,
the send and the subscription at once; that nothing else is lost then either, and
the order kept, is proved for any capacities. Rollup and host may go back, so a
header need not be higher than the one before. In `OrderTracker` the window of 1
with block numbers to 3 puts the order's block inside, at the edge of and outside
the window; the other transaction may have the order's deadline, lie in the same
or an earlier block and fill too little, as much or more; two equal outputs
against fills that hold one or two of them make the multiset count. Two inputs
let one check fail before or after one that is short; the second caller races
for either token.

`CHECK_DEADLOCK FALSE` is set where the system may rightly come to rest: sessions
that are closed, a store with nothing to advance, a process that is over, watchers
at the last block, a call that was answered.

## Fairness

* State manager: the task runs when it can (weak fairness); an arm of its select
  that is ready with no better arm ready again and again is taken (strong
  fairness of each arm). Tips keep coming; an RPC node that is asked about an
  order again and again answers in the end. `RequestsAnswered` excuses the case
  where inputs of higher preference never cease: the select is biased.
* Sessions are tasks; sends end within `WS_SEND_TIMEOUT`.
* Discovery: the interval ticks, and a poll completes again and again; polls may
  fail as often as they like in between.
* Supervision: tasks run; a select takes a ready `cancelled()`; clients leave in
  the end (a session holds the request channels open); orders and events keep
  coming, so that a send to a state manager that is gone is tried. A connection is
  not assumed to be made: `ExitEndsAll` is about what follows a signal or an end.
* Watchers: each runs when it can, the nodes answer, and a state manager that is
  told to stop does. The select of `poll_host_tip` is not biased: it picks a ready
  arm at random, so its cancelled arm is taken only in the end (strong fairness of
  `PollCancelled`). Nothing makes the chains go on, nor the state manager read.

## Proofs

TLAPS proves, for any orders, deadlines, outputs, retention and bounds:

* `StateManagerProofs`: `TypeOK`, `FilledIsTruthful`, `ExpiredIsTruthful`,
  `SubscribersUpToDate`, `InitiationMatches`, `TerminalIsFinal` and the
  refinement of `OrderFeed`. None of the claims is inductive: a published status
  is right because of what the task remembers across an await. The invariant
  `IInv` adds exactly that. `LocalOK`: the order being checked is still pending
  (or not tracked, when registering) and no longer in `todo`, and the clock it
  was checked with is in the past. `AnswerOK`: an answer stays good; a nonce that
  was unused after the deadline was not used in time. `OrderEventsOK`: stored and
  queued Order events are of used orders. `ExpiredIsLate`: what was called
  expired is past its deadline. One lemma per action, then `Refinement` and
  `Finality` from the same invariant, since only pending orders are updated.
  `RevisedByErrorOnly` follows too: an answer that is not an error is the truth
  about the nonce, which neither leaves "filled" nor, past the deadline, goes back.
  `FillMatches` needs one more fact across the awaits of the fill loop: the
  candidates left are still those that the event matches (`CandidatesMatch`).
* `EventStoreWindowProofs`: the store equals its window for both chains and the
  Order events; the tips never go back, so what was pruned would be pruned again.
* `OrderDiscoveryProofs`: `NoDuplicates` and `SeenIsListed`, from two facts that
  failed polls preserve: what was forwarded stays marked (`ForwardedIsSeen`), and
  what a poll has yielded is marked (`CollectedIsSeen`).
* `WsHandlersProofs`: both views. `LastIs(q, o, s)` says that the last update about
  `o` in a queue is `s`; the invariant says that it is the announced status, and
  that an order without any is shown right by what has been sent or is left of the
  snapshot (`Ahead`). The lemmas `AppendUpdate` and `ReadUpdate` are all that the
  actions need of sequences.
* `TaskSupervisionProofs`: `OkMeansAsked` and `ErrorsAreCauses`, from knowing why
  the token is cancelled (`TokenCause`), that it is when a task has ended or is
  about to (`TokenSet`), and why each task left (`LeavingCause`): for a failure of
  its own or, the state manager, one of the server, whose senders go before the
  token is cancelled. Of nobody else does a closed channel tell before the token
  does. That the server itself reports its failure does not hold
  (`ServerErrorKept`, below).
* `IngestionProofs`: `NewestHeaderShown`, from where the newest header is at every
  stage (`NewestKept`); `HostAdvances` and the refinement of `TipFeed`, from the
  list of steps that write to the channel (`Publications`); and `OrderKept`, from
  the ids of the logs in each queue being below those of the queues behind it.
  `NothingElseLost`, from the same equation with what holds before the
  subscription (`AllKept`): a step moves a log from the front of one queue to the
  end of the next, and the events among the logs of two queues are those of the
  one and then of the other (`KnownConcat`).
* `FillSearchProofs`: `LoopIsSuperset`, that the loop with `swap_remove` computes
  multiset inclusion, for outputs of any length. `LoopCounts` counts: after `n`
  outputs were served, as many fill outputs of each asset are left as there were,
  less those among the `n`. It is what allows `StateManager` to be written with
  `FillOutputsAreSuperset`. Then what the searches return (`FoundFill`,
  `FoundInitiation`), and that new blocks do not change what a search of the old
  ones finds (`SearchesStable`).
* `OrderTrackerProofs`: `SufficiencySound`, from what the summary says half-way
  through a loop (`Underway`: the last of the bad news counts); `SymbolsSettle`;
  `TypeOK`, `ShownFillCovers` and `FillFound`, from the inductive `TrackerInv`. It
  says of the chains that each transaction is mined once, up to the tip, and that
  its two logs belong together (`ChainOK`); of the call that its initiation is what
  a search up to `seen` would find now (`InitiationFound`), that what is on the
  rollup in that block is in the result until an error empties it (`RollupFound`),
  and that such an error is noted. Last the refinement of `StatusCheck`.

Where a proof needs induction (over the iterations of the loop, over the logs of a
queue), it is a lemma about the least counterexample in a set of numbers
(`SetInduction`, `Induction`), since a theorem about an arbitrary predicate cannot
be instantiated by the provers.

The assumptions are the named `ASSUME`s of the modules (finite sets, deadlines
and bounds in `Nat`, capacities above 0, `NoOrder` no order, the fills of the
order's own transaction cover its outputs, which the orders contract enforces),
which TLC evaluates in every run.

Only model-checked: liveness (`OrdersConclude`, `RequestsAnswered`,
`TerminalEnds`, `ListedIsForwarded`, `ExitEndsAll`, `HeadersPublished`,
`BothStop`), which needs fairness and `ENABLED`, out of the prover's reach. Every
invariant, action property and refinement that a passing run checks is a theorem.

## Disagreements with the documentation

* `state/event_store.rs:24` calls the key of an Order event unique to the order;
  orders with equal deadline and outputs share it (line 165).
* `ws/handlers.rs:28` says a single-order connection closes when its order
  reaches a terminal state; an update between the report and the subscription
  (line 98) is never received and never repeated.
* `service.rs:104` says `serve_tracker` returns "an error if the server exits
  unexpectedly"; when the port cannot be bound the request senders are dropped
  (line 113) before the exit is handled (line 132), so the state manager may report
  "track request channel closed" first, and the server's error is taken for a
  shutdown.
* `ingestion/order_discovery.rs:13` says new orders are forwarded; a poll that
  fails half-way (line 78) leaves what it collected marked as seen.

`lib.rs:46` says that awaiting the handles "completes when any task exits". It
does in the end (`ExitEndsAll`), because any exit brings the others down.

`tracker/src/order_status.rs:10` says a pending order's "deadline has not passed";
`order_tracker.rs:72` calls any order pending whose nonce check fails. The models
have it (`NonceError`), and `RevisedByErrorOnly` and `OrdersConclude` say what comes
of it: only such an error takes back what was announced, and the next check on a
block that is answered sets it right.

The initiation shown in a `FillInfo` may be another order's: the status call takes
the first Order event of the window with the order's deadline
(`fill_search.rs:174`).

Also worth knowing, and in the models as it is:
`find_fill` searches the host at the block number the rollup gave the initiation
(`order_tracker.rs:258`); the error of one chain's search discards what the other
found (line 264); the symbols of rollup outputs are asked of the host's provider
and remembered as unknown (line 300); an input that is short followed by one whose
check fails is summarised as unknown, in the other order as false (lines 140 and
152); a cancelled poll publishes the waiting header with the host's old number
(`block_watcher.rs:167`).

## Not modelled

* Formatting, serialisation, metrics, error wording, the configuration's parsing
  and the example clients: no state that another part depends on.
* `find_matching_fill`, a query that nothing calls; the refusal of a hash that does
  not parse (400), which touches nothing.
* `is_in_cache`: it is read, possibly stale, and passed through to the client.
* The `removed` flag of a log, as in the code: such a log is one more log.
* Reorganisations, outside the watchers: in `StateManager` and `EventStoreWindow`
  a nonce that was used stays used and the tips do not go back. In `Ingestion`
  both chains may go back.
* A wall clock that is set back. Block numbers and times near 2^64.
* `StateManager` treats the reply and the broadcast of a registration as one step.
* A node that never answers the first block numbers: nothing in the code ends that
  wait, and `ExitEndsAll` assumes that it does not happen.

## Plan

What could follow: a run of `StateManager` with `TipFeed` in the place of
`PublishTip`, and a store whose rollup tip goes back; `Ingestion` with larger
queues.
