----------------------------- MODULE FillSearch -----------------------------
(***************************************************************************)
(* The search for the transaction that filled an order                     *)
(* (crates/tracker/src/fill_search.rs), and what it searches: the Order    *)
(* and Filled events of the rollup and the Filled events of the host.      *)
(*                                                                         *)
(*   tip         the rollup's latest block; its host block is HostOffset   *)
(*               further on                                                *)
(*   nonceUsed   the order's Permit2 nonce                                 *)
(*   orderLogs    the Order events of the rollup, oldest first             *)
(*   filledLogs   the Filled events of both chains, those of one chain     *)
(*                oldest first                                             *)
(*                                                                         *)
(* A log is readable when it has its hash and block and can be decoded.    *)
(***************************************************************************)
EXTENDS FillOutputs

CONSTANTS
    Own,          \* the transaction that initiates and fills the order
    Others,       \* the other transactions
    Output,       \* the outputs that occur
    FillsOf,      \* the outputs a transaction's Filled event may have
    Outputs,      \* the outputs of the order
    Window,       \* find_fill looks back this far (300 in the code)
    HostOffset,   \* host block number of rollup block 0
    MaxBlock      \* bound: the last block

Txs == {Own} \cup Others

Chains == {"rollup", "host"}

\* The own transaction fills the order.
ASSUME FillSearchAssumption ==
    /\ Own \notin Others
    /\ Outputs \in Seq(Output)
    /\ \A tx \in Txs : FillsOf[tx] \subseteq Seq(Output)
    /\ \A fill \in FillsOf[Own] : FillOutputsAreSuperset(fill, Outputs)
    /\ Window \in Nat /\ HostOffset \in Nat /\ MaxBlock \in Nat

VARIABLES tip, nonceUsed, orderLogs, filledLogs

chainVars == <<tip, nonceUsed, orderLogs, filledLogs>>

ChainInit ==
    /\ tip = 0 /\ nonceUsed = FALSE
    /\ orderLogs = <<>> /\ filledLogs = <<>>

-----------------------------------------------------------------------------
(* The chains. A transaction initiates an order, and an event on one of the   *)
(* chains fills it in the same block. Whether the others have the deadline of *)
(* the order under inspection is left open; and whether a log of its own      *)
(* cannot be read. (One of another transaction that cannot be read is passed  *)
(* over like one that does not match.)                                        *)

Inclusions(tx) ==
    [tx : {tx}, deadline : IF tx = Own THEN {TRUE} ELSE BOOLEAN,
     chain : Chains, outputs : FillsOf[tx],
     unreadable : IF tx = Own THEN {"none", "Order", "Filled"} ELSE {"none"}]

Mined(tx) == \E i \in DOMAIN orderLogs : orderLogs[i].tx = tx

BlockOn(chain, n) == IF chain = "host" THEN HostOffset + n ELSE n

OrderLog(inc, n) ==
    [block |-> n, tx |-> inc.tx, deadline |-> inc.deadline,
     readable |-> inc.unreadable # "Order"]

FilledLog(inc, n) ==
    [chain |-> inc.chain, block |-> BlockOn(inc.chain, n), tx |-> inc.tx,
     outputs |-> inc.outputs, readable |-> inc.unreadable # "Filled"]

\* A block of the rollup, and of the host, with these transactions in this order.
Mine(block) ==
    /\ tip < MaxBlock
    /\ tip' = tip + 1
    /\ orderLogs' = orderLogs \o [i \in DOMAIN block |-> OrderLog(block[i], tip + 1)]
    /\ filledLogs' = filledLogs \o [i \in DOMAIN block |-> FilledLog(block[i], tip + 1)]
    /\ nonceUsed' = (nonceUsed \/ \E i \in DOMAIN block : block[i].tx = Own)

\* Each transaction is mined once, the order's only while its nonce is unused.
NextBlocks ==
    LET open == {tx \in Txs : ~Mined(tx) /\ (tx = Own => ~nonceUsed)}
        incs == UNION {Inclusions(tx) : tx \in open}
    IN  {<<>>} \cup {<<a>> : a \in incs}
        \cup {<<p[1], p[2]>> : p \in {q \in incs \X incs : q[1].tx # q[2].tx}}

\* The owner invalidates the nonce; there is no event.
Revoke ==
    /\ ~nonceUsed
    /\ nonceUsed' = TRUE
    /\ UNCHANGED <<tip, orderLogs, filledLogs>>

-----------------------------------------------------------------------------
(* The queries, as sets of at most one result. *)

First(logs, Matches(_)) ==
    LET hits == {i \in DOMAIN logs : Matches(logs[i])}
    IN  {logs[i] : i \in {h \in hits : \A k \in hits : h <= k}}

\* The last element takes the place of the one removed.
SwapRemove(s, i) == [k \in 1 .. Len(s) - 1 |-> IF k = i THEN Last(s) ELSE s[k]]

\* A fill output may serve several order outputs.
Bug_Covers(fills, outputs) ==
    \A o \in DOMAIN outputs : \E f \in DOMAIN fills : fills[f].asset = outputs[o].asset

\* The positions of the outputs that serve the expected one.
Hits(available, expected) ==
    {i \in DOMAIN available : available[i].asset = expected.asset}

\* The first of them is taken. (Without one the loop is over.)
Serve(available, expected) ==
    LET hits == Hits(available, expected)
    IN  IF hits = {} THEN available
        ELSE SwapRemove(available, CHOOSE h \in hits : \A k \in hits : h <= k)

\* The outputs available when the first n have been served.
Available(fills, outputs) ==
    LET left[n \in 0 .. Len(outputs)] ==
            IF n = 0 THEN fills ELSE Serve(left[n - 1], outputs[n])
    IN  left

\* fill_outputs_are_superset_of_order_outputs, as the loop computes it.
Covers(fills, outputs) ==
    LET left == Available(fills, outputs)
    IN  \A n \in DOMAIN outputs : Hits(left[n - 1], outputs[n]) # {}

\* find_fill_events, in one block.
FindFillEvents(chain, block) ==
    First(filledLogs,
          LAMBDA log : /\ log.chain = chain /\ log.block = block /\ log.readable
                       /\ Covers(log.outputs, Outputs))

\* The window is a block short.
Bug_InWindow(n, last) == last - n < Window /\ n <= last

\* ru_start ..= ru_tip; the subtraction saturates at 0.
InWindow(n, last) == n + Window >= last /\ n <= last

\* find_order_initiation: the first event with the deadline.
FindOrderInitiation(last) ==
    First(orderLogs,
          LAMBDA log : InWindow(log.block, last) /\ log.readable /\ log.deadline)
=============================================================================
