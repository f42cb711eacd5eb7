---------------------------- MODULE OrderTracker ----------------------------
(***************************************************************************)
(* One call of OrderTracker::status (crates/tracker/src/order_tracker.rs)  *)
(* for one order, as the HTTP endpoint makes it                            *)
(* (tracker-server/src/service.rs), while blocks are mined between its RPC *)
(* requests and other calls use the symbol cache.                          *)
(*                                                                         *)
(*   pc          the request that is awaited next                          *)
(*   late        the clock was past the deadline when it was read          *)
(*   seen        the rollup tip find_fill works with                       *)
(*   initiation  the Order event it found                                  *)
(*   found       what the search on each chain returned                    *)
(*   info        the fill to be shown                                      *)
(*   next        the input or output whose turn it is                      *)
(*   checks, allSufficient   the balance and the allowance checks          *)
(*   failed      an RPC of the call returned an error (for the properties  *)
(*               only)                                                     *)
(*   answer      the response: a status, or "404", "500"                   *)
(***************************************************************************)
EXTENDS FillSearch, TokenSymbols, OrderStatus

CONSTANTS
    Me,       \* this call, one of the Callers
    Inputs    \* tokens of permit.permitted

ASSUME OrderTrackerAssumption ==
    /\ Me \in Callers /\ Inputs \in Seq(Tokens)
    /\ \A o \in Output : o.token \in Tokens

VARIABLES pc, late, seen, initiation, found, info, next,
          checks, allSufficient, failed, answer

search   == <<seen, initiation, found, info>>
reports  == <<checks, allSufficient>>
callVars == <<pc, late, search, next, reports, failed, answer>>
vars     == <<chainVars, symbolVars, callVars>>

Kinds == {"balance", "allowance"}

Init ==
    /\ ChainInit /\ SymbolsInit
    /\ pc = "fetch" /\ late = FALSE
    /\ seen = 0 /\ initiation = {} /\ found = [c \in Chains |-> "awaited"]
    /\ info = {} /\ next = 1
    /\ checks = [k \in Kinds |-> <<>>] /\ allSufficient = [k \in Kinds |-> "true"]
    /\ failed = FALSE /\ answer = "none"

Respond(a) == pc' = "done" /\ answer' = a

-----------------------------------------------------------------------------
(* status, status_for_order *)

\* The tx-cache has the order, or not, or fails; then the clock is read.
FetchOrder ==
    /\ pc = "fetch"
    /\ \/ pc' = "nonce" /\ late' \in BOOLEAN /\ UNCHANGED answer
       \/ Respond("404") /\ UNCHANGED late
       \/ Respond("500") /\ UNCHANGED late
    /\ UNCHANGED <<chainVars, symbolVars, search, next, reports, failed>>

CheckNonce ==
    /\ pc = "nonce"
    /\ pc' = IF nonceUsed THEN "tip" ELSE "balance"
    /\ UNCHANGED <<chainVars, symbolVars, late, search, next, reports, failed, answer>>

\* build_pending_unknown_nonce, whatever the clock said.
NonceFails ==
    /\ pc = "nonce"
    /\ allSufficient' = [k \in Kinds |-> "unknown"]
    /\ failed' = TRUE
    /\ Respond("pending")
    /\ UNCHANGED <<chainVars, symbolVars, late, search, next, checks>>

-----------------------------------------------------------------------------
(* find_fill; an error of it counts as no fill information. *)

\* The host's provider is asked.
Bug_GetTip ==
    /\ pc = "tip"
    /\ seen' = BlockOn("host", tip) /\ pc' = "initiation"
    /\ UNCHANGED <<chainVars, symbolVars, late, initiation, found, info, next, reports,
                   failed, answer>>

GetTip ==
    /\ pc = "tip"
    /\ seen' = tip /\ pc' = "initiation"
    /\ UNCHANGED <<chainVars, symbolVars, late, initiation, found, info, next, reports,
                   failed, answer>>

FindInitiation ==
    /\ pc = "initiation"
    /\ initiation' = FindOrderInitiation(seen)
    /\ IF initiation' = {} THEN Respond("filled") ELSE pc' = "search" /\ UNCHANGED answer
    /\ UNCHANGED <<chainVars, symbolVars, late, seen, found, info, next, reports, failed>>

SearchFails ==
    /\ pc \in {"tip", "initiation"}
    /\ failed' = TRUE
    /\ Respond("filled")
    /\ UNCHANGED <<chainVars, symbolVars, late, search, next, reports>>

\* The block number of the initiation on the rollup is used on both chains.
SearchFill(chain) ==
    /\ pc = "search" /\ found[chain] = "awaited"
    /\ found' = [found EXCEPT ![chain] = "ok"]
    /\ info' = info \cup UNION {FindFillEvents(chain, i.block) : i \in initiation}
    /\ UNCHANGED <<chainVars, symbolVars, pc, late, seen, initiation, next, reports,
                   failed, answer>>

SearchFillFails(chain) ==
    /\ pc = "search" /\ found[chain] = "awaited"
    /\ found' = [found EXCEPT ![chain] = "error"]
    /\ failed' = TRUE
    /\ UNCHANGED <<chainVars, symbolVars, pc, late, seen, initiation, info, next, reports,
                   answer>>

\* The host's result comes first.
Bug_Preferred(fills) ==
    IF \E f \in fills : f.chain = "host" THEN {f \in fills : f.chain = "host"} ELSE fills

\* ru_result.or(host_result)
Preferred(fills) ==
    IF \E f \in fills : f.chain = "rollup" THEN {f \in fills : f.chain = "rollup"} ELSE fills

\* Both have answered. An error of either discards what the other found.
Join ==
    /\ pc = "search" /\ \A c \in Chains : found[c] # "awaited"
    /\ info' = IF \E c \in Chains : found[c] = "error" THEN {} ELSE Preferred(info)
    /\ IF info' = {} THEN Respond("filled") ELSE pc' = "names" /\ UNCHANGED answer
    /\ UNCHANGED <<chainVars, symbolVars, late, seen, initiation, found, next, reports, failed>>

\* resolve_fill_output_symbols: with the host's provider, on whichever chain the
\* token is.
NameOutput ==
    /\ pc = "names" /\ ~Looking(Me)
    /\ \E f \in info :
          /\ next <= Len(f.outputs)
          /\ Resolve(Me, f.outputs[next].token, "host")
    /\ next' = next + 1
    /\ UNCHANGED <<chainVars, pc, late, search, reports, failed, answer>>

AllNamed ==
    /\ pc = "names" /\ ~Looking(Me)
    /\ \A f \in info : next > Len(f.outputs)
    /\ Respond("filled")
    /\ UNCHANGED <<chainVars, symbolVars, late, search, next, reports, failed>>

-----------------------------------------------------------------------------
(* check_balances, check_allowances *)

\* The node says whether the owner has enough of the next input.
Check(kind, sufficient) ==
    /\ pc = kind /\ ~Looking(Me) /\ next <= Len(Inputs)
    /\ checks' = [checks EXCEPT ![kind] = Append(@, sufficient)]
    /\ allSufficient' = [allSufficient EXCEPT ![kind] = IF sufficient THEN @ ELSE "false"]
    /\ next' = next + 1
    /\ Resolve(Me, Inputs[next], "rollup")
    /\ UNCHANGED <<chainVars, pc, late, search, failed, answer>>

\* The failed check is skipped.
Bug_CheckFails(kind) ==
    /\ pc = kind /\ ~Looking(Me) /\ next <= Len(Inputs)
    /\ next' = next + 1 /\ failed' = TRUE
    /\ UNCHANGED <<chainVars, symbolVars, pc, late, search, reports, answer>>

CheckFails(kind) ==
    /\ pc = kind /\ ~Looking(Me) /\ next <= Len(Inputs)
    /\ allSufficient' = [allSufficient EXCEPT ![kind] = "unknown"]
    /\ next' = next + 1 /\ failed' = TRUE
    /\ UNCHANGED <<chainVars, symbolVars, pc, late, search, checks, answer>>

\* The clock is read again.
Bug_EndChecks(kind) ==
    /\ pc = kind /\ ~Looking(Me) /\ next > Len(Inputs)
    /\ next' = 1
    /\ IF kind = "balance" THEN pc' = "allowance" /\ UNCHANGED answer
       ELSE \E passed \in BOOLEAN : Respond(IF late \/ passed THEN "expired" ELSE "pending")
    /\ UNCHANGED <<chainVars, symbolVars, late, search, reports, failed>>

EndChecks(kind) ==
    /\ pc = kind /\ ~Looking(Me) /\ next > Len(Inputs)
    /\ allSufficient' = IF checks[kind] = <<>>
                        THEN [allSufficient EXCEPT ![kind] = "unknown"] ELSE allSufficient
    /\ next' = 1
    /\ IF kind = "balance" THEN pc' = "allowance" /\ UNCHANGED answer
       ELSE Respond(IF late THEN "expired" ELSE "pending")
    /\ UNCHANGED <<chainVars, symbolVars, late, search, checks, failed>>

-----------------------------------------------------------------------------

Call ==
    \/ FetchOrder \/ CheckNonce \/ NonceFails
    \/ GetTip \/ FindInitiation \/ SearchFails
    \/ \E c \in Chains : SearchFill(c) \/ SearchFillFails(c)
    \/ Join \/ NameOutput \/ AllNamed
    \/ \E k \in Kinds : \/ \E sufficient \in BOOLEAN : Check(k, sufficient)
                        \/ CheckFails(k) \/ EndChecks(k)

\* The chains move on, and the other calls ask for any token: for an input with
\* the rollup's provider, for an output with the host's. (Bound: they stop with
\* the call.)
Environment ==
    /\ pc # "done"
    /\ \/ \E block \in NextBlocks : Mine(block) /\ UNCHANGED <<symbolVars, callVars>>
       \/ Revoke /\ UNCHANGED <<symbolVars, callVars>>
       \/ /\ \E c \in Callers \ {Me}, t \in Tokens, chain \in Chains :
                ~Looking(c) /\ Resolve(c, t, chain)
          /\ UNCHANGED <<chainVars, callVars>>

Lookups == (\E c \in Callers : Resolved(c)) /\ UNCHANGED <<chainVars, callVars>>

Next == Call \/ Environment \/ Lookups

Spec == Init /\ [][Next]_vars

-----------------------------------------------------------------------------
(* Properties *)

MaybeBool == {"true", "false", "unknown"}

\* The type invariant.
TypeOK ==
    /\ tip \in 0 .. MaxBlock /\ nonceUsed \in BOOLEAN
    /\ \A i \in DOMAIN orderLogs : orderLogs[i].tx \in Txs /\ orderLogs[i].block <= tip
    /\ cached \in [Tokens -> Entries]
    /\ \A c \in Callers : lookups[c] \subseteq Lookup
    /\ pc \in {"fetch", "nonce", "tip", "initiation", "search", "names", "done"} \cup Kinds
    /\ late \in BOOLEAN /\ failed \in BOOLEAN /\ seen \in 0 .. tip
    /\ found \in [Chains -> {"awaited", "ok", "error"}]
    /\ \A f \in info : f.chain \in Chains
    /\ next \in Nat \ {0}
    /\ checks \in [Kinds -> Seq(BOOLEAN)] /\ allSufficient \in [Kinds -> MaybeBool]
    /\ answer \in {"none", "404", "500", "pending", "expired", "filled"}

\* A fill that is shown covers the outputs of the order, each with an output of
\* its own, and stands next to an Order event of the order's deadline whose block
\* is the fill's, on whichever chain that is.
ShownFillCovers ==
    pc \in {"names", "done"} =>
        \A f \in info :
            /\ FillOutputsAreSuperset(f.outputs, Outputs)
            /\ \E i \in initiation : i.deadline /\ i.block = f.block

\* The own transaction of the order is on the rollup with both its events, in the
\* window, and no earlier event of the window has its deadline.
Findable ==
    \E i \in DOMAIN orderLogs, j \in DOMAIN filledLogs :
        /\ orderLogs[i].tx = Own /\ orderLogs[i].readable
        /\ orderLogs[i].block \in seen - Window .. seen
        /\ filledLogs[j].tx = Own /\ filledLogs[j].chain = "rollup" /\ filledLogs[j].readable
        /\ \A k \in 1 .. i - 1 :
              orderLogs[k].readable /\ orderLogs[k].deadline =>
                  orderLogs[k].block < seen - Window

\* find_fill misses no fill it can find: if all RPC answered, a filled order
\* whose transaction is findable is shown with a fill on the rollup in the block
\* of that transaction, whatever was mined while it was looked for.
FillFound ==
    answer = "filled" /\ ~failed /\ Findable =>
        \E f \in info : /\ f.chain = "rollup"
                        /\ \E i \in DOMAIN orderLogs : /\ orderLogs[i].tx = Own
                                                       /\ orderLogs[i].block = f.block

\* What the diagnostics say of all inputs, they say of the inputs they list: true
\* if and only if each is listed and sufficient, false only if one is listed that
\* is not, unknown only if one is missing; in whichever order the checks failed.
SufficiencySound ==
    answer \in {"pending", "expired"} =>
        \A k \in Kinds :
            LET complete == Len(checks[k]) = Len(Inputs) /\ Inputs # <<>>
                short    == \E i \in DOMAIN checks[k] : ~checks[k][i]
            IN  /\ allSufficient[k] = "true" <=> complete /\ ~short
                /\ allSufficient[k] = "false" => short
                /\ allSufficient[k] = "unknown" => ~complete

\* The call implements the check that the state manager is modelled with: its
\* status is that of the moment the nonce was answered, with the clock read
\* before, whatever the requests after that find, fail to find or wait for.
ClockRead ==
    IF pc = "fetch" \/ answer \in {"404", "500"} THEN "unread"
    ELSE IF late THEN "late" ELSE "in_time"

Returned == IF answer \in Statuses THEN answer ELSE NotTracked

Decided ==
    IF pc \in {"tip", "initiation", "search", "names"} THEN "filled"
    ELSE IF pc \in Kinds THEN StatusOf(late, "unused")
    ELSE Returned

Verdicts == INSTANCE StatusCheck WITH
    used <- nonceUsed, clock <- ClockRead, decided <- Decided, returned <- Returned

ImplementsStatusCheck == Verdicts!CheckSpec
=============================================================================
