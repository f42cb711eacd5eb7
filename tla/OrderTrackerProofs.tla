------------------------- MODULE OrderTrackerProofs -------------------------
(***************************************************************************)
(* What TLAPS proves of a status call, for any inputs and outputs, any     *)
(* number of callers and any blocks: what the diagnostics say of all       *)
(* inputs is right; settled token symbols stay; a fill that is shown       *)
(* covers the order; and a fill that can be found is found.                *)
(***************************************************************************)
EXTENDS OrderTracker, FillSearchProofs, TLAPS

(* Sufficiency *)

Short(k) == \E i \in DOMAIN checks[k] : ~checks[k][i]

Complete(k) == Len(checks[k]) = Len(Inputs) /\ Inputs # <<>>

\* No input was looked at.
Fresh(k) == checks[k] = <<>> /\ allSufficient[k] = "true"

\* The inputs before next were looked at. A check that is missing and one that
\* is short were both noted, but the later of the two is what counts.
Underway(k) ==
    /\ next <= Len(Inputs) + 1 /\ Len(checks[k]) < next
    /\ allSufficient[k] = "true" => Len(checks[k]) = next - 1 /\ ~Short(k)
    /\ allSufficient[k] = "false" => Short(k)
    /\ allSufficient[k] = "unknown" => Len(checks[k]) < next - 1

\* All were; this is SufficiencySound for one kind.
Sound(k) ==
    /\ allSufficient[k] = "true" <=> Complete(k) /\ ~Short(k)
    /\ allSufficient[k] = "false" => Short(k)
    /\ allSufficient[k] = "unknown" => ~Complete(k)

ReportsOK ==
    /\ next \in Nat \ {0}
    /\ checks \in [Kinds -> Seq(BOOLEAN)]
    /\ allSufficient \in [Kinds -> MaybeBool]

Progress ==
    /\ pc \in {"fetch", "nonce"} => next = 1 /\ \A k \in Kinds : Fresh(k)
    /\ pc = "balance" => Underway("balance") /\ Fresh("allowance")
    /\ pc = "allowance" => Sound("balance") /\ Underway("allowance")
    /\ answer # "none" => pc = "done"
    /\ answer \in {"pending", "expired"} => \A k \in Kinds : Sound(k)

CallInv == ReportsOK /\ Progress

LEMMA CallInit == Init => CallInv
<1> SUFFICES ASSUME Init PROVE CallInv
  OBVIOUS
<1>1. /\ checks = [k \in Kinds |-> <<>>] /\ allSufficient = [k \in Kinds |-> "true"]
      /\ next = 1 /\ pc = "fetch" /\ answer = "none"
  BY DEF Init
<1>2. checks \in [Kinds -> Seq(BOOLEAN)] /\ allSufficient \in [Kinds -> MaybeBool]
  BY <1>1 DEF MaybeBool
<1> QED  BY <1>1, <1>2 DEF CallInv, ReportsOK, Progress, Fresh

\* A check whose answer arrives.
LEMMA CheckOK ==
    ASSUME CallInv, NEW k \in Kinds, NEW sufficient \in BOOLEAN, Check(k, sufficient)
    PROVE  /\ ReportsOK'
           /\ Underway(k) => Underway(k)'
           /\ \A j \in Kinds \ {k} : checks'[j] = checks[j] /\ allSufficient'[j] = allSufficient[j]
<1> USE DEF CallInv, ReportsOK
<1>1. /\ next <= Len(Inputs) /\ next' = next + 1
      /\ checks' = [checks EXCEPT ![k] = Append(@, sufficient)]
      /\ allSufficient' = [allSufficient EXCEPT ![k] = IF sufficient THEN @ ELSE "false"]
  BY DEF Check
<1>2. checks[k] \in Seq(BOOLEAN) /\ Len(Inputs) \in Nat
  BY OrderTrackerAssumption
<1>3. checks'[k] = Append(checks[k], sufficient)
  BY <1>1
<1>4. ReportsOK'
  BY <1>1, <1>2 DEF MaybeBool
<1>5. ASSUME Underway(k) PROVE Underway(k)'
  <2>1. /\ Len(checks'[k]) = Len(checks[k]) + 1
        /\ \A i \in 1 .. Len(checks[k]) : checks'[k][i] = checks[k][i]
        /\ checks'[k][Len(checks[k]) + 1] = sufficient
    BY <1>2, <1>3
  <2>2. DOMAIN checks'[k] = 1 .. Len(checks[k]) + 1 /\ DOMAIN checks[k] = 1 .. Len(checks[k])
    BY <1>2, <1>3
  <2>3. Short(k)' <=> Short(k) \/ ~sufficient
    BY <1>2, <2>1, <2>2 DEF Short
  <2>4. allSufficient'[k] = IF sufficient THEN allSufficient[k] ELSE "false"
    BY <1>1
  <2> QED  BY <1>1, <1>2, <1>5, <2>1, <2>3, <2>4 DEF Underway
<1> QED  BY <1>1, <1>4, <1>5

\* A check that fails.
LEMMA CheckFailsOK ==
    ASSUME CallInv, NEW k \in Kinds, CheckFails(k)
    PROVE  /\ ReportsOK'
           /\ Underway(k) => Underway(k)'
           /\ \A j \in Kinds \ {k} : checks'[j] = checks[j] /\ allSufficient'[j] = allSufficient[j]
<1> USE DEF CallInv, ReportsOK
<1>1. /\ next <= Len(Inputs) /\ next' = next + 1 /\ checks' = checks
      /\ allSufficient' = [allSufficient EXCEPT ![k] = "unknown"]
  BY DEF CheckFails
<1>2. checks[k] \in Seq(BOOLEAN) /\ Len(Inputs) \in Nat /\ Len(checks[k]) \in Nat
  BY OrderTrackerAssumption
<1> QED  BY <1>1, <1>2 DEF Underway, MaybeBool

\* The end of a loop.
LEMMA EndChecksOK ==
    ASSUME CallInv, NEW k \in Kinds, EndChecks(k)
    PROVE  /\ ReportsOK' /\ next' = 1
           /\ Underway(k) => Sound(k)'
           /\ \A j \in Kinds \ {k} : checks'[j] = checks[j] /\ allSufficient'[j] = allSufficient[j]
<1> USE DEF CallInv, ReportsOK
<1>1. /\ next > Len(Inputs) /\ next' = 1 /\ checks' = checks
      /\ allSufficient' = IF checks[k] = <<>> THEN [allSufficient EXCEPT ![k] = "unknown"]
                          ELSE allSufficient
  BY DEF EndChecks
<1>2. checks[k] \in Seq(BOOLEAN) /\ Len(Inputs) \in Nat /\ Len(checks[k]) \in Nat
      /\ (checks[k] = <<>> <=> Len(checks[k]) = 0) /\ (Inputs = <<>> <=> Len(Inputs) = 0)
  BY OrderTrackerAssumption
<1>3. ReportsOK'
  BY <1>1 DEF MaybeBool
<1>4. Short(k)' = Short(k) /\ Complete(k)' = Complete(k) /\ (Short(k) => checks[k] # <<>>)
  BY <1>1, <1>2 DEF Short, Complete
<1>5. ASSUME Underway(k) PROVE Sound(k)'
  <2>1. next = Len(Inputs) + 1
    BY <1>1, <1>2, <1>5 DEF Underway
  <2>2. CASE checks[k] = <<>>
    <3>1. allSufficient'[k] = "unknown"
      BY <1>1, <2>2
    <3>2. ~Complete(k)
      BY <1>2, <2>2 DEF Complete
    <3> QED  BY <1>4, <3>1, <3>2 DEF Sound
  <2>3. CASE checks[k] # <<>>
    <3>1. allSufficient'[k] = allSufficient[k] /\ allSufficient[k] \in MaybeBool
      BY <1>1, <2>3
    <3>2. Complete(k) <=> Len(checks[k]) = next - 1
      BY <1>2, <2>1, <2>3 DEF Complete
    <3> QED  BY <1>2, <1>4, <1>5, <3>1, <3>2 DEF Sound, Underway, MaybeBool
  <2> QED  BY <2>2, <2>3
<1> QED  BY <1>1, <1>3, <1>5

LEMMA CallNext == CallInv /\ [Next]_vars => CallInv'
<1> SUFFICES ASSUME CallInv, [Next]_vars PROVE CallInv'
  OBVIOUS
<1> USE DEF CallInv
<1>1. CASE UNCHANGED callVars
  BY <1>1 DEF callVars, reports, ReportsOK, Progress, Fresh, Underway, Sound, Complete, Short
<1>2. CASE FetchOrder \/ CheckNonce
  <2>1. /\ pc \in {"fetch", "nonce"} /\ UNCHANGED <<next, checks, allSufficient>>
        /\ pc' \in {"nonce", "tip", "balance", "done"}
        /\ answer' = answer \/ (pc' = "done" /\ answer' \in {"404", "500"})
    BY <1>2 DEF FetchOrder, CheckNonce, Respond, reports
  <2>2. next = 1 /\ \A k \in Kinds : checks[k] = <<>> /\ allSufficient[k] = "true"
    BY <2>1 DEF Progress, Fresh
  <2>3. \A k \in Kinds : Len(checks[k]) = 0 /\ ~Short(k) /\ Fresh(k)'
    BY <2>1, <2>2 DEF Short, Fresh
  <2>4. \A k \in Kinds : Underway(k)'
    BY <2>1, <2>2, <2>3, OrderTrackerAssumption DEF Underway, Short
  <2>5. "balance" \in Kinds /\ "allowance" \in Kinds
    BY DEF Kinds
  <2>6. Progress'
    BY <2>1, <2>2, <2>3, <2>4, <2>5 DEF Progress
  <2>7. ReportsOK'
    BY <2>1 DEF ReportsOK
  <2> QED  BY <2>6, <2>7
<1>3. CASE NonceFails
  BY <1>3 DEF NonceFails, Respond, ReportsOK, Progress, Fresh, Sound, Complete, Short, MaybeBool, Kinds
<1>4. CASE GetTip \/ FindInitiation \/ SearchFails \/ Join \/ AllNamed
           \/ \E c \in Chains : SearchFill(c) \/ SearchFillFails(c)
  BY <1>4 DEF GetTip, FindInitiation, SearchFails, Join, AllNamed, SearchFill, SearchFillFails,
              Respond, reports, ReportsOK, Progress
<1>5. CASE NameOutput
  BY <1>5 DEF NameOutput, reports, ReportsOK, Progress
<1>6. ASSUME NEW k \in Kinds, NEW sufficient \in BOOLEAN, Check(k, sufficient) PROVE CallInv'
  <2>1. pc = k /\ pc' = k /\ answer' = answer /\ k # "done"
    BY <1>6 DEF Check, Kinds
  <2> QED  BY <1>6, <2>1, CheckOK DEF Progress, Fresh, Sound, Complete, Short, Kinds
<1>7. ASSUME NEW k \in Kinds, CheckFails(k) PROVE CallInv'
  <2>1. pc = k /\ pc' = k /\ answer' = answer
    BY <1>7 DEF CheckFails
  <2> QED  BY <1>7, <2>1, CheckFailsOK DEF Progress, Fresh, Sound, Complete, Short, Kinds
<1>8. ASSUME NEW k \in Kinds, EndChecks(k) PROVE CallInv'
  <2>1. CASE k = "balance"
    <3>1. pc = k /\ pc' = "allowance" /\ answer' = answer
      BY <1>8, <2>1 DEF EndChecks
    <3>2. Fresh("allowance")'
      BY <1>8, <2>1, <3>1, EndChecksOK DEF Progress, Fresh, Kinds
    <3>3. Underway("allowance")'
      BY <1>8, <3>2, EndChecksOK, OrderTrackerAssumption DEF Fresh, Underway, Short
    <3> QED  BY <1>8, <2>1, <3>1, <3>3, EndChecksOK DEF Progress
  <2>2. CASE k = "allowance"
    <3>1. pc = k /\ pc' = "done" /\ answer' \in {"pending", "expired"}
      BY <1>8, <2>2 DEF EndChecks, Respond
    <3>2. Sound("balance")'
      BY <1>8, <2>2, <3>1, EndChecksOK DEF Progress, Sound, Complete, Short, Kinds
    <3> QED  BY <1>8, <2>2, <3>1, <3>2, EndChecksOK DEF Progress, Kinds
  <2> QED  BY <2>1, <2>2 DEF Kinds
<1> QED
  BY <1>1, <1>2, <1>3, <1>4, <1>5, <1>6, <1>7, <1>8
     DEF Next, Call, Environment, Lookups, vars

\* The tri-state summaries say of all inputs what the listed checks support, for
\* any inputs and in whichever order their checks fail.
THEOREM Sufficiency == Spec => []SufficiencySound
<1>1. CallInv => SufficiencySound
  BY DEF CallInv, Progress, SufficiencySound, Sound, Complete, Short
<1> QED  BY CallInit, CallNext, <1>1, PTL DEF Spec

-----------------------------------------------------------------------------
(* Token symbols *)

SymbolsOK == DOMAIN cached = Tokens /\ DOMAIN lookups = Callers

LEMMA ResolveSettles ==
    ASSUME SymbolsOK, NEW c \in Callers, NEW u, NEW chain, Resolve(c, u, chain),
           NEW t \in Tokens, Settled(t)
    PROVE  Settled(t)' /\ cached'[t] = cached[t]
<1>1. CASE cached[u] = "none"
  BY <1>1 DEF Resolve, Settled, SymbolsOK
<1>2. CASE cached[u] # "none"
  BY <1>2 DEF Resolve, Settled
<1> QED  BY <1>1, <1>2

LEMMA ResolvedSettles ==
    ASSUME SymbolsOK, NEW c \in Callers, Resolved(c), NEW t \in Tokens, Settled(t)
    PROVE  Settled(t)' /\ cached'[t] = cached[t]
BY DEF Resolved, Settled, SymbolsOK

\* The steps of the system are, for the cache, a lookup, an answer or nothing.
LEMMA SymbolSteps ==
    ASSUME [Next]_vars
    PROVE  \/ \E c \in Callers : \E u, chain : Resolve(c, u, chain)
           \/ \E c \in Callers : Resolved(c)
           \/ UNCHANGED symbolVars
<1>1. CASE FetchOrder \/ CheckNonce \/ NonceFails \/ GetTip \/ FindInitiation \/ SearchFails
           \/ Join \/ AllNamed \/ (\E c \in Chains : SearchFill(c) \/ SearchFillFails(c))
           \/ (\E k \in Kinds : CheckFails(k) \/ EndChecks(k))
  BY <1>1 DEF FetchOrder, CheckNonce, NonceFails, GetTip, FindInitiation, SearchFails, Join,
              AllNamed, SearchFill, SearchFillFails, CheckFails, EndChecks
<1>2. CASE NameOutput
  <2>1. \E u : Resolve(Me, u, "host")
    BY <1>2 DEF NameOutput
  <2> QED  BY <2>1, OrderTrackerAssumption
<1>3. CASE \E k \in Kinds, sufficient \in BOOLEAN : Check(k, sufficient)
  <2>1. Resolve(Me, Inputs[next], "rollup")
    BY <1>3 DEF Check
  <2> QED  BY <2>1, OrderTrackerAssumption
<1>4. CASE Environment
  BY <1>4 DEF Environment
<1>5. CASE Lookups \/ UNCHANGED vars
  BY <1>5 DEF Lookups, vars
<1> QED  BY <1>1, <1>2, <1>3, <1>4, <1>5 DEF Next, Call

LEMMA SymbolsNext == SymbolsOK /\ [Next]_vars => SymbolsOK'
<1> SUFFICES ASSUME SymbolsOK, [Next]_vars PROVE SymbolsOK'
  OBVIOUS
<1>1. ASSUME NEW c \in Callers, NEW u, NEW chain, Resolve(c, u, chain) PROVE SymbolsOK'
  BY <1>1 DEF Resolve, SymbolsOK
<1>2. ASSUME NEW c \in Callers, Resolved(c) PROVE SymbolsOK'
  BY <1>2 DEF Resolved, SymbolsOK
<1>3. CASE UNCHANGED symbolVars
  BY <1>3 DEF symbolVars, SymbolsOK
<1> QED  BY <1>1, <1>2, <1>3, SymbolSteps

\* A settled entry of the symbol cache is final, for any tokens and callers.
THEOREM SymbolsFinal == Spec => SymbolsSettle
<1>1. Init => SymbolsOK
  BY DEF Init, SymbolsInit, SymbolsOK
<1> DEFINE A == \A t \in Tokens : Settled(t) => Settled(t)' /\ cached'[t] = cached[t]
<1>2. ASSUME SymbolsOK, [Next]_vars PROVE [A]_symbolVars
  <2>1. ASSUME NEW c \in Callers, NEW u, NEW chain, Resolve(c, u, chain) PROVE A
    BY <1>2, <2>1, ResolveSettles
  <2>2. ASSUME NEW c \in Callers, Resolved(c) PROVE A
    BY <1>2, <2>2, ResolvedSettles
  <2> QED  BY <1>2, <2>1, <2>2, SymbolSteps
<1> QED  BY SymbolsNext, <1>1, <1>2, PTL DEF Spec, SymbolsSettle

-----------------------------------------------------------------------------
(* The search for the fill *)

SymbolsType == cached \in [Tokens -> Entries] /\ lookups \in [Callers -> SUBSET Lookup]

CallType ==
    /\ pc \in {"fetch", "nonce", "tip", "initiation", "search", "names", "done"} \cup Kinds
    /\ late \in BOOLEAN /\ failed \in BOOLEAN /\ seen \in 0 .. tip
    /\ found \in [Chains -> {"awaited", "ok", "error"}]
    /\ answer \in {"none", "404", "500", "pending", "expired", "filled"}

\* Nothing was searched for yet.
Unsearched ==
    pc \in {"fetch", "nonce", "tip", "initiation"} =>
        info = {} /\ \A c \in Chains : found[c] = "awaited"

InitiationOK ==
    \A i \in initiation : i \in OrderLogs /\ i.deadline /\ i.block <= tip

InfoOK ==
    \A f \in info : /\ f \in FilledLogs /\ Covers(f.outputs, Outputs)
                    /\ \E i \in initiation : i.block = f.block

\* The call answered "filled", and no request of it failed.
Completed == answer = "filled" /\ ~failed

ErrorsNoted == (\E c \in Chains : found[c] = "error") => failed

\* What the search at the tip it saw found is what it would find now.
InitiationFound ==
    pc \in {"search", "names"} \/ Completed => initiation = FindOrderInitiation(seen)

\* What is on the rollup is in the result, until an error empties that.
RollupFound ==
    (pc = "search" /\ found["rollup"] = "ok") \/ pc = "names" \/ Completed =>
        \A i \in initiation : FindFillEvents("rollup", i.block) \subseteq info

SearchInv ==
    /\ CallType /\ Unsearched /\ InitiationOK /\ InfoOK /\ ErrorsNoted
    /\ InitiationFound /\ RollupFound

TrackerInv == ChainOK /\ SymbolsType /\ CallInv /\ SearchInv

\* A step leaves the chains as they are, or adds to them; what a search of the
\* blocks up to the tip finds stays the same.
LEMMA ChainSteps ==
    ASSUME ChainOK, [Next]_vars
    PROVE  /\ ChainOK' /\ tip \in Nat /\ tip' \in Nat /\ tip <= tip'
           /\ \A b \in 0 .. tip : FindFillEvents("rollup", b)' = FindFillEvents("rollup", b)
           /\ \A last \in 0 .. tip : FindOrderInitiation(last)' = FindOrderInitiation(last)
<1>1. tip \in Nat
  BY DEF ChainOK
<1>2. CASE UNCHANGED chainVars
  BY <1>1, <1>2 DEF chainVars, ChainOK, FindFillEvents, FindOrderInitiation, First
<1>3. CASE Revoke
  BY <1>1, <1>3 DEF Revoke, ChainOK, FindFillEvents, FindOrderInitiation, First
<1>4. ASSUME NEW block \in NextBlocks, Mine(block)
      PROVE  /\ ChainOK' /\ tip \in Nat /\ tip' \in Nat /\ tip <= tip'
             /\ \A b \in 0 .. tip : FindFillEvents("rollup", b)' = FindFillEvents("rollup", b)
             /\ \A last \in 0 .. tip : FindOrderInitiation(last)' = FindOrderInitiation(last)
  <2>1. tip' = tip + 1
    BY <1>4 DEF Mine
  <2>2. ChainOK'
    BY <1>4, MineOK
  <2>3. /\ \A b \in 0 .. tip : FindFillEvents("rollup", b)' = FindFillEvents("rollup", b)
        /\ \A last \in 0 .. tip : FindOrderInitiation(last)' = FindOrderInitiation(last)
    BY <1>4, SearchesStable
  <2>4. tip' \in Nat /\ tip <= tip'
    BY ONLY <1>1, <2>1
  <2> QED  BY <1>1, <2>2, <2>3, <2>4
<1>5. \/ UNCHANGED chainVars \/ Revoke
      \/ \E block \in NextBlocks : Mine(block)
  BY DEF Next, Call, Environment, Lookups, vars, FetchOrder, CheckNonce, NonceFails, GetTip,
         FindInitiation, SearchFails, SearchFill, SearchFillFails, Join, NameOutput, AllNamed,
         Check, CheckFails, EndChecks
<1> QED  BY <1>2, <1>3, <1>4, <1>5

LEMMA SymbolsTypeNext ==
    ASSUME SymbolsType, CallInv, InfoOK, [Next]_vars PROVE SymbolsType'
<1>1. ASSUME NEW c \in Callers, NEW u \in Tokens, NEW chain \in Chains, Resolve(c, u, chain)
      PROVE  SymbolsType'
  <2>1. {[token |-> u, chain |-> chain]} \in SUBSET Lookup
    BY DEF Lookup, Chains
  <2> QED  BY <1>1, <2>1 DEF Resolve, SymbolsType
<1>2. ASSUME NEW c \in Callers, Resolved(c) PROVE SymbolsType'
  <2>1. PICK l \in lookups[c], entry \in {"symbol", "unknown"} :
             /\ cached' = [cached EXCEPT ![l.token] = entry]
             /\ lookups' = [lookups EXCEPT ![c] = {}]
    BY <1>2 DEF Resolved
  <2> QED  BY <2>1 DEF SymbolsType, Entries
<1>3. CASE NameOutput
  <2>1. PICK f \in info : next <= Len(f.outputs) /\ Resolve(Me, f.outputs[next].token, "host")
    BY <1>3 DEF NameOutput
  <2>2. f.outputs \in Seq(Output) /\ next \in Nat \ {0}
    BY DEF InfoOK, FilledLogs, CallInv, ReportsOK
  <2>3. f.outputs[next] \in Output
    BY <2>1, <2>2
  <2> QED  BY <1>1, <2>1, <2>3, OrderTrackerAssumption DEF Chains
<1>4. ASSUME NEW k \in Kinds, NEW sufficient \in BOOLEAN, Check(k, sufficient) PROVE SymbolsType'
  <2>1. next <= Len(Inputs) /\ Resolve(Me, Inputs[next], "rollup")
    BY <1>4 DEF Check
  <2>2. next \in Nat \ {0}
    BY DEF CallInv, ReportsOK
  <2>3. Inputs[next] \in Tokens /\ Me \in Callers
    BY <2>1, <2>2, OrderTrackerAssumption
  <2> QED  BY <1>1, <2>1, <2>3 DEF Chains
<1>5. CASE UNCHANGED symbolVars
  BY <1>5 DEF symbolVars, SymbolsType
<1>6. CASE FetchOrder \/ CheckNonce \/ NonceFails \/ GetTip \/ FindInitiation \/ SearchFails
           \/ Join \/ AllNamed \/ (\E c \in Chains : SearchFill(c) \/ SearchFillFails(c))
           \/ (\E k \in Kinds : CheckFails(k) \/ EndChecks(k))
  BY <1>5, <1>6 DEF FetchOrder, CheckNonce, NonceFails, GetTip, FindInitiation, SearchFails,
                    Join, AllNamed, SearchFill, SearchFillFails, CheckFails, EndChecks
<1>7. CASE Environment
  BY <1>1, <1>5, <1>7 DEF Environment
<1>8. CASE Lookups \/ UNCHANGED vars
  BY <1>2, <1>5, <1>8 DEF Lookups, vars
<1> QED  BY <1>3, <1>4, <1>6, <1>7, <1>8 DEF Next, Call

\* The searches of the invariant are of blocks up to the tip, so that they find
\* the same after a step that leaves the call's own state alone.
LEMMA SearchKept ==
    ASSUME ChainOK, SearchInv, [Next]_vars, UNCHANGED callVars PROVE SearchInv'
<1>1. /\ tip \in Nat /\ tip' \in Nat /\ tip <= tip'
      /\ \A b \in 0 .. tip : FindFillEvents("rollup", b)' = FindFillEvents("rollup", b)
      /\ \A last \in 0 .. tip : FindOrderInitiation(last)' = FindOrderInitiation(last)
  BY ChainSteps
<1>2. UNCHANGED <<pc, late, seen, initiation, found, info, failed, answer>>
  BY DEF callVars, search
<1>3. seen \in 0 .. tip /\ seen \in 0 .. tip'
  BY <1>1 DEF SearchInv, CallType
<1>4. \A i \in initiation : i.block \in 0 .. tip /\ i.block <= tip'
  BY <1>1 DEF SearchInv, InitiationOK, OrderLogs
<1>5. FindOrderInitiation(seen)' = FindOrderInitiation(seen)
  BY <1>1, <1>2, <1>3
<1>6. \A i \in initiation : FindFillEvents("rollup", i.block)' = FindFillEvents("rollup", i.block)
  BY <1>1, <1>4
<1>7. CallType' /\ Unsearched' /\ InfoOK' /\ ErrorsNoted'
  BY <1>2, <1>3 DEF SearchInv, CallType, Unsearched, InfoOK, ErrorsNoted
<1>8. InitiationOK'
  BY <1>2, <1>4 DEF SearchInv, InitiationOK
<1>9. InitiationFound'
  BY <1>2, <1>5 DEF SearchInv, InitiationFound, Completed
<1>10. RollupFound'
  BY <1>2, <1>6 DEF SearchInv, RollupFound, Completed
<1> QED  BY <1>7, <1>8, <1>9, <1>10 DEF SearchInv

\* The requests that come before the searches, and the checks, which are made
\* instead of them.
LEMMA OutsideSearch ==
    ASSUME CallInv, SearchInv, UNCHANGED <<chainVars, search>>,
           \/ FetchOrder \/ CheckNonce \/ NonceFails \/ SearchFails
           \/ \E k \in Kinds : \/ \E sufficient \in BOOLEAN : Check(k, sufficient)
                               \/ CheckFails(k) \/ EndChecks(k)
    PROVE  SearchInv'
<1> USE DEF SearchInv
<1>1. /\ UNCHANGED <<seen, initiation, found, info, tip>> /\ UNCHANGED chainVars
      /\ pc \notin {"search", "names", "done"}
      /\ pc' \in {"nonce", "tip", "initiation", "done"} \cup Kinds
      /\ pc' \in {"nonce", "tip", "initiation"} => pc \in {"fetch", "nonce", "tip", "initiation"}
      /\ late' \in BOOLEAN /\ failed' \in BOOLEAN
      /\ answer' \in {"none", "404", "500", "pending", "expired", "filled"}
      /\ failed => failed'
      /\ answer' = "filled" => failed'
  BY DEF FetchOrder, CheckNonce, NonceFails, SearchFails, Check, CheckFails, EndChecks, Respond,
         chainVars, search, Kinds, CallType, CallInv, Progress
<1>2. pc' \notin {"search", "names"} /\ ~Completed'
  BY <1>1 DEF Completed, Kinds
<1>3. CallType'
  BY <1>1 DEF CallType
<1>4. Unsearched'
  BY <1>1 DEF Unsearched, Kinds
<1>5. InitiationOK' /\ InfoOK'
  BY <1>1 DEF InitiationOK, InfoOK
<1>6. ErrorsNoted'
  BY <1>1, Zenon DEF ErrorsNoted
<1> QED  BY <1>2, <1>3, <1>4, <1>5, <1>6 DEF InitiationFound, RollupFound


LEMMA SearchesSame ==
    ASSUME UNCHANGED chainVars
    PROVE  /\ \A chain, b : FindFillEvents(chain, b)' = FindFillEvents(chain, b)
           /\ \A last : FindOrderInitiation(last)' = FindOrderInitiation(last)
BY DEF chainVars, FindFillEvents, FindOrderInitiation, First

LEMMA GetTipOK ==
    ASSUME ChainOK, CallInv, SearchInv, GetTip PROVE SearchInv'
<1> USE DEF SearchInv
<1>1. /\ pc = "tip" /\ pc' = "initiation" /\ seen' = tip /\ UNCHANGED chainVars
      /\ UNCHANGED <<late, initiation, found, info, failed, answer>>
  BY DEF GetTip
<1>2. tip \in Nat /\ tip' = tip /\ answer = "none"
  BY <1>1 DEF ChainOK, chainVars, CallInv, Progress
<1>3. CallType' /\ Unsearched'
  BY <1>1, <1>2 DEF CallType, Unsearched
<1>4. InitiationOK' /\ InfoOK' /\ ErrorsNoted'
  BY <1>1, <1>2 DEF InitiationOK, InfoOK, ErrorsNoted
<1>5. InitiationFound' /\ RollupFound'
  BY <1>1, <1>2 DEF InitiationFound, RollupFound, Completed
<1> QED  BY <1>3, <1>4, <1>5

LEMMA FindInitiationOK ==
    ASSUME ChainOK, CallInv, SearchInv, FindInitiation PROVE SearchInv'
<1> USE DEF SearchInv
<1>1. /\ pc = "initiation" /\ initiation' = FindOrderInitiation(seen) /\ UNCHANGED chainVars
      /\ UNCHANGED <<late, seen, found, info, failed>>
      /\ \/ initiation' = {} /\ pc' = "done" /\ answer' = "filled"
         \/ pc' = "search" /\ answer' = answer
  BY DEF FindInitiation, Respond
<1>2. tip \in Nat /\ tip' = tip /\ answer = "none" /\ seen \in 0 .. tip
  BY <1>1 DEF ChainOK, chainVars, CallInv, Progress, CallType
<1>3. info = {} /\ \A c \in Chains : found[c] = "awaited"
  BY <1>1 DEF Unsearched
<1>4. CallType' /\ Unsearched' /\ InfoOK' /\ ErrorsNoted'
  BY <1>1, <1>2, <1>3 DEF CallType, Unsearched, InfoOK, ErrorsNoted
<1>5. InitiationOK'
  <2>1. \A o \in FindOrderInitiation(seen) : o \in OrderLogs /\ o.deadline /\ o.block <= seen
    BY <1>2, FoundInitiation
  <2>2. ASSUME NEW o \in FindOrderInitiation(seen) PROVE o.block <= tip
    <3>1. o.block \in Nat /\ o.block <= seen
      BY <2>1 DEF OrderLogs
    <3> QED  BY <1>2, <3>1
  <2> QED  BY <1>1, <1>2, <2>1, <2>2 DEF InitiationOK
<1>6. InitiationFound'
  BY <1>1, SearchesSame DEF InitiationFound
<1>7. RollupFound'
  <2>1. "rollup" \in Chains
    BY DEF Chains
  <2> QED  BY <1>1, <1>2, <1>3, <2>1 DEF RollupFound, Completed
<1> QED  BY <1>4, <1>5, <1>6, <1>7

\* What the search on one chain adds.
LEMMA SearchFillOK ==
    ASSUME ChainOK, CallInv, SearchInv, NEW c \in Chains, SearchFill(c) PROVE SearchInv'
<1> USE DEF SearchInv
<1>1. /\ pc = "search" /\ pc' = "search" /\ UNCHANGED chainVars
      /\ UNCHANGED <<late, seen, initiation, failed, answer>>
      /\ found' = [found EXCEPT ![c] = "ok"]
      /\ info' = info \cup UNION {FindFillEvents(c, i.block) : i \in initiation}
  BY DEF SearchFill
<1>2. tip' = tip /\ answer = "none" /\ found \in [Chains -> {"awaited", "ok", "error"}]
  BY <1>1 DEF chainVars, CallInv, Progress, CallType
<1>3. CallType' /\ Unsearched' /\ InitiationOK'
  BY <1>1, <1>2 DEF CallType, Unsearched, InitiationOK
<1>4. ErrorsNoted'
  <2>1. (\E d \in Chains : found'[d] = "error") => \E d \in Chains : found[d] = "error"
    BY <1>1, <1>2
  <2> QED  BY <1>1, <2>1, Zenon DEF ErrorsNoted
<1>5. InfoOK'
  <2>1. ASSUME NEW i \in initiation, NEW f \in FindFillEvents(c, i.block)
        PROVE  f \in FilledLogs /\ Covers(f.outputs, Outputs) /\ i.block = f.block
    BY <2>1, FoundFill
  <2> QED  BY <1>1, <2>1 DEF InfoOK
<1>6. InitiationFound'
  BY <1>1, SearchesSame DEF InitiationFound
<1>7. RollupFound'
  <2>1. ASSUME NEW i \in initiation, found'["rollup"] = "ok"
        PROVE  FindFillEvents("rollup", i.block) \subseteq info'
    <3>1. CASE c = "rollup"
      BY <1>1, <3>1
    <3>2. CASE c # "rollup"
      <4>1. found["rollup"] = "ok"
        BY <1>1, <1>2, <2>1, <3>2
      <4> QED  BY <1>1, <4>1 DEF RollupFound
    <3> QED  BY <3>1, <3>2
  <2> QED  BY <1>1, <1>2, <2>1, SearchesSame DEF RollupFound, Completed
<1> QED  BY <1>3, <1>4, <1>5, <1>6, <1>7

LEMMA SearchFillFailsOK ==
    ASSUME ChainOK, CallInv, SearchInv, NEW c \in Chains, SearchFillFails(c) PROVE SearchInv'
<1> USE DEF SearchInv
<1>1. /\ pc = "search" /\ pc' = "search" /\ UNCHANGED chainVars
      /\ UNCHANGED <<late, seen, initiation, info, answer>>
      /\ found' = [found EXCEPT ![c] = "error"] /\ failed' = TRUE
  BY DEF SearchFillFails
<1>2. tip' = tip /\ answer = "none" /\ found \in [Chains -> {"awaited", "ok", "error"}]
  BY <1>1 DEF chainVars, CallInv, Progress, CallType
<1>3. CallType' /\ Unsearched' /\ InitiationOK' /\ InfoOK'
  BY <1>1, <1>2 DEF CallType, Unsearched, InitiationOK, InfoOK
<1>4. ErrorsNoted'
  BY <1>1 DEF ErrorsNoted
<1>5. InitiationFound'
  BY <1>1, SearchesSame DEF InitiationFound
<1>6. RollupFound'
  <2>1. found'["rollup"] = "ok" => found["rollup"] = "ok"
    BY <1>1, <1>2 DEF Chains
  <2> QED  BY <1>1, <1>2, <2>1, SearchesSame DEF RollupFound, Completed
<1> QED  BY <1>3, <1>4, <1>5, <1>6

\* Preferring the rollup's result loses nothing of it.
LEMMA JoinOK ==
    ASSUME ChainOK, CallInv, SearchInv, Join PROVE SearchInv'
<1> USE DEF SearchInv
<1>1. /\ pc = "search" /\ UNCHANGED chainVars
      /\ \A c \in Chains : found[c] # "awaited"
      /\ UNCHANGED <<late, seen, initiation, found, failed>>
      /\ info' = IF \E c \in Chains : found[c] = "error" THEN {} ELSE Preferred(info)
      /\ \/ info' = {} /\ pc' = "done" /\ answer' = "filled"
         \/ pc' = "names" /\ answer' = answer /\ info' # {}
  BY DEF Join, Respond
<1>2. tip' = tip /\ found \in [Chains -> {"awaited", "ok", "error"}]
  BY <1>1 DEF chainVars, CallType
<1>3. info' \subseteq info
  BY <1>1 DEF Preferred
<1>4. CallType' /\ Unsearched' /\ InitiationOK'
  BY <1>1, <1>2 DEF CallType, Unsearched, InitiationOK
<1>5. InfoOK'
  BY <1>1, <1>3 DEF InfoOK
<1>6. ErrorsNoted'
  BY <1>1, Zenon DEF ErrorsNoted
<1>7. InitiationFound'
  BY <1>1, SearchesSame DEF InitiationFound
<1>8. RollupFound'
  <2>1. CASE \E c \in Chains : found[c] = "error"
    <3>1. failed' /\ info' = {}
      BY <1>1, <2>1, Zenon DEF ErrorsNoted
    <3>2. pc' = "done"
      BY <1>1, <3>1
    <3> QED  BY <3>1, <3>2 DEF RollupFound, Completed
  <2>2. CASE ~\E c \in Chains : found[c] = "error"
    <3>1. found["rollup"] = "ok" /\ info' = Preferred(info)
      BY <1>1, <1>2, <2>2 DEF Chains
    <3>2. ASSUME NEW i \in initiation PROVE FindFillEvents("rollup", i.block) \subseteq info'
      <4>1. FindFillEvents("rollup", i.block) \subseteq info
        BY <1>1, <3>1 DEF RollupFound
      <4>2. \A f \in FindFillEvents("rollup", i.block) : f.chain = "rollup"
        BY FoundFill
      <4> QED  BY <3>1, <4>1, <4>2 DEF Preferred
    <3> QED  BY <1>1, <3>2, SearchesSame DEF RollupFound
  <2> QED  BY <2>1, <2>2
<1> QED  BY <1>4, <1>5, <1>6, <1>7, <1>8

LEMMA NamesOK ==
    ASSUME SearchInv, NameOutput \/ AllNamed PROVE SearchInv'
<1> USE DEF SearchInv
<1>1. /\ pc = "names" /\ UNCHANGED chainVars
      /\ UNCHANGED <<late, seen, initiation, found, info, failed>>
      /\ (pc' = pc /\ answer' = answer) \/ (pc' = "done" /\ answer' = "filled")
  BY DEF NameOutput, AllNamed, Respond, search
<1>2. tip' = tip
  BY <1>1 DEF chainVars
<1>3. CallType' /\ Unsearched' /\ InitiationOK' /\ InfoOK'
  BY <1>1, <1>2 DEF CallType, Unsearched, InitiationOK, InfoOK
<1>4. ErrorsNoted'
  BY <1>1, Zenon DEF ErrorsNoted
<1>5. InitiationFound' /\ RollupFound'
  BY <1>1, SearchesSame DEF InitiationFound, RollupFound
<1> QED  BY <1>3, <1>4, <1>5

LEMMA TrackerInit == Init => TrackerInv
<1> SUFFICES ASSUME Init PROVE TrackerInv
  OBVIOUS
<1>1. /\ pc = "fetch" /\ late = FALSE /\ seen = 0 /\ initiation = {}
      /\ found = [c \in Chains |-> "awaited"] /\ info = {} /\ failed = FALSE /\ answer = "none"
  BY DEF Init
<1>2. ChainOK
  BY ChainInitOK DEF Init
<1>3. tip \in Nat
  BY <1>2 DEF ChainOK
<1>4. SymbolsType
  <2>1. cached \in [Tokens -> Entries]
    BY DEF Init, SymbolsInit, Entries
  <2>2. lookups \in [Callers -> SUBSET Lookup]
    BY DEF Init, SymbolsInit
  <2> QED  BY <2>1, <2>2 DEF SymbolsType
<1>5. CallType
  <2>1. seen \in 0 .. tip /\ found \in [Chains -> {"awaited", "ok", "error"}]
    BY <1>1, <1>3
  <2>2. late \in BOOLEAN /\ failed \in BOOLEAN
    BY <1>1
  <2> QED  BY <1>1, <2>1, <2>2 DEF CallType
<1>6. SearchInv
  BY <1>1, <1>5 DEF SearchInv, Unsearched, InitiationOK, InfoOK, ErrorsNoted, InitiationFound,
                    RollupFound, Completed, Chains
<1> QED  BY <1>2, <1>4, <1>6, CallInit DEF TrackerInv

LEMMA TrackerNext == TrackerInv /\ [Next]_vars => TrackerInv'
<1> SUFFICES ASSUME TrackerInv, [Next]_vars PROVE TrackerInv'
  OBVIOUS
<1>1. ChainOK /\ SymbolsType /\ CallInv /\ SearchInv /\ InfoOK
  BY DEF TrackerInv, SearchInv
<1>2. ChainOK' /\ SymbolsType' /\ CallInv'
  BY <1>1, ChainSteps, SymbolsTypeNext, CallNext
<1>3. ASSUME UNCHANGED callVars PROVE SearchInv'
  BY <1>1, <1>3, SearchKept
<1>4. ASSUME \/ FetchOrder \/ CheckNonce \/ NonceFails \/ SearchFails
             \/ \E k \in Kinds : \/ \E sufficient \in BOOLEAN : Check(k, sufficient)
                                 \/ CheckFails(k) \/ EndChecks(k)
      PROVE  SearchInv'
  <2>1. UNCHANGED <<chainVars, search>>
    BY <1>4 DEF FetchOrder, CheckNonce, NonceFails, SearchFails, Check, CheckFails, EndChecks
  <2> QED  BY <1>1, <1>4, <2>1, OutsideSearch
<1>5. ASSUME GetTip \/ FindInitiation \/ Join PROVE SearchInv'
  BY <1>1, <1>5, GetTipOK, FindInitiationOK, JoinOK
<1>6. ASSUME \E c \in Chains : SearchFill(c) \/ SearchFillFails(c) PROVE SearchInv'
  BY <1>1, <1>6, SearchFillOK, SearchFillFailsOK
<1>7. ASSUME NameOutput \/ AllNamed PROVE SearchInv'
  BY <1>1, <1>7, NamesOK
<1>8. Next => \/ UNCHANGED callVars \/ Call
  BY DEF Next, Environment, Lookups
<1>9. SearchInv'
  BY <1>3, <1>4, <1>5, <1>6, <1>7, <1>8 DEF Call, vars
<1> QED  BY <1>2, <1>9 DEF TrackerInv

THEOREM TrackerInvariant == Spec => []TrackerInv
BY TrackerInit, TrackerNext, PTL DEF Spec

\* The types.
THEOREM TypeCorrect == Spec => []TypeOK
<1>1. ASSUME TrackerInv PROVE TypeOK
  <2> USE <1>1 DEF TrackerInv
  <2>1. \A i \in DOMAIN orderLogs : orderLogs[i].tx \in Txs /\ orderLogs[i].block <= tip
    <3>1. orderLogs \in Seq(OrderLogs)
      BY DEF ChainOK
    <3>2. \A i \in DOMAIN orderLogs : orderLogs[i] \in OrderLogs /\ i \in 1 .. Len(orderLogs)
      BY <3>1
    <3> QED  BY <3>2 DEF OrderLogs, ChainOK
  <2>2. \A f \in info : f.chain \in Chains
    BY DEF SearchInv, InfoOK, FilledLogs
  <2> QED
    BY <2>1, <2>2 DEF TypeOK, ChainOK, SymbolsType, SearchInv, CallType, CallInv, ReportsOK
<1> QED  BY TrackerInvariant, <1>1, PTL

\* Whatever is shown as the fill covers the order's outputs as a multiset, though
\* the code compares them with a loop over a vector, and lies in the block of an
\* order with the same deadline.
THEOREM ShownCovers == Spec => []ShownFillCovers
<1>1. ASSUME TrackerInv PROVE ShownFillCovers
  <2> SUFFICES ASSUME NEW f \in info
               PROVE  /\ FillOutputsAreSuperset(f.outputs, Outputs)
                      /\ \E i \in initiation : i.deadline /\ i.block = f.block
    BY DEF ShownFillCovers
  <2>1. /\ f \in FilledLogs /\ Covers(f.outputs, Outputs)
        /\ \E i \in initiation : i.deadline /\ i.block = f.block
    BY <1>1 DEF TrackerInv, SearchInv, InfoOK, InitiationOK
  <2>2. f.outputs \in Seq(Output) /\ Outputs \in Seq(Output)
    BY <2>1, FillSearchAssumption DEF FilledLogs
  <2> QED  BY <2>1, <2>2, LoopIsSuperset
<1> QED  BY TrackerInvariant, <1>1, PTL

\* A filled order whose transaction can be found is found, however many blocks,
\* other orders and other fills there are and whenever they are mined.
THEOREM FillIsFound == Spec => []FillFound
<1>1. ASSUME TrackerInv PROVE FillFound
  <2> SUFFICES ASSUME answer = "filled", ~failed, Findable
               PROVE  \E f \in info : /\ f.chain = "rollup"
                                      /\ \E i \in DOMAIN orderLogs :
                                            orderLogs[i].tx = Own /\ orderLogs[i].block = f.block
    BY DEF FillFound
  <2>1. ChainOK /\ SearchInv /\ Completed
    BY <1>1 DEF TrackerInv, Completed
  <2>2. PICK i \in DOMAIN orderLogs, j \in DOMAIN filledLogs :
          /\ orderLogs[i].tx = Own /\ orderLogs[i].readable
          /\ orderLogs[i].block \in seen - Window .. seen
          /\ filledLogs[j].tx = Own /\ filledLogs[j].chain = "rollup" /\ filledLogs[j].readable
          /\ \A k \in 1 .. i - 1 :
                orderLogs[k].readable /\ orderLogs[k].deadline =>
                    orderLogs[k].block < seen - Window
    BY DEF Findable
  <2>3. /\ DOMAIN orderLogs = 1 .. Len(orderLogs) /\ DOMAIN filledLogs = 1 .. Len(orderLogs)
        /\ Len(orderLogs) \in Nat /\ Window \in Nat
        /\ \A k \in 1 .. Len(orderLogs) : orderLogs[k] \in OrderLogs
    BY <2>1, FillSearchAssumption DEF ChainOK
  <2>4. seen \in Nat /\ \A k \in 1 .. Len(orderLogs) : orderLogs[k].block \in Nat
    <3>1. seen \in 0 .. tip /\ tip \in Nat
      BY <2>1 DEF SearchInv, CallType, ChainOK
    <3> QED  BY <2>3, <3>1 DEF OrderLogs
  <2>5. j = i
    BY <2>1, <2>2, <2>3 DEF ChainOK
  <2> DEFINE b == orderLogs[i].block
  <2>6. FindOrderInitiation(seen) = {orderLogs[i]}
    <3>1. i \in InitiationHits(seen)
      <4>1. InWindow(b, seen)
        BY <2>2, <2>3, <2>4 DEF InWindow
      <4>2. orderLogs[i].deadline
        BY <2>1, <2>2, <2>3 DEF ChainOK
      <4> QED  BY <2>2, <4>1, <4>2 DEF InitiationHits
    <3>2. ASSUME NEW k \in 1 .. i - 1 PROVE k \notin InitiationHits(seen)
      <4>1. SUFFICES ASSUME k \in InitiationHits(seen) PROVE FALSE
        OBVIOUS
      <4>2. /\ orderLogs[k].readable /\ orderLogs[k].deadline /\ InWindow(orderLogs[k].block, seen)
            /\ k \in 1 .. Len(orderLogs)
        BY <2>3, <4>1 DEF InitiationHits
      <4>3. orderLogs[k].block < seen - Window
        BY <2>2, <4>2
      <4> QED  BY <2>3, <2>4, <4>2, <4>3 DEF InWindow
    <3> QED  BY <2>1, <2>4, <3>1, <3>2, FoundInitiation
  <2>7. FindFillEvents("rollup", b) \subseteq info
    BY <2>1, <2>6 DEF SearchInv, InitiationFound, RollupFound
  <2>8. i \in FillHits("rollup", b)
    <3>1. filledLogs[i].block = b
      BY <2>1, <2>2, <2>3, <2>5 DEF ChainOK, BlockOn
    <3>2. filledLogs[i].outputs \in FillsOf[Own]
      BY <2>1, <2>2, <2>3, <2>5 DEF ChainOK
    <3>3. Own \in Txs
      BY DEF Txs
    <3>4. /\ filledLogs[i].outputs \in Seq(Output) /\ Outputs \in Seq(Output)
          /\ FillOutputsAreSuperset(filledLogs[i].outputs, Outputs)
      BY <3>2, <3>3, FillSearchAssumption
    <3>5. Covers(filledLogs[i].outputs, Outputs)
      BY <3>4, LoopIsSuperset
    <3> QED  BY <2>2, <2>5, <3>1, <3>5 DEF FillHits
  <2>9. PICK f \in FindFillEvents("rollup", b) : f.chain = "rollup" /\ f.block = b
    BY <2>1, <2>8, FoundFill
  <2> QED  BY <2>2, <2>7, <2>9
<1> QED  BY TrackerInvariant, <1>1, PTL

-----------------------------------------------------------------------------
(* The status check that the call implements *)

LEMMA NonceStaysUsed ==
    ASSUME ChainOK, Environment PROVE nonceUsed' = nonceUsed \/ nonceUsed' = TRUE
<1>1. nonceUsed \in BOOLEAN
  BY DEF ChainOK
<1>2. ASSUME NEW block, Mine(block) PROVE nonceUsed' = nonceUsed \/ nonceUsed' = TRUE
  <2>1. nonceUsed' = (nonceUsed \/ \E i \in DOMAIN block : block[i].tx = Own)
    BY <1>2 DEF Mine
  <2> QED  BY <1>1, <2>1, Zenon
<1>3. ASSUME Revoke PROVE nonceUsed' = TRUE
  BY <1>3 DEF Revoke
<1>4. ASSUME UNCHANGED chainVars PROVE nonceUsed' = nonceUsed
  BY <1>4 DEF chainVars
<1> QED  BY <1>2, <1>3, <1>4 DEF Environment

\* What the check is mapped to, where the call stands.
LEMMA Mapped ==
    ASSUME TrackerInv
    PROVE  /\ pc = "fetch" => ClockRead = "unread"
           /\ pc = "nonce" => ClockRead = IF late THEN "late" ELSE "in_time"
           /\ pc \in {"fetch", "nonce"} => Decided = NotTracked
           /\ pc \in {"tip", "initiation", "search", "names"} => Decided = "filled"
           /\ pc \in Kinds => Decided = StatusOf(late, "unused")
           /\ pc # "done" => Returned = NotTracked
<1>1. answer # "none" => pc = "done"
  BY DEF TrackerInv, CallInv, Progress
<1> QED
  BY <1>1 DEF ClockRead, Decided, Returned, Kinds, Statuses, Terminal, NotTracked

LEMMA StatusIsSome == \A l, n : StatusOf(l, n) \in Statuses /\ StatusOf(l, n) # NotTracked
BY DEF StatusOf, Statuses, Terminal, NotTracked

LEMMA CheckStep ==
    ASSUME TrackerInv, [Next]_vars
    PROVE  [Verdicts!CheckNext]_(Verdicts!checkVars)
<1> USE DEF Verdicts!checkVars, Verdicts!CheckNext
<1>1. /\ answer # "none" => pc = "done"
      /\ ChainOK /\ late \in BOOLEAN
  BY DEF TrackerInv, CallInv, Progress, SearchInv, CallType
<1>2. CASE Environment \/ Lookups \/ UNCHANGED vars
  <2>1. UNCHANGED <<pc, late, answer>>
    BY <1>2 DEF Environment, Lookups, callVars, vars
  <2>2. UNCHANGED <<ClockRead, Decided, Returned>>
    BY <2>1 DEF ClockRead, Decided, Returned
  <2>3. nonceUsed' = nonceUsed \/ nonceUsed' = TRUE
    BY <1>1, <1>2, NonceStaysUsed DEF Lookups, vars, chainVars
  <2> QED  BY <2>2, <2>3 DEF Verdicts!Use
<1>3. CASE FetchOrder
  <2>1. pc = "fetch" /\ UNCHANGED nonceUsed
    BY <1>3 DEF FetchOrder, chainVars
  <2>2. CASE pc' = "nonce" /\ late' \in BOOLEAN /\ UNCHANGED answer
    <3>1. UNCHANGED <<Decided, Returned>>
      BY <1>1, <2>1, <2>2 DEF Decided, Returned, Kinds
    <3>2. ClockRead = "unread" /\ ClockRead' \in {"in_time", "late"}
      BY <1>1, <2>1, <2>2 DEF ClockRead
    <3> QED  BY <2>1, <3>1, <3>2 DEF Verdicts!ReadClock
  <2>3. CASE pc' = "done" /\ answer' \in {"404", "500"}
    <3>1. UNCHANGED <<ClockRead, Decided, Returned>>
      BY <1>1, <2>1, <2>3 DEF ClockRead, Decided, Returned, Kinds, Statuses, Terminal, NotTracked
    <3> QED  BY <2>1, <3>1
  <2> QED  BY <1>3, <2>2, <2>3 DEF FetchOrder, Respond
<1>4. CASE CheckNonce
  <2>1. /\ pc = "nonce" /\ pc' = (IF nonceUsed THEN "tip" ELSE "balance")
        /\ UNCHANGED <<nonceUsed, late, answer>>
    BY <1>4 DEF CheckNonce, chainVars
  <2>2. UNCHANGED <<ClockRead, Returned>> /\ ClockRead = IF late THEN "late" ELSE "in_time"
    BY <1>1, <2>1 DEF ClockRead, Returned
  <2>3. Decided = NotTracked
    BY <2>1, Mapped
  <2>4. Decided' = StatusOf(ClockRead = "late", IF nonceUsed THEN "used" ELSE "unused")
    BY <1>1, <2>1, <2>2 DEF Decided, Kinds, StatusOf
  <2> QED
    BY <2>1, <2>2, <2>3, <2>4
       DEF Verdicts!Decide, Verdicts!StatusOf, Verdicts!NotTracked, StatusOf, NotTracked
<1>5. CASE NonceFails
  <2>1. /\ pc = "nonce" /\ pc' = "done" /\ answer' = "pending"
        /\ UNCHANGED <<nonceUsed, late>>
    BY <1>5 DEF NonceFails, Respond, chainVars
  <2>2. UNCHANGED ClockRead /\ ClockRead # "unread"
    BY <1>1, <2>1 DEF ClockRead
  <2>3. Decided = NotTracked
    BY <2>1, Mapped
  <2>4. Decided' = "pending" /\ Returned' = "pending"
    BY <2>1 DEF Decided, Returned, Kinds, Statuses
  <2> QED
    BY <2>1, <2>2, <2>3, <2>4
       DEF Verdicts!Decide, Verdicts!StatusOf, Verdicts!NotTracked, NotTracked
\* Once it is decided, the call goes on, or ends with what was decided.
<1>6. ASSUME pc # "done", Decided \in Statuses, UNCHANGED <<nonceUsed, ClockRead, Decided>>,
             Returned' \in {NotTracked, Decided}, Returned = NotTracked
      PROVE  Verdicts!Return \/ UNCHANGED Verdicts!checkVars
  BY <1>6 DEF Verdicts!Return, Verdicts!NotTracked, Statuses, Terminal, NotTracked
<1>7. CASE \/ GetTip \/ FindInitiation \/ SearchFails \/ Join \/ NameOutput \/ AllNamed
           \/ \E c \in Chains : SearchFill(c) \/ SearchFillFails(c)
  <2>1. /\ pc \in {"tip", "initiation", "search", "names"} /\ UNCHANGED <<nonceUsed, late>>
        /\ \/ pc' \in {"tip", "initiation", "search", "names"} /\ answer' = answer
           \/ pc' = "done" /\ answer' = "filled"
    BY <1>7 DEF GetTip, FindInitiation, SearchFails, Join, NameOutput, AllNamed, SearchFill,
                SearchFillFails, Respond, chainVars
  <2>2. /\ Decided = "filled" /\ Decided' = "filled" /\ Returned = NotTracked
        /\ Returned' \in {NotTracked, "filled"} /\ ClockRead' = ClockRead
    BY <1>1, <2>1 DEF Decided, Returned, ClockRead, Kinds, Statuses, Terminal, NotTracked
  <2> QED  BY <1>6, <2>1, <2>2 DEF Statuses, Terminal
<1>8. CASE \E k \in Kinds : \/ \E sufficient \in BOOLEAN : Check(k, sufficient)
                            \/ CheckFails(k) \/ EndChecks(k)
  <2>1. /\ pc \in Kinds /\ UNCHANGED <<nonceUsed, late>>
        /\ \/ pc' \in Kinds /\ answer' = answer
           \/ pc' = "done" /\ answer' = IF late THEN "expired" ELSE "pending"
    BY <1>8 DEF Check, CheckFails, EndChecks, Respond, chainVars, Kinds
  <2>2. StatusOf(late, "unused") = IF late THEN "expired" ELSE "pending"
    BY <1>1 DEF StatusOf
  <2>3. /\ Decided = StatusOf(late, "unused") /\ Decided' = Decided /\ Returned = NotTracked
        /\ Returned' \in {NotTracked, Decided} /\ ClockRead' = ClockRead
    BY <1>1, <2>1, <2>2 DEF Decided, Returned, ClockRead, Kinds, Statuses, Terminal, NotTracked
  <2> QED  BY <1>6, <2>1, <2>3, StatusIsSome DEF Kinds
<1> QED
  BY <1>2, <1>3, <1>4, <1>5, <1>7, <1>8 DEF Next, Call

\* A status call, with all its requests, errors and whatever is mined between
\* them, implements the check that the state manager is modelled with.
THEOREM StatusRefinement == Spec => ImplementsStatusCheck
<1>1. Init => Verdicts!CheckInit
  <2> SUFFICES ASSUME Init PROVE Verdicts!CheckInit
    OBVIOUS
  <2>1. nonceUsed = FALSE /\ pc = "fetch" /\ answer = "none"
    BY DEF Init, ChainInit
  <2> QED
    BY <2>1 DEF Verdicts!CheckInit, Verdicts!NotTracked, ClockRead, Decided, Returned, Kinds,
                Statuses, Terminal, NotTracked
<1> QED
  BY <1>1, TrackerInit, TrackerNext, CheckStep, PTL
     DEF Spec, ImplementsStatusCheck, Verdicts!CheckSpec
=============================================================================
