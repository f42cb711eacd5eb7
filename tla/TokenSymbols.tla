---------------------------- MODULE TokenSymbols ----------------------------
(***************************************************************************)
(* The token symbol cache (crates/tracker/src/token_symbol_cache.rs), one  *)
(* for all calls of an order tracker: a lookup reads it under one lock,    *)
(* asks a node, and writes the answer under another.                       *)
(*                                                                         *)
(*   cached    the entry of each address: "none", its "symbol", "unknown"  *)
(*   lookups   the tokens each caller has asked a node for, and the chain  *)
(***************************************************************************)
CONSTANTS
    Callers,   \* calls in progress that share the cache
    Tokens,    \* token addresses
    Seeds,     \* those whose symbol the constants give
    ChainOf    \* the chain each token has its contract on

ASSUME TokenSymbolsAssumption ==
    Seeds \subseteq Tokens /\ ChainOf \in [Tokens -> {"rollup", "host"}]

VARIABLES cached, lookups

symbolVars == <<cached, lookups>>

Entries == {"none", "symbol", "unknown"}

Lookup == [token : Tokens, chain : {"rollup", "host"}]

SymbolsInit ==
    /\ cached = [t \in Tokens |-> IF t \in Seeds THEN "symbol" ELSE "none"]
    /\ lookups = [c \in Callers |-> {}]

Looking(c) == lookups[c] # {}

\* The cache is not read.
Bug_Resolve(c, t, chain) ==
    /\ lookups' = [lookups EXCEPT ![c] = {[token |-> t, chain |-> chain]}]
    /\ UNCHANGED cached

\* Caller c needs the symbol of t, with a provider of the given chain.
Resolve(c, t, chain) ==
    /\ lookups' = IF cached[t] = "none"
                  THEN [lookups EXCEPT ![c] = {[token |-> t, chain |-> chain]}]
                  ELSE lookups
    /\ UNCHANGED cached

\* The node has answered, and the cache takes what it said whoever wrote it
\* before. A chain without the contract, and an RPC error, make it "unknown".
Resolved(c) ==
    \E l \in lookups[c], entry \in {"symbol", "unknown"} :
        /\ entry = "symbol" => l.chain = ChainOf[l.token]
        /\ cached' = [cached EXCEPT ![l.token] = entry]
        /\ lookups' = [lookups EXCEPT ![c] = {}]

-----------------------------------------------------------------------------

\* An entry is settled when it is there and no lookup of the token is on its way.
Settled(t) ==
    /\ cached[t] # "none"
    /\ \A c \in Callers : \A l \in lookups[c] : l.token # t

\* A settled entry stays as it is for the life of the process: a token whose
\* symbol came with the constants is never asked for, and only lookups that were
\* on their way together can replace each other's answer.
SymbolsSettle ==
    [][\A t \in Tokens : Settled(t) => Settled(t)' /\ cached'[t] = cached[t]]_symbolVars
=============================================================================
