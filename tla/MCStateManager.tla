--------------------------- MODULE MCStateManager ---------------------------
(* Two orders with one deadline; a fill of the second covers the outputs of  *)
(* the first.                                                                *)
EXTENDS StateManager

CONSTANTS o1, o2

Deadlines == [o \in {o1, o2} |-> 0]

Dai == [asset |-> "100 DAI to alice", chain |-> "rollup"]
Eth == [asset |-> "1 ETH to bob", chain |-> "host"]

Outputs == o1 :> <<Dai>> @@ o2 :> <<Dai, Eth>>

\* One order, for the liveness run.
OneDeadline == o1 :> 0
OneOutputs == o1 :> <<Dai>>

\* Two orders that only differ in owner and nonce.
TwinOutputs == o1 :> <<Dai>> @@ o2 :> <<Dai>>
=============================================================================
