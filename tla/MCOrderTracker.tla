--------------------------- MODULE MCOrderTracker ---------------------------
(* An order with two equal outputs, and one more transaction, whose fill may *)
(* or may not cover them.                                                    *)
EXTENDS OrderTracker

CONSTANTS own, twin, dai, weth, me, other

Dai == [asset |-> "100 DAI to alice", token |-> dai, chain |-> "rollup"]
Eth == [asset |-> "1 ETH to bob", token |-> weth, chain |-> "host"]

TwoDai == <<Dai, Dai>>

DaiAndEth == {Dai, Eth}

Fills == own :> {TwoDai} @@ twin :> {<<Dai, Eth>>, <<Dai, Eth, Dai>>}

TokenChains == dai :> "rollup" @@ weth :> "host"

DaiAndWeth == <<dai, weth>>
=============================================================================
