------------------------------ MODULE TipFeed ------------------------------
(***************************************************************************)
(* What the consumers of BlockNumbers are promised: a watch channel that   *)
(* is created with a tip of both chains and always holds one. A new tip    *)
(* replaces one that was not taken yet; the host's number never goes back. *)
(*   channel  {} until it is created, then {the tip}                       *)
(*   changed  the tip was not taken yet                                    *)
(***************************************************************************)
EXTENDS Naturals

VARIABLES channel, changed

tipVars == <<channel, changed>>

Tips == [rollup : Nat, host : Nat]

TipInit == channel = {} /\ changed = FALSE

Create ==
    /\ channel = {}
    /\ \E t \in channel' : t \in Tips /\ channel' = {t}
    /\ UNCHANGED changed

Replace ==
    /\ \E s \in channel, t \in channel' :
          t \in Tips /\ channel' = {t} /\ t.host >= s.host
    /\ changed' = TRUE

Take == changed /\ changed' = FALSE /\ UNCHANGED channel

TipNext == Create \/ Replace \/ Take

TipSpec == TipInit /\ [][TipNext]_tipVars
=============================================================================
