---------------------------- MODULE FillOutputs ----------------------------
(***************************************************************************)
(* Matching the outputs of a fill against the outputs of an order          *)
(* (crates/tracker/src/fill_search.rs).  An output is a record             *)
(*   [asset |-> ..., chain |-> ...]                                        *)
(* where the asset stands for the (token, amount, recipient) triple that   *)
(* the code compares, and chain for the chainId it leaves out.             *)
(***************************************************************************)
EXTENDS SequencesExt

AssetsOf(outputs) == [i \in DOMAIN outputs |-> outputs[i].asset]

\* Every order output has a fill output of its own: a comparison of multisets.
FillOutputsAreSuperset(fillOutputs, orderOutputs) ==
    ToBag(AssetsOf(orderOutputs)) \sqsubseteq ToBag(AssetsOf(fillOutputs))
=============================================================================
