--------------------------- MODULE MCInformerCache ---------------------------
(***************************************************************************)
(* InformerCache for TLC: an object of the same name in the namespace of   *)
(* the program and in another one, and a factory with no option, with one, *)
(* and with both.                                                          *)
(***************************************************************************)
EXTENDS InformerCache

MCObjects == {[ns |-> Home, name |-> "a"], [ns |-> "away", name |-> "a"]}
MCOptionLists == {<<>>, <<WithTweakListOptions>>, <<WithNamespace, WithTweakListOptions>>}
=============================================================================
