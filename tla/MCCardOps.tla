----------------------------- MODULE MCCardOps -------------------------------
(* Instance of CardOps for TLC.                                              *)
EXTENDS CardOps

(* An operator who only ever runs burn.                                      *)
BurnOnlySpec == Init /\ [][StartBurn \/ Burn \/ Probe \/ RemoveCard]_vars
=============================================================================
