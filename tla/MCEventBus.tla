----------------------------- MODULE MCEventBus -----------------------------
(* Instances of EventBus for TLC.                                          *)
EXTENDS EventBus, TLC

Symmetry == Permutations(Connections) \cup Permutations(Publishers)
=============================================================================
