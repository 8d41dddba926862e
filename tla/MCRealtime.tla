----------------------------- MODULE MCRealtime -----------------------------
(* Instances of Realtime for TLC.                                          *)
EXTENDS Realtime, TLC

Keeping == [realtime |-> TRUE, clear |-> FALSE]
Clearing == [realtime |-> TRUE, clear |-> TRUE]
Off == [realtime |-> FALSE, clear |-> FALSE]

OnlyClearing == {Clearing}
AllSettings == {Keeping, Clearing, Off}

Symmetry == Permutations(Handlers) \cup Permutations(BoardIds)
=============================================================================
