---------------------- MODULE MCClientSubscriptions ----------------------
(* Symmetry for checking the safety of ClientSubscriptions with TLC.       *)
EXTENDS ClientSubscriptions, TLC

Symmetry == Permutations(Conns) \cup Permutations(Callers)
==========================================================================
