-------------------------- MODULE MCClientCalls --------------------------
(* Constants and symmetry for model checking ClientCalls with TLC.         *)
EXTENDS ClientCalls, TLC

Symmetry == Permutations(Callers) \cup Permutations(Topics)
==========================================================================
