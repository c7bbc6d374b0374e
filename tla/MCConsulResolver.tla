------------------------ MODULE MCConsulResolver -------------------------
(* Symmetry for checking the safety of ConsulResolver with TLC.            *)
EXTENDS ConsulResolver, TLC

Symmetry == Permutations(Services) \cup Permutations(Callbacks)
==========================================================================
