------------------------ MODULE MCClientLifecycle ------------------------
(* Model values and symmetry for checking ClientLifecycle with TLC.        *)
EXTENDS ClientLifecycle, TLC

(* Application calls are interchangeable, and so are telemetry calls. Only *)
(* the runs of safety properties use it.                                   *)
Symmetry == Permutations(Ops) \cup Permutations(Infos)
==========================================================================
