------------------------ MODULE MCResolverClient -------------------------
(* Constants for model checking ResolverClient with TLC.                   *)
EXTENDS ResolverClient

CONSTANTS a, b
MCLists == {<<>>, <<b>>, <<a, b>>}
==========================================================================
