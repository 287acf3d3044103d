--------------------------- MODULE MCResolverPair ---------------------------
(***************************************************************************)
(* ResolverPair over the configurations of ResolverLines.                  *)
(***************************************************************************)
EXTENDS ResolverPair, ResolverLines
=============================================================================
