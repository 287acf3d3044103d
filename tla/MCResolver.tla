---------------------------- MODULE MCResolver -----------------------------
(***************************************************************************)
(* Resolver, with the rewrite of generateParametricFiles.py, over the     *)
(* configurations of ResolverLines.                                        *)
(***************************************************************************)
EXTENDS Resolver, ResolverLines
=============================================================================
