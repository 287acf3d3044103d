-------------------------- MODULE LegacyValueTree --------------------------
(***************************************************************************)
(* searchAndSubstitute of parsing.py (lines 188-218), the older copy of    *)
(* the resolver.  Its parse (lines 127-151), searchForVarInList (155-163), *)
(* substitute (166-176) and searchForSomeVarInConf (179-185) are, line for *)
(* line, those of VarDict in generateParametricFiles.py, modelled by       *)
(* ValueTree and Resolver.  The rewrite differs: a string containing '$'  *)
(* is always replaced in place by the list newLi, in a list of one        *)
(* element or of many; nothing is reduced, deleted or appended.           *)
(***************************************************************************)
EXTENDS ValueTree

(***************************************************************************)
(* The string L[i] contains '$' (lines 194-216): newLi is built as in the  *)
(* newer copy (a defined key's own list object, a fresh one-string list    *)
(* for anything else) and L[i] = newLi.                                    *)
(***************************************************************************)
SubstStringLegacy(st, dict, a, i) ==
  The({ LET st2 == Alloc(n.st, n.elems)
        IN  IF st2.err # "none" THEN st2
            ELSE [st2 EXCEPT !.hp = [st2.hp EXCEPT ![a] = [st.hp[a] EXCEPT ![i] = [p |-> n.st.nxt]]]] :
        n \in {AllocItems(st, dict, Split(st.hp[a][i].s))} })

(***************************************************************************)
(* for i in range(0, len(L)) (line 189), a nested list searched in place  *)
(* (lines 190-191); a call nested deeper than MaxDepth is the              *)
(* RuntimeError of a self-containing list.                                 *)
(***************************************************************************)
RECURSIVE SearchAndSubstituteLegacy(_, _, _, _), SubstituteFromLegacy(_, _, _, _, _, _),
          SubstStepLegacy(_, _, _, _, _, _), SubstStepLegacySkipsLists(_, _, _, _, _, _)
SearchAndSubstituteLegacy(st, dict, a, d) ==
  IF d > MaxDepth THEN [st EXCEPT !.err = "recursion"]
  ELSE SubstituteFromLegacy(st, dict, a, 1, Len(st.hp[a]), d)

SubstituteFromLegacy(st0, dict, a, i, n, d) ==
  The({ SubstStepLegacy(st, dict, a, i, n, d) : st \in {st0} })

\* mutant: a nested list is not searched
SubstStepLegacySkipsLists(st, dict, a, i, n, d) ==
  IF st.err # "none" \/ i > n THEN st
  ELSE LET e   == st.hp[a][i]
           st1 == IF IsStr(e) /\ HasDollar(e.s) THEN SubstStringLegacy(st, dict, a, i) ELSE st
       IN  SubstituteFromLegacy(st1, dict, a, i + 1, n, d)

SubstStepLegacy(st, dict, a, i, n, d) ==
  IF st.err # "none" \/ i > n THEN st
  ELSE LET e   == st.hp[a][i]
           st1 == IF ~IsStr(e) THEN SearchAndSubstituteLegacy(st, dict, e.p, d + 1)
                  ELSE IF HasDollar(e.s) THEN SubstStringLegacy(st, dict, a, i)
                  ELSE st
       IN  SubstituteFromLegacy(st1, dict, a, i + 1, n, d)
=============================================================================
