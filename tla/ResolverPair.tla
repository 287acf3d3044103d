---------------------------- MODULE ResolverPair ----------------------------
(***************************************************************************)
(* The two copies of the resolver side by side on the same configuration  *)
(* and the same dict order: Current, VarDict.substitute of                *)
(* generateParametricFiles.py, and Legacy, substitute of parsing.py.  The  *)
(* copies share no state; their steps interleave.                         *)
(***************************************************************************)
EXTENDS LegacyValueTree

CONSTANTS Lines, MaxRounds

VARIABLES
    conf, order,                                           \* shared input
    heap, nxt, dict, keysFor, oldKeys, todo, rounds, pc, err,  \* Current
    lHeap, lNxt, lDict, lKeysFor, lOldKeys, lTodo, lRounds, lPc, lErr  \* Legacy

cVars == <<heap, nxt, dict, keysFor, oldKeys, todo, rounds, pc, err>>
lVars == <<lHeap, lNxt, lDict, lKeysFor, lOldKeys, lTodo, lRounds, lPc, lErr>>
vars  == <<conf, order, cVars, lVars>>

Current == INSTANCE Resolver WITH Rewrite <- SearchAndSubstitute

Legacy == INSTANCE Resolver
              WITH Rewrite <- SearchAndSubstituteLegacy,
                   heap <- lHeap, nxt <- lNxt, dict <- lDict, keysFor <- lKeysFor,
                   oldKeys <- lOldKeys, todo <- lTodo, rounds <- lRounds,
                   pc <- lPc, err <- lErr

Init == Current!Init /\ Legacy!Init

Next == \/ UNCHANGED lVars /\ Current!Next
        \/ UNCHANGED cVars /\ Legacy!Next

(***************************************************************************)
(* Each copy is a sequential loop, weakly fair as in Resolver; the         *)
(* enabledness of a rewrite is written out as there.                      *)
(***************************************************************************)
WFCurrent ==
    /\ WF_cVars(Current!ScanCrash \/ Current!ScanDone \/ Current!ScanRound)
    /\ <>[](pc = "subst" /\ todo # <<>>) => []<><<Current!Substitute>>_cVars

WFLegacy ==
    /\ WF_lVars(Legacy!ScanCrash \/ Legacy!ScanDone \/ Legacy!ScanRound)
    /\ <>[](lPc = "subst" /\ lTodo # <<>>) => []<><<Legacy!Substitute>>_lVars

Spec == Init /\ [][Next]_vars /\ WFCurrent /\ WFLegacy

TypeOK == Current!TypeOK /\ Legacy!TypeOK

-----------------------------------------------------------------------------
(***************************************************************************)
(* Both copies always stop: substitute() ends or dies with an exception    *)
(* within MaxRounds passes.  About the loop test (line 265 of             *)
(* generateParametricFiles.py, line 169 of parsing.py).                   *)
(***************************************************************************)
ResolutionTerminates == Current!ResolutionTerminates /\ Legacy!ResolutionTerminates

(***************************************************************************)
(* Neither copy dies of endless recursion unless the references form a    *)
(* cycle: the list objects the rewrites share (line 312; line 207 of      *)
(* parsing.py) never make a cycle of their own.                           *)
(***************************************************************************)
CrashOnlyOnCycle == Current!CrashOnlyOnCycle /\ Legacy!CrashOnlyOnCycle

(***************************************************************************)
(* Spec section 8 holds of parsing.py: with no reference cycle and every  *)
(* reference defined, its substitute ends with no key containing '$'.      *)
(* Replacing L[i] in place (line 215) keeps every later index in range,   *)
(* and one pass reaches the shared lists of the keys it references.       *)
(***************************************************************************)
LegacyReferencesResolve == Legacy!ReferencesResolve
=============================================================================
