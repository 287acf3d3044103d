------------------------------ MODULE Resolver ------------------------------
(***************************************************************************)
(* The parameter table of one generation job from the parse of its        *)
(* configuration (VarDict.add) through the fixed-point substitution of    *)
(* '$name' references (VarDict.substitute), generateParametricFiles.py.   *)
(*                                                                         *)
(* The table maps each parameter to its root list on the heap of          *)
(* ValueTree.  The iteration order of the Python 2 dict, fixed by the      *)
(* hashes of the keys, is a permutation chosen at Init.  One step of the  *)
(* model is one scan of the table (searchForSomeVarInConf and the loop    *)
(* test) or the rewriting of one key (one call of __searchAndSubstitute). *)
(***************************************************************************)
EXTENDS ValueTree, Graphs

CONSTANTS
    Lines,      \* the configuration lines a key may be given, already split
    MaxRounds,  \* bound on the passes of the substitution loop
    Rewrite(_, _, _, _)
                \* the rewrite of one key's list, Rewrite(st, dict, a, depth):
                \* VarDict.__searchAndSubstitute (ValueTree) or the
                \* searchAndSubstitute of parsing.py (LegacyValueTree)

VARIABLES
    conf,       \* the configuration: key -> line
    order,      \* iteration order of self.Dict
    heap,       \* the list objects
    nxt,        \* next free heap address
    dict,       \* self.Dict: key -> address of its root list
    keysFor,    \* keysForSubstitution
    oldKeys,    \* oldKeys
    todo,       \* keys of keysForSubstitution not yet rewritten this pass
    rounds,     \* passes of the while loop so far
    pc,         \* "scan", "subst", "done", "crash", or "bound"
    err         \* the exception that ended the run, or "none"

vars == <<conf, order, heap, nxt, dict, keysFor, oldKeys, todo, rounds, pc, err>>

EmptyHeap == [hp |-> [a \in Addr |-> <<>>], nxt |-> 1, err |-> "none"]
Cur == [hp |-> heap, nxt |-> nxt, err |-> "none"]

TypeOK ==
    /\ conf \in [Keys -> Lines]
    /\ order \in SetToSeqs(Keys)
    /\ heap \in [Addr -> Seq(Elem)]
    /\ nxt \in 1..(MaxAddr + 1)
    /\ dict \in [Keys -> Addr]
    /\ keysFor \subseteq Keys /\ oldKeys \subseteq Keys
    /\ todo \in Seq(Keys)
    /\ rounds \in 0..MaxRounds
    /\ pc \in {"scan", "subst", "done", "crash", "bound"}
    \* never "index": the for loop of __searchAndSubstitute (line 295) runs
    \* over the length L had on entry, and L never gets shorter, since a
    \* deleted string is replaced by at least one combination (lines 320-322)
    /\ err \in {"none", "recursion", "heap"}

(***************************************************************************)
(* VarDict.add (lines 221-247) reads every line into self.Dict; then       *)
(* substitute (lines 262-264) starts with oldKeys = [].                    *)
(***************************************************************************)
Init ==
    /\ conf \in [Keys -> Lines]
    /\ order \in SetToSeqs(Keys)
    /\ LET r == ParseAll(EmptyHeap, [k \in {} |-> 1], conf, order)
       IN  /\ heap = r.st.hp
           /\ nxt = r.st.nxt
           /\ dict = r.dict
           /\ pc = IF r.st.err = "none" THEN "scan" ELSE "bound"
    /\ keysFor = {} /\ oldKeys = {} /\ todo = <<>>
    /\ rounds = 0 /\ err = "none"

(***************************************************************************)
(* searchForSomeVarInConf (lines 275-280) over every key in dict order.    *)
(***************************************************************************)
ScanResult == [k \in DOMAIN dict |-> SearchForVarInList(heap, dict[k], 1, 1)]
KeysWithVar == {k \in DOMAIN dict : ScanResult[k] = "yes"}
HasVar(k) == k \in KeysWithVar

\* a cyclic list sends __searchForVarInList into endless recursion
ScanCrash ==
    /\ pc = "scan"
    /\ \E k \in DOMAIN dict : ScanResult[k] = "recursion"
    /\ pc' = "crash" /\ err' = "recursion"
    /\ UNCHANGED <<conf, order, heap, nxt, dict, keysFor, oldKeys, todo, rounds>>

\* mutant: the loop stops only when no key has a '$' left
ScanDoneWhenEmpty ==
    /\ pc = "scan"
    /\ \A k \in DOMAIN dict : ScanResult[k] # "recursion"
    /\ KeysWithVar = {}
    /\ keysFor' = KeysWithVar
    /\ pc' = "done"
    /\ UNCHANGED <<conf, order, heap, nxt, dict, oldKeys, todo, rounds, err>>

\* the while test fails (line 265): the key list is empty or unchanged
ScanDone ==
    /\ pc = "scan"
    /\ \A k \in DOMAIN dict : ScanResult[k] # "recursion"
    /\ KeysWithVar = {} \/ KeysWithVar = oldKeys
    /\ keysFor' = KeysWithVar
    /\ pc' = "done"
    /\ UNCHANGED <<conf, order, heap, nxt, dict, oldKeys, todo, rounds, err>>

\* another pass of the while loop (lines 266-267)
ScanRound ==
    /\ pc = "scan"
    /\ \A k \in DOMAIN dict : ScanResult[k] # "recursion"
    /\ KeysWithVar # {} /\ KeysWithVar # oldKeys
    /\ rounds < MaxRounds          \* no step beyond the model's bound
    /\ keysFor' = KeysWithVar
    /\ oldKeys' = KeysWithVar
    /\ todo' = SelectSeq(order, HasVar)
    /\ rounds' = rounds + 1
    /\ pc' = "subst"
    /\ UNCHANGED <<conf, order, heap, nxt, dict, err>>

(***************************************************************************)
(* self.Dict[k] = self.__searchAndSubstitute(self.Dict[k]) (line 268) for  *)
(* the next key of the pass; the list is rewritten in place, so the root   *)
(* address of k does not change.                                           *)
(***************************************************************************)
Substitute ==
    /\ pc = "subst"
    /\ todo # <<>>
    /\ \E r \in {Rewrite(Cur, dict, dict[Head(todo)], 1)} :
           IF r.err = "none"
           THEN /\ heap' = r.hp
                /\ nxt' = r.nxt
                /\ todo' = Tail(todo)
                /\ pc' = IF Tail(todo) = <<>> THEN "scan" ELSE "subst"
                /\ UNCHANGED err
           ELSE /\ pc' = IF r.err = "heap" THEN "bound" ELSE "crash"
                /\ err' = r.err
                /\ UNCHANGED <<heap, nxt, todo>>
    /\ UNCHANGED <<conf, order, dict, keysFor, oldKeys, rounds>>

Next ==
    \/ ScanCrash
    \/ ScanDone
    \/ ScanRound
    \/ Substitute

(***************************************************************************)
(* The resolver is one sequential Python loop: while it has a step to      *)
(* take it takes it, so every action is weakly fair.  ENABLED              *)
(* <<Substitute>>_vars is written out as the state predicate it equals     *)
(* (each branch changes todo or pc), which spares TLC from computing a      *)
(* whole __searchAndSubstitute call to decide it.                          *)
(***************************************************************************)
SubstituteEnabled == pc = "subst" /\ todo # <<>>

WFSubstitute == <>[]SubstituteEnabled => []<><<Substitute>>_vars

Spec == Init /\ [][Next]_vars /\ WF_vars(ScanCrash \/ ScanDone \/ ScanRound) /\ WFSubstitute

-----------------------------------------------------------------------------
(***************************************************************************)
(* The reference graph of the configuration: k -> n when k's line         *)
(* contains a '$n' that the resolver reads as the key n.                   *)
(***************************************************************************)
RefGraph == [node |-> Keys,
             edge |-> {<<k, n>> \in Keys \X Keys : n \in RefsOf(conf[k])}]

Cyclic == HasCycle(RefGraph)

\* the final list of a key, reduced as CommandDict.minimize does
Reduced(k) == ReduceListConcat(heap, dict[k], 1).val

(***************************************************************************)
(* The substitution loop always stops: it reaches the end of              *)
(* substitute() or dies with an exception, within MaxRounds passes.       *)
(* About the loop test of VarDict.substitute (line 265).                  *)
(***************************************************************************)
ResolutionTerminates == <>(pc \in {"done", "crash"})

(***************************************************************************)
(* The resolver dies of endless recursion only when the configuration's  *)
(* references form a cycle: the list sharing that __searchAndSubstitute   *)
(* creates (line 312) never makes a cycle of its own.                    *)
(***************************************************************************)
CrashOnlyOnCycle == pc = "crash" => Cyclic

(***************************************************************************)
(* Spec section 8: with no reference cycle, and every reference naming a *)
(* defined key, the resolver ends with no key still containing '$'.      *)
(* About the loop test of substitute (line 265) and the in-place rewrite *)
(* of a multi-element list (lines 318-322).                              *)
(***************************************************************************)
\* every reference of the configuration names a defined key, as it is read
RefsDefined ==
    \A k \in Keys :
        \A t \in UNION {Tokens(s) : s \in Alts(conf[k])} : TokKey(t) \in Keys

ReferencesResolve ==
    (pc = "done" /\ ~Cyclic /\ RefsDefined) => keysFor = {}

(***************************************************************************)
(* Every key the resolver reports resolved (no '$' left) holds exactly    *)
(* the values its configuration denotes, counted with multiplicity.       *)
(* About the copy of a referenced, still unresolved key into a            *)
(* multi-element list (lines 318-322).                                    *)
(***************************************************************************)
ResolvedValuesCorrect ==
    (pc = "done" /\ ~Cyclic)
        => \A k \in Keys \ keysFor :
               ToBag(Reduced(k)) = ToBag(DenoteKey(conf, k))
=============================================================================
