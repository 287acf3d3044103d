----------------------------- MODULE ValueTree -----------------------------
(***************************************************************************)
(* The value trees of generateParametricFiles.py as the Python objects     *)
(* they are: lists living on a heap, so that two parameters can share one  *)
(* list object.  VarDict.__searchAndSubstitute puts the list object        *)
(* self.Dict[k] itself into another parameter's tree, and later mutates    *)
(* it in place; sharing, and the cycles it can create, are the heart of    *)
(* the resolver's behaviour, so the heap is modelled explicitly.           *)
(*                                                                         *)
(*   heap   : address -> sequence of elements (a Python list)              *)
(*   element: [s |-> Str]   a Python string                                *)
(*            [p |-> addr]  a reference to a list object                   *)
(*   Str    : sequence of atoms; an atom is a chunk of literal text        *)
(*            (Lit), one blank (Blank) or "$name" (Ref)                    *)
(*                                                                         *)
(* Operators that model recursive Python functions take a depth argument;  *)
(* a call nested deeper than MaxDepth stands for the RuntimeError          *)
(* "maximum recursion depth exceeded" that a cyclic list produces.         *)
(***************************************************************************)
EXTENDS Naturals, Sequences, SequencesExt, FiniteSets

CONSTANTS
    Keys,       \* parameter names a configuration may define
    Names,      \* names that may follow a '$' (Keys and undefined names)
    Lits,       \* chunks of literal text, without blanks or '$'
    MaxAddr,    \* number of list objects the heap can hold
    MaxDepth    \* nesting depth standing for Python's recursion limit

ASSUME Keys \subseteq Names /\ MaxAddr \in Nat /\ MaxDepth \in Nat

Glued == "<name glued to text>"
ASSUME Glued \notin Names

Lit(v) == [kind |-> "lit", v |-> v]
Ref(n) == [kind |-> "ref", v |-> n]
Blank  == [kind |-> "sp", v |-> " "]
Atom   == {Lit(v) : v \in Lits} \cup {Ref(n) : n \in Names} \cup {Blank}

Addr == 1..MaxAddr
Elem == [s : Seq(Atom)] \cup [p : Addr]
IsStr(e) == "s" \in DOMAIN e

\* re.search('\$', s)
HasDollar(s) == \E i \in 1..Len(s) : s[i].kind = "ref"

(***************************************************************************)
(* re.split('(\$\S+)', s) with the empty items dropped (lines 301, 308):   *)
(* the text before the first '$' is a literal item, and the token runs     *)
(* from '$' to the next blank.                                             *)
(***************************************************************************)
RECURSIVE Split(_)
Split(s) ==
  IF ~HasDollar(s)
  THEN IF s = <<>> THEN <<>> ELSE << [tok |-> FALSE, s |-> s] >>
  ELSE LET p   == SelectInSeq(s, LAMBDA x : x.kind = "ref")
           q0  == SelectInSubSeq(s, p, Len(s), LAMBDA x : x.kind = "sp")
           q   == IF q0 = 0 THEN Len(s) + 1 ELSE q0
           pre == SubSeq(s, 1, p - 1)
       IN  (IF pre = <<>> THEN <<>> ELSE << [tok |-> FALSE, s |-> pre] >>)
           \o << [tok |-> TRUE, s |-> SubSeq(s, p, q - 1)] >>
           \o Split(SubSeq(s, q, Len(s)))

\* it.split('$')[1] (line 310): the text between the first and second '$';
\* literal text right after the name becomes part of it.
TokKey(t) == IF Len(t) = 1 \/ t[2].kind = "ref" THEN t[1].v ELSE Glued

(***************************************************************************)
(* Heap state threaded through the operators: the heap, the next free     *)
(* address, and the error the Python code raised ("none" if none).        *)
(***************************************************************************)
Alloc(st, lst) ==
  IF st.err # "none" THEN st
  ELSE IF st.nxt > MaxAddr THEN [st EXCEPT !.err = "heap"]
  ELSE [st EXCEPT !.hp = [st.hp EXCEPT ![st.nxt] = lst], !.nxt = @ + 1]

(***************************************************************************)
(* The element of a singleton.  A result is bound with                     *)
(*   The({ ... r ... : r \in {Expr} })                                    *)
(* rather than LET r == Expr, so that TLC computes Expr once even where   *)
(* it does not cache LET definitions (when it evaluates ENABLED).          *)
(***************************************************************************)
The(S) == CHOOSE x \in S : TRUE

Strings(seq) == [j \in DOMAIN seq |-> [s |-> seq[j]]]

(***************************************************************************)
(* VarDict.add, one line (lines 237-246): the value is split on ';' into   *)
(* segments and every segment on ',' into alternatives.  A value with one *)
(* segment becomes the flat list of its alternatives; otherwise every      *)
(* segment becomes a list of its own.  A line is given here already split: *)
(* a sequence of segments, each a sequence of alternative strings.         *)
(***************************************************************************)
RECURSIVE AllocSegments(_, _)
AllocSegments(st, segs) ==
  IF segs = <<>> THEN [st |-> st, elems |-> <<>>]
  ELSE LET st1 == Alloc(st, Strings(Head(segs)))
       IN  The({ [st |-> r.st, elems |-> << [p |-> st.nxt] >> \o r.elems] :
                 r \in {AllocSegments(st1, Tail(segs))} })

ParseLine(st, line) ==
  LET elems == IF Len(line) = 1 THEN [st |-> st, elems |-> Strings(line[1])]
                                ELSE AllocSegments(st, line)
  IN  [st |-> Alloc(elems.st, elems.elems), root |-> elems.st.nxt]

RECURSIVE ParseAll(_, _, _, _)
ParseAll(st, dict, conf, ks) ==
  IF ks = <<>> THEN [st |-> st, dict |-> dict]
  ELSE LET r == ParseLine(st, conf[Head(ks)])
       IN  ParseAll(r.st, dict @@ (Head(ks) :> r.root), conf, Tail(ks))

(***************************************************************************)
(* VarDict.__searchForVarInList (lines 283-291): depth-first search for a  *)
(* string containing '$', returning at the first one.  Yields "yes", "no"  *)
(* or "recursion".                                                         *)
(***************************************************************************)
RECURSIVE SearchForVarInList(_, _, _, _)
SearchForVarInList(hp, a, j, d) ==
  IF d > MaxDepth THEN "recursion"
  ELSE IF j > Len(hp[a]) THEN "no"
  ELSE LET e == hp[a][j]
       IN  IF IsStr(e)
           THEN IF HasDollar(e.s) THEN "yes" ELSE SearchForVarInList(hp, a, j + 1, d)
           ELSE The({ IF r = "no" THEN SearchForVarInList(hp, a, j + 1, d) ELSE r :
                      r \in {SearchForVarInList(hp, e.p, 1, d + 1)} })

(***************************************************************************)
(* listUtils.reduceListConcat (listUtils.py is not in the repository; from *)
(* the spec and the examples in parsing.py lines 2-6 and main): a list of  *)
(* strings is a set of alternatives; any other list is a sequence of       *)
(* segments, a string segment having one alternative, and reduces to every *)
(* concatenation choosing one alternative per segment, in order.           *)
(***************************************************************************)
Product(X, Y) ==
  [k \in 1..(Len(X) * Len(Y)) |->
      X[((k - 1) \div Len(Y)) + 1] \o Y[((k - 1) % Len(Y)) + 1]]

Failed == [err |-> TRUE, val |-> <<>>]

RECURSIVE ReduceListConcat(_, _, _), ReduceSegments(_, _, _)
ReduceListConcat(hp, a, d) ==
  IF d > MaxDepth THEN Failed
  ELSE IF \A j \in 1..Len(hp[a]) : IsStr(hp[a][j])
  THEN [err |-> FALSE, val |-> [j \in 1..Len(hp[a]) |-> hp[a][j].s]]
  ELSE ReduceSegments(hp, hp[a], d)

ReduceSegments(hp, segs, d) ==
  IF segs = <<>> THEN [err |-> FALSE, val |-> << <<>> >>]
  ELSE LET H == IF IsStr(Head(segs)) THEN [err |-> FALSE, val |-> << Head(segs).s >>]
                                     ELSE ReduceListConcat(hp, Head(segs).p, d + 1)
       IN  The({ IF h.err THEN Failed
                 ELSE The({ IF t.err THEN Failed
                            ELSE [err |-> FALSE, val |-> Product(h.val, t.val)] :
                            t \in {ReduceSegments(hp, Tail(segs), d)} }) :
                 h \in {H} })
(***************************************************************************)
(* newLi of __searchAndSubstitute (lines 305-317): a literal item and a    *)
(* '$' token whose name is not a key each become a fresh one-string list; *)
(* a token naming a key becomes the key's own list object self.Dict[k].    *)
(***************************************************************************)
RECURSIVE AllocItems(_, _, _)
AllocItems(st, dict, items) ==
  IF items = <<>> THEN [st |-> st, elems |-> <<>>]
  ELSE LET it    == Head(items)
           found == it.tok /\ TokKey(it.s) \in DOMAIN dict
           st1   == IF found THEN st ELSE Alloc(st, << [s |-> it.s] >>)
           e     == IF found THEN [p |-> dict[TokKey(it.s)]] ELSE [p |-> st.nxt]
       IN  The({ [st |-> r.st, elems |-> << e >> \o r.elems] :
                 r \in {AllocItems(st1, dict, Tail(items))} })

\* newLi as reduceListConcat sees it: a fresh one-string list reduces like
\* its string.
NewLiSegments(dict, items) ==
  [j \in DOMAIN items |->
      IF items[j].tok /\ TokKey(items[j].s) \in DOMAIN dict
      THEN [p |-> dict[TokKey(items[j].s)]]
      ELSE [s |-> items[j].s]]

\* mutant: the first combination is not appended (for b in newLi[1:])
SubstStringSkipsFirst(st, dict, a, i, d) ==
  LET L     == st.hp[a]
      items == Split(L[i].s)
  IN  IF Len(L) # 1
      THEN The({ IF r.err THEN [st EXCEPT !.err = "recursion"]
                 ELSE [st EXCEPT !.hp = [st.hp EXCEPT ![a] = RemoveAt(L, i) \o Strings(Tail(r.val))]] :
                 r \in {ReduceSegments(st.hp, NewLiSegments(dict, items), d + 1)} })
      ELSE The({ LET st2 == Alloc(n.st, n.elems)
                 IN  IF st2.err # "none" THEN st2
                     ELSE [st2 EXCEPT !.hp = [st2.hp EXCEPT ![a] = [L EXCEPT ![i] = [p |-> n.st.nxt]]]] :
                 n \in {AllocItems(st, dict, items)} })

(***************************************************************************)
(* The string L[i] contains '$' (lines 300-324).  In a list of more than   *)
(* one element the string is replaced by the concatenations of newLi,      *)
(* appended at the end of L after deleting L[i]; in a one-element list     *)
(* L[i] becomes the list newLi.                                            *)
(***************************************************************************)
SubstString(st, dict, a, i, d) ==
  LET L     == st.hp[a]
      items == Split(L[i].s)
  IN  IF Len(L) # 1
      THEN The({ IF r.err THEN [st EXCEPT !.err = "recursion"]
                 ELSE [st EXCEPT !.hp = [st.hp EXCEPT ![a] = RemoveAt(L, i) \o Strings(r.val)]] :
                 r \in {ReduceSegments(st.hp, NewLiSegments(dict, items), d + 1)} })
      ELSE The({ LET st2 == Alloc(n.st, n.elems)
                 IN  IF st2.err # "none" THEN st2
                     ELSE [st2 EXCEPT !.hp = [st2.hp EXCEPT ![a] = [L EXCEPT ![i] = [p |-> n.st.nxt]]]] :
                 n \in {AllocItems(st, dict, items)} })

(***************************************************************************)
(* VarDict.__searchAndSubstitute (lines 294-326): for i in range(len(L)),  *)
(* the range fixed on entry while L changes under it; a nested list is     *)
(* searched recursively, in place.                                         *)
(***************************************************************************)
RECURSIVE SearchAndSubstitute(_, _, _, _), SubstituteFrom(_, _, _, _, _, _),
          SubstStep(_, _, _, _, _, _), SubstStepOnList(_, _, _, _, _, _)
SearchAndSubstitute(st, dict, a, d) ==
  IF d > MaxDepth THEN [st EXCEPT !.err = "recursion"]
  ELSE SubstituteFrom(st, dict, a, 1, Len(st.hp[a]), d)

SubstituteFrom(st0, dict, a, i, n, d) ==
  The({ SubstStep(st, dict, a, i, n, d) : st \in {st0} })

\* mutant: the recursive call is made on L instead of L[i]
SubstStepOnList(st, dict, a, i, n, d) ==
  IF st.err # "none" \/ i > n THEN st
  ELSE IF i > Len(st.hp[a]) THEN [st EXCEPT !.err = "index"]
  ELSE LET e   == st.hp[a][i]
           st1 == IF ~IsStr(e) THEN SearchAndSubstitute(st, dict, a, d + 1)
                  ELSE IF HasDollar(e.s) THEN SubstString(st, dict, a, i, d)
                  ELSE st
       IN  SubstituteFrom(st1, dict, a, i + 1, n, d)

SubstStep(st, dict, a, i, n, d) ==
  IF st.err # "none" \/ i > n THEN st
  ELSE IF i > Len(st.hp[a]) THEN [st EXCEPT !.err = "index"]
  ELSE LET e   == st.hp[a][i]
           st1 == IF ~IsStr(e) THEN SearchAndSubstitute(st, dict, e.p, d + 1)
                  ELSE IF HasDollar(e.s) THEN SubstString(st, dict, a, i, d)
                  ELSE st
       IN  SubstituteFrom(st1, dict, a, i + 1, n, d)

(***************************************************************************)
(* What a configuration means, independent of the heap: every '$name' of  *)
(* a defined key stands for all the values of that key.  Defined for      *)
(* configurations whose references are acyclic.                           *)
(***************************************************************************)
Alts(line) == UNION { { line[g][h] : h \in DOMAIN line[g] } : g \in DOMAIN line }

Tokens(s) == { Split(s)[j].s : j \in { j \in DOMAIN Split(s) : Split(s)[j].tok } }

\* the names a line references, as the resolver reads them
RefsOf(line) == { TokKey(t) : t \in UNION { Tokens(s) : s \in Alts(line) } } \ {Glued}

RECURSIVE DenoteKey(_, _), DenoteStr(_, _)
DenoteKey(conf, k) ==
  FoldLeft(Product, << <<>> >>,
           [g \in DOMAIN conf[k] |->
               FlattenSeq([h \in DOMAIN conf[k][g] |-> DenoteStr(conf, conf[k][g][h])])])

DenoteStr(conf, s) ==
  LET its == Split(s)
  IN  FoldLeft(Product, << <<>> >>,
               [j \in DOMAIN its |->
                   IF its[j].tok /\ TokKey(its[j].s) \in DOMAIN conf
                   THEN DenoteKey(conf, TokKey(its[j].s))
                   ELSE << its[j].s >>])
=============================================================================
