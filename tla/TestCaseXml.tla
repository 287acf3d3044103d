----------------------------- MODULE TestCaseXml ----------------------------
(***************************************************************************)
(* TestCaseGeneratorXml of pre_gen_jobs_generateTestCases.py (lines       *)
(* 123-211): one test case is the skeleton document, into which           *)
(* initializeOutput inserts the directive general/@workDir="..." (line    *)
(* 136) and then generate (lines 102-116) inserts the directives of the   *)
(* chosen files one after the other; finalizeOutput writes the document.  *)
(*                                                                         *)
(* A directive "s1/s2/.../@a=value" is already split: a path of steps,    *)
(* each an element step [kind |-> "elem", name, cond] whose cond is the   *)
(* selector [@k="v"] as <<k, v>> or NoCond, or an attribute step          *)
(* [kind |-> "attr", name]; and the value.  The document is a heap of     *)
(* nodes: an element has a name, attributes and a sequence of children;   *)
(* a text node (the whitespace between elements) has neither.             *)
(*                                                                         *)
(* The tool never runs this class: the Sax2 import (line 11) is commented *)
(* out, so its constructor raises NameError (line 126); skeletonFileName  *)
(* is never set (line 132); and Generator.generate builds only            *)
(* TestCaseGeneratorPlain (line 335).  The model starts from the          *)
(* document the class would hold had it been given a skeleton.            *)
(***************************************************************************)
EXTENDS Naturals, Sequences, SequencesExt, FiniteSets, Functions

CONSTANTS
    Skeleton,   \* the skeleton document: node id -> node, node 1 the root
    WorkDir,    \* the directive of line 136
    Directives, \* the directives a chosen file may hold
    MaxDirs     \* the most directives of one test case

NoCond == <<>>

VARIABLES
    dom,        \* self.testCaseDoc: node id -> node
    todo,       \* the directives still to insert
    applied,    \* the directives inserted so far
    pc          \* "insert" or "done"

vars == <<dom, todo, applied, pc>>

Nodes == DOMAIN dom

\* the element children of node n named el that satisfy the selector c
Matching(d, n, el, c) ==
    {j \in DOMAIN d[n].kids :
        LET ch == d[d[n].kids[j]]
        IN  /\ ch.kind = "elem" /\ ch.name = el
            /\ c # NoCond => c[1] \in DOMAIN ch.attrs /\ ch.attrs[c[1]] = c[2]}

SetAttr(attrs, a, v) == [x \in DOMAIN attrs \cup {a} |-> IF x = a THEN v ELSE attrs[x]]

\* mutant: the new element is created without the selector's attribute
ElemStepNoCondAttr(d, n, el, c) ==
    LET M == Matching(d, n, el, c)
        new == Cardinality(DOMAIN d) + 1
    IN  IF M # {} THEN [dom |-> d, node |-> d[n].kids[Min(M)]]
        ELSE [dom |-> [x \in DOMAIN d \cup {new} |->
                         IF x = new THEN [kind |-> "elem", name |-> el, kids |-> <<>>, attrs |-> <<>>]
                         ELSE IF x = n THEN [d[n] EXCEPT !.kids = << new >> \o @]
                         ELSE d[x]],
              node |-> new]

(***************************************************************************)
(* One element step (lines 182-207): the first child that matches becomes *)
(* the current node; if none does, a new element, with the selector as   *)
(* its attribute, is inserted before the first child.  Yields the new    *)
(* document and the node reached.                                         *)
(***************************************************************************)
ElemStep(d, n, el, c) ==
    LET M == Matching(d, n, el, c)
    IN  IF M # {} THEN [dom |-> d, node |-> d[n].kids[Min(M)]]
        ELSE LET new == Cardinality(DOMAIN d) + 1
                 node == [kind |-> "elem", name |-> el, kids |-> <<>>,
                          attrs |-> IF c = NoCond THEN <<>> ELSE (c[1] :> c[2])]
             IN  [dom |-> [x \in DOMAIN d \cup {new} |->
                              IF x = new THEN node
                              ELSE IF x = n THEN [d[n] EXCEPT !.kids = << new >> \o @]
                              ELSE d[x]],
                  node |-> new]

(***************************************************************************)
(* parseDirectiveAndInsert (lines 146-211), from the document element.   *)
(* cond is the selector in force: the flag conditions and the names      *)
(* condName, condValue are set by a step with a selector (lines 174-178) *)
(* and are never reset, so they stay in force for every later step.      *)
(***************************************************************************)
RECURSIVE InsertFrom(_, _, _, _, _)
InsertFrom(d, n, path, cond, v) ==
    IF path = <<>> THEN d
    ELSE LET s == Head(path)
         IN  IF s.kind = "attr"
             THEN InsertFrom([d EXCEPT ![n].attrs = SetAttr(@, s.name, v)], n, Tail(path), cond, v)
             ELSE LET c == IF s.cond # NoCond THEN s.cond ELSE cond
                      r == ElemStep(d, n, s.name, c)
                  IN  InsertFrom(r.dom, r.node, Tail(path), c, v)

Insert(d, dir) == InsertFrom(d, 1, dir.path, NoCond, dir.value)

(***************************************************************************)
(* initializeOutput (lines 130-136): a fresh copy of the skeleton, the   *)
(* workDir directive first, then the directives of the chosen files.     *)
(***************************************************************************)
Init ==
    /\ dom = Skeleton
    /\ \E n \in 0..MaxDirs : \E ds \in [1..n -> Directives] : todo = << WorkDir >> \o ds
    /\ applied = <<>>
    /\ pc = "insert"

\* parseDirectiveAndInsert of the next directive (lines 108-114, 136)
InsertDirective ==
    /\ pc = "insert"
    /\ todo # <<>>
    /\ dom' = Insert(dom, Head(todo))
    /\ todo' = Tail(todo)
    /\ applied' = Append(applied, Head(todo))
    /\ UNCHANGED pc

\* finalizeOutput writes the document (lines 138-143)
Finalize ==
    /\ pc = "insert"
    /\ todo = <<>>
    /\ pc' = "done"
    /\ UNCHANGED <<dom, todo, applied>>

Next == InsertDirective \/ Finalize

Spec == Init /\ [][Next]_vars /\ WF_vars(Next)

-----------------------------------------------------------------------------
(***************************************************************************)
(* Inserting a directive the document already holds changes nothing: a   *)
(* directive that two chosen files share, or a file chosen for two       *)
(* directories, does not duplicate elements.  About the search for an    *)
(* existing child (lines 188-200) and the element created when there is *)
(* none (lines 202-207).                                                  *)
(***************************************************************************)
ReapplyIsNoop == applied # <<>> => Insert(dom, Last(applied)) = dom
====
