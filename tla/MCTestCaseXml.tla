--------------------------- MODULE MCTestCaseXml ---------------------------
(***************************************************************************)
(* The skeleton <test> text <general/> <b k="1"><general/></b> </test>;   *)
(* directives of one or two element steps on general and b, each with or *)
(* without the selector [@k="1"], optionally ending in @x="v".            *)
(***************************************************************************)
EXTENDS TestCaseXml

Elem(name, attrs, kids) == [kind |-> "elem", name |-> name, attrs |-> attrs, kids |-> kids]
Text == [kind |-> "text", name |-> "#text", attrs |-> <<>>, kids |-> <<>>]

MCSkeleton ==
    << Elem("test", <<>>, <<2, 3, 4>>), Text, Elem("general", <<>>, <<>>),
       Elem("b", "k" :> "1", <<5>>), Elem("general", <<>>, <<>>) >>

ElemSteps == {[kind |-> "elem", name |-> n, cond |-> c] :
                 n \in {"general", "b"}, c \in {NoCond, <<"k", "1">>}}
AttrStep(a) == [kind |-> "attr", name |-> a]

MCWorkDir == [path |-> << [kind |-> "elem", name |-> "general", cond |-> NoCond], AttrStep("workDir") >>,
              value |-> "w"]

Paths == {<< s >> : s \in ElemSteps} \cup {<< s, t >> : s, t \in ElemSteps}

MCDirectives ==
    {[path |-> p, value |-> "v"] : p \in Paths}
    \cup {[path |-> p \o << AttrStep("x") >>, value |-> "v"] : p \in Paths}
====
