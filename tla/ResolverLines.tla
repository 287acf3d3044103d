--------------------------- MODULE ResolverLines ---------------------------
(***************************************************************************)
(* The configurations the resolver runs check: three keys a, b, c, one     *)
(* undefined name d, and every key given one of seven lines that between  *)
(* them exercise a one-segment list of alternatives, two references in one *)
(* list, two references in two segments, a reference after literal text,  *)
(* a self reference, an undefined name followed by a blank, and a name    *)
(* glued to literal text.                                                 *)
(***************************************************************************)
EXTENDS ValueTree

MCKeys  == {"a", "b", "c"}
MCNames == {"a", "b", "c", "d"}
MCLits  == {"x", "y"}

One(s) == << << s >> >>          \* one segment, one alternative

MCLines ==
  { << << <<Lit("x")>>, <<Lit("y")>> >> >>,              \* x,y
    << << <<Ref("b")>>, <<Ref("c")>> >> >>,              \* $b,$c
    << << <<Ref("c")>> >>, << <<Ref("c")>> >> >>,        \* $c;$c
    One(<<Lit("x"), Ref("c")>>),                         \* x$c
    One(<<Ref("a")>>),                                   \* $a
    One(<<Ref("d"), Blank, Lit("y")>>),                  \* $d y
    One(<<Ref("b"), Lit("x")>>) }                        \* $bx
=============================================================================
