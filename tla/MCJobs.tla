------------------------------- MODULE MCJobs -------------------------------
(***************************************************************************)
(* Job files of up to four lines over two existing files c and t, a   *)
(* missing x, a fresh directory o1 and an existing old; a clock of  *)
(* three seconds, so two lines may be read in the same second or not.     *)
(***************************************************************************)
EXTENDS Jobs

CONSTANTS c, t, x, o1, old

Cmt == [kind |-> "comment", items |-> <<>>]
Blk == [kind |-> "blank", items |-> <<>>]
L(its) == [kind |-> "job", items |-> its]

MCJobFiles ==
    [j1 |-> <<Cmt, L(<<c, t>>), Blk, L(<<c, t>>)>>,
     j2 |-> <<L(<<c, t, o1>>), L(<<x, t>>)>>,
     j3 |-> <<L(<<c, x, o1>>), L(<<c, t, old>>)>>,
     j4 |-> <<L(<<c, t, old>>)>>,
     j5 |-> <<L(<<c>>)>>]

F(a) == [opt |-> "f", arg |-> a]
H == [opt |-> "h", arg |-> ""]

MCArgLists ==
    {<<F("j1")>>, <<F("j2")>>, <<F("j3")>>, <<F("j4")>>, <<F("j5")>>,
     <<>>, <<F("")>>, <<F("j1"), H>>, <<F("nofile")>>,
     <<H, [opt |-> "z", arg |-> ""]>>, <<F("j2"), F("")>>}
====
