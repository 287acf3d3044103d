---------------------------- MODULE MCOdometer -----------------------------
(***************************************************************************)
(* Three sub-directories.  d1 may hold "a", "a.b" and the hidden ".h"; d2  *)
(* "c" and "b.c"; d3 "e".  "a.b" + "c" and "a" + "b.c" both name the test *)
(* case work.a.b.c.                                                        *)
(***************************************************************************)
EXTENDS Odometer

MCDirs == <<"d1", "d2", "d3">>

MCNamesIn ==
    [d \in {"d1", "d2", "d3"} |->
        CASE d = "d1" -> {<<"a">>, <<"a", "b">>, <<"", "h">>}
          [] d = "d2" -> {<<"c">>, <<"b", "c">>}
          [] d = "d3" -> {<<"e">>}]

\* by hand: an empty file; d1 only; every directory, with blanks around
\* the names; a trailing empty line; d1 given twice, the second line wins
MCFilterFiles ==
    ("h1" :> <<>>) @@
    ("h2" :> << <<"d1", "=", "a">> >>) @@
    ("h3" :> << <<" ", "d1", " ", "=", " ", "a", ",", " ", "a", ".", "b">>,
                <<"d2", "=", "c", ",", "b", ".", "c", " ">>, <<"d3", "=", "e">> >>) @@
    ("h4" :> << <<"d1", "=", "a">>, <<>> >>) @@
    ("h5" :> << <<"d1", "=", "a">>, <<"d1", "=", "a", ".", "b">>, <<"d2", "=", "c">>,
                <<"d3", "=", "e">> >>)

Opt(o, a) == [opt |-> o, arg |-> a]

\* no option (the default filter.txt is not there); each filter file by
\* -f, the last -f winning; -t, also with a missing confdir; a missing
\* confdir; a blank -c; -l and -s; -h before and after -f; a rejected
\* command line; -f with a blank name
MCArgLists ==
    { <<>>,
      <<Opt("f", "h1")>>, <<Opt("f", "h2")>>, <<Opt("f", "h3")>>, <<Opt("f", "h4")>>,
      <<Opt("f", "h2"), Opt("f", "h5")>>, <<Opt("f", "tmpl")>>,
      <<Opt("t", "")>>, <<Opt("c", "nodir"), Opt("t", "")>>,
      <<Opt("f", "tmpl"), Opt("c", "nodir")>>,
      <<Opt("c", ""), Opt("l", "out"), Opt("s", ""), Opt("f", "h3")>>,
      <<Opt("h", ""), Opt("f", "tmpl")>>, <<Opt("f", "tmpl"), Opt("h", "")>>,
      <<Opt("f", "tmpl"), Opt("?", "")>>, <<Opt("f", "")>> }
====
