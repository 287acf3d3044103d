---------------------------- MODULE MCGenFiles -----------------------------
(***************************************************************************)
(* Keys a and b; every key has one or two candidates; templates of one     *)
(* or two rows.  The genfiles_prefix run has keys a and ab instead.        *)
(***************************************************************************)
EXTENDS GenFiles

MCKeys == {<<"a">>, <<"b">>}

MCCands == { << <<"x">> >>, << <<"x">>, <<"y">> >> }

\* $a, $b$a, and a row with no reference
MCRows == { <<"$", "a">>, <<"$", "b", "$", "a">>, <<"y">> }

\* keys a and ab, the first a prefix of the second
MCPrefixKeys == {<<"a">>, <<"a", "b">>}

\* $ab, and $a followed by a letter that makes no key
MCPrefixRows == { <<"$", "a", "b">>, <<"$", "a", "c">> }

\* $c, a name that is not a key, and $a
MCUndefinedRows == { <<"$", "c">>, <<"$", "a">> }
====
