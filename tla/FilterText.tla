----------------------------- MODULE FilterText -----------------------------
(***************************************************************************)
(* The filter file of pre_gen_jobs_generateTestCases.py, as text: what     *)
(* Generator.generateTemplate (lines 293-329) writes and what              *)
(* Generator.readFilter (lines 268-292) reads back.                        *)
(*                                                                         *)
(* A line is a sequence of tokens: "=", ",", the blank " ", "." and words *)
(* that hold none of these.  This is all str.split('='), split(',') and   *)
(* strip() tell apart.  A line is given without its '\n', which strip()   *)
(* removes anyway; an empty line is the empty sequence.                    *)
(***************************************************************************)
EXTENDS Naturals, Sequences, SequencesExt

\* the text of a file name given as its '.'-separated parts
Dotted(n) == FlattenSeq([j \in DOMAIN n |-> IF j = 1 THEN <<n[j]>> ELSE <<".", n[j]>>])

(***************************************************************************)
(* str.split(c): the pieces between the occurrences of c, read left to     *)
(* right with the piece being read (cur) and the pieces done (acc).        *)
(***************************************************************************)
RECURSIVE SplitFrom(_, _, _, _)
SplitFrom(s, c, cur, acc) ==
    IF s = <<>> THEN Append(acc, cur)
    ELSE IF Head(s) = c THEN SplitFrom(Tail(s), c, <<>>, Append(acc, cur))
    ELSE SplitFrom(Tail(s), c, Append(cur, Head(s)), acc)

SplitOn(s, c) == SplitFrom(s, c, <<>>, <<>>)

\* str.strip(): the text without its leading and trailing blanks
RECURSIVE StripFront(_)
StripFront(s) == IF s # <<>> /\ Head(s) = " " THEN StripFront(Tail(s)) ELSE s

Strip(s) == Reverse(StripFront(Reverse(StripFront(s))))

(***************************************************************************)
(* readFilter, one line (lines 273-281): sep = line.split('='); the key is *)
(* sep[0].strip(), the values sep[1].split(",") each stripped.  A line     *)
(* without '=' (an empty one included) raises IndexError at sep[1].        *)
(***************************************************************************)
LineOk(l)     == Len(SplitOn(l, "=")) >= 2
LineKey(l)    == Strip(Head(SplitOn(l, "=")))
LineValues(l) == {Strip(v) : v \in ToSet(SplitOn(SplitOn(l, "=")[2], ","))}

\* every line of the file can be read (the loop of lines 273-281 ends)
FilterReadable(text) == \A j \in DOMAIN text : LineOk(text[j])

\* the loop over the lines: filter[key] = valuesS, a later line with the
\* same key replacing the earlier one
RECURSIVE ReadLines(_, _)
ReadLines(text, filter) ==
    IF text = <<>> THEN filter
    ELSE ReadLines(Tail(text), (LineKey(Head(text)) :> LineValues(Head(text))) @@ filter)

ReadFilter(text) == ReadLines(text, <<>>)

\* ",".join of the pieces, as generateTemplate writes them with its flag
\* init (lines 318-323)
JoinWith(pieces, c) ==
    FlattenSeq([j \in DOMAIN pieces |-> IF j = 1 THEN pieces[j] ELSE <<c>> \o pieces[j]])

\* mutant: the flag init is never cleared, so no ',' is ever written
TemplateLineNoComma(d, elems) == <<d, "=">> \o FlattenSeq(elems)

(***************************************************************************)
(* generateTemplate (lines 306-326): for each sub-directory adir, in       *)
(* sorted order, the line "adir=e1,e2,..." with its visible files in       *)
(* os.listdir order.                                                       *)
(***************************************************************************)
TemplateLine(d, elems) == <<d, "=">> \o JoinWith(elems, ",")

TemplateText(dirs, visible) ==
    [i \in DOMAIN dirs |-> TemplateLine(dirs[i], [j \in DOMAIN visible[i] |-> Dotted(visible[i][j])])]
====
