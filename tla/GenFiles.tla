------------------------------ MODULE GenFiles ------------------------------
(***************************************************************************)
(* The Generator of generateParametricFiles.py: Files.minimize (lines     *)
(* 89-92) turns the reduced table into one dictionary per combination     *)
(* (listUtils.reduceListMerge, then __redict, lines 121-130), and genFiles *)
(* (lines 94-119) writes file_gen_1, file_gen_2, ... from the template,    *)
(* replacing "$"+k by the value of k in every row, pass after pass, while *)
(* the row still contains a '$'.                                          *)
(*                                                                         *)
(* Text is a sequence of one-character strings: string.replace and the    *)
(* '$' test of line 111 work on characters, and a key can be a prefix of  *)
(* another.                                                                *)
(***************************************************************************)
EXTENDS Naturals, Sequences, SequencesExt, FiniteSets, Functions

CONSTANTS
    Keys,       \* the keys of the reduced table, each a text
    Cands,      \* the candidate lists a key may have (sequences of texts)
    Rows,       \* the rows a template may have
    MaxRows,    \* the longest template
    MaxLen      \* the longest row the model follows

VARIABLES
    order,      \* cDict.keys(), the dict order of the table
    table,      \* the table after CommandDict.minimize: key -> candidates
    template,   \* self.templateLines
    f,          \* the list of dictionaries Files.minimize returned
    c,          \* the file counter c
    row,        \* the row being rewritten
    ri,         \* the index of that row in the template
    out,        \* the rows written to the temporary file so far
    written,    \* the generated files: N -> rows of file_gen_N
    pc          \* "file", "row", "pass" or "done"

vars == <<order, table, template, f, c, row, ri, out, written, pc>>

Dollar == "$"

(***************************************************************************)
(* listUtils.reduceListMerge (listUtils.py is not in the repository; from *)
(* the spec, section 4.1): every choice of one candidate per list, in     *)
(* nested order, the last list varying fastest.                           *)
(***************************************************************************)
RECURSIVE ReduceListMerge(_)
ReduceListMerge(ls) ==
    IF ls = <<>> THEN << <<>> >>
    ELSE LET rest == ReduceListMerge(Tail(ls))
         IN  [j \in 1..(Len(Head(ls)) * Len(rest)) |->
                 << Head(ls)[((j - 1) \div Len(rest)) + 1] >> \o rest[((j - 1) % Len(rest)) + 1]]

\* mutant: index is never incremented, every key gets the first element
RedictSameIndex(keyList, L) == [i \in DOMAIN L |-> [k \in Range(keyList) |-> L[i][1]]]

\* __redict (lines 121-130): the j-th key of keyList gets the j-th element
Redict(keyList, L) == [i \in DOMAIN L |-> [k \in Range(keyList) |->
                          L[i][CHOOSE j \in DOMAIN keyList : keyList[j] = k]]]

\* Files.minimize (lines 89-92): keys() and values() in the same dict order
Minimize(ks, tbl) == Redict(ks, ReduceListMerge([j \in DOMAIN ks |-> tbl[ks[j]]]))

(***************************************************************************)
(* string.replace(s, old, new): every non-overlapping occurrence of old,  *)
(* from left to right.                                                     *)
(***************************************************************************)
RECURSIVE Replace(_, _, _)
Replace(s, old, new) ==
    IF Len(s) < Len(old) THEN s
    ELSE IF SubSeq(s, 1, Len(old)) = old
         THEN new \o Replace(SubSeq(s, Len(old) + 1, Len(s)), old, new)
         ELSE << Head(s) >> \o Replace(Tail(s), old, new)

HasDollar(s) == \E j \in DOMAIN s : s[j] = Dollar

(***************************************************************************)
(* One pass of the while loop (lines 105-112): for k in dct.keys(), row = *)
(* string.replace(row, "$"+k, dct[k]).                                     *)
(***************************************************************************)
ReplacePass(r, dct) ==
    FoldLeft(LAMBDA s, k : Replace(s, << Dollar >> \o k, dct[k]), r, order)

TypeOK ==
    /\ order \in SetToSeqs(Keys)
    /\ table \in [Keys -> Cands]
    /\ c \in 0..Len(f)
    /\ ri \in 1..(Len(template) + 1)
    /\ DOMAIN written = 1..(IF pc = "file" \/ pc = "done" THEN c ELSE c - 1)
    /\ pc \in {"file", "row", "pass", "done"}

Init ==
    /\ order \in SetToSeqs(Keys)
    /\ table \in [Keys -> Cands]
    /\ template \in UNION {[1..n -> Rows] : n \in 1..MaxRows}
    /\ f = Minimize(order, table)
    /\ c = 0 /\ ri = 1 /\ row = <<>> /\ out = <<>> /\ written = <<>>
    /\ pc = "file"

\* mutant: the temporary file is opened for appending ("a"), not "w"
StartFileAppends ==
    /\ pc = "file"
    /\ c < Len(f)
    /\ c' = c + 1
    /\ ri' = 1
    /\ pc' = "row"
    /\ UNCHANGED <<order, table, template, f, row, out, written>>

\* for dct in f (line 98): the next dictionary, in a fresh temporary file
StartFile ==
    /\ pc = "file"
    /\ c < Len(f)
    /\ c' = c + 1
    /\ out' = <<>>
    /\ ri' = 1
    /\ pc' = "row"
    /\ UNCHANGED <<order, table, template, f, row, written>>

\* every dictionary done (line 119)
EndFiles ==
    /\ pc = "file"
    /\ c = Len(f)
    /\ pc' = "done"
    /\ UNCHANGED <<order, table, template, f, c, row, ri, out, written>>

\* for row in self.templateLines, retry=1 (lines 102-103)
StartRow ==
    /\ pc = "row"
    /\ ri <= Len(template)
    /\ row' = template[ri]
    /\ pc' = "pass"
    /\ UNCHANGED <<order, table, template, f, c, ri, out, written>>

\* mutant: the file is moved to file_gen_<c+1>
CloseFileNextName ==
    /\ pc = "row"
    /\ ri > Len(template)
    /\ written' = written @@ ((c + 1) :> out)
    /\ pc' = "file"
    /\ UNCHANGED <<order, table, template, f, c, row, ri, out>>

\* the file is closed and moved to file_gen_<c> (lines 115-118)
CloseFile ==
    /\ pc = "row"
    /\ ri > Len(template)
    /\ written' = written @@ (c :> out)
    /\ pc' = "file"
    /\ UNCHANGED <<order, table, template, f, c, row, ri, out>>

\* mutant: retry is never set back to 0, the row is passed again forever
PassAlwaysRetries ==
    /\ pc = "pass"
    /\ \E r \in {ReplacePass(row, f[c])} :
           /\ Len(r) <= MaxLen
           /\ row' = r
    /\ UNCHANGED <<order, table, template, f, c, ri, out, written, pc>>

(***************************************************************************)
(* One turn of while retry==1 (lines 104-114): a replacement pass over   *)
(* every key; the row is passed again while it contains a '$', and is     *)
(* written once it has none.                                              *)
(***************************************************************************)
Pass ==
    /\ pc = "pass"
    /\ \E r \in {ReplacePass(row, f[c])} :
           /\ Len(r) <= MaxLen           \* no step beyond the model's bound
           /\ row' = r
           /\ IF HasDollar(r)
              THEN UNCHANGED <<out, ri, pc>>
              ELSE /\ out' = Append(out, r)
                   /\ ri' = ri + 1
                   /\ pc' = "row"
    /\ UNCHANGED <<order, table, template, f, c, written>>

Next == StartFile \/ EndFiles \/ StartRow \/ CloseFile \/ Pass

\* genFiles is one sequential loop nest: it keeps taking its steps
Spec == Init /\ [][Next]_vars /\ WF_vars(Next)

-----------------------------------------------------------------------------
(***************************************************************************)
(* The substitution the spec describes (section 6): a '$' followed by the *)
(* longest key that the text after it starts with is replaced by that     *)
(* key's value; any other character is kept.                              *)
(***************************************************************************)
RECURSIVE Intended(_, _)
Intended(r, dct) ==
    IF r = <<>> THEN <<>>
    ELSE LET ks == {k \in Keys : Len(k) < Len(r) /\ SubSeq(r, 2, Len(k) + 1) = k}
         IN  IF r[1] = Dollar /\ ks # {}
             THEN LET k == CHOOSE k \in ks : \A k2 \in ks : Len(k2) <= Len(k)
                  IN  dct[k] \o Intended(SubSeq(r, Len(k) + 2, Len(r)), dct)
             ELSE << r[1] >> \o Intended(Tail(r), dct)

\* every choice of one candidate per key
Assignments ==
    {g \in [Keys -> UNION {Range(table[k]) : k \in Keys}] : \A k \in Keys : g[k] \in Range(table[k])}

(***************************************************************************)
(* genFiles always finishes: the retry loop of every row ends (lines      *)
(* 104-112).                                                               *)
(***************************************************************************)
GenFilesTerminates == <>(pc = "done")

(***************************************************************************)
(* Files.minimize gives one dictionary for every choice of one candidate  *)
(* per key, as many as the product of the candidate counts: __redict      *)
(* pairs the right key with the right value (lines 121-130).              *)
(***************************************************************************)
EveryCombinationOnce ==
    /\ Len(f) = FoldFunctionOnSet(LAMBDA k, n : Len(table[k]) * n, 1, [k \in Keys |-> k], Keys)
    /\ Range(f) = Assignments

(***************************************************************************)
(* When genFiles ends, file_gen_N holds the template with every '$key'    *)
(* replaced as the spec says, by the N-th dictionary: the rows of one    *)
(* file never reach another, and string.replace in dict order agrees with *)
(* the longest-name reading.  About lines 101-114.                        *)
(***************************************************************************)
FilesAsIntended ==
    pc = "done" =>
        written = [j \in 1..Len(f) |-> [r \in DOMAIN template |-> Intended(template[r], f[j])]]
====
