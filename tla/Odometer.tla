------------------------------ MODULE Odometer ------------------------------
(***************************************************************************)
(* Generator.generate of pre_gen_jobs_generateTestCases.py (lines         *)
(* 331-405): the sub-directories of the configuration directory, in        *)
(* sorted order, each give a list of candidate files (those the filter     *)
(* lets through, in os.listdir order); an "odometer" of one index per     *)
(* directory then enumerates every choice of one file per directory, and   *)
(* AbstractTestCaseGenerator.generate (lines 81-120) writes one test case  *)
(* per choice, named after the basenames of the chosen files.              *)
(*                                                                         *)
(* A file name is a sequence of parts, the text between its '.'s: ".h" is  *)
(* << "", "h" >>, a hidden file.  A test case's content is abstracted to    *)
(* the sequence of files whose directives it copies.  The filter files    *)
(* are text (FilterText): some written by hand, one a template that an     *)
(* earlier run with -t wrote for the same directories.                     *)
(*                                                                         *)
(* A run starts from its command line: initializeArgs (lines 28-68) reads *)
(* the options into paramsDict, and main (lines 418-426) either writes a  *)
(* template (-t) or creates the test-case directory and generates.        *)
(***************************************************************************)
EXTENDS Naturals, Sequences, SequencesExt, FiniteSets, Functions, FilterText

CONSTANTS
    Dirs,       \* the sub-directories of confdir, in sorted order (line 342)
    NamesIn,    \* NamesIn[d]: the names the directory d may hold
    FilterFiles,\* the filter files on disk: file name -> sequence of lines
    ArgLists,   \* command lines: sequences of [opt, arg]; opt "?" is one
                \* getopt rejects (an unknown option, a missing argument)
    ConfDir,    \* the one configuration directory that exists: "./conf"
    OldTemplate,\* the file an earlier run with -t wrote for this listing
    NewTemplate \* the name this run's generateTemplate gives its file

VARIABLES
    listdir,    \* listdir[d]: os.listdir of directory d, in its order
    args,       \* sys.argv[1:], parsed into options
    paramsDict, \* [filterFileName, confdir, onlyTemplate] (lines 15-20)
    filterFiles,\* the filter files on disk: name -> lines
    prefixDir,  \* the test-case directory of line 425 exists
    filter,     \* the dictionary readFilter returned (lines 268-292)
    confArray,  \* the candidate files of each directory
    idx,        \* currentStringIndex: idx[i] is currentStringIndex[i-1]
    index,      \* index: the Python index of the digit being incremented
    endIncr,    \* endIncrement
    pc,         \* "args", "main", "filter", "emit", "incr", "done",
                \* "template", "exit" or "crash"
    files,      \* the test-case files written: file name -> content
    listing,    \* the names written to the listing file, in order
    emitted,    \* history: the index vectors passed to generate, in order
    admitted    \* auxiliary: the choices the run's inputs admit (AllChoices)

setup == <<listdir, args, paramsDict, filterFiles, prefixDir, admitted>>

vars == <<listdir, args, paramsDict, filterFiles, prefixDir, admitted, filter, confArray, idx, index, endIncr, pc, files, listing, emitted>>

D == 1..Len(Dirs)

Hidden(n) == n[1] = ""

\* the functions f with DOMAIN f = S and f[d] \in opts[d]
RECURSIVE DepFns(_, _)
DepFns(S, opts) ==
    IF S = {} THEN {<<>>}
    ELSE LET d == CHOOSE x \in S : TRUE
         IN  {f @@ (d :> o) : f \in DepFns(S \ {d}, opts), o \in opts[d]}

\* the listings a directory can have: distinct names in some order
Listings(d) == UNION {SetToSeqs(S) : S \in SUBSET NamesIn[d]}

(***************************************************************************)
(* Generator.mylistdir (lines 254-265): os.listdir without the names that *)
(* start with '.'.                                                         *)
(***************************************************************************)
MyListDir(d) == SelectSeq(listdir[d], LAMBDA n : ~Hidden(n))

(***************************************************************************)
(* The loop over the directories (lines 347-366): an element is kept when *)
(* there is no filter at all or the filter lists it for its directory; a  *)
(* directory the filter does not mention keeps no element (line 353).     *)
(***************************************************************************)
FilterElements(f, d) == IF <<d>> \in DOMAIN f THEN f[<<d>>] ELSE {}

ConfArrayElem(f, d) ==
    SelectSeq(MyListDir(d), LAMBDA n : DOMAIN f = {} \/ Dotted(n) \in FilterElements(f, d))

\* the file generateTemplate writes for the current listing
Template == TemplateText(Dirs, [i \in D |-> MyListDir(Dirs[i])])

(***************************************************************************)
(* AbstractTestCaseGenerator.generate: the name "work.<b1>.<b2>..." from  *)
(* the basenames of the chosen files (lines 82-93), and the content, the  *)
(* directives of every chosen file in directory order (lines 102-116).     *)
(***************************************************************************)
TestCaseName(arr, ind) ==
    <<"work">> \o FlattenSeq([i \in DOMAIN arr |-> <<".">> \o Dotted(arr[i][ind[i] + 1])])

TestCaseContent(arr, ind) == [i \in DOMAIN arr |-> <<Dirs[i], arr[i][ind[i] + 1]>>]

\* el[arrind[i]] (line 87) raises IndexError past the end of a list
CanIndex(arr, ind) == \A i \in DOMAIN arr : ind[i] < Len(arr[i])

(***************************************************************************)
(* initializeArgs, the loop of lines 38-66: -f names the filter file, -t  *)
(* asks for the template only, a non-blank -c names the configuration     *)
(* directory (a blank one is a "bad argument" and changes nothing), -l    *)
(* names the listing file and -s is accepted and ignored; -h exits at     *)
(* once, so the options after it are never read.                          *)
(***************************************************************************)
RECURSIVE ApplyOptions(_, _)
ApplyOptions(opts, p) ==
    IF opts = <<>> \/ Head(opts).opt = "h" THEN p
    ELSE ApplyOptions(Tail(opts),
           CASE Head(opts).opt = "f" -> [p EXCEPT !.filterFileName = Head(opts).arg]
             [] Head(opts).opt = "t" -> [p EXCEPT !.onlyTemplate = TRUE]
             [] Head(opts).opt = "c" /\ Head(opts).arg # "" -> [p EXCEPT !.confdir = Head(opts).arg]
             [] OTHER -> p)

\* the defaults of paramsDict (lines 15-20)
DefaultParams == [filterFileName |-> "filter.txt", confdir |-> ConfDir, onlyTemplate |-> FALSE]

\* getopt.getopt rejects the command line (line 30)
GetoptError == \E j \in DOMAIN args : args[j].opt = "?"

Help == \E j \in DOMAIN args : args[j].opt = "h"

\* os.listdir(confDir) succeeds only for the directory that exists
ConfExists == paramsDict.confdir = ConfDir

TypeOK ==
    /\ listdir \in [Range(Dirs) -> Seq(UNION {NamesIn[d] : d \in Range(Dirs)})]
    /\ paramsDict \in [filterFileName : STRING, confdir : STRING, onlyTemplate : BOOLEAN]
    /\ prefixDir \in BOOLEAN
    /\ idx \in [D -> Nat]
    \* every digit is an index of its candidate list, if it has candidates
    /\ \A i \in D : confArray[i] # <<>> => idx[i] < Len(confArray[i])
    /\ files \in [DOMAIN files -> Seq(Range(Dirs) \X UNION {NamesIn[d] : d \in Range(Dirs)})]
    /\ index \in 0..Len(Dirs)
    /\ endIncr \in BOOLEAN
    /\ pc \in {"args", "main", "filter", "emit", "incr", "done", "template", "exit", "crash"}
    /\ listing \in Seq(Seq(STRING))

\* the options the command line sets, whatever step the run is at
ParamsOf == ApplyOptions(args, DefaultParams)

(***************************************************************************)
(* The run gets as far as reading its filter file, and can read it: no    *)
(* getopt error, no -h, no -t, the configuration directory exists, the    *)
(* filter file named by -f exists and every line of it has an '='.        *)
(***************************************************************************)
FilterOk ==
    /\ ~GetoptError /\ ~Help
    /\ ~ParamsOf.onlyTemplate /\ ParamsOf.confdir = ConfDir
    /\ ParamsOf.filterFileName \in DOMAIN filterFiles
    /\ FilterReadable(filterFiles[ParamsOf.filterFileName])

\* the number of candidates of each directory under that filter file
CandidateCounts ==
    LET f == ReadFilter(filterFiles[ParamsOf.filterFileName])
    IN  [i \in D |-> Len(ConfArrayElem(f, Dirs[i]))]

\* every choice of one index per directory, given the number of candidates
IndexVectors(n) == DepFns(D, [i \in D |-> 0..(n[i] - 1)])

\* the choices the run's inputs admit: none if it never reads the filter
AdmittedChoices == IF FilterOk THEN IndexVectors(CandidateCounts) ELSE {}

(***************************************************************************)
(* A command line; the files on disk, the hand-written filters and the    *)
(* template an earlier -t run wrote for this listing under OldTemplate;   *)
(* paramsDict at its defaults (lines 15-20); every index is 0 and         *)
(* endGeneration and index start as False and 0 (lines 380-382).          *)
(***************************************************************************)
Init ==
    /\ listdir \in DepFns(Range(Dirs), [d \in Range(Dirs) |-> Listings(d)])
    /\ args \in ArgLists
    /\ paramsDict = DefaultParams
    /\ filterFiles = FilterFiles @@ (OldTemplate :> Template)
    /\ prefixDir = FALSE
    /\ filter = <<>>
    /\ confArray = [i \in D |-> <<>>]
    /\ idx = [i \in D |-> 0]
    /\ index = 0
    /\ endIncr = FALSE
    /\ pc = "args"
    /\ files = <<>> /\ listing = <<>> /\ emitted = <<>>
    /\ admitted = AdmittedChoices

(***************************************************************************)
(* initializeArgs (lines 28-68).  On a GetoptError, rollback() finds the  *)
(* default testCaseDirPrefix "." there and os.rmdir(".") fails; its       *)
(* handler "except Error" names no defined class, so the run ends on a    *)
(* NameError.  -h exits (the bare "rollback" of line 65 calls nothing).   *)
(***************************************************************************)
InitializeArgs ==
    /\ pc = "args"
    /\ \/ GetoptError /\ pc' = "crash" /\ UNCHANGED paramsDict
       \/ ~GetoptError /\ paramsDict' = ApplyOptions(args, paramsDict)
          /\ pc' = IF Help THEN "exit" ELSE "main"
    /\ UNCHANGED <<listdir, args, admitted, filterFiles, prefixDir, filter, confArray, idx, index,
                   endIncr, files, listing, emitted>>

(***************************************************************************)
(* main with -t: generateTemplate opens its file (line 297) before it     *)
(* lists confdir (line 306); a missing confdir exits through mylistdir    *)
(* (lines 258-263) and leaves the file empty.                              *)
(***************************************************************************)
GenerateTemplateRun ==
    /\ pc = "main" /\ paramsDict.onlyTemplate
    /\ filterFiles' = (NewTemplate :> IF ConfExists THEN Template ELSE <<>>) @@ filterFiles
    /\ pc' = IF ConfExists THEN "template" ELSE "exit"
    /\ UNCHANGED <<listdir, args, admitted, paramsDict, prefixDir, filter, confArray, idx, index,
                   endIncr, files, listing, emitted>>

(***************************************************************************)
(* main otherwise (lines 424-426): the test-case directory is made, then  *)
(* generate lists confdir (line 341); a missing one exits through         *)
(* mylistdir, with no rollback.                                            *)
(***************************************************************************)
StartGenerate ==
    /\ pc = "main" /\ ~paramsDict.onlyTemplate
    /\ prefixDir' = TRUE
    /\ pc' = IF ConfExists THEN "filter" ELSE "exit"
    /\ UNCHANGED <<listdir, args, admitted, paramsDict, filterFiles, filter, confArray, idx, index,
                   endIncr, files, listing, emitted>>

\* the text of the filter file paramsDict names, if it exists
FilterFileExists == paramsDict.filterFileName \in DOMAIN filterFiles

FilterFileText == filterFiles[paramsDict.filterFileName]

(***************************************************************************)
(* readFilter (line 344, lines 268-292), then the loop over the            *)
(* directories (lines 347-366) and opening the listing file (line 371).    *)
(* A missing filter file is the IOError of line 285: usage, then rollback *)
(* removes the test-case directory, still empty, and the run exits.  A    *)
(* line without '=' is an IndexError the except clause does not catch.    *)
(***************************************************************************)
ReadFilterFile ==
    /\ pc = "filter"
    /\ \/ ~FilterFileExists /\ pc' = "exit" /\ prefixDir' = FALSE
          /\ UNCHANGED <<filter, confArray>>
       \/ FilterFileExists /\ ~FilterReadable(FilterFileText)
          /\ pc' = "crash" /\ UNCHANGED <<filter, confArray, prefixDir>>
       \/ FilterFileExists /\ FilterReadable(FilterFileText)
          /\ filter' = ReadFilter(FilterFileText)
          /\ confArray' = [i \in D |-> ConfArrayElem(filter', Dirs[i])]
          /\ pc' = "emit"
          /\ UNCHANGED prefixDir
    /\ UNCHANGED <<listdir, args, admitted, paramsDict, filterFiles, idx, index, endIncr, files,
                   listing, emitted>>

(***************************************************************************)
(* testCaseGenerator.generate(confArray, currentStringIndex) (lines 374,  *)
(* 403): initializeOutput opens the file of that name for writing,         *)
(* replacing any earlier one, and the directives of the chosen files are  *)
(* copied into it; the name goes to the listing file (len(fname) is never *)
(* 0).  Then endIncrement = False for the next turn (line 385).           *)
(***************************************************************************)
Emit ==
    /\ pc = "emit"
    /\ IF CanIndex(confArray, idx)
       THEN LET n == TestCaseName(confArray, idx)
            IN  /\ files' = [m \in DOMAIN files \cup {n} |->
                               IF m = n THEN TestCaseContent(confArray, idx) ELSE files[m]]
                /\ listing' = Append(listing, n)
                /\ emitted' = Append(emitted, idx)
                /\ endIncr' = FALSE
                /\ pc' = "incr"
       ELSE /\ pc' = "crash"
            /\ UNCHANGED <<files, listing, emitted, endIncr>>
    /\ UNCHANGED <<setup, filter, confArray, idx, index>>

\* mutant: the digit is compared with len(...) instead of len(...)-1
BumpPastLast ==
    /\ pc = "incr"
    /\ index < Len(idx) /\ ~endIncr
    /\ idx[index + 1] < Len(confArray[index + 1])
    /\ endIncr' = TRUE
    /\ idx' = [idx EXCEPT ![index + 1] = @ + 1]
    /\ index' = 0
    /\ UNCHANGED <<setup, filter, confArray, pc, files, listing, emitted>>

\* mutant: index is not reset to 0 after an increment
BumpKeepsIndex ==
    /\ pc = "incr"
    /\ index < Len(idx) /\ ~endIncr
    /\ idx[index + 1] < Len(confArray[index + 1]) - 1
    /\ endIncr' = TRUE
    /\ idx' = [idx EXCEPT ![index + 1] = @ + 1]
    /\ UNCHANGED <<setup, filter, confArray, index, pc, files, listing, emitted>>

\* the digit is not at its last value: increment it and leave (lines 388-392)
Bump ==
    /\ pc = "incr"
    /\ index < Len(idx) /\ ~endIncr
    /\ idx[index + 1] < Len(confArray[index + 1]) - 1
    /\ endIncr' = TRUE
    /\ idx' = [idx EXCEPT ![index + 1] = @ + 1]
    /\ index' = 0
    /\ UNCHANGED <<setup, filter, confArray, pc, files, listing, emitted>>

\* the digit is at its last value: reset it and carry (lines 393-397)
Carry ==
    /\ pc = "incr"
    /\ index < Len(idx) /\ ~endIncr
    /\ ~(idx[index + 1] < Len(confArray[index + 1]) - 1)
    /\ idx' = [idx EXCEPT ![index + 1] = 0]
    /\ index' = index + 1
    /\ UNCHANGED <<setup, filter, confArray, endIncr, pc, files, listing, emitted>>

\* every digit carried over: endGeneration (lines 399-400)
Finish ==
    /\ pc = "incr"
    /\ index >= Len(idx)
    /\ pc' = "done"
    /\ UNCHANGED <<setup, filter, confArray, idx, index, endIncr, files, listing, emitted>>

\* a digit was incremented: generate the next test case (lines 401-403)
Resume ==
    /\ pc = "incr"
    /\ endIncr /\ index < Len(idx)
    /\ pc' = "emit"
    /\ UNCHANGED <<setup, filter, confArray, idx, index, endIncr, files, listing, emitted>>

Next == InitializeArgs \/ GenerateTemplateRun \/ StartGenerate \/ ReadFilterFile \/ Emit \/ Bump \/ Carry \/ Finish \/ Resume

\* one sequential loop: it keeps taking its steps
Spec == Init /\ [][Next]_vars /\ WF_vars(Next)

-----------------------------------------------------------------------------
\* every choice of one candidate per directory, as Python index vectors:
\* before the filter file is read, those the inputs admit, kept in the
\* auxiliary variable admitted; after, those of confArray, which holds them
AllChoices ==
    IF pc \in {"args", "main", "filter"}
    THEN admitted
    ELSE IndexVectors([i \in D |-> Len(confArray[i])])

(***************************************************************************)
(* Generator.generate implements Enumeration: every test case it writes   *)
(* is for a choice of one file per directory not written before, it ends *)
(* normally only once every choice is written, and it fails only when    *)
(* there is no choice at all; under its fairness it does end.  About the  *)
(* carry and reset of the odometer (lines 384-405), the IndexError of     *)
(* line 87, and the run ending early (a bad command line, -h, -t, a       *)
(* missing confdir or filter file) only when it was to write nothing.     *)
(***************************************************************************)
Enum == INSTANCE Enumeration
            WITH choices <- AllChoices,
                 out     <- emitted,
                 status  <- CASE pc \in {"args", "main", "filter", "emit", "incr"} -> "running"
                              [] pc = "done"                      -> "complete"
                              [] pc \in {"template", "crash", "exit"} -> "failed"

ImplementsEnumeration == Enum!Spec

(***************************************************************************)
(* The two modes of the tool agree on the filter format: the file that a  *)
(* run with -t wrote (generateTemplate, lines 306-326), given unedited    *)
(* with -f to a later run, keeps every visible file of every directory,   *)
(* in listing order (readFilter, lines 273-281, and lines 353-361).       *)
(***************************************************************************)
TemplateKeepsAll ==
    paramsDict.filterFileName = OldTemplate /\ pc \in {"emit", "incr", "done"}
        => \A i \in D : confArray[i] = MyListDir(Dirs[i])
====
