# TLA+ models of complex-sim's parametric file generator

This directory models `src/tools/filesGenerator/` in TLA+ and checks the
models with TLC. It holds the modules, their TLC configurations, and
`PROJECT.json`. `PROJECT.json` records:

- the components;
- the runs and their mutants;
- the map from each definition to the source lines it translates;
- the findings;
- the hazards.

## The system

`generateParametricFiles.py` turns a configuration of parameters into one
generated file for every combination of parameter values.
`ParDict.initializeArgs` (lines 188-206) reads `-f <job file>` and `-h`.
`ParDict.add` (140-178) reads the job file: it skips blank and `#` lines,
and turns every other line `conf,template[,dirOut]` into a job. A line
without `dirOut` gets `files-generated<seconds>`, named by the current
second. `main` (lines 18-46) then runs the jobs one after the other, each
in these steps:

1. `Generator.preGen` and `Generator.add` create the output directory and read
   the template.
2. `CommandDict.add` (= `VarDict.add`, lines 221-247) reads the
   configuration. Each line is `key=value`. The value is split on `;` into
   segments and each segment on `,` into alternatives. A value with a single
   segment becomes a flat list of alternatives. A value with several segments
   becomes a list of lists.
3. `parseCommands` (389-401) runs the `%TAR%`/`%ZIP%`/`%FILE_IN%` command
   keys. It deletes each command key and, for an archive command, adds the
   variable it declares.
4. `substitute` (262-272) resolves the `$name` references. It repeats two
   steps until the set of keys containing `$` is empty or unchanged:
   - scan every key for a `$` (`__searchForSomeVarInConf`,
     `__searchForVarInList`);
   - rewrite each such key with `__searchAndSubstitute`. A reference to a key
     inserts that key's list object itself, so lists are shared. In a list of
     more than one element, the string is instead replaced by the
     concatenations `listUtils.reduceListConcat` produces, appended at the
     end.
5. `delKeys`, then `minimize` (`reduceListConcat` per key), then
   `Files.minimize` (`reduceListMerge` and `__redict`) build one dictionary
   per combination.
6. `genFiles` replaces `$key` in every template row with that dictionary's
   values.

`parsing.py` is an older copy of the parser and the resolver. No script
of the repository imports it. Its `parse`, `searchForVarInList`,
`substitute` and `searchForSomeVarInConf` are line for line those of
`VarDict`. Its `searchAndSubstitute` always replaces a `$` string in place
by the list `newLi`, with no reduce-and-append branch.

`pre_gen_jobs_generateTestCases.py` is a separate tool. It walks the
sub-directories of a configuration directory with an "odometer" over their
elements and writes one test case per combination. With the plain writer a
test case is the chosen files' directives copied one after the other. With
`TestCaseGeneratorXml` (lines 123-211) it is an XML skeleton into which
each directive `a/b[@k="v"]/@attr=value` is inserted: the path is walked
from the document element, the first child that matches each step is
taken, and a missing one is created. The tool never uses that class,
though: the Sax2 import (line 11) is commented out, so its constructor
raises NameError (line 126), `skeletonFileName` is never set (line 132),
and `Generator.generate` builds only the plain writer (line 335). Its `main` reads the options
(`-f` filter file, `-c` configuration directory, `-l` listing file, `-t`
template only, `-h`). With `-t` it writes a filter template, one line
`dir=file1,file2,...` per sub-directory. Otherwise it creates the
directory `generated-test-case<time>`, reads the filter file and
generates. `listUtils.py` and
`fileUtils.py` are imported but are not in the repository.

## Modules

| module | models | source |
|---|---|---|
| `ValueTree` | list objects on a heap, so sharing is explicit; the line parse; `re.split('(\$\S+)')` and the name read from a token; `__searchForVarInList`; `__searchAndSubstitute`; `reduceListConcat` (from the spec, since listUtils is missing); what a configuration means (`DenoteKey`) | generateParametricFiles.py 229-326 |
| `Resolver` | the state machine of `substitute`: one step is one scan with its loop test (`ScanCrash`, `ScanDone`, `ScanRound`) or the rewrite of one key (`Substitute`) | 257-291 |
| `Commands` | `parseCommands` over the keys in dict order (`SkipPlain`, `UnknownCommand`, `CompressNoVar`, `Compress`, `FileIn`, `EndCommands`), then `delKeys` (`DelKey`, `EndDelete`) | 333-401, 34-40 |
| `GenFiles` | `Files.minimize` (`reduceListMerge`, from the spec, and `__redict`) and the three loops of `genFiles`: files (`StartFile`, `EndFiles`), rows (`StartRow`, `CloseFile`), replacement passes (`Pass`) | 89-130 |
| `LegacyValueTree` | `searchAndSubstitute` of parsing.py | parsing.py 188-218 |
| `ResolverPair` | the two copies side by side: `Resolver` instantiated twice, with `Rewrite` set to each copy's rewrite, on the same configuration and dict order; their steps interleave | parsing.py 166-176 |
| `Odometer` | pre_gen_jobs_generateTestCases.py as a whole run: `initializeArgs` (`InitializeArgs`), `main` with `-t` (`GenerateTemplateRun`) or without (`StartGenerate`), then `Generator.generate`: reading the filter file and filtering (`ReadFilterFile`), the odometer (`Bump`, `Carry`, `Finish`, `Resume`) and writing one test case (`Emit`) | pre_gen_jobs 15-68, 81-120, 254-429 |
| `FilterText` | the filter file as text: `readFilter`'s split on `=` and `,` and strip (`ReadFilter`, `FilterReadable`), and the lines `generateTemplate` writes (`TemplateText`) | pre_gen_jobs 268-329 |
| `Enumeration` | the abstract specification `Odometer` implements: produce each choice once, in any order, then complete, or fail when there is no choice | |
| `TestCaseXml` | `TestCaseGeneratorXml`: `initializeOutput` (`Init`), `parseDirectiveAndInsert` for each directive line (`InsertDirective`), `finalizeOutput` (`Finalize`) | pre_gen_jobs 99-116, 130-211 |
| `Jobs` | the driver: `initializeArgs` (`InitializeArgs`), `ParDict.add` (`OpenJobFile`, `SkipLine`, `ReadJob`, `EndJobFile`) and `main`'s loop over the jobs (`MkdirFails`, `RunJob`, `EndJobs`), with `preGen`, `Generator.add` and `VarDict.add` opening their files | 18-46, 73-87, 140-206, 221-228 |
| `ResolverLines` | the configuration lines the resolver runs use | |
| `MCResolver`, `MCResolverPair`, `MCCommands`, `MCGenFiles`, `MCOdometer`, `MCTestCaseXml`, `MCJobs` | the constants TLC runs with | |

`Resolver` takes the rewrite of one key as the operator constant
`Rewrite(st, dict, a, depth)`. `MCResolver` sets it to `ValueTree`'s
`SearchAndSubstitute`. `ResolverPair` makes one instance with that and one
with `LegacyValueTree`'s `SearchAndSubstituteLegacy`.

The components run in sequence inside one job (`main`): parse, commands,
substitute, delKeys, minimize, generate. They share only the parameter
table, so each module starts from every table its predecessor can hand it.
`Commands` keeps values abstract. `GenFiles` starts from a reduced table.

### How the models correspond to the code

- **Resolver strings.** A string is a sequence of atoms: literal text
  `Lit(v)`, a blank, or `Ref(n)` for `$n`. This is all `re.split('(\$\S+)')`
  and `it.split('$')[1]` can tell apart. A name directly followed by text
  (`$bx`) is read as the name `bx`, which is not a key (`Glued`).
- **Lists.** A list is a heap address. An element is a string or a pointer.
  Python's recursion limit is `MaxDepth`: recursion deeper than that stands
  for the RuntimeError a self-containing list produces.
- **Dict order.** Python 2 dict order is fixed by hashes, not by the code.
  Every module chooses `order` as any permutation at Init. The scan, the
  pass, the command loop and the replacement loop all follow it.
- **Commands.** A key is a record: an ordinary parameter, or a command key
  with its command name and the variable after `:$`. Three values mark a
  command key without a usable variable:
  - `"none"`: no `:`;
  - `"malformed"`: no `$` after the `:`;
  - `"empty"`: nothing after the `:`, where line 349 raises IndexError.

  Producing and moving an archive is the set `moved`; copying sources is
  the set `copied`. The intermediate `cDict[var]=config` (line 355) is
  overwritten by `self.Dict[var]=newconfig` (line 399) in the same step.
- **GenFiles.** Text is a sequence of one-character strings.
  `string.replace` is the recursive `Replace`, and one pass folds it over
  the keys in dict order. The dictionaries of `f` are taken to iterate in
  the order of `cDict`. A row longer than `MaxLen` is not followed.
- **Odometer.** A file name is a sequence of its `.`-separated parts; a
  hidden file has the empty first part. The content of a test case is the
  sequence of files whose directives it copies. `idx` holds the Python
  indexes. `Emit` covers line 87's IndexError, the overwrite of an existing
  file (`open(..., 'w')`) and the listing line. The filter files on disk
  are the function `filterFiles` from name to text, and the command line
  is a sequence of `[opt, arg]` records, with `opt = "?"` for one getopt
  rejects. `prefixDir` says whether the test-case directory exists: the
  rollback after a missing filter file removes it; the other early ends
  leave it.
- **Filter text.** A line is a sequence of tokens: `=`, `,`, the blank
  and words. That is all `split('=')`, `split(',')` and `strip()` tell
  apart. `SplitOn` is `str.split`, `Strip` is `str.strip`, and a later
  line with the same key replaces the earlier one, as the dict assignment
  of line 281 does. `Template` is the text `generateTemplate` writes for
  the current listing.
- **Refinement.** `Odometer` instantiates `Enumeration` with `choices` the
  choices of one candidate per directory, `out` the index vectors passed to
  `generate` so far, and `status` running, complete or failed from `pc`.
  Until the filter file is read, `choices` is the auxiliary variable
  `admitted`, set in `Init` from the command line, the filter file's text
  and the listing. After that it is computed from `confArray`, so the
  check compares what the text admits with what `generate` built. The
  auxiliary variable keeps TLC from re-parsing the filter text in every
  primed state. A `-t` run, `-h`, a rejected command line, a missing
  confdir and an unreadable filter file all admit no choice. They map to
  `failed`, an end with nothing produced.
  `ImplementsEnumeration` checks `Enumeration`'s whole specification,
  fairness included, as a property of `Odometer`.
- **XML.** The document is a heap: node id to node. A node is an element
  (name, attributes, children in order) or a text node. A directive comes
  already split into a path of steps: an element step with its name and
  optional selector `<<k, v>>`, or an attribute step, plus the value. The
  text handling of lines 149-177 (`rsplit`, stripping quotes, the selector
  regex) is left out. `InsertFrom` carries the selector in force from step
  to step, as the flag `conditions` and the names `condName`, `condValue`
  do in the code. `Init` is the document the class would hold if it were
  given a skeleton. The tool never builds one (see above), so what this
  model shows is about the class alone.
- **Jobs.** A command line is a sequence of `[opt, arg]` records. getopt
  rejects the whole line before any option is handled when one option is
  unknown, and its handler calls `usage()`, which the module never defines.
  A job file is a sequence of lines, each blank, a comment, or a job line
  already split on `,`. File and directory names are model values, and
  whether a file exists is the constant `Files`. `disk` is the set of
  directories: those in `Existing`, plus the ones `preGen` creates. The
  clock `now` may move forward by any amount at each line, since only
  line 164 reads it. `RunJob` is a whole turn of `main`'s loop: `os.mkdir`,
  then the template (an uncaught IOError), then the configuration
  (`sys.exit`), then the rest of the pipeline. The other modules model
  that rest. Here it writes the job's files, ends the process, or never
  returns (`hang`), as genFiles' `while retry==1` does in
  genfiles_undefined.
- **Init** is always a state the program is in at that point: after
  `VarDict.add` for every assignment of lines to keys, after
  `CommandDict.add` for every set of keys, after the directory scan for
  every listing and every filter `readFilter` can return.

## Runs

| run | cfg | expect | what it shows |
|---|---|---|---|
| resolver | MCResolverPair.cfg | pass | Both copies always stop, and recursion errors happen only when the references form a cycle. The current copy never raises `IndexError`: the list never shrinks under the fixed `range`. The parsing.py copy resolves every reference of an acyclic, fully defined configuration, including the ones resolver_refs shows the current copy failing on. |
| resolver_refs | ResolverRefs.cfg | violation | With `a=$b,$c`, `b=x,y`, `c=x,y` and order a,b,c, the skipped element and the "same key list" loop test leave `a` as `['$c','x','y']`. |
| resolver_values | ResolverValues.cfg | violation | `a=$b,$c`, `b=$c;$c`, `c=x,y`: b's unresolved segments are glued into `'$c$c'`, only `c` is read, and `a` is reported resolved as x,y,x,y. |
| commands | MCCommands.cfg | pass | Up to three command keys, two of which (`%TAR%:$v`, `%ZIP%:$v`) bind the same variable, in every order. A run that gets through the command pass and `delKeys` leaves exactly the ordinary parameters, each with its own value. |
| commands_fatal | CommandsFatal.cfg | violation | Over the keys `%TAR%:$v` and `%ZAP%:$u` only: with `%TAR%:$v` first, the archive is already moved when the unknown command raises KeyError. Spec section 7 says config errors abort before any part of the job. |
| genfiles | MCGenFiles.cfg | pass | One dictionary per combination, each with the right values. Every `file_gen_N` holds the template rewritten by the N-th dictionary. genFiles ends. |
| genfiles_undefined | GenFilesUndefined.cfg | violation | A row `$c` with no key c: the `while retry==1` loop never ends. The spec asks for a bounded retry. |
| genfiles_prefix | GenFilesPrefix.cfg | violation | Keys `a` and `ab` with `a` first in dict order: the row `$ab` becomes the value of `a` followed by `b` (line 109). Spec section 6 replaces a `$` by the longest key name after it. |
| odometer | MCOdometer.cfg | pass | For every listing and fifteen command lines, the tool implements `Enumeration`. Every choice of one file per directory is passed to `generate` exactly once and the loop ends. A run ends early only when it admits no choice. `TemplateKeepsAll`: a template written by `-t` and read back with `-f` keeps every visible file of every directory, in listing order. |
| xml | MCTestCaseXml.cfg | pass | For the workDir directive followed by up to two directives, inserting the last directive again changes nothing. |

| jobs | MCJobs.cfg | pass | For every command line and job file of the model, the k-th job line becomes the k-th job, and no earlier job's stamped directory is from a later second. |
| jobs_stamped | JobsStamped.cfg | violation | Two job lines without `dirOut` read within one second get the same `files-generated<seconds>` directory. The second `os.mkdir` raises OSError, and that job and all later ones never run. Spec section 5 says each job has its own output directory. |

Each pass run has one mutant per property in `PROJECT.json`: a plausible
bug in a mapped definition that TLC must catch.

### Bounds

- **Resolver.** The seven candidate lines cover the constructs the resolver
  branches on:
  - a flat list;
  - two references in one segment;
  - references in two segments;
  - text before a reference;
  - a self reference;
  - an undefined name followed by a blank;
  - a name glued to text.

  Three keys allow chains of length 2 and cycles through one or more keys.
  Reachable states use at most 16 heap cells and 2 passes, so
  `MaxAddr = 20` and `MaxRounds = 3` never cut a behaviour short.
  `MaxDepth = 12` exceeds the deepest acyclic nesting three keys can build.
  The resolver run checks both copies on all 2,058 initial tables. Their
  steps interleave, which gives 66,552 states in about 45 seconds.
- **Commands.** There are two ordinary parameters and seven command keys,
  one per branch of `parseCommands` and `__compressAction`. `MaxCmds = 3`
  puts up to three of them, in every order, in one table. This makes
  every pair of branches occur in both orders.
- **GenFiles.** Two keys with one or two candidates each give up to four
  dictionaries. The rows are:
  - `$a`;
  - `$b$a`, which needs two references in one row;
  - `y`, which has no reference.

  Templates have up to two rows, so a second file reuses the temporary
  file. `MaxLen = 6` is longer than any row the pass run produces.
  genfiles_prefix uses the keys `a` and `ab` with the rows `$ab` and `$ac`
  instead. Both dict orders are drawn, so the order with `a` first is
  among them.
- **Odometer.** There are three directories:
  - d1 has two visible names and one hidden name;
  - d2 has two names;
  - d3 has one name.

  Every listing is checked. Up to four choices exercise every carry,
  including a carry across two digits. There are five hand-written filter
  files:
  - an empty one;
  - d1 only;
  - every directory, with blanks around the names;
  - a trailing empty line (an IndexError);
  - d1 twice, where the second line wins.

  The sixth file is the template an earlier `-t` run wrote for the same
  listing. The fifteen command lines use each file with `-f`, and the
  last `-f` wins. They also cover no option (the default `filter.txt` is
  missing), `-t` with and without the configuration directory, a missing
  configuration directory, a blank `-c`, `-l` and `-s`, `-h` before and
  after `-f`, a rejected option, and a blank `-f`.
- **XML.** The skeleton is `<test>` holding a text node, `<general/>`, and
  `<b k="1"><general/></b>`. A directive has one or two element steps on
  `general` and `b`, each with or without the selector `[@k="1"]`, and may
  end with `@x="v"`. That gives 40 directives. A test case is the workDir
  directive followed by up to two of them (`MaxDirs = 2`), in every order
  and with repeats, which is 1,641 initial states. This makes steps find an
  existing element with and without a selector, create one at each depth,
  and meet an element a previous directive created. The attribute names
  `x` and `workDir` differ from the selector name `k`. A directive that
  rewrites the attribute its own selector tests (`b[@k="1"]/@k="2"`) moves
  the element out of its own selector, so inserting it again creates a new
  `b`. That is why ReapplyIsNoop is checked only for these directives.

- **Jobs.** There are five job files:
  - a comment, a job, a blank line and the same job again (the collision);
  - a job into `o1`, then one with a missing configuration;
  - a job with a missing template, then a job into the existing `old`;
  - a job into `old`;
  - a line with a single item.

  The eleven command lines cover `-f` for each file, a missing file, no
  `-f`, a blank `-f`, `-f` followed by `-h`, an unknown option after `-h`,
  and a later blank `-f` that keeps the earlier name. `MaxTime = 2` lets
  two lines be read in the same second or in different ones. Together
  they reach every outcome of a job.

### Fairness

Each component is one sequential Python loop nest with no waiting and no
other actor. While it has a step to take, it takes it, so weak fairness
of the next-state relation is what the code guarantees. In `Resolver`,
`WFSubstitute` is `WF_vars(Substitute)` with `ENABLED` written out as the
state predicate it equals. `ResolverPair` makes each copy weakly fair on
its own variables. The two copies are separate programs, so neither waits
for the other. `Enumeration` asks for weak fairness of its next-state
relation, which `Odometer`'s own weak fairness yields.
`TestCaseXml` and `Jobs` take weak fairness of `Next`, but no run checks
a liveness property of theirs. `Jobs` can hang in the pipeline, and
`Commands`' loops run over a finite, fixed list. `CHECK_DEADLOCK FALSE`
marks the real ends of the program: done, an exception, `sys.exit`, or
(in `Jobs`) a pipeline that never returns.

## Not modelled, and the plan

- `parsing.py`'s `parseCommands` (lines 12-63) re-reads the configuration
  file into a deep copy and never deletes the command keys from the table.
  `parseConfig1`, `configReduce` and `redict` are not modelled either; the
  last two repeat `minimize` and `__redict`.
- The older resolver's value semantics. `ResolverPair` can state
  `Legacy!ResolvedValuesCorrect`, and TLC finds it violated: with
  `a=$b,$c` and `b=c=x,y`, line 215 makes `a` the list
  `[[x,y],[x,y]]`, which `reduceListConcat` reads as two segments
  (xx,xy,yx,yy) instead of four alternatives. The current copy's
  reduce-and-append branch (lines 318-322 of generateParametricFiles.py)
  is the fix. No run checks this, because no script runs `parsing.py`.
- These disagreements found while modelling have no run of their own:
  - `%TAR%:$p` with an ordinary parameter `p`: the archive replaces p's
    values (line 399), and `delKeys` then deletes `p`;
  - test-case names: `a.b`+`c` and `a`+`b.c` both give `work.a.b.c`
    (line 89), and the second file overwrites the first;
  - two archive commands binding one variable (`%TAR%:$v`, `%ZIP%:$v`):
    `delKeys` deletes `v` twice and raises KeyError at line 336 after both
    archives were moved. The commands run reaches this; spec section 7
    lists no such error;
  - a job whose directory exists (`os.mkdir`, line 78) ends the whole run,
    so the later jobs never run. Spec section 7 keeps one job's errors
    from the others. jobs_stamped shows the same stop for a stamped
    directory;
  - the XML writer's selector (line 178) is never reset. TLC finds
    `b[@k="1"]/b="v"`, under a `b k="1"` with no `b` child, creating the
    inner `b` with `k="1"`. The comments of lines 162-163 and 186-187 say
    each node is looked up and created only if missing. This is a latent
    bug of a class the tool never runs, so no run keeps it;
  - a filter naming only d1: line 361 keeps no element of d2 and d3, and
    the first `generate` raises IndexError at `el[arrind[i]]` (line 87).
    The spec calls the filter directory-scoped. The odometer run reaches
    this with `-f h2`; `Enumeration` accepts it, because such a filter
    admits no choice.
- Whether the generated files depend on dict order.
- An abstract resolution spec that `Resolver` refines.
- A composed pipeline: commands, then resolution, then generation. Spec
  section 4.3 hands a command its raw sources before the resolver runs
  (the hazard at line 36).
- The test-case tool's early ends (pre_gen_jobs lines 30-35, 258-263,
  297, 426). They are modelled, but no property is stated on them:
  - a missing confdir, or a filter line without `=`, leaves the empty
    `generated-test-case` directory behind; only a missing filter file is
    rolled back;
  - after a getopt error, `rollback` tries `os.rmdir(".")`, and its
    `except Error` is a NameError;
  - `-t` with a missing confdir leaves an empty template. Read back as a
    filter, it keeps every file.

  Each would be a violation run, and all twelve run slots are taken.
- Names holding `,`, `=` or blanks break the template round trip. The
  model's names are words, so `TemplateKeepsAll` does not see this. The
  listing file's name and everything the tools print are left out.
- The text of an XML directive line: line 156 splits at the last `=`, so
  a line without `=` raises IndexError.
- A job line's text: `line.strip('\n').split(',')` keeps the blanks
  around an item, so ` t` names a file that does not exist. Such a name is
  one more name outside `Files`. `os.mkdir` failing for a missing parent
  directory is not modelled.
- Reading the configuration and template files line by line, the XML
  reader and pretty printer, and the archive tools are pure I/O.
