-------------------------------- MODULE Jobs --------------------------------
(***************************************************************************)
(* The driver of generateParametricFiles.py: ParDict.initializeArgs       *)
(* (lines 188-207) reads the options, ParDict.add (lines 140-178) reads    *)
(* the job file into one dictionary per job, and main (lines 18-46) runs  *)
(* the jobs one after the other: preGen creates the output directory      *)
(* (lines 73-79), Generator.add opens the template (lines 81-87),         *)
(* VarDict.add opens the configuration (lines 221-228), and the rest of   *)
(* the pipeline (Commands, Resolver, GenFiles) writes the job's files,   *)
(* ends the process, or never returns (the retry loop of genFiles).       *)
(*                                                                         *)
(* A job line is given already split on ','; file and directory names are *)
(* model values.  A line without a third item gets the output directory   *)
(* "files-generated<seconds>" (lines 163-165): the clock is read there,   *)
(* and may move forward by any amount between two lines.                  *)
(***************************************************************************)
EXTENDS Naturals, Sequences, SequencesExt, FiniteSets

CONSTANTS
    ArgLists,   \* the command lines: sequences of [opt, arg]
    JobFiles,   \* the job files that exist: name -> sequence of lines
    Names,      \* the names a job line may hold
    Files,      \* the configuration and template files that exist
    Existing,   \* the directories that exist before the run
    MaxTime     \* the last second the model's clock reaches

\* the directory of line 164 for a job line read at second t
Stamped(t) == <<"files-generated", t>>

VARIABLES
    pc,         \* "args", "add", "read", "jobs", "done", "exit", "crash" or
                \* "hang" (the pipeline of a job never returns)
    args,       \* sys.argv[1:]
    inF,        \* self.inF, the job file name ("" when none)
    lines,      \* the lines of the job file
    li,         \* the next line to read
    pdict,      \* ParDict's self.Dict, empty until a job line is read
    ldict,      \* the list of job dictionaries
    now,        \* the clock, in seconds
    ji,         \* the next job of main's loop
    disk,       \* the directories that exist
    gen         \* the jobs whose files were written: <<job, directory>>

vars == <<pc, args, inF, lines, li, pdict, ldict, now, ji, disk, gen>>

Dirs == Existing \cup Names \cup {Stamped(t) : t \in 0..MaxTime}
Job  == [genConf : Names, template : Names, dirOut : Dirs]

TypeOK ==
    /\ pc \in {"args", "add", "read", "jobs", "done", "exit", "crash", "hang"}
    /\ li \in 1..(Len(lines) + 1)
    /\ pdict \in Job \cup {<<>>}
    /\ ldict \in Seq(Job)
    /\ now \in 0..MaxTime
    /\ ji \in 1..(Len(ldict) + 1)
    /\ disk \subseteq Dirs
    /\ gen \subseteq (DOMAIN ldict) \X Dirs

Init ==
    /\ args \in ArgLists
    /\ pc = "args" /\ inF = "" /\ lines = <<>> /\ li = 1
    /\ pdict = <<>> /\ ldict = <<>> /\ ji = 1 /\ gen = {}
    /\ now \in 0..MaxTime
    /\ disk = Existing

(***************************************************************************)
(* initializeArgs (lines 188-207): getopt rejects an unknown option before *)
(* any is handled, and its handler calls usage(), which this module never *)
(* defines (NameError); -h prints usage and exits; -f sets inF to its      *)
(* stripped argument when that is not empty.                               *)
(***************************************************************************)
RECURSIVE Options(_, _)
Options(opts, f) ==
    IF opts = <<>> THEN [stop |-> FALSE, inF |-> f]
    ELSE IF Head(opts).opt = "h" THEN [stop |-> TRUE, inF |-> f]
    ELSE Options(Tail(opts), IF Head(opts).arg # "" THEN Head(opts).arg ELSE f)

InitializeArgs ==
    /\ pc = "args"
    /\ IF \E j \in DOMAIN args : args[j].opt \notin {"f", "h"}
       THEN pc' = "crash" /\ UNCHANGED inF
       ELSE LET r == Options(args, "")
            IN  /\ inF' = r.inF
                /\ pc' = IF r.stop THEN "exit" ELSE "add"
    /\ UNCHANGED <<args, lines, li, pdict, ldict, now, ji, disk, gen>>

\* ParDict.add (lines 140-147, 176-178): usage and exit without a job file
\* name, exit when it cannot be opened
OpenJobFile ==
    /\ pc = "add"
    /\ IF inF # "" /\ inF \in DOMAIN JobFiles
       THEN lines' = JobFiles[inF] /\ pc' = "read"
       ELSE pc' = "exit" /\ UNCHANGED lines
    /\ UNCHANGED <<args, inF, li, pdict, ldict, now, ji, disk, gen>>

\* a blank or comment line is skipped (lines 150-156)
SkipLine ==
    /\ pc = "read" /\ li <= Len(lines)
    /\ lines[li].kind \in {"blank", "comment"}
    /\ li' = li + 1
    /\ \E t \in now..MaxTime : now' = t
    /\ UNCHANGED <<pc, args, inF, lines, pdict, ldict, ji, disk, gen>>

\* mutant: the copy is appended before the line's fields are set
ReadJobCopyFirst ==
    /\ pc = "read" /\ li <= Len(lines)
    /\ lines[li].kind = "job"
    /\ LET it == lines[li].items
           d  == [genConf |-> it[1], template |-> it[2],
                  dirOut |-> IF Len(it) > 2 THEN it[3] ELSE Stamped(now)]
       IN  IF Len(it) < 2 THEN pc' = "crash" /\ UNCHANGED <<pdict, ldict, li>>
           ELSE /\ pdict' = d
                /\ ldict' = Append(ldict, pdict)
                /\ li' = li + 1 /\ UNCHANGED pc
    /\ \E t \in now..MaxTime : now' = t
    /\ UNCHANGED <<args, inF, lines, ji, disk, gen>>

\* mutant: the dictionary itself, not a deep copy, is appended
ReadJobAliased ==
    /\ pc = "read" /\ li <= Len(lines)
    /\ lines[li].kind = "job"
    /\ LET it == lines[li].items
           d  == [genConf |-> it[1], template |-> it[2],
                  dirOut |-> IF Len(it) > 2 THEN it[3] ELSE Stamped(now)]
       IN  IF Len(it) < 2 THEN pc' = "crash" /\ UNCHANGED <<pdict, ldict, li>>
           ELSE /\ pdict' = d
                /\ ldict' = [j \in 1..(Len(ldict) + 1) |-> d]
                /\ li' = li + 1 /\ UNCHANGED pc
    /\ \E t \in now..MaxTime : now' = t
    /\ UNCHANGED <<args, inF, lines, ji, disk, gen>>

(***************************************************************************)
(* A job line (lines 157-173): genConf and template are its first two     *)
(* items (a line of one item raises IndexError at line 159), dirOut its   *)
(* third or the stamped directory of the current second, and a deep copy  *)
(* of self.Dict is appended to ldict.  The clock moves on meanwhile.      *)
(***************************************************************************)
ReadJob ==
    /\ pc = "read" /\ li <= Len(lines)
    /\ lines[li].kind = "job"
    /\ LET it == lines[li].items
           d  == [genConf |-> it[1], template |-> it[2],
                  dirOut |-> IF Len(it) > 2 THEN it[3] ELSE Stamped(now)]
       IN  IF Len(it) < 2 THEN pc' = "crash" /\ UNCHANGED <<pdict, ldict, li>>
           ELSE /\ pdict' = d
                /\ ldict' = Append(ldict, d)
                /\ li' = li + 1 /\ UNCHANGED pc
    /\ \E t \in now..MaxTime : now' = t
    /\ UNCHANGED <<args, inF, lines, ji, disk, gen>>

\* the file is read: main's loop over the jobs starts (lines 175, 25)
EndJobFile ==
    /\ pc = "read" /\ li > Len(lines)
    /\ pc' = "jobs"
    /\ UNCHANGED <<args, inF, lines, li, pdict, ldict, now, ji, disk, gen>>

(***************************************************************************)
(* One turn of main's loop (lines 25-46) for job ji.  preGen's os.mkdir    *)
(* (line 78) raises OSError when the directory exists; Generator.add       *)
(* (line 83) raises IOError for a missing template; VarDict.add (lines     *)
(* 222-228) exits for a missing configuration.  Each of these ends the    *)
(* process, as does a failure in the rest of the pipeline, whose own      *)
(* steps the other modules model; the pipeline may also never return      *)
(* (genFiles' while retry==1, lines 104-112, on a '$' nothing replaces);  *)
(* otherwise the job's files are written.                                 *)
(***************************************************************************)
JobOf == ldict[ji]

\* Generator.add opens the template (line 83), VarDict.add the
\* configuration (line 224)
TemplateOpens == JobOf.template \in Files
ConfOpens     == JobOf.genConf \in Files

PreGen ==
    /\ pc = "jobs" /\ ji <= Len(ldict)
    /\ JobOf.dirOut \notin disk
    /\ disk' = disk \cup {JobOf.dirOut}

MkdirFails ==
    /\ pc = "jobs" /\ ji <= Len(ldict)
    /\ JobOf.dirOut \in disk
    /\ pc' = "crash"
    /\ UNCHANGED <<args, inF, lines, li, pdict, ldict, now, ji, disk, gen>>

RunJob ==
    /\ PreGen
    /\ \/ ~TemplateOpens /\ pc' = "crash" /\ UNCHANGED <<ji, gen>>
       \/ TemplateOpens /\ ~ConfOpens /\ pc' = "exit" /\ UNCHANGED <<ji, gen>>
       \/ TemplateOpens /\ ConfOpens
          /\ \/ pc' \in {"crash", "hang"} /\ UNCHANGED <<ji, gen>>
             \/ gen' = gen \cup {<<ji, JobOf.dirOut>>} /\ ji' = ji + 1 /\ UNCHANGED pc
    /\ UNCHANGED <<args, inF, lines, li, pdict, ldict, now>>

\* the last job is done and main returns
EndJobs ==
    /\ pc = "jobs" /\ ji > Len(ldict)
    /\ pc' = "done"
    /\ UNCHANGED <<args, inF, lines, li, pdict, ldict, now, ji, disk, gen>>

Next ==
    \/ InitializeArgs \/ OpenJobFile \/ SkipLine \/ ReadJob \/ EndJobFile
    \/ MkdirFails \/ RunJob \/ EndJobs

Spec == Init /\ [][Next]_vars /\ WF_vars(Next)

-----------------------------------------------------------------------------
\* the job lines of the file, in order
IsJobLine(l) == l.kind = "job"
JobLines == SelectSeq(lines, IsJobLine)

(***************************************************************************)
(* ParDict.add turns the k-th job line into the k-th job: its first two   *)
(* items are the configuration and the template, its third the output     *)
(* directory, and a line without one gets a stamped directory whose       *)
(* second does not precede that of an earlier line.  Breaks if the        *)
(* dictionary is appended without the deep copy of line 168.             *)
(***************************************************************************)
JobsFromLines ==
    \A j \in DOMAIN ldict :
       LET it == JobLines[j].items IN
       /\ ldict[j].genConf = it[1] /\ ldict[j].template = it[2]
       /\ Len(it) > 2 => ldict[j].dirOut = it[3]
       /\ Len(it) = 2 => \E t \in 0..now :
             /\ ldict[j].dirOut = Stamped(t)
             /\ \A i \in 1..(j - 1) : \A u \in (t + 1)..MaxTime : ldict[i].dirOut # Stamped(u)

(***************************************************************************)
(* Spec section 5: jobs run one after the other, each with its own output *)
(* directory.  A job line naming no directory gets one chosen by lines    *)
(* 163-165; it should be a directory no other job of the run uses.        *)
(***************************************************************************)
StampedDirsOwn ==
    \A i, j \in DOMAIN ldict :
       i # j /\ ldict[i].dirOut \in {Stamped(t) : t \in 0..MaxTime}
          => ldict[i].dirOut # ldict[j].dirOut
====
