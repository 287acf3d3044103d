------------------------------ MODULE Commands ------------------------------
(***************************************************************************)
(* The command keys of CommandDict (generateParametricFiles.py): main     *)
(* (lines 34-40) runs parseCommands (lines 389-401) over the keys of the  *)
(* table, then substitute, then delKeys (lines 333-336) on the variables  *)
(* the commands declared.  A key '%TAR%:$v' or '%ZIP%:$v' produces an     *)
(* archive of its sources, moves it to the output directory and binds v   *)
(* to it (__compressAction, lines 338-371); '%FILE_IN%' copies its        *)
(* sources there (__fileInAction, lines 373-380).                         *)
(*                                                                         *)
(* A key is a record: an ordinary parameter [kind |-> "plain", name], or  *)
(* a command key [kind |-> "cmd", cmd, var] whose var is the name after   *)
(* ':$', "none" when the key has no ':', "malformed" when the text after  *)
(* ':' does not start with '$' and "empty" when there is none.  Values are abstract: the value of  *)
(* an ordinary parameter, the sources of a command key, the archive a     *)
(* command produced.  substitute does not change which keys exist and is *)
(* left out here (it is the Resolver).                                    *)
(***************************************************************************)
EXTENDS Naturals, Sequences, SequencesExt, FiniteSets, Functions

CONSTANTS
    Plain,      \* names of the ordinary parameters a configuration may have
    Cmds,       \* the command keys a configuration may have
    MaxCmds     \* the most command keys in one configuration

VARIABLES
    dict,       \* self.Dict: key -> value
    order,      \* self.Dict.keys() when parseCommands starts
    pos,        \* the position of the loop of parseCommands in order
    cmdVars,    \* commandsVar
    dpos,       \* the position of the loop of delKeys in cmdVars
    moved,      \* archives moved into the output directory
    copied,     \* sources copied into the output directory
    pc          \* "cmds", "del", "done", "crash" (exception) or "exit"

vars == <<dict, order, pos, cmdVars, dpos, moved, copied, pc>>

PlainKey(n) == [kind |-> "plain", name |-> n]
Value(k)    == IF k.kind = "plain" THEN <<"value", k.name>> ELSE <<"sources", k>>
Archive(k)  == <<"archive", k>>

\* the table without key k, and the table with key k set to v
Del(d, k)    == [x \in DOMAIN d \ {k} |-> d[x]]
Set(d, k, v) == [x \in DOMAIN d \cup {k} |-> IF x = k THEN v ELSE d[x]]

(***************************************************************************)
(* CommandDict.__commandToActionDict (lines 383-387): the action of a     *)
(* command name, "none" for a name it does not hold (a KeyError).         *)
(***************************************************************************)
Dispatch(cmd) ==
    IF cmd \in {"TAR", "ZIP"} THEN "compress"
    ELSE IF cmd = "FILE_IN" THEN "fileIn"
    ELSE "none"

Cur == order[pos]

\* the var field of a command key without a usable ':$var'
NoVar == {"none", "malformed", "empty"}

\* the variables the command keys declare
VarNames == {k.var : k \in Cmds} \ NoVar

TypeOK ==
    /\ pos \in 1..(Len(order) + 1)
    /\ DOMAIN dict \subseteq {PlainKey(n) : n \in Plain \cup VarNames} \cup Cmds
    /\ cmdVars \in Seq(VarNames)
    /\ dpos \in 1..(Len(cmdVars) + 1)
    /\ pc \in {"cmds", "del", "done", "crash", "exit"}

\* the table as CommandDict.add left it, every set of keys in any dict order
Init ==
    /\ \E P \in SUBSET Plain, C \in SUBSET Cmds :
           /\ Cardinality(C) <= MaxCmds
           /\ dict = [k \in {PlainKey(n) : n \in P} \cup C |-> Value(k)]
    /\ order \in SetToSeqs(DOMAIN dict)
    /\ pos = 1 /\ cmdVars = <<>> /\ dpos = 1
    /\ moved = {} /\ copied = {}
    /\ pc = "cmds"

\* re.match(commandPattern, k) fails for an ordinary key (line 393)
SkipPlain ==
    /\ pc = "cmds"
    /\ pos <= Len(order)
    /\ Cur.kind = "plain"
    /\ pos' = pos + 1
    /\ UNCHANGED <<dict, order, cmdVars, dpos, moved, copied, pc>>

\* the command name is not a key of __commandToActionDict: KeyError (line 396)
UnknownCommand ==
    /\ pc = "cmds"
    /\ pos <= Len(order)
    /\ Cur.kind = "cmd" /\ Dispatch(Cur.cmd) = "none"
    /\ pc' = "crash"
    /\ UNCHANGED <<dict, order, pos, cmdVars, dpos, moved, copied>>

(***************************************************************************)
(* __compressAction without a usable ':$var' (lines 343-352): no ':' or   *)
(* no '$' after it ends the run with sys.exit(-1); nothing after the ':'  *)
(* makes (keyItems[1].strip())[0] raise IndexError.                       *)
(***************************************************************************)
CompressNoVar ==
    /\ pc = "cmds"
    /\ pos <= Len(order)
    /\ Cur.kind = "cmd" /\ Dispatch(Cur.cmd) = "compress"
    /\ Cur.var \in NoVar
    /\ pc' = IF Cur.var = "empty" THEN "crash" ELSE "exit"
    /\ UNCHANGED <<dict, order, pos, cmdVars, dpos, moved, copied>>

\* mutant: the variable is taken as keyItems[1].strip(), its '$' kept
CompressKeepsDollar ==
    /\ pc = "cmds"
    /\ pos <= Len(order)
    /\ Cur.kind = "cmd" /\ Dispatch(Cur.cmd) = "compress"
    /\ Cur.var \notin NoVar
    /\ moved' = moved \cup {Archive(Cur)}
    /\ cmdVars' = Append(cmdVars, "$" \o Cur.var)
    /\ dict' = Del(Set(dict, PlainKey("$" \o Cur.var), Archive(Cur)), Cur)
    /\ pos' = pos + 1
    /\ UNCHANGED <<order, dpos, copied, pc>>

(***************************************************************************)
(* __compressAction (lines 354-371): cDict[var] = config, the archive is  *)
(* produced and moved to the output directory; then parseCommands (lines  *)
(* 397-400) records var, binds it to [[archive]] and deletes the key.     *)
(***************************************************************************)
Compress ==
    /\ pc = "cmds"
    /\ pos <= Len(order)
    /\ Cur.kind = "cmd" /\ Dispatch(Cur.cmd) = "compress"
    /\ Cur.var \notin NoVar
    /\ moved' = moved \cup {Archive(Cur)}
    /\ cmdVars' = Append(cmdVars, Cur.var)
    /\ dict' = Del(Set(dict, PlainKey(Cur.var), Archive(Cur)), Cur)
    /\ pos' = pos + 1
    /\ UNCHANGED <<order, dpos, copied, pc>>

\* mutant: the FILE_IN key stays in the table
FileInKeepsKey ==
    /\ pc = "cmds"
    /\ pos <= Len(order)
    /\ Cur.kind = "cmd" /\ Dispatch(Cur.cmd) = "fileIn"
    /\ copied' = copied \cup {dict[Cur]}
    /\ pos' = pos + 1
    /\ UNCHANGED <<dict, order, cmdVars, dpos, moved, pc>>

\* __fileInAction copies the sources (lines 373-380); the key is deleted
FileIn ==
    /\ pc = "cmds"
    /\ pos <= Len(order)
    /\ Cur.kind = "cmd" /\ Dispatch(Cur.cmd) = "fileIn"
    /\ copied' = copied \cup {dict[Cur]}
    /\ dict' = Del(dict, Cur)
    /\ pos' = pos + 1
    /\ UNCHANGED <<order, cmdVars, dpos, moved, pc>>

\* parseCommands returns; substitute runs; delKeys(c) starts (lines 36-40)
EndCommands ==
    /\ pc = "cmds"
    /\ pos > Len(order)
    /\ pc' = "del"
    /\ UNCHANGED <<dict, order, pos, cmdVars, dpos, moved, copied>>

\* del self.Dict[k] for the next declared variable (lines 334-336)
DelKey ==
    /\ pc = "del"
    /\ dpos <= Len(cmdVars)
    /\ IF PlainKey(cmdVars[dpos]) \in DOMAIN dict
       THEN /\ dict' = Del(dict, PlainKey(cmdVars[dpos]))
            /\ dpos' = dpos + 1
            /\ UNCHANGED pc
       ELSE /\ pc' = "crash"              \* KeyError
            /\ UNCHANGED <<dict, dpos>>
    /\ UNCHANGED <<order, pos, cmdVars, moved, copied>>

\* delKeys returns; minimize and the generation follow
EndDelete ==
    /\ pc = "del"
    /\ dpos > Len(cmdVars)
    /\ pc' = "done"
    /\ UNCHANGED <<dict, order, pos, cmdVars, dpos, moved, copied>>

Next ==
    \/ SkipPlain \/ UnknownCommand \/ CompressNoVar \/ Compress \/ FileIn
    \/ EndCommands \/ DelKey \/ EndDelete

Spec == Init /\ [][Next]_vars

-----------------------------------------------------------------------------
(***************************************************************************)
(* When the command pass and delKeys are over, the table holds exactly    *)
(* the ordinary parameters of the configuration, each with its own value: *)
(* every command key and every variable a command declared are gone.     *)
(* About parseCommands (lines 396-400) and delKeys (lines 333-336).       *)
(***************************************************************************)
CommandsRemoved ==
    pc = "done" =>
        /\ DOMAIN dict = {k \in Range(order) : k.kind = "plain"}
        /\ \A k \in DOMAIN dict : dict[k] = Value(k)

(***************************************************************************)
(* Spec section 7: a configuration error ends the run before any part of  *)
(* the job is done: nothing has been moved or copied to the output        *)
(* directory.  About the order of the loop of parseCommands (line 391).   *)
(***************************************************************************)
FatalBeforeSideEffects ==
    pc \in {"crash", "exit"} => moved = {} /\ copied = {}
====
