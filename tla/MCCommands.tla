---------------------------- MODULE MCCommands ----------------------------
(***************************************************************************)
(* Ordinary parameters p and q; command keys among %TAR%:$v, %ZIP%:$w,     *)
(* %FILE_IN%, %TAR% (no variable), %TAR%:v (no '$'), %ZIP%: (nothing      *)
(* after ':'), %ZAP%:$u (unknown) and %ZIP%:$v, which binds the same      *)
(* variable as %TAR%:$v.                                                   *)
(***************************************************************************)
EXTENDS Commands

Cmd(c, v) == [kind |-> "cmd", cmd |-> c, var |-> v]

MCPlain == {"p", "q"}

MCCmds ==
    { Cmd("TAR", "v"), Cmd("ZIP", "w"), Cmd("FILE_IN", "none"),
      Cmd("TAR", "none"), Cmd("TAR", "malformed"), Cmd("ZIP", "empty"),
      Cmd("ZAP", "u"), Cmd("ZIP", "v") }

\* the configuration of the commands_fatal run: an archive command, then an
\* unknown one
MCFatalCmds == { Cmd("TAR", "v"), Cmd("ZAP", "u") }

====
