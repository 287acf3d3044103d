----------------------------- MODULE Enumeration ----------------------------
(***************************************************************************)
(* What a generator of test cases promises, independent of how it walks   *)
(* the choices: out lists the choices produced so far; each step produces *)
(* one not produced before; the run completes once every choice is out,   *)
(* and fails, producing nothing, only when there is no choice at all.     *)
(* choices is fixed for the run.                                          *)
(***************************************************************************)
EXTENDS Sequences, SequencesExt

VARIABLES
    choices,    \* the set of choices to produce
    out,        \* the choices produced, in order
    status      \* "running", "complete" or "failed"

vars == <<choices, out, status>>

Init ==
    /\ out = <<>>
    /\ status = "running"

Produce ==
    /\ status = "running"
    /\ \E c \in choices \ Range(out) : out' = Append(out, c)
    /\ UNCHANGED <<choices, status>>

Complete ==
    /\ status = "running"
    /\ choices # {} /\ Range(out) = choices
    /\ status' = "complete"
    /\ UNCHANGED <<choices, out>>

Fail ==
    /\ status = "running"
    /\ choices = {}
    /\ status' = "failed"
    /\ UNCHANGED <<choices, out>>

Next == Produce \/ Complete \/ Fail

Spec == Init /\ [][Next]_vars /\ WF_vars(Next)
====
