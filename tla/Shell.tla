-------------------------------- MODULE Shell -------------------------------
(***************************************************************************)
(* The two shells: homework_10/task3 (process_3), which starts a command   *)
(* and prompts again at once, and homework_12/task3 (chanel_3), which      *)
(* also knows a pipe between two commands and waits.  Both keep the last   *)
(* lines typed.                                                            *)
(*                                                                         *)
(* A line is one of "exit", "builtin" (cd and history), "blank" (nothing   *)
(* but spaces), "command" and "pipe".  A pipe is how many pieces it holds  *)
(* and, for the shell (0), the first command (1) and the second (2), which *)
(* ends each has open.  The first command has so many pieces to write.     *)
(* The second is never run: its words are copied to their old places in a  *)
(* list of their own, whose first place is not set (lines 89-90), so that  *)
(* its child ends in execvp, which fails or crashes on whatever is there.  *)
(***************************************************************************)
EXTENDS Integers, Sequences

CONSTANTS
    HISTORY_SIZE, \* lines kept
    PipeMax,      \* pieces the pipe holds
    MaxOut,       \* bound: pieces the first command writes
    MaxCommands   \* bound: lines typed

VARIABLES
    prog,      \* the shell that was started
    sh,        \* where it is
    history,   \* history[], oldest first
    unwaited,  \* commands process_3 has started and never waits for
    proc,      \* chanel_3's two children
    ends,      \* the ends of the pipe each process has open
    pipe,      \* pieces in the pipe
    out,       \* pieces the first command is still to write
    commands   \* lines typed

pipeVars == <<ends, pipe, out>>
vars == <<prog, sh, history, unwaited, proc, pipeVars, commands>>

Children == {1, 2}
Procs == {0} \cup Children

Init ==
    /\ prog \in {"process_3", "chanel_3"}
    /\ sh = "prompt" /\ history = <<>> /\ unwaited = 0 /\ commands = 0
    /\ proc = [i \in Children |-> "none"]
    /\ ends = [p \in Procs |-> {}] /\ pipe = 0 /\ out = 0

-----------------------------------------------------------------------------
(* The shell.                                                               *)

OneTooLate(line) ==                      \* mutant of Added
    IF Len(history) <= HISTORY_SIZE THEN Append(history, line) ELSE Append(Tail(history), line)

\* With a full history the oldest line goes.
Added(line) ==
    IF Len(history) < HISTORY_SIZE THEN Append(history, line) ELSE Append(Tail(history), line)

Typed(line) ==
    /\ sh = "prompt" /\ commands < MaxCommands
    /\ commands' = commands + 1
    /\ history' = Added(line)

Builtin == Typed("builtin") /\ UNCHANGED <<prog, sh, unwaited, proc, pipeVars>>

\* exit; and a blank line has no first word: strcmp(NULL, "exit") crashes.
Leave ==
    /\ \/ Typed("exit") /\ sh' = "ended"
       \/ Typed("blank") /\ sh' = "crashed"
    /\ UNCHANGED <<prog, unwaited, proc, pipeVars>>

\* process_3 starts any other line as one command, unless fork fails.
Start(line) ==
    /\ prog = "process_3" /\ Typed(line)
    /\ unwaited' \in {unwaited, unwaited + 1}
    /\ UNCHANGED <<prog, sh, proc, pipeVars>>

\* chanel_3 starts one command, waits for it, and ends itself (line 138).
Run ==
    /\ prog = "chanel_3" /\ Typed("command") /\ sh' = "run"
    /\ UNCHANGED <<prog, unwaited, proc, pipeVars>>

RunEnds ==
    /\ sh = "run" /\ sh' = "ended"
    /\ UNCHANGED <<prog, history, unwaited, proc, pipeVars, commands>>

OpenPipe ==
    /\ prog = "chanel_3" /\ Typed("pipe") /\ sh' = "fork 1"
    /\ ends' = [ends EXCEPT ![0] = {"r", "w"}] /\ pipe' = 0 /\ out' \in 0 .. MaxOut
    /\ UNCHANGED <<prog, unwaited, proc>>

\* A child has the shell's ends; a fork that fails is taken no notice of.
Fork(i) ==
    /\ sh = IF i = 1 THEN "fork 1" ELSE "fork 2"
    /\ sh' = IF i = 1 THEN "fork 2" ELSE "close"
    /\ \/ /\ proc' = [proc EXCEPT ![i] = "new"]
          /\ ends' = [ends EXCEPT ![i] = ends[0]]
       \/ UNCHANGED <<proc, ends>>
    /\ UNCHANGED <<prog, history, unwaited, pipe, out, commands>>

WriteOnlyClosed == ends[0] \ {"w"}       \* mutant of BothClosed
BothClosed == ends[0] \ {"r", "w"}
CloseEnds ==
    /\ sh = "close" /\ sh' = "wait 1"
    /\ ends' = [ends EXCEPT ![0] = BothClosed]
    /\ UNCHANGED <<prog, history, unwaited, proc, pipe, out, commands>>

\* wait returns with a child that has ended, or at once when there is none.
Wait ==
    /\ sh \in {"wait 1", "wait 2"}
    /\ sh' = IF sh = "wait 1" THEN "wait 2" ELSE "prompt"
    /\ \/ \E i \in Children : proc[i] = "zombie" /\ proc' = [proc EXCEPT ![i] = "none"]
       \/ (\A i \in Children : proc[i] = "none") /\ UNCHANGED proc
    /\ UNCHANGED <<prog, history, unwaited, pipeVars, commands>>

-----------------------------------------------------------------------------
(* The children.                                                            *)

\* Which end child i keeps, as its output or its input.
Kept(i) == IF i = 1 THEN {"w"} ELSE {"r"}

Redirect(i) ==
    /\ proc[i] = "new" /\ proc' = [proc EXCEPT ![i] = "run"]
    /\ ends' = [ends EXCEPT ![i] = Kept(i)]
    /\ UNCHANGED <<prog, sh, history, unwaited, pipe, out, commands>>

\* A process that ends closes what it has open.
Ends(i) ==
    /\ proc' = [proc EXCEPT ![i] = "zombie"] /\ ends' = [ends EXCEPT ![i] = {}]
    /\ UNCHANGED <<prog, sh, history, unwaited, pipe, out, commands>>

\* There is no such command, or its list of arguments, which no NULL ends, is bad;
\* that of the second never names a command.
ExecFails(i) == proc[i] = "run" /\ Ends(i)

HasOpen(e) == \E p \in Procs : e \in ends[p]

Write ==
    /\ proc[1] = "run" /\ out > 0 /\ pipe < PipeMax /\ HasOpen("r")
    /\ pipe' = pipe + 1 /\ out' = out - 1
    /\ UNCHANGED <<prog, sh, history, unwaited, proc, ends, commands>>

\* Everything is written, or nobody can read it (SIGPIPE).
FirstEnds == proc[1] = "run" /\ (out = 0 \/ ~HasOpen("r")) /\ Ends(1)

-----------------------------------------------------------------------------
User == Builtin \/ Leave \/ (\E line \in {"command", "pipe"} : Start(line)) \/ Run \/ OpenPipe

\* The shell and the commands run; the first command need not fail.
Progress ==
    \/ RunEnds \/ (\E i \in Children : Fork(i) \/ Redirect(i)) \/ CloseEnds \/ Wait
    \/ Write \/ FirstEnds \/ ExecFails(2)

Next == User \/ Progress \/ ExecFails(1)

Spec == Init /\ [][Next]_vars

-----------------------------------------------------------------------------
(* Properties.                                                              *)

\* Every variable keeps its type; history_count stays within history[]
\* (chanel_3_func.c:5-12).
TypeOK ==
    /\ prog \in {"process_3", "chanel_3"}
    /\ sh \in {"prompt", "run", "fork 1", "fork 2", "close", "wait 1", "wait 2", "ended",
               "crashed"}
    /\ history \in Seq({"exit", "builtin", "blank", "command", "pipe"})
    /\ Len(history) <= HISTORY_SIZE
    /\ unwaited \in 0 .. MaxCommands /\ commands \in 0 .. MaxCommands
    /\ proc \in [Children -> {"none", "new", "run", "zombie"}]
    /\ ends \in [Procs -> SUBSET {"r", "w"}]
    /\ pipe \in 0 .. PipeMax /\ out \in 0 .. MaxOut

\* The shell has a command or a pipe to wait for.
Busy == sh \notin {"prompt", "ended", "crashed"}

\* Nothing of a pipe is left: no child, no open end.
AllGone ==
    /\ \A i \in Children : proc[i] = "none"
    /\ \A p \in Procs : ends[p] = {}
=============================================================================
