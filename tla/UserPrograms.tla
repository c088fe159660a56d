---------------------------- MODULE UserPrograms ----------------------------
(***************************************************************************)
(* The programs of the course that one user at a terminal works with: the  *)
(* phone book in a list (homework_6), the one in an array (homework_4 and  *)
(* homework_5) and the shells (homework_10 and homework_12).  They share   *)
(* nothing but the terminal: the user starts one of them.                  *)
(***************************************************************************)
EXTENDS ListBook

CONSTANTS
    Size, Empty, Deleted, Nothing,               \* of the array
    HISTORY_SIZE, PipeMax, MaxOut, MaxCommands   \* of the shells

VARIABLES
    program,
    list, arrayCount, asked, shownSlots, deletes,                            \* array
    prog, sh, history, unwaited, proc, ends, pipe, out, commands             \* shell

arrayVars == <<list, arrayCount, asked, shownSlots, deletes>>
shellVars == <<prog, sh, history, unwaited, proc, ends, pipe, out, commands>>
programVars == <<program, vars, arrayVars, shellVars>>

Array == INSTANCE ArrayBook WITH count <- arrayCount, shown <- shownSlots
Shell == INSTANCE Shell

ASSUME ArrayAssumption == Array!SizeAssumption /\ Array!NamesAssumption
ASSUME ShellAssumption ==
    /\ HISTORY_SIZE \in Nat \ {0} /\ PipeMax \in Nat \ {0}
    /\ MaxOut \in Nat /\ MaxCommands \in Nat

ProgramsInit ==
    /\ program \in {"list", "array", "shell"} /\ Init /\ Array!Init /\ Shell!Init
    /\ program # "array" => list = [i \in Array!Slots |-> Empty]
    /\ program # "shell" => prog = "process_3"

\* A step of the program that was started leaves the others alone.
InList(A) == program = "list" /\ A /\ UNCHANGED <<program, arrayVars, shellVars>>
InArray(A) == program = "array" /\ A /\ UNCHANGED <<program, vars, shellVars>>
InShell(A) == program = "shell" /\ A /\ UNCHANGED <<program, vars, arrayVars>>

ProgramsNext == InList(Next) \/ InArray(Array!Next) \/ InShell(Shell!Next)

\* The program runs, and so do the commands of a shell; who has begun to add a
\* record types its name; nobody has to choose anything in a menu or to type a
\* command.
ProgramsSpec ==
    /\ ProgramsInit /\ [][ProgramsNext]_programVars
    /\ WF_programVars(InList(Loops) \/ InShell(Shell!Progress))

-----------------------------------------------------------------------------
(* Properties: KeepsBook and NoBadPointer of ListBook, and these.           *)

\* The types of all three.
ProgramsTypeOK == TypeOK /\ Array!TypeOK /\ Shell!TypeOK

\* Until a second record is deleted the array shows every record that was added
\* and not deleted (struct.c:25-51, 63-97).
ShowsRecords == Array!ShowsRecords

\* After the first delete the count of the array never rises (struct.c:30-49, 66-73).
NeverGrowsAgain == Array!NeverGrowsAgain

\* Every loop of the list book ends (dinamic_mem_func.c); a shell that waits for a
\* pipe comes back when the first command has written what it can, with both
\* children waited for and both ends of the pipe closed, whichever fork or command
\* failed (chanel_3_func.c:91-121).
Occupied ==
    \/ pc \in {"add", "delete", "show", "free"} /\ ~stale
    \/ Shell!Busy \/ ~Shell!AllGone
OperationsEnd == Occupied ~> ~Occupied
=============================================================================
