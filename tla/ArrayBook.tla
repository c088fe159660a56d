----------------------------- MODULE ArrayBook -----------------------------
(***************************************************************************)
(* The phone book of homework_4 and homework_5: records in an array on     *)
(* main's stack and a menu (struct.c; func.c is the same text).  One       *)
(* thread, so a choice in the menu is one action; of a record, the name    *)
(* stands for the three strings.                                           *)
(*                                                                         *)
(* count is not the number of records: it starts at 1, so that the first   *)
(* loop finds a record to fill, grows when an empty record is filled,      *)
(* shrinks with every delete, and stays when a deleted record is filled    *)
(* again.  The array is not initialised: a record is empty or garbage.     *)
(***************************************************************************)
EXTENDS Integers

CONSTANTS
    Size,            \* records of the array (100 in the code)
    Names,           \* the names users type
    Empty, Deleted,  \* the names "" and "0"
    Garbage,         \* what the stack may hold instead
    All, Nothing     \* what the user asks for: every record, or none

SizeAssumption == Size \in Nat \ {0}
NamesAssumption ==
    /\ {Empty, Deleted, Garbage, All, Nothing} \cap Names = {}
    /\ Empty # Deleted /\ Empty # Garbage /\ Deleted # Garbage
    /\ All # Nothing /\ {All, Nothing} \cap {Empty, Deleted, Garbage} = {}

Slots == 0 .. Size - 1

VARIABLES
    list,     \* list[i].name
    count,
    asked,    \* the name searched for, or All after a print
    shown,    \* history: the records it has printed
    deletes   \* history: how many deletes have found a record

vars == <<list, count, asked, shown, deletes>>

Init ==
    /\ list \in [Slots -> {Empty, Garbage}]
    /\ count = 1
    /\ asked = Nothing /\ shown = {} /\ deletes = 0

\* The loops run over the first count records.
InLoop(i) == i < count

\* The loop stops at the first record that satisfies P.
IsFirst(i, P(_)) == InLoop(i) /\ P(i) /\ \A k \in Slots : k < i => ~P(k)

NothingShown == asked' = Nothing /\ shown' = {}

AlwaysOneMore(i) == count + 1                       \* mutant of CountAfterAdd
CountAfterAdd(i) == IF list[i] = Empty THEN count + 1 ELSE count

\* Without a record to fill the loop ends and the user is not asked for a
\* name; at Size the program says that it is full.  Both change nothing.
Vacant(i) == list[i] \in {Deleted, Empty}
Add(n, i) ==
    /\ count < Size /\ IsFirst(i, Vacant)
    /\ list' = [list EXCEPT ![i] = n]
    /\ count' = CountAfterAdd(i)
    /\ NothingShown /\ UNCHANGED deletes

Delete(n, i) ==
    /\ LET Named(k) == list[k] = n IN IsFirst(i, Named)
    /\ list' = [list EXCEPT ![i] = Deleted]
    /\ count' = count - 1
    /\ deletes' = deletes + 1
    /\ NothingShown

OneLess(i) == i < count - 1                         \* mutant of Reached
Reached(i) == InLoop(i)
Search(n) ==
    /\ asked' = n
    /\ shown' = {i \in Slots : Reached(i) /\ list[i] = n}
    /\ UNCHANGED <<list, count, deletes>>

PrintAll ==
    /\ asked' = All
    /\ shown' = {i \in Slots : Reached(i) /\ list[i] # Deleted}
    /\ UNCHANGED <<list, count, deletes>>

\* A user may type "0" like any other name.
Typed == Names \cup {Deleted}

Next ==
    \/ \E n \in Typed, i \in Slots : Add(n, i) \/ Delete(n, i)
    \/ \E n \in Typed : Search(n)
    \/ PrintAll

Spec == Init /\ [][Next]_vars

-----------------------------------------------------------------------------
(* Properties.                                                              *)

\* Every variable keeps its type; count stays within the array (struct.c:25).
TypeOK ==
    /\ list \in [Slots -> Typed \cup {Empty, Garbage}]
    /\ count \in 0 .. Size
    /\ asked \in Typed \cup {All, Nothing}
    /\ shown \subseteq Slots
    /\ deletes \in Nat

\* A search or print shows every record that was added under that name and not
\* deleted, until records have been deleted twice: then count may have come
\* down below a record, and no later add brings it back (struct.c:25-51, 63-97).
ShowsRecords ==
    deletes <= 1 =>
        {i \in Slots : list[i] \in Names /\ asked \in {All, list[i]}} \subseteq shown

\* Once anything has been deleted the book never grows again: a delete makes
\* room for one record at most, and every later one takes a place away
\* (struct.c:30-49, 66-73).
NeverGrowsAgain == [][deletes > 0 => count' <= count]_vars
=============================================================================
