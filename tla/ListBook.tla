------------------------------ MODULE ListBook ------------------------------
(***************************************************************************)
(* The phone book of homework_6: a doubly linked list on the heap, with a  *)
(* menu to add, delete, search and print records (dinamic_mem.c,           *)
(* dinamic_mem_func.c).  One program, one thread; each turn of one of its  *)
(* loops is an action, so that a loop that never ends can be seen.  Of a   *)
(* record, the name stands for the three strings.                          *)
(*                                                                         *)
(* The list leans on memory that is not its own.  After a delete its loop  *)
(* looks at the record it has just freed.  What it finds there is glibc's  *)
(* doing (since 2.32): free puts a block on the tcache, where its first    *)
(* two words, prev and the head of name, become a mangled pointer and a    *)
(* key, so that the name matches no more; but a tcache that holds          *)
(* TcacheMax blocks sends it to a fastbin, which takes the first word      *)
(* alone, and the freed record matches again.  And malloc returns a block  *)
(* with its old next, which add_subscriber does not set, and every add     *)
(* starts from the record main allocated, which a delete may have freed.   *)
(* From then on "stale" is TRUE: the model goes on, and of the properties  *)
(* only the type invariant does.  A block that was never used is zero, as  *)
(* the heap comes from the kernel; no name a user types is the key.        *)
(***************************************************************************)
EXTENDS Integers, Sequences, FiniteSets

CONSTANTS
    Names,        \* the names a user types
    Cells, Mine,  \* the blocks of the heap; main's first record
    NULL, Wild,   \* the null pointer; what free leaves in prev
    TcacheMax,    \* 7, the blocks of one size the tcache takes
    MaxRuined,    \* bound: the calls that are followed once a free list is damaged
    Garbage,      \* the name of a record that is not filled in, or was freed
    All,          \* print_list, which looks for no name
    Capacity      \* 100, the count at which add_subscriber still goes on

ASSUME CellsAssumption == Mine \in Cells /\ {NULL, Wild} \cap Cells = {}
ASSUME NamesAssumption == {Garbage, All} \cap Names = {} /\ Garbage # All
ASSUME CapacityAssumption == Capacity \in Nat /\ TcacheMax \in Nat /\ MaxRuined \in Nat

Pointers == Cells \cup {NULL}

VARIABLES
    heap,               \* the record in each block
    live,               \* the blocks that are allocated
    tcache, fastbin,    \* the free ones, the fastbin with its top first
    ruined,             \* history: calls of malloc and free since a free list was damaged
    first, last, count, \* struct inform
    pc,                 \* the menu, a loop, or how the program ended
    ptr,                \* the loop variable
    search,             \* the name a loop looks for
    shown,              \* history: what this search or print has shown
    book,               \* history: the names that were added and not deleted
    stale               \* history: the list depends on freed memory

infoVars == <<first, last, count>>
memory == <<heap, live, tcache, fastbin, ruined>>
vars == <<memory, infoVars, pc, ptr, search, shown, book, stale>>

Init ==
    /\ heap = [c \in Cells |-> [prev |-> NULL, name |-> Garbage, next |-> NULL]]
    /\ live = {Mine} /\ tcache = {} /\ fastbin = <<>> /\ ruined = 0
    /\ first = NULL /\ last = NULL /\ count = 0
    /\ pc = "menu" /\ ptr = NULL /\ search = All
    /\ shown = <<>> /\ book = <<>> /\ stale = FALSE

\* The user chooses something in the menu, and a loop starts.
Choose(loop, p, name) ==
    /\ pc = "menu" /\ pc' = loop /\ ptr' = p /\ search' = name

\* The loop has run out of records.
LoopEnds(loop) ==
    /\ pc = loop /\ ptr = NULL /\ pc' = "menu"
    /\ UNCHANGED <<memory, infoVars, ptr, search, shown, book, stale>>

Ended(how) ==
    /\ pc' = how
    /\ UNCHANGED <<memory, infoVars, ptr, search, shown, book, stale>>

\* What the user expects in the book, for as long as it means anything.
Remember(b) == book' = IF stale' THEN <<>> ELSE b

-----------------------------------------------------------------------------
(* The heap.  A free list is damaged when it holds a block twice or is      *)
(* linked through a word the program wrote.  From then on it may give any    *)
(* block, miss any error or make the program crash.                          *)

Damaged == ruined > 0
Uses(damages) ==
    /\ ruined < MaxRuined
    /\ ruined' = IF Damaged \/ damages THEN ruined + 1 ELSE 0

Keyed(h, B) == [c \in Cells |->
    IF c \in B THEN [h[c] EXCEPT !.prev = Wild, !.name = Garbage] ELSE h[c]]

Room == Damaged \/ Cardinality(tcache) < TcacheMax
Full == Damaged \/ Cardinality(tcache) >= TcacheMax
HasKey(c) == c \notin live /\ heap[c].name = Garbage
OnTop(c) == fastbin # <<>> /\ Head(fastbin) = c

\* free finds that c is free: it has the key, or is on top of the fastbin.
Caught(c) == HasKey(c) \/ (OnTop(c) /\ Full) \/ Damaged

\* free(c) on the heap h, after a write that may have damaged a free list.
Free(h, c, damages) ==
    /\ HasKey(c) => Damaged
    /\ live' = live \ {c} /\ Uses(damages \/ c \notin live)
    /\ \/ /\ Room
          /\ heap' = Keyed(h, {c})
          /\ tcache' = (IF ruined' > 0 THEN {} ELSE tcache \cup {c}) /\ UNCHANGED fastbin
       \/ /\ Full /\ ~OnTop(c)
          /\ heap' = [h EXCEPT ![c].prev = Wild]
          /\ tcache' = (IF ruined' > 0 THEN {} ELSE tcache)
          /\ fastbin' = <<c>> \o (IF ruined' > 0 THEN <<>> ELSE fastbin)

\* malloc returns c.  From the fastbin it also moves blocks to the tcache, as many
\* as fit, and these get the key: K.
InFastbin == {c \in Cells : heap[c].prev = Wild /\ heap[c].name # Garbage}
Moved == IF Len(fastbin) <= TcacheMax THEN Len(fastbin) - 1 ELSE TcacheMax
Malloc(c, K) ==
    /\ \/ Damaged /\ K \subseteq InFastbin /\ fastbin' = <<>> /\ UNCHANGED tcache
       \/ c \in tcache /\ K = {} /\ tcache' = tcache \ {c} /\ UNCHANGED fastbin
       \/ /\ tcache = {} /\ OnTop(c)
          /\ K = {fastbin[i] : i \in 2 .. Moved + 1} /\ tcache' = K
          /\ fastbin' = SubSeq(fastbin, Moved + 2, Len(fastbin))
       \/ /\ tcache = {} /\ fastbin = <<>> /\ c \notin live /\ K = {}
          /\ UNCHANGED <<tcache, fastbin>>
    /\ live' = live \cup {c} /\ Uses(FALSE)

-----------------------------------------------------------------------------
(* Adding.                                                                  *)

\* main passes its own first record, freed or not.
AddFirst(n) ==
    /\ pc = "menu" /\ last = NULL
    /\ heap' = [heap EXCEPT ![Mine].name = n]
    /\ first' = Mine /\ last' = Mine /\ count' = count + 1
    /\ stale' = (stale \/ Mine \notin live) /\ Remember(Append(book, n))
    /\ UNCHANGED <<live, tcache, fastbin, ruined, pc, ptr, search, shown>>

HasRoom == count <= Capacity
StartAdd ==
    /\ last # NULL /\ HasRoom /\ Choose("add", Mine, All)
    /\ stale' = (stale \/ Mine \notin live) /\ Remember(book)
    /\ UNCHANGED <<memory, infoVars, shown>>

Abort == pc = "menu" /\ last # NULL /\ ~HasRoom /\ Ended("abort")

SeekEnd ==
    /\ pc = "add" /\ heap[ptr].next # NULL
    /\ ptr' = heap[ptr].next
    /\ UNCHANGED <<memory, infoVars, pc, search, shown, book, stale>>

LastKept(c) == last                                        \* mutant of LastAfterAdd
LastAfterAdd(c) == c
AddAtEnd(n, c) ==
    /\ pc = "add" /\ heap[ptr].next = NULL
    /\ \E K \in SUBSET Cells :
          /\ Malloc(c, K)
          /\ LET linked == [Keyed(heap, K) EXCEPT ![ptr].next = c]
             IN  heap' = [linked EXCEPT ![c].name = n, ![c].prev = ptr]
    /\ last' = LastAfterAdd(c) /\ count' = count + 1
    /\ pc' = "menu" /\ ptr' = NULL
    /\ stale' = (stale \/ heap[c].next # NULL) /\ Remember(Append(book, n))
    /\ UNCHANGED <<first, search, shown>>

\* The test of malloc's result never holds: the name is read to NULL.
OutOfMemory == pc = "add" /\ heap[ptr].next = NULL /\ Ended("no memory")

-----------------------------------------------------------------------------
(* Deleting: every record with the name.                                    *)

\* For each i, those of the first i names of b that are in S.
Sieve(b, S) ==
    LET F[i \in 0 .. Len(b)] ==
            IF i = 0 THEN <<>>
            ELSE IF b[i] \in S THEN Append(F[i - 1], b[i]) ELSE F[i - 1]
    IN  F

Without(b, n) == Sieve(b, Names \ {n})[Len(b)]

StartDelete(n) ==
    /\ Choose("delete", first, n)
    /\ UNCHANGED stale /\ Remember(Without(book, n))
    /\ UNCHANGED <<memory, infoVars, shown>>

Hit == pc = "delete" /\ ptr # NULL /\ heap[ptr].name = search

Neighbours(p) == heap[p].prev \in Cells /\ (p = last \/ heap[p].next \in Cells)

\* "continue": the freed record is looked at again.
DeleteFirst ==
    /\ Hit /\ ptr = first
    /\ first' = IF last = ptr THEN NULL ELSE heap[ptr].next
    /\ last' = IF last = ptr THEN NULL ELSE last
    /\ Free(heap, ptr, FALSE) /\ count' = count - 1
    /\ UNCHANGED <<pc, ptr, search, shown, book, stale>>

CutAfter(p) == [heap EXCEPT ![p].next = NULL]
DeleteLast ==
    /\ Hit /\ ptr # first /\ ptr = last /\ Neighbours(ptr)
    /\ last' = heap[ptr].prev
    /\ Free(CutAfter(heap[ptr].prev), ptr, FALSE) /\ count' = count - 1
    /\ ptr' = heap'[ptr].next
    /\ UNCHANGED <<first, pc, search, shown, book, stale>>

OneWay(p, q) == [heap EXCEPT ![p].next = q]                \* mutant of Unlinked
Unlinked(p, q) == [heap EXCEPT ![p].next = q, ![q].prev = p]
DeleteMiddle ==
    /\ Hit /\ ptr # first /\ ptr # last /\ Neighbours(ptr)
    /\ LET p == heap[ptr].prev
           q == heap[ptr].next
       IN  Free(Unlinked(p, q), ptr, q \notin live) /\ count' = count - 1
    /\ ptr' = heap'[ptr].next
    /\ UNCHANGED <<first, last, pc, search, shown, book, stale>>

DoubleFree == Hit /\ (ptr = first \/ Neighbours(ptr)) /\ Caught(ptr) /\ Ended("double free")

\* A pointer that leads nowhere is followed: to unlink a record, or in malloc.
Crash ==
    /\ \/ Hit /\ ptr # first /\ ~Neighbours(ptr)
       \/ pc = "add" /\ heap[ptr].next = NULL /\ Damaged
    /\ Ended("crash")

OnHit(p) == IF heap[p].name = search THEN heap[p].next ELSE p \* mutant of Advanced
Advanced(p) == heap[p].next
Pass ==
    /\ pc = "delete" /\ ptr # NULL /\ heap[ptr].name # search
    /\ ptr' = Advanced(ptr)
    /\ UNCHANGED <<memory, infoVars, pc, search, shown, book, stale>>

-----------------------------------------------------------------------------
(* Searching and printing.                                                  *)

StartShow(what) ==
    /\ Choose("show", first, what) /\ shown' = <<>>
    /\ UNCHANGED <<memory, infoVars, book, stale>>

Matches(p) == search = All \/ heap[p].name = search
Show ==
    /\ pc = "show" /\ ptr # NULL
    /\ shown' = IF ~stale /\ Matches(ptr) THEN Append(shown, heap[ptr].name) ELSE shown
    /\ ptr' = Advanced(ptr)
    /\ UNCHANGED <<memory, infoVars, pc, search, book, stale>>

-----------------------------------------------------------------------------
(* The end: free_mem.                                                       *)

FreeFrom == first
Exit ==
    /\ Choose("free", FreeFrom, All)
    /\ UNCHANGED <<memory, infoVars, shown, book, stale>>

FreeNext ==
    /\ pc = "free" /\ ptr # NULL
    /\ ptr' = heap[ptr].next
    /\ Free(heap, ptr, FALSE)
    /\ UNCHANGED <<infoVars, pc, search, shown, book, stale>>

FreeTwice == pc = "free" /\ ptr # NULL /\ Caught(ptr) /\ Ended("double free")
Close == pc = "free" /\ ptr = NULL /\ Ended("closed")

-----------------------------------------------------------------------------
User ==
    \/ \E n \in Names : AddFirst(n) \/ StartDelete(n)
    \/ StartAdd \/ Abort \/ Exit
    \/ \E what \in Names \cup {All} : StartShow(what)

Loops ==
    \/ SeekEnd \/ OutOfMemory \/ \E n \in Names, c \in Cells : AddAtEnd(n, c)
    \/ DeleteFirst \/ DeleteLast \/ DeleteMiddle \/ DoubleFree \/ Crash \/ Pass
    \/ Show \/ LoopEnds("delete") \/ LoopEnds("show")
    \/ FreeNext \/ FreeTwice \/ Close

Next == User \/ Loops

Spec == Init /\ [][Next]_vars

-----------------------------------------------------------------------------
(* Properties.                                                              *)

\* Every variable keeps its type; add_subscriber lets the count reach 101 and
\* no more (dinamic_mem_func.c:22).
TypeOK ==
    /\ heap \in [Cells -> [prev : Pointers \cup {Wild}, name : Names \cup {Garbage},
                           next : Pointers]]
    /\ live \subseteq Cells /\ tcache \subseteq Cells
    /\ fastbin \in Seq(Cells) /\ ruined \in 0 .. MaxRuined
    /\ first \in Pointers /\ last \in Pointers
    /\ count \in Int /\ count <= Capacity + 1
    /\ pc \in {"menu", "add", "delete", "show", "free", "closed", "abort", "no memory",
               "double free", "crash"}
    /\ ptr \in Pointers
    /\ search \in Names \cup {All}
    /\ shown \in Seq(Names) /\ book \in Seq(Names)
    /\ stale \in BOOLEAN

\* s is the list: from first to last along next, and back along prev.
IsList(s) ==
    LET n == Len(s)
    IN  /\ count = n
        /\ first = IF n = 0 THEN NULL ELSE s[1]
        /\ last = IF n = 0 THEN NULL ELSE s[n]
        /\ \A i \in 1 .. n : heap[s[i]].next = IF i = n THEN NULL ELSE s[i + 1]
        /\ \A i \in 2 .. n : heap[s[i]].prev = s[i - 1]

\* Whenever the user is at the menu, the list, its back links, last and count
\* agree on the records that were added and not deleted, and all of them are
\* allocated, as long as the list does not depend on freed memory
\* (dinamic_mem_func.c:9-40, 55-84).
Linked ==
    pc \in {"menu", "add", "show"} /\ ~stale =>
        \E s \in [1 .. Len(book) -> Cells] :
            IsList(s) /\ \A i \in 1 .. Len(book) : s[i] \in live /\ heap[s[i]].name = book[i]

\* So what a search or print shows is what was added under that name and not
\* deleted, in the order it was added (dinamic_mem_func.c:90-115).
ShowsBook ==
    pc = "show" /\ ptr = NULL /\ ~stale =>
        shown = IF search = All THEN book ELSE Sieve(book, {search})[Len(book)]

\* The list is the book the user typed, in memory and on the screen.
KeepsBook == Linked /\ ShowsBook

\* As long as the list does not depend on freed memory, a record that is about
\* to be unlinked is allocated and so are the neighbours it has in the list,
\* nothing is freed twice, although the loop looks at records it has just freed,
\* and free_mem frees every record; main's own may remain if it was never used.
\* The one exception is the full tcache: a first record that is freed then
\* matches again, and the program crashes on it (dinamic_mem_func.c:55-86,
\* 117-128).
NoBadPointer ==
    ~stale =>
        /\ Hit /\ ptr \in live /\ ptr # first =>
               {heap[ptr].prev} \cup (IF ptr = last THEN {} ELSE {heap[ptr].next}) \subseteq live
        /\ (Hit /\ ptr \notin live) \/ pc = "crash" => Full
        /\ pc # "double free"
        /\ pc = "closed" => live \subseteq {Mine}
=============================================================================
