-------------------------- MODULE UserProgramsProofs -----------------------
(***************************************************************************)
(* Theorems of UserPrograms, for every choice of the user: the phone book  *)
(* in a list on a heap of any size, the one in an array of any size, and   *)
(* the shells.                                                             *)
(***************************************************************************)
EXTENDS UserPrograms, SequenceTheorems, FiniteSetTheorems, WellFoundedInduction, TLAPS

-----------------------------------------------------------------------------
(* What a sieve keeps of a sequence.                                        *)

LEMMA SetInduction ==
    ASSUME NEW T \in SUBSET Nat, 0 \in T, \A n \in T : n + 1 \in T
    PROVE  T = Nat
<1> DEFINE S == Nat \ T
           R == {ss \in Nat \X Nat : ss[1] < ss[2]}
<1> SUFFICES ASSUME S # {} PROVE FALSE
  OBVIOUS
<1>1. IsWellFoundedOn(R, Nat)
  BY NatLessThanWellFounded DEF OpToRel
<1>2. PICK n \in S : \A y \in S : <<y, n>> \notin R
  <2> HIDE DEF R
  <2>1. S \subseteq Nat
    OBVIOUS
  <2> HIDE DEF S
  <2> QED
    BY <1>1, <2>1, WFMin
<1>3. n # 0 /\ n - 1 \in Nat
  OBVIOUS
<1>4. n - 1 \notin S
  <2>1. <<n - 1, n>> \in Nat \X Nat /\ n - 1 < n
    BY <1>3
  <2>2. <<n - 1, n>> \in R
    BY <2>1
  <2> QED
    BY <1>2, <2>2
<1>5. n - 1 \in T /\ (n - 1) + 1 = n
  BY <1>3, <1>4
<1>6. n \in T
  BY <1>5
<1> QED
  BY <1>6

\* What Sieve is defined to satisfy.
Sieving(b, S, f) ==
    [i \in 0 .. Len(b) |->
        IF i = 0 THEN <<>> ELSE IF b[i] \in S THEN Append(f[i - 1], b[i]) ELSE f[i - 1]]

LEMMA SieveExists ==
    ASSUME NEW b, Len(b) \in Nat, NEW S
    PROVE  Sieve(b, S) = Sieving(b, S, Sieve(b, S))
<1> DEFINE Value(f, i) ==
               IF i = 0 THEN <<>> ELSE IF b[i] \in S THEN Append(f[i - 1], b[i]) ELSE f[i - 1]
           Right(f, n) == \A i \in 0 .. n : f[i] = Value(f, i)
           K == {n \in Nat : \E f : Right(f, n)}
<1>1. 0 \in K
  <2> DEFINE f == [i \in {0} |-> <<>>]
  <2>1. Right(f, 0)
    OBVIOUS
  <2> HIDE DEF f, Right
  <2> QED
    BY <2>1
<1>2. ASSUME NEW n \in K PROVE n + 1 \in K
  <2>1. PICK f : Right(f, n)
    OBVIOUS
  <2> DEFINE h == [i \in 0 .. n + 1 |-> IF i <= n THEN f[i] ELSE Value(f, i)]
  <2>2. \A i \in 0 .. n + 1 : h[i] = Value(f, i)
    BY <2>1
  <2>3. \A i \in 0 .. n : h[i] = f[i]
    OBVIOUS
  <2> HIDE DEF h
  <2>4. \A i \in 0 .. n + 1 : Value(h, i) = Value(f, i)
    BY <2>3
  <2>5. Right(h, n + 1)
    BY <2>2, <2>4
  <2>6. n + 1 \in Nat
    OBVIOUS
  <2> HIDE DEF Right
  <2> QED
    BY <2>5, <2>6
<1>3. PICK f : Right(f, Len(b))
  <2>1. K = Nat
    <3>1. K \in SUBSET Nat
      OBVIOUS
    <3> HIDE DEF K
    <3> QED
      BY <1>1, <1>2, <3>1, SetInduction
  <2> QED
    BY <2>1
<1> DEFINE h == [i \in 0 .. Len(b) |-> f[i]]
<1>4. \A i \in 0 .. Len(b) : h[i] = Value(f, i) /\ Value(h, i) = Value(f, i)
  BY <1>3
<1>5. h = Sieving(b, S, h)
  BY <1>4 DEF Sieving
<1> DEFINE it == CHOOSE i : i = Sieving(b, S, i)
<1>6. it = Sieving(b, S, it)
  <2> HIDE DEF h
  <2> QED
    BY <1>5
<1>7. Sieve(b, S) = it
  BY DEF Sieve, Sieving
<1> HIDE DEF it
<1> QED
  BY <1>6, <1>7

LEMMA SieveSteps ==
    ASSUME NEW b, Len(b) \in Nat, NEW S
    PROVE  /\ Sieve(b, S)[0] = <<>>
           /\ \A i \in 1 .. Len(b) :
                  Sieve(b, S)[i] = IF b[i] \in S THEN Append(Sieve(b, S)[i - 1], b[i])
                                   ELSE Sieve(b, S)[i - 1]
<1> DEFINE f == Sieve(b, S)
<1>1. f = Sieving(b, S, f)
  BY SieveExists
<1> HIDE DEF f
<1>2. f[0] = <<>>
  <2>1. 0 \in 0 .. Len(b)
    OBVIOUS
  <2> QED
    BY <1>1, <2>1, Zenon DEF Sieving
<1>3. ASSUME NEW i \in 1 .. Len(b)
      PROVE  f[i] = IF b[i] \in S THEN Append(f[i - 1], b[i]) ELSE f[i - 1]
  <2>1. i \in 0 .. Len(b) /\ i # 0
    OBVIOUS
  <2> QED
    BY <1>1, <2>1, Zenon DEF Sieving
<1> QED
  BY <1>2, <1>3 DEF f

\* What is kept is of the sequence.
LEMMA SieveTyped ==
    ASSUME NEW T, NEW b \in Seq(T), NEW S
    PROVE  \A i \in 0 .. Len(b) : Sieve(b, S)[i] \in Seq(T)
<1> DEFINE f == Sieve(b, S)
           K == {n \in Nat : n <= Len(b) => f[n] \in Seq(T)}
<1>1. Len(b) \in Nat /\ \A i \in 1 .. Len(b) : b[i] \in T
  OBVIOUS
<1>2. /\ f[0] = <<>>
      /\ \A i \in 1 .. Len(b) : f[i] = IF b[i] \in S THEN Append(f[i - 1], b[i]) ELSE f[i - 1]
  BY <1>1, SieveSteps
<1> HIDE DEF f
<1>3. 0 \in K
  <2>1. f[0] \in Seq(T)
    BY <1>2
  <2> QED
    BY <2>1
<1>4. ASSUME NEW n \in K PROVE n + 1 \in K
  <2> SUFFICES ASSUME n + 1 <= Len(b) PROVE f[n + 1] \in Seq(T)
    OBVIOUS
  <2>1. n + 1 \in 1 .. Len(b) /\ (n + 1) - 1 = n /\ f[n] \in Seq(T)
    BY <1>1
  <2>2. f[n + 1] = IF b[n + 1] \in S THEN Append(f[n], b[n + 1]) ELSE f[n]
    BY <1>2, <2>1
  <2> QED
    BY <1>1, <2>1, <2>2
<1>5. K = Nat
  <2>1. K \in SUBSET Nat
    OBVIOUS
  <2> HIDE DEF K
  <2> QED
    BY <1>3, <1>4, <2>1, SetInduction
<1>6. \A n \in Nat : n <= Len(b) => f[n] \in Seq(T)
  BY <1>5
<1> QED
  BY <1>1, <1>6 DEF f

\* A sieve that lets everything through keeps the sequence.
LEMMA SieveAll ==
    ASSUME NEW T, NEW b \in Seq(T), NEW S, \A i \in 1 .. Len(b) : b[i] \in S
    PROVE  Sieve(b, S)[Len(b)] = b
<1> DEFINE f == Sieve(b, S)
           Front(n) == [k \in 1 .. n |-> b[k]]
           K == {n \in Nat : n <= Len(b) => f[n] = Front(n)}
<1>1. Len(b) \in Nat /\ \A i \in 1 .. Len(b) : b[i] \in T
  OBVIOUS
<1>2. /\ f[0] = <<>>
      /\ \A i \in 1 .. Len(b) : f[i] = Append(f[i - 1], b[i])
  BY <1>1, SieveSteps
<1> HIDE DEF f
<1>3. 0 \in K
  <2>1. Front(0) = <<>>
    OBVIOUS
  <2> HIDE DEF Front
  <2> QED
    BY <1>2, <2>1
<1>4. ASSUME NEW n \in K PROVE n + 1 \in K
  <2> SUFFICES ASSUME n + 1 <= Len(b) PROVE f[n + 1] = Front(n + 1)
    OBVIOUS
  <2>1. n + 1 \in 1 .. Len(b) /\ (n + 1) - 1 = n /\ f[n] = Front(n)
    BY <1>1
  <2>2. f[n + 1] = Append(Front(n), b[n + 1])
    BY <1>2, <2>1
  <2>3. Front(n) \in Seq(T) /\ Len(Front(n)) = n
    BY <1>1, <2>1
  <2>4. Append(Front(n), b[n + 1]) = Front(n + 1)
    BY <1>1, <2>1, <2>3
  <2> QED
    BY <2>2, <2>4
<1>5. K = Nat
  <2>1. K \in SUBSET Nat
    OBVIOUS
  <2> HIDE DEF K
  <2> QED
    BY <1>3, <1>4, <2>1, SetInduction
<1>6. f[Len(b)] = Front(Len(b))
  <2>1. Len(b) \in K
    BY <1>1, <1>5
  <2> QED
    BY <1>1, <2>1
<1>7. Front(Len(b)) = b
  OBVIOUS
<1> QED
  BY <1>6, <1>7 DEF f

\* b without its j-th member.
Cut(b, j) == [i \in 1 .. Len(b) - 1 |-> IF i < j THEN b[i] ELSE b[i + 1]]

LEMMA CutTyped ==
    ASSUME NEW T, NEW b \in Seq(T), NEW j \in 1 .. Len(b)
    PROVE  /\ Cut(b, j) \in Seq(T) /\ Len(Cut(b, j)) = Len(b) - 1
           /\ \A i \in 1 .. Len(b) - 1 : Cut(b, j)[i] = IF i < j THEN b[i] ELSE b[i + 1]
<1>1. Len(b) - 1 \in Nat /\ \A i \in 1 .. Len(b) : b[i] \in T
  OBVIOUS
<1>2. \A i \in 1 .. Len(b) - 1 : (IF i < j THEN b[i] ELSE b[i + 1]) \in T
  BY <1>1
<1> QED
  BY <1>1, <1>2 DEF Cut

\* To cut out what the sieve does not keep changes nothing.
LEMMA SieveCut ==
    ASSUME NEW T, NEW b \in Seq(T), NEW S, NEW j \in 1 .. Len(b), b[j] \notin S
    PROVE  Sieve(Cut(b, j), S)[Len(b) - 1] = Sieve(b, S)[Len(b)]
<1> DEFINE c == Cut(b, j)
           f == Sieve(b, S)
           g == Sieve(c, S)
           Place(n) == IF n < j THEN n ELSE n + 1
           K == {n \in Nat : n <= Len(b) - 1 => g[n] = f[Place(n)]}
<1>1. /\ Len(b) \in Nat /\ Len(b) - 1 \in Nat /\ Len(c) = Len(b) - 1
      /\ \A i \in 1 .. Len(b) - 1 : c[i] = b[Place(i)]
  <2>1. Len(b) \in Nat /\ Len(b) - 1 \in Nat
    OBVIOUS
  <2>2. Len(c) = Len(b) - 1 /\ \A i \in 1 .. Len(b) - 1 : c[i] = IF i < j THEN b[i] ELSE b[i + 1]
    <3> HIDE DEF c
    <3> QED
      BY CutTyped DEF c
  <2> QED
    BY <2>1, <2>2
<1> HIDE DEF c
<1>2. /\ f[0] = <<>>
      /\ \A i \in 1 .. Len(b) : f[i] = IF b[i] \in S THEN Append(f[i - 1], b[i]) ELSE f[i - 1]
  BY <1>1, SieveSteps
<1>3. /\ g[0] = <<>>
      /\ \A i \in 1 .. Len(b) - 1 : g[i] = IF c[i] \in S THEN Append(g[i - 1], c[i]) ELSE g[i - 1]
  BY <1>1, SieveSteps
<1> HIDE DEF f, g
<1>4. 0 \in K
  BY <1>2, <1>3
<1>5. ASSUME NEW n \in K PROVE n + 1 \in K
  <2> SUFFICES ASSUME n + 1 <= Len(b) - 1 PROVE g[n + 1] = f[Place(n + 1)]
    OBVIOUS
  <2>1. n + 1 \in 1 .. Len(b) - 1 /\ (n + 1) - 1 = n /\ g[n] = f[Place(n)]
    BY <1>1
  <2>2. g[n + 1] = IF b[Place(n + 1)] \in S THEN Append(f[Place(n)], b[Place(n + 1)])
                   ELSE f[Place(n)]
    BY <1>1, <1>3, <2>1
  <2>3. /\ Place(n + 1) \in 1 .. Len(b)
        /\ Place(n + 1) - 1 = Place(n) \/ (Place(n + 1) - 1 = j /\ Place(n) = j - 1)
    BY <1>1, <2>1
  <2>4. f[Place(n + 1) - 1] = f[Place(n)]
    BY <1>2, <2>3
  <2> HIDE DEF Place
  <2> QED
    BY <1>2, <2>2, <2>3, <2>4
<1>6. K = Nat
  <2>1. K \in SUBSET Nat
    OBVIOUS
  <2> HIDE DEF K
  <2> QED
    BY <1>4, <1>5, <2>1, SetInduction
<1>7. g[Len(b) - 1] = f[Place(Len(b) - 1)]
  <2>1. Len(b) - 1 \in K
    BY <1>1, <1>6
  <2> QED
    BY <1>1, <2>1
<1>8. Place(Len(b) - 1) = Len(b) \/ (j = Len(b) /\ Place(Len(b) - 1) = j - 1)
  BY <1>1
<1>9. f[Place(Len(b) - 1)] = f[Len(b)]
  <2> HIDE DEF Place
  <2> QED
    BY <1>1, <1>2, <1>8
<1> QED
  BY <1>7, <1>9 DEF f, g, c

-----------------------------------------------------------------------------
(* The phone book in a list.  Fits is what holds whatever the list depends  *)
(* on; ListOK is what the list is, and Sound what malloc may give, as long   *)
(* as it does not depend on freed memory.                                    *)

\* A record is added, or an empty list begun, only while the count leaves room.
Fits ==
    /\ last = NULL => first = NULL /\ count <= Capacity
    /\ pc = "add" => last # NULL /\ count <= Capacity /\ ptr \in Cells
    /\ pc = "delete" => search \in Names

\* No block that malloc can give is allocated, and each is on one free list, once.
FreeLists ==
    /\ ruined = 0
    /\ tcache \cap live = {}
    /\ \A i \in 1 .. Len(fastbin) : fastbin[i] \notin live /\ fastbin[i] \notin tcache
    /\ \A i, k \in 1 .. Len(fastbin) : fastbin[i] = fastbin[k] => i = k
Sound == ~stale => FreeLists

\* The j-th record of s, and what comes after the last one.
Node(s, j) == IF j = Len(s) + 1 THEN NULL ELSE s[j]
Labels(s) == [i \in 1 .. Len(s) |-> heap[s[i]].name]

\* s is the list, and what is allocated is in it; only main's first record may
\* not be, and only if nothing is.
Whole(s) ==
    /\ IsList(s)
    /\ \A i, k \in 1 .. Len(s) : s[i] = s[k] => i = k
    /\ \A i \in 1 .. Len(s) : s[i] \in live /\ heap[s[i]].name \in Names
    /\ \A c \in live : c = Mine \/ \E i \in 1 .. Len(s) : s[i] = c
    /\ Mine \in live => IF Len(s) = 0 THEN heap[Mine].next = NULL ELSE s[1] = Mine

\* The list has the names of the book.
Says(s) == Len(book) = Len(s) /\ \A i \in 1 .. Len(s) : heap[s[i]].name = book[i]

\* A loop stands somewhere in the list.
AddsTo(s) == pc = "add" => Mine \in live /\ \E j \in 1 .. Len(s) : ptr = s[j]

\* A search has shown what it wanted of the part it has seen.
Wanted == IF search = All THEN Names ELSE {search}
ShowsOf(s) ==
    pc = "show" =>
        \E j \in 1 .. Len(s) + 1 : ptr = Node(s, j) /\ shown = Sieve(book, Wanted)[j - 1]

\* A delete looks at the j-th record, or at a freed one that still points there,
\* and may have its name only if the tcache is full; it has left no record with
\* the name before.
Freed(p) == p \in Cells \ live /\ heap[p].prev = Wild /\ (heap[p].name = Garbage \/ Full)
LooksAt(s, j) == ptr = Node(s, j) \/ (Freed(ptr) /\ heap[ptr].next = Node(s, j))
DeletesAt(s, j) == LooksAt(s, j) /\ \A i \in 1 .. j - 1 : heap[s[i]].name # search
DeletesFrom(s) ==
    pc = "delete" =>
        /\ book = Sieve(Labels(s), Names \ {search})[Len(s)]
        /\ \E j \in 1 .. Len(s) + 1 : DeletesAt(s, j)

\* free_mem has yet to free the list from its j-th record on.
Rest(s, j) ==
    /\ ptr = Node(s, j)
    /\ \A i, k \in 1 .. Len(s) : s[i] = s[k] => i = k
    /\ \A i \in j .. Len(s) : s[i] \in live /\ heap[s[i]].next = Node(s, i + 1)
    /\ \A c \in live : c = Mine \/ \E i \in j .. Len(s) : s[i] = c

Standing == pc \in {"menu", "add", "delete", "show"}
Stands(s) ==
    /\ Whole(s)
    /\ pc # "delete" => Says(s)
    /\ AddsTo(s) /\ ShowsOf(s) /\ DeletesFrom(s)

ListOK ==
    ~stale =>
        /\ Standing => \E s \in Seq(Cells) : Stands(s)
        /\ pc = "free" => \E s \in Seq(Cells) : \E j \in 1 .. Len(s) + 1 : Rest(s, j)
        /\ pc = "closed" => live \subseteq {Mine}
        /\ pc # "double free"
        /\ pc = "crash" => Full

ListInv == TypeOK /\ Fits /\ ListOK /\ Sound

-----------------------------------------------------------------------------
(* What the writes to the heap change: one field of one record.             *)

Records == [prev : Pointers \cup {Wild}, name : Names \cup {Garbage}, next : Pointers]
Heaps == [Cells -> Records]

SetPrev(h, p, q) == [h EXCEPT ![p].prev = q]
SetName(h, p, n) == [h EXCEPT ![p].name = n]
SetNext(h, p, q) == [h EXCEPT ![p].next = q]

LEMMA PrevSet ==
    ASSUME NEW h \in Heaps, NEW p, NEW q \in Pointers \cup {Wild}
    PROVE  /\ SetPrev(h, p, q) \in Heaps
           /\ \A c \in Cells : /\ SetPrev(h, p, q)[c].prev = IF c = p THEN q ELSE h[c].prev
                               /\ SetPrev(h, p, q)[c].name = h[c].name
                               /\ SetPrev(h, p, q)[c].next = h[c].next
BY DEF Heaps, Records, SetPrev

LEMMA NameSet ==
    ASSUME NEW h \in Heaps, NEW p, NEW n \in Names \cup {Garbage}
    PROVE  /\ SetName(h, p, n) \in Heaps
           /\ \A c \in Cells : /\ SetName(h, p, n)[c].name = IF c = p THEN n ELSE h[c].name
                               /\ SetName(h, p, n)[c].prev = h[c].prev
                               /\ SetName(h, p, n)[c].next = h[c].next
BY DEF Heaps, Records, SetName

LEMMA NextSet ==
    ASSUME NEW h \in Heaps, NEW p, NEW q \in Pointers
    PROVE  /\ SetNext(h, p, q) \in Heaps
           /\ \A c \in Cells : /\ SetNext(h, p, q)[c].next = IF c = p THEN q ELSE h[c].next
                               /\ SetNext(h, p, q)[c].name = h[c].name
                               /\ SetNext(h, p, q)[c].prev = h[c].prev
BY DEF Heaps, Records, SetNext

LEMMA KeyedFields ==
    ASSUME NEW h \in Heaps, NEW B
    PROVE  /\ Keyed(h, B) \in Heaps
           /\ \A c \in Cells : /\ Keyed(h, B)[c].prev = IF c \in B THEN Wild ELSE h[c].prev
                               /\ Keyed(h, B)[c].name = IF c \in B THEN Garbage ELSE h[c].name
                               /\ Keyed(h, B)[c].next = h[c].next
<1> DEFINE Key(r) == [r EXCEPT !.prev = Wild, !.name = Garbage]
<1>1. ASSUME NEW r \in Records
      PROVE  Key(r) \in Records /\ Key(r).prev = Wild /\ Key(r).name = Garbage /\ Key(r).next = r.next
  BY DEF Records
<1>2. Keyed(h, B) = [c \in Cells |-> IF c \in B THEN Key(h[c]) ELSE h[c]]
  BY Zenon DEF Keyed
<1> HIDE DEF Key
<1>3. \A c \in Cells : h[c] \in Records
  BY DEF Heaps
<1>4. \A c \in Cells : Keyed(h, B)[c] = IF c \in B THEN Key(h[c]) ELSE h[c]
  BY <1>2
<1>5. Keyed(h, B) \in Heaps
  BY <1>1, <1>2, <1>3 DEF Heaps
<1> QED
  BY <1>1, <1>3, <1>4, <1>5

LEMMA UnlinkedFields ==
    ASSUME heap \in Heaps, NEW p \in Pointers, NEW q \in Pointers
    PROVE  /\ Unlinked(p, q) \in Heaps
           /\ \A c \in Cells : /\ Unlinked(p, q)[c].next = IF c = p THEN q ELSE heap[c].next
                               /\ Unlinked(p, q)[c].prev = IF c = q THEN p ELSE heap[c].prev
                               /\ Unlinked(p, q)[c].name = heap[c].name
<1> DEFINE k == SetNext(heap, p, q)
<1>1. Unlinked(p, q) = SetPrev(k, q, p)
  BY Zenon DEF Unlinked, SetPrev, SetNext
<1>2. /\ k \in Heaps
      /\ \A c \in Cells : /\ k[c].next = IF c = p THEN q ELSE heap[c].next
                          /\ k[c].name = heap[c].name /\ k[c].prev = heap[c].prev
  BY NextSet
<1> HIDE DEF k
<1> QED
  BY <1>1, <1>2, PrevSet

LEMMA CutAfterFields ==
    ASSUME heap \in Heaps, NEW p
    PROVE  /\ CutAfter(p) \in Heaps
           /\ \A c \in Cells : /\ CutAfter(p)[c].next = IF c = p THEN NULL ELSE heap[c].next
                               /\ CutAfter(p)[c].name = heap[c].name
                               /\ CutAfter(p)[c].prev = heap[c].prev
<1>1. CutAfter(p) = SetNext(heap, p, NULL)
  BY Zenon DEF CutAfter, SetNext
<1> QED
  BY <1>1, NextSet DEF Pointers

\* What the actions that write do to the heap.
LEMMA AddFirstFields ==
    ASSUME heap \in Heaps, NEW n \in Names, AddFirst(n)
    PROVE  /\ heap' \in Heaps
           /\ \A c \in Cells : /\ heap'[c].name = IF c = Mine THEN n ELSE heap[c].name
                               /\ heap'[c].prev = heap[c].prev /\ heap'[c].next = heap[c].next
<1>1. heap' = SetName(heap, Mine, n)
  BY Zenon DEF AddFirst, SetName
<1> QED
  BY <1>1, NameSet

\* The heap when malloc has returned d and moved K, and d is filled and linked.
Extended(n, d, K) == SetPrev(SetName(SetNext(Keyed(heap, K), ptr, d), d, n), d, ptr)

LEMMA AddAtEndFields ==
    ASSUME NEW n, NEW d, AddAtEnd(n, d)
    PROVE  \E K \in SUBSET Cells : Malloc(d, K) /\ heap' = Extended(n, d, K)
<1>1. PICK K \in SUBSET Cells :
          /\ Malloc(d, K)
          /\ LET linked == [Keyed(heap, K) EXCEPT ![ptr].next = d]
             IN  heap' = [linked EXCEPT ![d].name = n, ![d].prev = ptr]
  BY Zenon DEF AddAtEnd
<1>2. heap' = Extended(n, d, K)
  BY <1>1, Zenon DEF Extended, SetPrev, SetName, SetNext
<1>3. Malloc(d, K)
  BY <1>1
<1> QED
  BY <1>2, <1>3, Zenon

LEMMA ExtendedFields ==
    ASSUME heap \in Heaps, NEW n \in Names, NEW d \in Cells, NEW K, ptr \in Cells
    PROVE  /\ Extended(n, d, K) \in Heaps
           /\ Extended(n, d, K)[d].name = n /\ Extended(n, d, K)[d].prev = ptr
           /\ \A c \in Cells :
                  /\ Extended(n, d, K)[c].next = IF c = ptr THEN d ELSE heap[c].next
                  /\ c # d /\ c \notin K => /\ Extended(n, d, K)[c].name = heap[c].name
                                          /\ Extended(n, d, K)[c].prev = heap[c].prev
<1> DEFINE g == Keyed(heap, K)
           k == SetNext(g, ptr, d)
           l == SetName(k, d, n)
           e == SetPrev(l, d, ptr)
<1>1. Extended(n, d, K) = e
  BY DEF Extended
<1>2. /\ g \in Heaps
      /\ \A c \in Cells : /\ g[c].next = heap[c].next
                          /\ c \notin K => g[c].name = heap[c].name /\ g[c].prev = heap[c].prev
  BY KeyedFields
<1> HIDE DEF g
<1>3. /\ k \in Heaps
      /\ \A c \in Cells : /\ k[c].next = IF c = ptr THEN d ELSE g[c].next
                          /\ k[c].name = g[c].name /\ k[c].prev = g[c].prev
  BY <1>2, NextSet DEF Pointers
<1> HIDE DEF k
<1>4. /\ l \in Heaps
      /\ \A c \in Cells : /\ l[c].name = IF c = d THEN n ELSE k[c].name
                          /\ l[c].prev = k[c].prev /\ l[c].next = k[c].next
  BY <1>3, NameSet
<1> HIDE DEF l
<1>5. /\ e \in Heaps
      /\ \A c \in Cells : /\ e[c].prev = IF c = d THEN ptr ELSE l[c].prev
                          /\ e[c].name = l[c].name /\ e[c].next = l[c].next
  BY <1>4, PrevSet DEF Pointers
<1> HIDE DEF e
<1> QED
  BY <1>1, <1>2, <1>3, <1>4, <1>5

-----------------------------------------------------------------------------
(* The types of the list book.                                              *)

LEMMA ListTypes ==
    ASSUME TypeOK
    PROVE  /\ heap \in Heaps
           /\ \A c \in Cells : /\ heap[c].prev \in Pointers \cup {Wild} /\ heap[c].next \in Pointers
                               /\ heap[c].name \in Names \cup {Garbage}
           /\ live \subseteq Cells /\ first \in Pointers /\ last \in Pointers
           /\ count \in Int /\ count <= Capacity + 1 /\ Capacity \in Nat
           /\ tcache \subseteq Cells /\ fastbin \in Seq(Cells) /\ Len(fastbin) \in Nat
           /\ ruined \in Nat /\ MaxRuined \in Nat /\ TcacheMax \in Nat
           /\ ptr \in Pointers /\ Pointers = Cells \cup {NULL}
           /\ search \in Names \cup {All} /\ shown \in Seq(Names) /\ book \in Seq(Names)
           /\ Mine \in Cells /\ NULL \notin Cells /\ Wild \notin Cells
           /\ Garbage \notin Names /\ All \notin Names
<1>1. heap \in Heaps
  BY DEF TypeOK, Heaps, Records
<1>2. \A c \in Cells : /\ heap[c].prev \in Pointers \cup {Wild} /\ heap[c].next \in Pointers
                       /\ heap[c].name \in Names \cup {Garbage}
  BY <1>1 DEF Heaps, Records
<1>3. /\ live \subseteq Cells /\ first \in Pointers /\ last \in Pointers
      /\ count \in Int /\ count <= Capacity + 1 /\ ptr \in Pointers /\ search \in Names \cup {All}
      /\ shown \in Seq(Names) /\ book \in Seq(Names)
  BY DEF TypeOK
<1>4. /\ tcache \subseteq Cells /\ fastbin \in Seq(Cells) /\ Len(fastbin) \in Nat
      /\ ruined \in Nat /\ MaxRuined \in Nat /\ TcacheMax \in Nat /\ Capacity \in Nat
  <2>1. tcache \subseteq Cells /\ fastbin \in Seq(Cells) /\ ruined \in 0 .. MaxRuined
    BY DEF TypeOK
  <2> QED
    BY <2>1, CapacityAssumption
<1> QED
  BY <1>1, <1>2, <1>3, <1>4, CellsAssumption, NamesAssumption DEF Pointers

LEMMA ListInit == Init => ListInv
<1> SUFFICES ASSUME Init PROVE ListInv
  OBVIOUS
<1> DEFINE r == [prev |-> NULL, name |-> Garbage, next |-> NULL]
<1>1. r \in Records /\ r.name = Garbage /\ r.next = NULL
  BY DEF Records, Pointers
<1> HIDE DEF r
<1>2. heap = [c \in Cells |-> r]
  BY DEF Init, r
<1>3. heap \in Heaps /\ \A c \in Cells : heap[c].name = Garbage /\ heap[c].next = NULL
  BY <1>1, <1>2 DEF Heaps
<1>4. /\ live = {Mine} /\ first = NULL /\ last = NULL /\ count = 0 /\ pc = "menu" /\ ptr = NULL
      /\ search = All /\ shown = <<>> /\ book = <<>> /\ stale = FALSE
  BY DEF Init
<1>9. tcache = {} /\ fastbin = <<>> /\ ruined = 0
  BY DEF Init
<1>5. TypeOK
  <2>1. <<>> \in Seq(Names) /\ <<>> \in Seq(Cells) /\ 0 <= Capacity + 1 /\ 0 \in 0 .. MaxRuined
    BY CapacityAssumption
  <2>2. /\ shown \in Seq(Names) /\ book \in Seq(Names) /\ fastbin \in Seq(Cells)
        /\ count \in Int /\ count <= Capacity + 1 /\ ruined \in 0 .. MaxRuined
    BY <1>4, <1>9, <2>1
  <2> QED
    BY <1>3, <1>4, <1>9, <2>2, CellsAssumption DEF TypeOK, Heaps, Records, Pointers
<1>6. Fits
  BY <1>4, CapacityAssumption DEF Fits
<1>10. Sound
  BY <1>9 DEF Sound, FreeLists
<1>7. Stands(<<>>)
  <2>1. Len(<<>>) = 0
    OBVIOUS
  <2> QED
    BY <1>3, <1>4, <2>1, CellsAssumption
    DEF Stands, Says, Whole, IsList, AddsTo, ShowsOf, DeletesFrom
<1>8. <<>> \in Seq(Cells)
  OBVIOUS
<1> QED
  BY <1>4, <1>5, <1>6, <1>7, <1>8, <1>10 DEF ListInv, ListOK

-----------------------------------------------------------------------------
(* What malloc and free do.                                                 *)

LEMMA FreeFields ==
    ASSUME TypeOK, NEW h \in Heaps, NEW c \in Cells, NEW d, Free(h, c, d)
    PROVE  /\ heap' \in Heaps
           /\ \A x \in Cells : /\ heap'[x].next = h[x].next
                               /\ x # c => heap'[x].name = h[x].name /\ heap'[x].prev = h[x].prev
           /\ heap'[c].prev = Wild
           /\ live' = live \ {c} /\ live' \subseteq Cells
           /\ tcache' \subseteq Cells /\ fastbin' \in Seq(Cells) /\ ruined' \in 0 .. MaxRuined
<1>1. heap' = Keyed(h, {c}) \/ heap' = SetPrev(h, c, Wild)
  BY Zenon DEF Free, SetPrev
<1>2. /\ heap' \in Heaps
      /\ \A x \in Cells : /\ heap'[x].next = h[x].next
                          /\ x # c => heap'[x].name = h[x].name /\ heap'[x].prev = h[x].prev
      /\ heap'[c].prev = Wild
  <2>1. CASE heap' = Keyed(h, {c})
    BY <2>1, KeyedFields
  <2>2. CASE heap' = SetPrev(h, c, Wild)
    BY <2>2, PrevSet
  <2> QED
    BY <1>1, <2>1, <2>2
<1>3. live' = live \ {c} /\ Uses(d \/ c \notin live)
  BY DEF Free
<1>4. ruined' \in 0 .. MaxRuined
  BY <1>3, ListTypes DEF Uses
<1>5. tcache' \in {{}, tcache, tcache \cup {c}}
  BY Zenon DEF Free
<1>6. fastbin' \in {fastbin, <<c>> \o fastbin, <<c>> \o <<>>}
  BY Zenon DEF Free
<1>7. <<c>> \o fastbin \in Seq(Cells) /\ <<c>> \o <<>> \in Seq(Cells)
  BY ListTypes
<1> QED
  BY <1>2, <1>3, <1>4, <1>5, <1>6, <1>7, ListTypes

LEMMA FreeSound ==
    ASSUME TypeOK, FreeLists, NEW h \in Heaps, NEW c \in live, NEW d, ~d, Free(h, c, d)
    PROVE  FreeLists' /\ (heap'[c].name = Garbage \/ Full')
<1>1. /\ c \in Cells /\ ruined = 0 /\ ~Damaged
      /\ tcache \subseteq Cells /\ fastbin \in Seq(Cells) /\ Len(fastbin) \in Nat
  BY ListTypes DEF FreeLists, Damaged
<1>6. live' = live \ {c} /\ Uses(d \/ c \notin live)
  BY Zenon DEF Free
<1>2. live' = live \ {c} /\ ruined' = 0
  BY <1>1, <1>6 DEF Uses
<1>3. \/ heap' = Keyed(h, {c}) /\ tcache' = tcache \cup {c} /\ fastbin' = fastbin
      \/ Full /\ tcache' = tcache /\ fastbin' = <<c>> \o fastbin
  <2>1. ~(ruined' > 0)
    BY <1>2
  <2> QED
    BY <2>1, Zenon DEF Free
<1>4. CASE heap' = Keyed(h, {c}) /\ tcache' = tcache \cup {c} /\ fastbin' = fastbin
  <2>1. heap'[c].name = Garbage
    BY <1>1, <1>4, KeyedFields
  <2> QED
    BY <1>2, <1>4, <2>1 DEF FreeLists
<1>5. CASE Full /\ tcache' = tcache /\ fastbin' = <<c>> \o fastbin
  <2>1. Full'
    BY <1>1, <1>2, <1>5 DEF Full, Damaged
  <2>2. /\ Len(fastbin') = Len(fastbin) + 1 /\ fastbin'[1] = c
        /\ \A i \in 2 .. Len(fastbin) + 1 : i - 1 \in 1 .. Len(fastbin) /\ fastbin'[i] = fastbin[i - 1]
    BY <1>1, <1>5
  <2>3. \A i \in 1 .. Len(fastbin') : i = 1 \/ i \in 2 .. Len(fastbin) + 1
    BY <1>1, <2>2
  <2>4. \A i \in 1 .. Len(fastbin) : fastbin[i] \notin live /\ fastbin[i] \notin tcache
    BY DEF FreeLists
  <2>5. c \notin tcache /\ tcache \cap live' = {}
    BY <1>2 DEF FreeLists
  <2>6. \A i \in 1 .. Len(fastbin') : fastbin'[i] \notin live' /\ fastbin'[i] \notin tcache'
    BY <1>2, <1>5, <2>2, <2>3, <2>4, <2>5
  <2>7. ASSUME NEW i \in 1 .. Len(fastbin'), NEW k \in 1 .. Len(fastbin'), fastbin'[i] = fastbin'[k]
        PROVE  i = k
    <3>1. CASE i # 1 /\ k # 1
      <4>1. i - 1 = k - 1
        BY <2>2, <2>3, <2>7, <3>1 DEF FreeLists
      <4> QED
        BY <2>2, <2>7, <4>1
    <3>2. CASE i = 1 \/ k = 1
      BY <2>2, <2>3, <2>4, <2>7, <3>2
    <3> QED
      BY <3>1, <3>2
  <2> QED
    BY <1>2, <1>5, <2>1, <2>5, <2>6, <2>7 DEF FreeLists
<1> QED
  BY <1>3, <1>4, <1>5

\* What stays in the fastbin when its top and the next Moved blocks leave it.
LEMMA MovedFacts ==
    ASSUME TypeOK, fastbin # <<>>, NEW f, f = SubSeq(fastbin, Moved + 2, Len(fastbin))
    PROVE  /\ Moved \in Nat /\ Moved + 1 <= Len(fastbin) /\ f \in Seq(Cells)
           /\ \A i \in 1 .. Len(f) : i + Moved + 1 \in 1 .. Len(fastbin) /\ f[i] = fastbin[i + Moved + 1]
<1>1. fastbin \in Seq(Cells) /\ Len(fastbin) \in Nat /\ Len(fastbin) # 0 /\ TcacheMax \in Nat
  BY ListTypes, EmptySeq
<1>2. Moved \in Nat /\ Moved + 1 <= Len(fastbin)
  BY <1>1 DEF Moved
<1> DEFINE m == Moved + 2
<1>3. m \in Int /\ m > 1 /\ m <= Len(fastbin) + 1 /\ m = Moved + 2
  BY <1>1, <1>2
<1> HIDE DEF m
<1>4. f = SubSeq(fastbin, m, Len(fastbin))
  BY <1>3
<1>5. /\ f \in Seq(Cells) /\ Len(f) = IF m <= Len(fastbin) THEN Len(fastbin) - m + 1 ELSE 0
      /\ \A i \in 1 .. Len(fastbin) - m + 1 : f[i] = fastbin[m + i - 1]
  BY <1>1, <1>3, <1>4, SubSeqProperties
<1>6. ASSUME NEW i \in 1 .. Len(f)
      PROVE  i + Moved + 1 \in 1 .. Len(fastbin) /\ f[i] = fastbin[i + Moved + 1]
  <2>1. m <= Len(fastbin) /\ i \in 1 .. Len(fastbin) - m + 1
    BY <1>1, <1>3, <1>5
  <2>2. m + i - 1 = i + Moved + 1 /\ i + Moved + 1 \in 1 .. Len(fastbin)
    BY <1>1, <1>2, <1>3, <2>1
  <2> QED
    BY <1>5, <2>1, <2>2
<1> QED
  BY <1>2, <1>5, <1>6

LEMMA MallocTyped ==
    ASSUME TypeOK, NEW c \in Cells, NEW K \in SUBSET Cells, Malloc(c, K)
    PROVE  /\ live' = live \cup {c} /\ live' \subseteq Cells
           /\ tcache' \subseteq Cells /\ fastbin' \in Seq(Cells) /\ ruined' \in 0 .. MaxRuined
<1>1. live' = live \cup {c} /\ Uses(FALSE)
  BY DEF Malloc
<1>2. ruined' \in 0 .. MaxRuined
  BY <1>1, ListTypes DEF Uses
<1>3. tcache' \in {tcache, tcache \ {c}, K}
  BY Zenon DEF Malloc
<1>4. \/ fastbin' \in {fastbin, <<>>}
      \/ fastbin # <<>> /\ fastbin' = SubSeq(fastbin, Moved + 2, Len(fastbin))
  BY Zenon DEF Malloc, OnTop
<1>5. fastbin' \in Seq(Cells)
  <2>1. <<>> \in Seq(Cells)
    OBVIOUS
  <2> QED
    BY <1>4, <2>1, ListTypes, MovedFacts
<1> QED
  BY <1>1, <1>2, <1>3, <1>5, ListTypes

\* Of sound free lists malloc returns a block that is not allocated, and it writes
\* into no other that is.
LEMMA MallocSound ==
    ASSUME TypeOK, FreeLists, NEW c \in Cells, NEW K \in SUBSET Cells, Malloc(c, K)
    PROVE  c \notin live /\ c \notin K /\ K \cap live = {} /\ FreeLists'
<1>1. /\ ruined = 0 /\ ~Damaged /\ tcache \cap live = {}
      /\ \A i \in 1 .. Len(fastbin) : fastbin[i] \notin live /\ fastbin[i] \notin tcache
      /\ \A i, k \in 1 .. Len(fastbin) : fastbin[i] = fastbin[k] => i = k
  BY DEF FreeLists, Damaged
<1>2. live' = live \cup {c} /\ ruined' = 0
  BY <1>1 DEF Malloc, Uses
<1>3. CASE c \in tcache /\ K = {} /\ tcache' = tcache \ {c} /\ fastbin' = fastbin
  BY <1>1, <1>2, <1>3 DEF FreeLists
<1>4. CASE /\ tcache = {} /\ OnTop(c)
           /\ K = {fastbin[i] : i \in 2 .. Moved + 1} /\ tcache' = K
           /\ fastbin' = SubSeq(fastbin, Moved + 2, Len(fastbin))
  <2> DEFINE f == SubSeq(fastbin, Moved + 2, Len(fastbin))
  <2>1. fastbin # <<>> /\ Head(fastbin) = c
    BY <1>4 DEF OnTop
  <2>2. /\ Moved \in Nat /\ Moved + 1 <= Len(fastbin) /\ Len(fastbin) \in Nat /\ f \in Seq(Cells)
        /\ \A i \in 1 .. Len(f) : i + Moved + 1 \in 1 .. Len(fastbin) /\ f[i] = fastbin[i + Moved + 1]
    <3> HIDE DEF f
    <3> QED
      BY <2>1, MovedFacts, ListTypes DEF f
  <2>3. fastbin' = f
    BY <1>4
  <2> HIDE DEF f
  <2>4. c = fastbin[1] /\ 1 \in 1 .. Len(fastbin)
    <3>1. fastbin \in Seq(Cells)
      BY ListTypes
    <3>2. Head(fastbin) = fastbin[1]
      BY <2>1, <3>1
    <3> QED
      BY <2>1, <2>2, <3>2
  <2>5. ASSUME NEW x \in K
        PROVE  \E i \in 1 .. Len(fastbin) : i # 1 /\ i <= Moved + 1 /\ x = fastbin[i]
    <3>1. PICK i \in 2 .. Moved + 1 : x = fastbin[i]
      BY <1>4
    <3>2. i \in 1 .. Len(fastbin) /\ i # 1 /\ i <= Moved + 1
      BY <2>2
    <3> QED
      BY <3>1, <3>2
  <2>6. Len(f) \in Nat /\ \A i \in 1 .. Len(f) : i \in Nat /\ i >= 1
    BY <2>2
  <2>7. c \notin live /\ c \notin K /\ K \cap live = {}
    BY <1>1, <2>4, <2>5
  <2>8. ASSUME NEW i \in 1 .. Len(f) PROVE f[i] \notin live' /\ f[i] \notin K
    <3>1. i + Moved + 1 \in 1 .. Len(fastbin) /\ i + Moved + 1 > Moved + 1 /\ i + Moved + 1 # 1
      BY <2>2, <2>6
    <3>2. f[i] = fastbin[i + Moved + 1]
      BY <2>2
    <3>3. f[i] # c
      BY <1>1, <2>4, <3>1, <3>2
    <3>4. ASSUME f[i] \in K PROVE FALSE
      <4>1. PICK k \in 1 .. Len(fastbin) : k <= Moved + 1 /\ f[i] = fastbin[k]
        BY <2>5, <3>4
      <4>2. k = i + Moved + 1
        BY <1>1, <3>1, <3>2, <4>1
      <4> QED
        BY <2>2, <3>1, <4>1, <4>2
    <3> QED
      BY <1>1, <1>2, <3>1, <3>2, <3>3, <3>4
  <2>9. ASSUME NEW i \in 1 .. Len(f), NEW k \in 1 .. Len(f), f[i] = f[k] PROVE i = k
    <3>1. i + Moved + 1 = k + Moved + 1
      BY <1>1, <2>2, <2>9
    <3> QED
      BY <2>2, <2>6, <3>1
  <2> QED
    BY <1>2, <1>4, <2>3, <2>7, <2>8, <2>9 DEF FreeLists
<1>5. CASE /\ tcache = {} /\ fastbin = <<>> /\ c \notin live /\ K = {}
           /\ tcache' = tcache /\ fastbin' = fastbin
  BY <1>1, <1>2, <1>5 DEF FreeLists
<1> QED
  BY <1>1, <1>3, <1>4, <1>5, Zenon DEF Malloc

-----------------------------------------------------------------------------
(* The types hold, and the parts of the invariant that hold whatever happens. *)

LEMMA AddFirstTyped ==
    ASSUME ListInv, NEW n \in Names, AddFirst(n)
    PROVE  TypeOK' /\ Fits'
<1>1. /\ TypeOK /\ Fits
      /\ pc = "menu" /\ last = NULL /\ first' = Mine /\ last' = Mine /\ count' = count + 1
      /\ stale' = (stale \/ Mine \notin live) /\ pc' = pc /\ ptr' = ptr
      /\ live' = live /\ tcache' = tcache /\ fastbin' = fastbin /\ ruined' = ruined
      /\ search' = search /\ shown' = shown
      /\ book' = IF stale' THEN <<>> ELSE Append(book, n)
  BY DEF AddFirst, ListInv, Remember
<1>2. heap' \in Heaps
  BY <1>1, ListTypes, AddFirstFields
<1>3. count' \in Int /\ count' <= Capacity + 1
  BY <1>1, ListTypes DEF Fits
<1>4. TypeOK'
  <2>1. book' \in Seq(Names)
    BY <1>1, ListTypes
  <2> QED
    BY <1>1, <1>2, <1>3, <2>1, ListTypes DEF TypeOK, Heaps, Records
<1> QED
  BY <1>1, <1>4, ListTypes DEF Fits

LEMMA StartAddTyped == ListInv /\ StartAdd => TypeOK' /\ Fits'
<1> SUFFICES ASSUME ListInv, StartAdd PROVE TypeOK' /\ Fits'
  OBVIOUS
<1>1. /\ TypeOK /\ Fits
      /\ last # NULL /\ count <= Capacity /\ pc = "menu" /\ pc' = "add" /\ ptr' = Mine
      /\ search' = All /\ book' = (IF stale' THEN <<>> ELSE book)
      /\ memory' = memory /\ first' = first /\ last' = last /\ count' = count
      /\ shown' = shown /\ stale' \in BOOLEAN
  BY DEF StartAdd, HasRoom, Choose, Remember, ListInv, infoVars, memory
<1>2. book' \in Seq(Names)
  BY <1>1, ListTypes
<1>3. TypeOK'
  BY <1>1, <1>2, ListTypes DEF TypeOK, memory
<1> QED
  BY <1>1, <1>3, ListTypes DEF Fits

LEMMA AddAtEndTyped ==
    ASSUME ListInv, NEW n \in Names, NEW d \in Cells, AddAtEnd(n, d)
    PROVE  TypeOK' /\ Fits'
<1>1. /\ TypeOK /\ Fits
      /\ pc = "add" /\ last' = d /\ count' = count + 1
      /\ pc' = "menu" /\ ptr' = NULL /\ first' = first /\ stale' \in BOOLEAN
      /\ search' = search /\ shown' = shown
      /\ book' = IF stale' THEN <<>> ELSE Append(book, n)
  BY DEF AddAtEnd, LastAfterAdd, ListInv, Remember
<1>2. ptr \in Cells /\ count <= Capacity
  BY <1>1 DEF Fits
<1>7. PICK K \in SUBSET Cells : Malloc(d, K) /\ heap' = Extended(n, d, K)
  BY AddAtEndFields
<1>3. heap' \in Heaps
  BY <1>1, <1>2, <1>7, ListTypes, ExtendedFields
<1>4. /\ live' \subseteq Cells /\ tcache' \subseteq Cells
      /\ fastbin' \in Seq(Cells) /\ ruined' \in 0 .. MaxRuined
  BY <1>1, <1>7, MallocTyped
<1>5. book' \in Seq(Names) /\ count' \in Int /\ count' <= Capacity + 1
  BY <1>1, <1>2, ListTypes
<1>6. TypeOK'
  BY <1>1, <1>3, <1>4, <1>5, ListTypes DEF TypeOK, Heaps, Records
<1> QED
  BY <1>1, <1>6, ListTypes DEF Fits

LEMMA HitTyped ==
    ASSUME ListInv, Hit
    PROVE  ptr \in Cells /\ pc = "delete" /\ search \in Names /\ heap[ptr].name = search
BY ListTypes DEF Hit, ListInv, Fits

\* What each delete does.
LEMMA DeleteFirstFields ==
    ASSUME ListInv, DeleteFirst
    PROVE  /\ Hit /\ ptr = first /\ Free(heap, ptr, FALSE)
           /\ heap' \in Heaps
           /\ \A c \in Cells : /\ heap'[c].next = heap[c].next
                               /\ c # ptr => heap'[c].name = heap[c].name /\ heap'[c].prev = heap[c].prev
           /\ heap'[ptr].prev = Wild /\ live' = live \ {ptr} /\ count' = count - 1
           /\ first' = (IF last = ptr THEN NULL ELSE heap[ptr].next)
           /\ last' = (IF last = ptr THEN NULL ELSE last)
           /\ ptr' = ptr
           /\ pc' = pc /\ search' = search /\ shown' = shown /\ book' = book /\ stale' = stale
<1>1. /\ Hit /\ ptr = first /\ Free(heap, ptr, FALSE) /\ count' = count - 1
      /\ first' = (IF last = ptr THEN NULL ELSE heap[ptr].next)
      /\ last' = (IF last = ptr THEN NULL ELSE last)
      /\ ptr' = ptr
      /\ pc' = pc /\ search' = search /\ shown' = shown /\ book' = book /\ stale' = stale
  BY DEF DeleteFirst
<1>2. TypeOK /\ ptr \in Cells /\ heap \in Heaps
  BY <1>1, HitTyped, ListTypes DEF ListInv
<1> QED
  BY <1>1, <1>2, FreeFields

LEMMA DeleteLastFields ==
    ASSUME ListInv, DeleteLast
    PROVE  /\ Hit /\ ptr # first /\ ptr = last /\ Neighbours(ptr)
           /\ Free(CutAfter(heap[ptr].prev), ptr, FALSE) /\ CutAfter(heap[ptr].prev) \in Heaps
           /\ heap' \in Heaps
           /\ \A c \in Cells : /\ c # ptr => heap'[c].name = heap[c].name /\ heap'[c].prev = heap[c].prev
                               /\ heap'[c].next = IF c = heap[ptr].prev THEN NULL ELSE heap[c].next
           /\ live' = live \ {ptr} /\ count' = count - 1
           /\ first' = first /\ last' = heap[ptr].prev /\ ptr' = heap'[ptr].next
           /\ pc' = pc /\ search' = search /\ shown' = shown /\ book' = book /\ stale' = stale
<1> DEFINE h == CutAfter(heap[ptr].prev)
<1>1. /\ Hit /\ ptr # first /\ ptr = last /\ Neighbours(ptr) /\ Free(h, ptr, FALSE)
      /\ count' = count - 1
      /\ first' = first /\ last' = heap[ptr].prev /\ ptr' = heap'[ptr].next
      /\ pc' = pc /\ search' = search /\ shown' = shown /\ book' = book /\ stale' = stale
  BY DEF DeleteLast
<1>2. /\ h \in Heaps
      /\ \A c \in Cells : /\ h[c].next = IF c = heap[ptr].prev THEN NULL ELSE heap[c].next
                          /\ h[c].name = heap[c].name /\ h[c].prev = heap[c].prev
  BY ListTypes, CutAfterFields DEF ListInv
<1> HIDE DEF h
<1>3. TypeOK /\ ptr \in Cells
  BY <1>1, HitTyped DEF ListInv
<1>4. /\ heap' \in Heaps /\ live' = live \ {ptr}
      /\ \A x \in Cells : /\ heap'[x].next = h[x].next
                          /\ x # ptr => heap'[x].name = h[x].name /\ heap'[x].prev = h[x].prev
  BY <1>1, <1>2, <1>3, FreeFields
<1>5. \A c \in Cells : /\ c # ptr => heap'[c].name = heap[c].name /\ heap'[c].prev = heap[c].prev
                      /\ heap'[c].next = IF c = heap[ptr].prev THEN NULL ELSE heap[c].next
  BY <1>2, <1>4
<1>6. h = CutAfter(heap[ptr].prev)
  BY DEF h
<1> QED
  BY <1>1, <1>2, <1>4, <1>5, <1>6

LEMMA DeleteMiddleFields ==
    ASSUME ListInv, DeleteMiddle
    PROVE  /\ Hit /\ ptr # first /\ ptr # last /\ Neighbours(ptr)
           /\ Unlinked(heap[ptr].prev, heap[ptr].next) \in Heaps
           /\ Free(Unlinked(heap[ptr].prev, heap[ptr].next), ptr, heap[ptr].next \notin live)
           /\ heap' \in Heaps
           /\ \A c \in Cells :
                  /\ c # ptr =>
                         /\ heap'[c].name = heap[c].name
                         /\ heap'[c].prev = IF c = heap[ptr].next THEN heap[ptr].prev ELSE heap[c].prev
                  /\ heap'[c].next = IF c = heap[ptr].prev THEN heap[ptr].next ELSE heap[c].next
           /\ live' = live \ {ptr} /\ count' = count - 1
           /\ first' = first /\ last' = last /\ ptr' = heap'[ptr].next
           /\ pc' = pc /\ search' = search /\ shown' = shown /\ book' = book /\ stale' = stale
<1> DEFINE p == heap[ptr].prev
           q == heap[ptr].next
           h == Unlinked(p, q)
<1>1. /\ Hit /\ ptr # first /\ ptr # last /\ Neighbours(ptr) /\ Free(h, ptr, q \notin live)
      /\ count' = count - 1
      /\ first' = first /\ last' = last /\ ptr' = heap'[ptr].next
      /\ pc' = pc /\ search' = search /\ shown' = shown /\ book' = book /\ stale' = stale
  BY DEF DeleteMiddle
<1>2. p \in Pointers /\ q \in Pointers /\ heap \in Heaps /\ TypeOK /\ ptr \in Cells
  BY <1>1, HitTyped, ListTypes DEF ListInv, Neighbours
<1> HIDE DEF p, q
<1>3. /\ h \in Heaps
      /\ \A c \in Cells : /\ h[c].next = IF c = p THEN q ELSE heap[c].next
                          /\ h[c].prev = IF c = q THEN p ELSE heap[c].prev
                          /\ h[c].name = heap[c].name
  BY <1>2, UnlinkedFields
<1> HIDE DEF h
<1>4. /\ heap' \in Heaps /\ live' = live \ {ptr}
      /\ \A x \in Cells : /\ heap'[x].next = h[x].next
                          /\ x # ptr => heap'[x].name = h[x].name /\ heap'[x].prev = h[x].prev
  BY <1>1, <1>2, <1>3, FreeFields
<1> QED
  BY <1>1, <1>3, <1>4 DEF h, p, q

LEMMA DeletesTyped == ListInv /\ (DeleteFirst \/ DeleteLast \/ DeleteMiddle) => TypeOK' /\ Fits'
<1> SUFFICES ASSUME ListInv, DeleteFirst \/ DeleteLast \/ DeleteMiddle PROVE TypeOK' /\ Fits'
  OBVIOUS
<1>1. TypeOK /\ Fits
  BY DEF ListInv
<1>2. /\ Hit /\ heap' \in Heaps /\ \E h \in Heaps : \E d : Free(h, ptr, d)
      /\ count' = count - 1 /\ pc' = pc
      /\ search' = search /\ shown' = shown /\ book' = book /\ stale' = stale
  BY DeleteFirstFields, DeleteLastFields, DeleteMiddleFields, ListTypes DEF ListInv
<1>3. ptr \in Cells /\ pc = "delete" /\ search \in Names
  BY <1>2, HitTyped
<1>4. /\ live' \subseteq Cells /\ tcache' \subseteq Cells
      /\ fastbin' \in Seq(Cells) /\ ruined' \in 0 .. MaxRuined
  BY <1>1, <1>2, <1>3, FreeFields
<1>5. /\ first' \in Pointers /\ last' \in Pointers /\ ptr' \in Pointers
      /\ last' = NULL => first' = NULL
  <2>1. /\ \A c \in Cells : heap[c].next \in Pointers /\ heap'[c].next \in Pointers /\ c # NULL
        /\ NULL \in Pointers /\ Cells \subseteq Pointers /\ first \in Pointers /\ last \in Pointers
    BY <1>1, <1>2, ListTypes DEF Heaps, Records
  <2>2. CASE DeleteFirst
    BY <1>1, <1>3, <2>1, <2>2, DeleteFirstFields DEF Fits
  <2>3. CASE DeleteLast
    <3>1. heap[ptr].prev \in Cells
      BY <2>3, DeleteLastFields DEF Neighbours
    <3> QED
      BY <1>3, <2>1, <2>3, <3>1, DeleteLastFields
  <2>4. CASE DeleteMiddle
    BY <1>1, <1>3, <2>1, <2>4, DeleteMiddleFields DEF Fits
  <2> QED
    BY <2>2, <2>3, <2>4
<1>6. count' \in Int /\ count' <= Capacity
  BY <1>1, <1>2, ListTypes
<1>7. TypeOK'
  <2>1. count' <= Capacity + 1
    BY <1>6, CapacityAssumption
  <2> QED
    BY <1>1, <1>2, <1>3, <1>4, <1>5, <1>6, <2>1 DEF TypeOK, Heaps, Records
<1> QED
  BY <1>2, <1>3, <1>5, <1>6, <1>7 DEF Fits

\* The steps that write nothing in the list.
Ends == {"free", "closed", "abort", "no memory", "double free", "crash"}

LEMMA ReaderTyped ==
    ASSUME ListInv, memory' = memory, infoVars' = infoVars,
           pc' \in {"menu", "add", "delete", "show"} \cup Ends,
           pc' = "add" => pc = "add" /\ ptr' \in Cells,
           pc' = "delete" => search' \in Names,
           ptr' \in Pointers, search' \in Names \cup {All},
           shown' \in Seq(Names), book' \in Seq(Names), stale' \in BOOLEAN
    PROVE  TypeOK' /\ Fits'
<1>1. TypeOK /\ Fits /\ first' = first /\ last' = last /\ count' = count
  BY DEF ListInv, infoVars
<1>2. TypeOK'
  BY <1>1 DEF TypeOK, memory, Ends
<1> QED
  BY <1>1, <1>2 DEF Fits

Readers ==
    \/ Abort \/ SeekEnd \/ OutOfMemory \/ \E n \in Names : StartDelete(n)
    \/ DoubleFree \/ Crash \/ Pass \/ \E what \in Names \cup {All} : StartShow(what)
    \/ LoopEnds("delete") \/ LoopEnds("show") \/ Exit \/ FreeTwice \/ Close
    \/ UNCHANGED vars

LEMMA ReadersTyped == ListInv /\ Readers => TypeOK' /\ Fits'
<1> SUFFICES ASSUME ListInv, Readers PROVE TypeOK' /\ Fits'
  OBVIOUS
<1> DEFINE Pcs == {"menu", "add", "delete", "show"} \cup Ends
           Same == memory' = memory /\ infoVars' = infoVars
           Still == search' = search /\ shown' = shown /\ book' = book /\ stale' = stale
<1>1. /\ TypeOK /\ Fits /\ pc \in Pcs /\ stale \in BOOLEAN /\ ptr \in Pointers
      /\ search \in Names \cup {All} /\ shown \in Seq(Names) /\ book \in Seq(Names)
      /\ first \in Pointers
      /\ \A c \in Cells : heap[c].next \in Pointers
      /\ <<>> \in Seq(Names)
  <2>1. TypeOK /\ Fits
    BY DEF ListInv
  <2>2. pc \in Pcs /\ stale \in BOOLEAN
    BY <2>1 DEF TypeOK, Ends
  <2>3. <<>> \in Seq(Names)
    OBVIOUS
  <2> QED
    BY <2>1, <2>2, <2>3, ListTypes
<1>2. /\ pc = "add" => ptr \in Cells
      /\ pc = "delete" => search \in Names
  BY <1>1 DEF Fits
<1>3. NULL \in Pointers /\ \A p \in Pointers : p # NULL => p \in Cells
  BY DEF Pointers
<1>4. \A how \in Ends \cup {"menu"} :
          (Same /\ Still /\ pc' = how /\ ptr' = ptr) => TypeOK' /\ Fits'
  BY <1>1, ReaderTyped DEF Ends
<1>5. ASSUME Abort \/ OutOfMemory \/ DoubleFree \/ Crash \/ FreeTwice \/ Close \/ LoopEnds("delete") \/ LoopEnds("show")
      PROVE  TypeOK' /\ Fits'
  <2>1. /\ Same /\ Still /\ ptr' = ptr
        /\ pc' \in Ends \cup {"menu"}
    BY <1>5 DEF Abort, OutOfMemory, DoubleFree, Crash, FreeTwice, Close, LoopEnds, Ended, memory, infoVars, Ends
  <2> HIDE DEF Same, Still
  <2> QED
    BY <1>4, <2>1
<1>6. ASSUME SeekEnd \/ Pass PROVE TypeOK' /\ Fits'
  <2>1. /\ Same /\ Still /\ pc' = pc /\ pc \in {"add", "delete"}
        /\ ptr \in Cells /\ ptr' = heap[ptr].next /\ (pc = "add" => ptr' # NULL)
    BY <1>1, <1>2, <1>3, <1>6 DEF SeekEnd, Pass, Advanced, memory, infoVars
  <2>2. ptr' \in Pointers /\ (pc = "add" => ptr' \in Cells)
    BY <1>1, <1>3, <2>1
  <2> QED
    BY <1>1, <1>2, <2>1, <2>2, ReaderTyped
<1>7. ASSUME NEW n \in Names, StartDelete(n) PROVE TypeOK' /\ Fits'
  <2>1. /\ Same /\ shown' = shown /\ stale' = stale /\ pc' = "delete" /\ ptr' = first /\ search' = n
        /\ book' = IF stale' THEN <<>> ELSE Without(book, n)
    BY <1>7 DEF StartDelete, Choose, Remember, memory, infoVars
  <2>2. book' \in Seq(Names)
    <3>0. book \in Seq(Names)
      BY <1>1
    <3>1. Len(book) \in 0 .. Len(book)
      BY <3>0, LenProperties
    <3>2. Without(book, n) \in Seq(Names)
      BY <3>0, <3>1, SieveTyped DEF Without
    <3> QED
      BY <1>1, <2>1, <3>2
  <2> QED
    BY <1>1, <2>1, <2>2, ReaderTyped
<1>8. ASSUME NEW what \in Names \cup {All}, StartShow(what) PROVE TypeOK' /\ Fits'
  <2>1. /\ Same /\ shown' = <<>> /\ stale' = stale /\ pc' = "show" /\ ptr' = first /\ search' = what
        /\ book' = book
    BY <1>8 DEF StartShow, Choose, memory, infoVars
  <2> QED
    BY <1>1, <2>1, ReaderTyped DEF Ends
<1>9. ASSUME Exit PROVE TypeOK' /\ Fits'
  <2>1. /\ Same /\ shown' = shown /\ stale' = stale /\ pc' = "free" /\ ptr' = first /\ search' = All
        /\ book' = book
    BY <1>9 DEF Exit, FreeFrom, Choose, memory, infoVars
  <2> QED
    BY <1>1, <2>1, ReaderTyped DEF Ends
<1>10. ASSUME UNCHANGED vars PROVE TypeOK' /\ Fits'
  <2>1. Same /\ Still /\ pc' = pc /\ ptr' = ptr
    BY <1>10 DEF vars
  <2> QED
    BY <1>1, <1>2, <2>1, ReaderTyped
<1> QED
  BY <1>5, <1>6, <1>7, <1>8, <1>9, <1>10 DEF Readers

LEMMA FreeNextTyped == ListInv /\ FreeNext => TypeOK' /\ Fits'
<1> SUFFICES ASSUME ListInv, FreeNext PROVE TypeOK' /\ Fits'
  OBVIOUS
<1>1. /\ TypeOK /\ Fits /\ pc = "free" /\ ptr # NULL /\ ptr' = heap[ptr].next
      /\ Free(heap, ptr, FALSE)
      /\ first' = first /\ last' = last /\ count' = count /\ pc' = pc
      /\ search' = search /\ shown' = shown /\ book' = book /\ stale' = stale
  BY DEF FreeNext, ListInv, infoVars
<1>2. ptr \in Cells /\ heap \in Heaps
  BY <1>1, ListTypes
<1>3. /\ heap' \in Heaps /\ live' \subseteq Cells /\ tcache' \subseteq Cells
      /\ fastbin' \in Seq(Cells) /\ ruined' \in 0 .. MaxRuined
  BY <1>1, <1>2, FreeFields
<1>4. TypeOK'
  <2>1. ptr' \in Pointers
    BY <1>1, <1>2, ListTypes
  <2> QED
    BY <1>1, <1>3, <2>1 DEF TypeOK, Heaps, Records
<1> QED
  BY <1>1, <1>4 DEF Fits

\* A record that is shown while the list is whole is one of its own.
LEMMA ShowFields ==
    ASSUME ListInv, Show
    PROVE  /\ pc = "show" /\ ptr \in Cells /\ ptr' = heap[ptr].next
           /\ shown' = IF ~stale /\ Matches(ptr) THEN Append(shown, heap[ptr].name) ELSE shown
           /\ memory' = memory /\ infoVars' = infoVars /\ pc' = pc
           /\ search' = search /\ book' = book /\ stale' = stale
           /\ ~stale => heap[ptr].name \in Names
<1>1. /\ pc = "show" /\ ptr # NULL /\ ptr' = heap[ptr].next
      /\ shown' = IF ~stale /\ Matches(ptr) THEN Append(shown, heap[ptr].name) ELSE shown
      /\ memory' = memory /\ infoVars' = infoVars /\ pc' = pc
      /\ search' = search /\ book' = book /\ stale' = stale
  BY DEF Show, Advanced
<1>2. ptr \in Cells
  BY <1>1, ListTypes DEF ListInv
<1>3. ASSUME ~stale PROVE heap[ptr].name \in Names
  <2>1. PICK s \in Seq(Cells) : Stands(s)
    BY <1>1, <1>3 DEF ListInv, ListOK, Standing
  <2>2. PICK j \in 1 .. Len(s) + 1 : ptr = Node(s, j)
    BY <1>1, <2>1 DEF Stands, ShowsOf
  <2>3. j \in 1 .. Len(s) /\ ptr = s[j]
    BY <1>1, <2>1, <2>2 DEF Node
  <2> QED
    BY <2>1, <2>3 DEF Stands, Whole
<1> QED
  BY <1>1, <1>2, <1>3

LEMMA ShowTyped == ListInv /\ Show => TypeOK' /\ Fits'
<1> SUFFICES ASSUME ListInv, Show PROVE TypeOK' /\ Fits'
  OBVIOUS
<1>1. TypeOK /\ pc = "show" /\ ptr' \in Pointers
  BY ShowFields, ListTypes DEF ListInv
<1>2. shown' \in Seq(Names)
  <2>1. shown \in Seq(Names)
    BY <1>1, ListTypes
  <2> QED
    BY <2>1, ShowFields
<1>3. search \in Names \cup {All} /\ book \in Seq(Names) /\ stale \in BOOLEAN
  BY <1>1 DEF TypeOK
<1> QED
  BY <1>1, <1>2, <1>3, ShowFields, ReaderTyped

-----------------------------------------------------------------------------
(* The list as long as it does not depend on freed memory.                  *)

LEMMA WholeFacts ==
    ASSUME TypeOK, NEW s \in Seq(Cells), Whole(s)
    PROVE  /\ Len(s) \in Nat /\ count = Len(s)
           /\ first = Node(s, 1) /\ last = (IF Len(s) = 0 THEN NULL ELSE s[Len(s)])
           /\ \A i \in 1 .. Len(s) : /\ s[i] \in Cells /\ s[i] \in live /\ heap[s[i]].name \in Names
                                     /\ heap[s[i]].next = Node(s, i + 1)
                                     /\ i > 1 => heap[s[i]].prev = s[i - 1]
           /\ \A i, k \in 1 .. Len(s) : s[i] = s[k] => i = k
           /\ \A c \in live : c = Mine \/ \E i \in 1 .. Len(s) : s[i] = c
           /\ Mine \in live => IF Len(s) = 0 THEN heap[Mine].next = NULL ELSE s[1] = Mine
           /\ \A i \in 1 .. Len(s) : Node(s, i) = s[i] /\ Node(s, i) # NULL
           /\ Node(s, Len(s) + 1) = NULL
<1>1. Len(s) \in Nat /\ \A i \in 1 .. Len(s) : s[i] \in Cells
  OBVIOUS
<1>2. /\ \A i \in 1 .. Len(s) : Node(s, i) = s[i] /\ Node(s, i) # NULL
      /\ Node(s, Len(s) + 1) = NULL
  BY <1>1, CellsAssumption DEF Node
<1>3. IsList(s)
  BY DEF Whole
<1>4. /\ count = Len(s) /\ first = Node(s, 1) /\ last = (IF Len(s) = 0 THEN NULL ELSE s[Len(s)])
      /\ \A i \in 1 .. Len(s) : /\ heap[s[i]].next = Node(s, i + 1)
                                /\ i > 1 => heap[s[i]].prev = s[i - 1]
  BY <1>1, <1>3 DEF IsList, Node
<1> QED
  BY <1>1, <1>2, <1>4 DEF Whole

\* What is to be shown for the list after a step.
LEMMA WholeAgain ==
    ASSUME NEW s \in Seq(Cells),
           count' = Len(s), first' = Node(s, 1), last' = (IF Len(s) = 0 THEN NULL ELSE s[Len(s)]),
           \A i \in 1 .. Len(s) : /\ s[i] \in live' /\ heap'[s[i]].name \in Names
                                  /\ heap'[s[i]].next = Node(s, i + 1)
                                  /\ i > 1 => heap'[s[i]].prev = s[i - 1],
           \A i, k \in 1 .. Len(s) : s[i] = s[k] => i = k,
           \A c \in live' : c = Mine \/ \E i \in 1 .. Len(s) : s[i] = c,
           Mine \in live' => IF Len(s) = 0 THEN heap'[Mine].next = NULL ELSE s[1] = Mine
    PROVE  Whole(s)'
<1>1. Len(s) \in Nat
  OBVIOUS
<1>2. IsList(s)'
  BY <1>1 DEF IsList, Node
<1> QED
  BY <1>2 DEF Whole

LEMMA WholeKept ==
    ASSUME TypeOK, NEW s \in Seq(Cells), Whole(s), heap' = heap, live' = live, infoVars' = infoVars
    PROVE  Whole(s)'
<1>1. first' = first /\ last' = last /\ count' = count
  BY DEF infoVars
<1> QED
  BY <1>1, WholeFacts, WholeAgain

LEMMA AddFirstLists ==
    ASSUME ListInv, NEW n \in Names, AddFirst(n)
    PROVE  ListOK'
<1> SUFFICES ASSUME ~stale' PROVE \E s \in Seq(Cells) : Stands(s)'
  BY DEF ListOK, Standing, AddFirst
<1>1. /\ TypeOK
      /\ pc = "menu" /\ last = NULL /\ first' = Mine /\ last' = Mine /\ count' = count + 1
      /\ ~stale /\ Mine \in live /\ live' = live /\ pc' = "menu"
      /\ book' = Append(book, n)
  BY DEF AddFirst, ListInv, Remember
<1>2. \A c \in Cells : /\ heap'[c].name = IF c = Mine THEN n ELSE heap[c].name
                       /\ heap'[c].next = heap[c].next
  BY <1>1, ListTypes, AddFirstFields
<1>3. PICK s \in Seq(Cells) : Stands(s)
  BY <1>1 DEF ListInv, ListOK, Standing
<1>4. Whole(s) /\ Says(s)
  BY <1>1, <1>3 DEF Stands
<1>5. Len(s) = 0 /\ heap[Mine].next = NULL /\ live = {Mine} /\ count = 0 /\ Len(book) = 0
  <2>1. Len(s) = 0
    BY <1>1, <1>4, WholeFacts
  <2>2. /\ \A c \in live : c = Mine \/ \E i \in 1 .. Len(s) : s[i] = c
        /\ heap[Mine].next = NULL /\ count = Len(s)
    BY <1>1, <1>4, <2>1, WholeFacts
  <2>3. live = {Mine}
    BY <1>1, <2>1, <2>2
  <2>4. Len(book) = 0
    BY <1>4, <2>1 DEF Says
  <2> QED
    BY <2>1, <2>2, <2>3, <2>4
<1>6. PICK t \in Seq(Cells) : Len(t) = 1 /\ t[1] = Mine /\ Node(t, 1) = Mine /\ Node(t, 2) = NULL
  <2> DEFINE m == <<Mine>>
  <2>1. m \in Seq(Cells) /\ Len(m) = 1 /\ m[1] = Mine
    BY CellsAssumption
  <2> HIDE DEF m
  <2> QED
    BY <2>1 DEF Node
<1>7. heap'[Mine].name = n /\ heap'[Mine].next = NULL
  BY <1>2, <1>5, CellsAssumption
<1>8. Len(book') = 1 /\ book'[1] = n
  BY <1>1, <1>5, ListTypes
<1>9. Whole(t)'
  <2>1. \A i \in 1 .. Len(t) : i = 1
    BY <1>6
  <2>2. \A i \in 1 .. Len(t) : /\ t[i] \in live' /\ heap'[t[i]].name \in Names
                               /\ heap'[t[i]].next = Node(t, i + 1)
                               /\ i > 1 => heap'[t[i]].prev = t[i - 1]
    BY <1>1, <1>5, <1>6, <1>7, <2>1
  <2>5. \A i, k \in 1 .. Len(t) : t[i] = t[k] => i = k
    BY <2>1
  <2>3. /\ \A c \in live' : c = Mine \/ \E i \in 1 .. Len(t) : t[i] = c
        /\ t[1] = Mine
    BY <1>1, <1>5, <1>6
  <2>4. count' = Len(t) /\ first' = Node(t, 1) /\ last' = t[Len(t)] /\ Len(t) # 0
    BY <1>1, <1>5, <1>6
  <2> QED
    BY <2>2, <2>3, <2>4, <2>5, WholeAgain
<1> QED
  BY <1>1, <1>6, <1>7, <1>8, <1>9 DEF Stands, Says, AddsTo, ShowsOf, DeletesFrom

LEMMA AddAtEndLists ==
    ASSUME ListInv, NEW n \in Names, NEW d \in Cells, AddAtEnd(n, d)
    PROVE  ListOK'
<1> SUFFICES ASSUME ~stale' PROVE \E s \in Seq(Cells) : Stands(s)'
  BY DEF ListOK, Standing, AddAtEnd
<1>1. /\ TypeOK /\ Fits
      /\ pc = "add" /\ last' = d /\ count' = count + 1
      /\ pc' = "menu" /\ first' = first /\ ~stale /\ heap[d].next = NULL /\ heap[ptr].next = NULL
      /\ book' = Append(book, n)
  BY DEF AddAtEnd, LastAfterAdd, ListInv, Remember
<1>2. ptr \in Cells
  BY <1>1 DEF Fits
<1>0. PICK K \in SUBSET Cells : Malloc(d, K) /\ heap' = Extended(n, d, K)
  BY AddAtEndFields
<1>3. /\ heap'[d].name = n /\ heap'[d].prev = ptr
      /\ \A c \in Cells : /\ heap'[c].next = IF c = ptr THEN d ELSE heap[c].next
                          /\ c # d /\ c \notin K => /\ heap'[c].name = heap[c].name
                                                  /\ heap'[c].prev = heap[c].prev
  BY <1>0, <1>1, <1>2, ListTypes, ExtendedFields
<1>17. d \notin live /\ K \cap live = {} /\ live' = live \cup {d}
  BY <1>0, <1>1, MallocSound, MallocTyped DEF ListInv, Sound
<1>4. PICK s \in Seq(Cells) : Stands(s)
  BY <1>1 DEF ListInv, ListOK, Standing
<1>5. Whole(s) /\ Says(s) /\ Mine \in live /\ \E j \in 1 .. Len(s) : ptr = s[j]
  BY <1>1, <1>4 DEF Stands, AddsTo
<1>6. Len(s) \in Nat /\ Len(s) >= 1 /\ ptr = s[Len(s)] /\ s[1] = Mine
  <2>1. PICK j \in 1 .. Len(s) : ptr = s[j]
    BY <1>5
  <2>2. heap[s[j]].next = Node(s, j + 1) /\ Len(s) \in Nat
    BY <1>1, <1>5, WholeFacts
  <2>3. j = Len(s)
    BY <1>1, <1>5, <2>1, <2>2, WholeFacts
  <2> QED
    BY <1>1, <1>5, <2>1, <2>2, <2>3, WholeFacts
<1> DEFINE t == Append(s, d)
<1>7. /\ t \in Seq(Cells) /\ Len(t) = Len(s) + 1 /\ t[Len(s) + 1] = d
      /\ \A i \in 1 .. Len(s) : t[i] = s[i]
  OBVIOUS
<1> HIDE DEF t
<1>8. /\ Node(t, Len(t) + 1) = NULL /\ Node(t, Len(t)) = d
      /\ \A i \in 1 .. Len(s) : Node(t, i) = s[i]
  BY <1>6, <1>7 DEF Node
<1>9. \A i \in 1 .. Len(s) : /\ s[i] \in Cells /\ s[i] # d /\ s[i] \notin K /\ s[i] \in live
                             /\ heap[s[i]].name \in Names
                             /\ i > 1 => heap[s[i]].prev = s[i - 1]
  BY <1>1, <1>5, <1>17, WholeFacts
<1>10. ASSUME NEW i \in 1 .. Len(s), i # Len(s) PROVE s[i] # ptr /\ heap[s[i]].next = s[i + 1]
  <2>1. Len(s) \in 1 .. Len(s)
    BY <1>6
  <2>2. s[i] # s[Len(s)]
    BY <1>1, <1>5, <1>10, <2>1, WholeFacts
  <2>3. heap[s[i]].next = Node(s, i + 1) /\ Node(s, i + 1) = s[i + 1]
    BY <1>1, <1>5, <1>6, <1>10, WholeFacts DEF Node
  <2> QED
    BY <1>6, <2>2, <2>3
<1>11. ASSUME NEW i \in 1 .. Len(t)
       PROVE  /\ t[i] \in live' /\ heap'[t[i]].name \in Names
              /\ heap'[t[i]].next = Node(t, i + 1)
              /\ i > 1 => heap'[t[i]].prev = t[i - 1]
  <2>1. CASE i = Len(t)
    <3>1. heap'[d].name = n /\ heap'[d].next = NULL /\ heap'[d].prev = ptr
      BY <1>1, <1>3, <1>6, <1>9, <1>17
    <3>2. t[i] = d /\ Node(t, i + 1) = NULL /\ (i > 1 => t[i - 1] = ptr)
      BY <1>6, <1>7, <1>8, <2>1
    <3> QED
      BY <1>17, <3>1, <3>2
  <2>2. CASE i # Len(t)
    <3>1. i \in 1 .. Len(s) /\ t[i] = s[i] /\ (i > 1 => t[i - 1] = s[i - 1])
      BY <1>6, <1>7, <2>2
    <3>2. heap'[s[i]].name \in Names /\ (i > 1 => heap'[s[i]].prev = s[i - 1]) /\ s[i] \in live'
      BY <1>3, <1>9, <1>17, <3>1
    <3>3. heap'[s[i]].next = Node(t, i + 1)
      <4>1. CASE i = Len(s)
        BY <1>3, <1>6, <1>7, <1>8, <1>9, <3>1, <4>1
      <4>2. CASE i # Len(s)
        <5>1. i + 1 \in 1 .. Len(s)
          BY <1>6, <3>1, <4>2
        <5> QED
          BY <1>3, <1>8, <1>9, <1>10, <3>1, <4>2, <5>1
      <4> QED
        BY <4>1, <4>2
    <3> QED
      BY <3>1, <3>2, <3>3
  <2> QED
    BY <2>1, <2>2
<1>12. \A i, k \in 1 .. Len(t) : t[i] = t[k] => i = k
  <2>1. \A i, k \in 1 .. Len(s) : s[i] = s[k] => i = k
    BY <1>1, <1>5, WholeFacts
  <2> QED
    BY <1>6, <1>7, <1>9, <2>1
<1>13. /\ \A c \in live' : c = Mine \/ \E i \in 1 .. Len(t) : t[i] = c
       /\ t[1] = Mine
  <2>1. \A c \in live : c = Mine \/ \E i \in 1 .. Len(s) : s[i] = c
    BY <1>1, <1>5, WholeFacts
  <2>2. \A i \in 1 .. Len(s) : i \in 1 .. Len(t)
    BY <1>6, <1>7
  <2>3. Len(t) \in 1 .. Len(t) /\ t[Len(t)] = d
    BY <1>6, <1>7
  <2> QED
    BY <1>6, <1>7, <1>17, <2>1, <2>2, <2>3
<1>14. count' = Len(t) /\ first' = Node(t, 1) /\ last' = t[Len(t)] /\ Len(t) # 0
  BY <1>1, <1>5, <1>6, <1>7, <1>8, WholeFacts
<1>15. Whole(t)'
  BY <1>7, <1>11, <1>12, <1>13, <1>14, WholeAgain
<1>16. Says(t)'
  <2>1. Len(book) = Len(s) /\ book \in Seq(Names) /\ \A i \in 1 .. Len(s) : heap[s[i]].name = book[i]
    BY <1>1, <1>5, ListTypes DEF Says
  <2>2. Len(book') = Len(t) /\ book'[Len(t)] = n /\ \A i \in 1 .. Len(s) : book'[i] = book[i]
    BY <1>1, <1>7, <2>1
  <2>3. \A i \in 1 .. Len(s) : heap'[t[i]].name = book'[i]
    BY <1>3, <1>7, <1>9, <2>1, <2>2
  <2>4. heap'[t[Len(t)]].name = book'[Len(t)]
    BY <1>3, <1>7, <2>2
  <2> QED
    BY <1>6, <1>7, <2>2, <2>3, <2>4 DEF Says
<1> QED
  BY <1>1, <1>7, <1>15, <1>16 DEF Stands, AddsTo, ShowsOf, DeletesFrom

LEMMA LabelsTyped ==
    ASSUME TypeOK, NEW s \in Seq(Cells), Whole(s)
    PROVE  /\ Labels(s) \in Seq(Names) /\ Len(Labels(s)) = Len(s) /\ Len(s) \in Nat
           /\ \A i \in 1 .. Len(s) : Labels(s)[i] = heap[s[i]].name
<1>1. Len(s) \in Nat /\ \A i \in 1 .. Len(s) : heap[s[i]].name \in Names
  BY WholeFacts
<1> QED
  BY <1>1 DEF Labels

LEMMA SaysLabels ==
    ASSUME TypeOK, NEW s \in Seq(Cells), Whole(s)
    PROVE  Says(s) <=> book = Labels(s)
<1>1. book \in Seq(Names)
  BY ListTypes
<1> QED
  BY <1>1, LabelsTyped, SeqEqual DEF Says

LEMMA StartAddLists == ListInv /\ StartAdd => ListOK'
<1> SUFFICES ASSUME ListInv, StartAdd, ~stale' PROVE \E s \in Seq(Cells) : Stands(s)'
  BY DEF ListOK, Standing, StartAdd, Choose
<1>1. /\ TypeOK /\ ~stale /\ Mine \in live /\ last # NULL /\ pc = "menu" /\ pc' = "add" /\ ptr' = Mine
      /\ book' = book /\ heap' = heap /\ live' = live /\ infoVars' = infoVars
  BY DEF StartAdd, Choose, Remember, ListInv, memory
<1>2. PICK s \in Seq(Cells) : Stands(s)
  BY <1>1 DEF ListInv, ListOK, Standing
<1>3. Whole(s) /\ Says(s)
  BY <1>1, <1>2 DEF Stands
<1>4. 1 \in 1 .. Len(s) /\ s[1] = Mine
  BY <1>1, <1>3, WholeFacts
<1>5. Whole(s)'
  BY <1>1, <1>3, WholeKept
<1>6. Says(s)' /\ AddsTo(s)'
  BY <1>1, <1>3, <1>4 DEF Says, AddsTo
<1> QED
  BY <1>1, <1>5, <1>6 DEF Stands, ShowsOf, DeletesFrom

LEMMA SeekEndLists == ListInv /\ SeekEnd => ListOK'
<1> SUFFICES ASSUME ListInv, SeekEnd, ~stale' PROVE \E s \in Seq(Cells) : Stands(s)'
  BY DEF ListOK, Standing, SeekEnd
<1>1. /\ TypeOK /\ ~stale /\ pc = "add" /\ pc' = pc /\ heap[ptr].next # NULL /\ ptr' = heap[ptr].next
      /\ book' = book /\ heap' = heap /\ live' = live /\ infoVars' = infoVars
  BY DEF SeekEnd, ListInv, memory
<1>2. PICK s \in Seq(Cells) : Stands(s)
  BY <1>1 DEF ListInv, ListOK, Standing
<1>3. Whole(s) /\ Says(s) /\ Mine \in live /\ \E j \in 1 .. Len(s) : ptr = s[j]
  BY <1>1, <1>2 DEF Stands, AddsTo
<1>4. PICK j \in 1 .. Len(s) : ptr = s[j]
  BY <1>3
<1>5. j + 1 \in 1 .. Len(s) /\ ptr' = s[j + 1]
  <2>1. Len(s) \in Nat /\ ptr' = Node(s, j + 1) /\ Node(s, Len(s) + 1) = NULL
    BY <1>1, <1>3, <1>4, WholeFacts
  <2>2. j + 1 \in 1 .. Len(s)
    BY <1>1, <2>1
  <2> QED
    BY <1>1, <1>3, <2>1, <2>2, WholeFacts
<1>6. Whole(s)'
  BY <1>1, <1>3, WholeKept
<1>7. Says(s)' /\ AddsTo(s)'
  BY <1>1, <1>3, <1>5 DEF Says, AddsTo
<1> QED
  BY <1>1, <1>6, <1>7 DEF Stands, ShowsOf, DeletesFrom

LEMMA StartDeleteLists ==
    ASSUME ListInv, NEW n \in Names, StartDelete(n)
    PROVE  ListOK'
<1> SUFFICES ASSUME ~stale' PROVE \E s \in Seq(Cells) : Stands(s)'
  BY DEF ListOK, Standing, StartDelete, Choose
<1>1. /\ TypeOK /\ ~stale /\ pc = "menu" /\ pc' = "delete" /\ ptr' = first /\ search' = n
      /\ book' = Without(book, n) /\ heap' = heap /\ live' = live /\ infoVars' = infoVars
  BY DEF StartDelete, Choose, Remember, ListInv, memory
<1>2. PICK s \in Seq(Cells) : Stands(s)
  BY <1>1 DEF ListInv, ListOK, Standing
<1>3. Whole(s) /\ Says(s)
  BY <1>1, <1>2 DEF Stands
<1>4. Whole(s)'
  BY <1>1, <1>3, WholeKept
<1>5. book' = Sieve(Labels(s)', Names \ {search'})[Len(s)]
  <2>1. book = Labels(s) /\ Len(book) = Len(s) /\ Labels(s)' = Labels(s)
    BY <1>1, <1>3, SaysLabels DEF Says, Labels
  <2> QED
    BY <1>1, <2>1 DEF Without
<1>6. DeletesAt(s, 1)' /\ 1 \in 1 .. Len(s) + 1
  BY <1>1, <1>3, WholeFacts DEF DeletesAt, LooksAt, Node
<1>7. DeletesFrom(s)'
  BY <1>5, <1>6 DEF DeletesFrom
<1> QED
  BY <1>1, <1>4, <1>7 DEF Stands, AddsTo, ShowsOf

LEMMA PassLists == ListInv /\ Pass => ListOK'
<1> SUFFICES ASSUME ListInv, Pass, ~stale' PROVE \E s \in Seq(Cells) : Stands(s)'
  BY DEF ListOK, Standing, Pass
<1>1. /\ TypeOK /\ ~stale /\ pc = "delete" /\ pc' = pc /\ ptr # NULL /\ heap[ptr].name # search
      /\ ptr' = heap[ptr].next /\ search' = search
      /\ book' = book /\ heap' = heap /\ live' = live /\ infoVars' = infoVars
  BY DEF Pass, Advanced, ListInv, memory
<1>2. PICK s \in Seq(Cells) : Stands(s)
  BY <1>1 DEF ListInv, ListOK, Standing
<1>3. Whole(s) /\ book = Sieve(Labels(s), Names \ {search})[Len(s)] /\ \E j \in 1 .. Len(s) + 1 : DeletesAt(s, j)
  BY <1>1, <1>2 DEF Stands, DeletesFrom
<1>4. Whole(s)'
  BY <1>1, <1>3, WholeKept
<1>5. PICK j \in 1 .. Len(s) + 1 : DeletesAt(s, j)
  BY <1>3
<1>6. \E k \in 1 .. Len(s) + 1 : ptr' = Node(s, k) /\ \A i \in 1 .. k - 1 : heap[s[i]].name # search
  <2>1. CASE ptr = Node(s, j)
    <3>1. j \in 1 .. Len(s) /\ ptr = s[j] /\ Len(s) \in Nat
      BY <1>1, <1>3, <2>1, WholeFacts DEF Node
    <3>2. ptr' = Node(s, j + 1) /\ j + 1 \in 1 .. Len(s) + 1
      BY <1>1, <1>3, <3>1, WholeFacts
    <3>3. \A i \in 1 .. (j + 1) - 1 : heap[s[i]].name # search
      BY <1>1, <1>5, <3>1 DEF DeletesAt
    <3> QED
      BY <3>2, <3>3
  <2>2. CASE ptr # Node(s, j)
    BY <1>1, <1>5, <2>2 DEF DeletesAt, LooksAt
  <2> QED
    BY <2>1, <2>2
<1>7. DeletesFrom(s)'
  <2>1. \E k \in 1 .. Len(s) + 1 : DeletesAt(s, k)'
    BY <1>1, <1>6 DEF DeletesAt, LooksAt, Node
  <2>2. book' = Sieve(Labels(s)', Names \ {search'})[Len(s)]
    BY <1>1, <1>3 DEF Labels
  <2> QED
    BY <2>1, <2>2 DEF DeletesFrom
<1> QED
  BY <1>1, <1>4, <1>7 DEF Stands, AddsTo, ShowsOf

LEMMA DeleteEndsLists == ListInv /\ LoopEnds("delete") => ListOK'
<1> SUFFICES ASSUME ListInv, LoopEnds("delete"), ~stale' PROVE \E s \in Seq(Cells) : Stands(s)'
  BY DEF ListOK, Standing, LoopEnds
<1>1. /\ TypeOK /\ ~stale /\ pc = "delete" /\ pc' = "menu" /\ ptr = NULL
      /\ book' = book /\ heap' = heap /\ live' = live /\ infoVars' = infoVars
  BY DEF LoopEnds, ListInv, memory
<1>2. PICK s \in Seq(Cells) : Stands(s)
  BY <1>1 DEF ListInv, ListOK, Standing
<1>3. Whole(s) /\ book = Sieve(Labels(s), Names \ {search})[Len(s)] /\ \E j \in 1 .. Len(s) + 1 : DeletesAt(s, j)
  BY <1>1, <1>2 DEF Stands, DeletesFrom
<1>4. Whole(s)'
  BY <1>1, <1>3, WholeKept
<1>5. PICK j \in 1 .. Len(s) + 1 : DeletesAt(s, j)
  BY <1>3
<1>6. j = Len(s) + 1 /\ \A i \in 1 .. Len(s) : heap[s[i]].name # search
  <2>1. Node(s, j) = NULL /\ Len(s) \in Nat
    BY <1>1, <1>3, <1>5, WholeFacts, CellsAssumption DEF DeletesAt, LooksAt, Freed
  <2>2. j = Len(s) + 1
    BY <1>1, <1>3, <2>1, WholeFacts
  <2> QED
    BY <1>5, <2>1, <2>2 DEF DeletesAt, LooksAt
<1>7. Sieve(Labels(s), Names \ {search})[Len(s)] = Labels(s)
  <2>1. \A i \in 1 .. Len(Labels(s)) : Labels(s)[i] \in Names \ {search}
    <3>1. /\ Len(Labels(s)) = Len(s) /\ \A i \in 1 .. Len(s) : Labels(s)[i] = heap[s[i]].name
          /\ \A i \in 1 .. Len(s) : heap[s[i]].name \in Names
      BY <1>1, <1>3, LabelsTyped, WholeFacts
    <3> QED
      BY <1>6, <3>1
  <2>2. Labels(s) \in Seq(Names) /\ Len(Labels(s)) = Len(s)
    BY <1>1, <1>3, LabelsTyped
  <2>3. Sieve(Labels(s), Names \ {search})[Len(Labels(s))] = Labels(s)
    BY <2>1, <2>2, SieveAll
  <2> QED
    BY <2>2, <2>3
<1>8. Says(s)'
  <2>1. Says(s)
    BY <1>1, <1>3, <1>7, SaysLabels
  <2> QED
    BY <1>1, <2>1 DEF Says
<1> QED
  BY <1>1, <1>4, <1>8 DEF Stands, AddsTo, ShowsOf, DeletesFrom

-----------------------------------------------------------------------------
(* A delete cuts a record out.                                              *)

LEMMA CutFacts ==
    ASSUME NEW s \in Seq(Cells), NEW j \in 1 .. Len(s), NEW t, t = Cut(s, j)
    PROVE  /\ t \in Seq(Cells) /\ Len(s) \in Nat /\ Len(t) \in Nat /\ Len(t) = Len(s) - 1
           /\ \A i \in 1 .. Len(t) : /\ i \in 1 .. Len(s) /\ i + 1 \in 1 .. Len(s)
                                     /\ i < j => t[i] = s[i]
                                     /\ i >= j => t[i] = s[i + 1]
           /\ \A k \in 1 .. Len(s) : /\ k < j => Node(t, k) = s[k]
                                     /\ k >= j => Node(t, k) = Node(s, k + 1)
<1>1. t \in Seq(Cells) /\ Len(s) \in Nat /\ Len(t) = Len(s) - 1
  BY CutTyped
<1>2. Len(t) \in Nat
  BY <1>1
<1>3. \A i \in 1 .. Len(s) - 1 : t[i] = IF i < j THEN s[i] ELSE s[i + 1]
  BY CutTyped
<1>4. \A i \in 1 .. Len(t) : /\ i \in 1 .. Len(s) /\ i + 1 \in 1 .. Len(s)
                             /\ i < j => t[i] = s[i]
                             /\ i >= j => t[i] = s[i + 1]
  BY <1>1, <1>3
<1>5. ASSUME NEW k \in 1 .. Len(s), k < j PROVE Node(t, k) = s[k]
  <2>1. k \in 1 .. Len(t)
    BY <1>1, <1>5
  <2> QED
    BY <1>1, <1>4, <1>5, <2>1 DEF Node
<1>6. ASSUME NEW k \in 1 .. Len(s), k >= j PROVE Node(t, k) = Node(s, k + 1)
  <2>1. CASE k = Len(s)
    BY <1>1, <2>1 DEF Node
  <2>2. CASE k # Len(s)
    <3>1. k \in 1 .. Len(t)
      BY <1>1, <2>2
    <3> QED
      BY <1>1, <1>4, <1>6, <2>2, <3>1 DEF Node
  <2> QED
    BY <2>1, <2>2
<1> QED
  BY <1>1, <1>2, <1>4, <1>5, <1>6

\* What the three deletes have in common, t being the list without the record.
LEMMA CutLists ==
    ASSUME ListInv, NEW s \in Seq(Cells), Whole(s), NEW j \in 1 .. Len(s),
           ptr = s[j], heap[ptr].name = search, pc = "delete",
           book = Sieve(Labels(s), Names \ {search})[Len(s)],
           \A i \in 1 .. j - 1 : heap[s[i]].name # search,
           \A c \in Cells : c # ptr => heap'[c].name = heap[c].name,
           live' = live \ {ptr}, count' = count - 1,
           pc' = pc, search' = search, book' = book,
           NEW t, t = Cut(s, j),
           \A i \in 1 .. Len(t) : /\ heap'[t[i]].next = Node(t, i + 1)
                                  /\ i > 1 => heap'[t[i]].prev = t[i - 1],
           first' = Node(t, 1), last' = (IF Len(t) = 0 THEN NULL ELSE t[Len(t)]),
           LooksAt(t, j)'
    PROVE  Stands(t)'
<1>1. TypeOK
  BY DEF ListInv
<1>2. /\ t \in Seq(Cells) /\ Len(s) \in Nat /\ Len(t) = Len(s) - 1 /\ Len(t) \in Nat
      /\ \A i \in 1 .. Len(t) : /\ i \in 1 .. Len(s) /\ i + 1 \in 1 .. Len(s)
                                /\ i < j => t[i] = s[i]
                                /\ i >= j => t[i] = s[i + 1]
  BY CutFacts
<1>3. /\ \A i \in 1 .. Len(s) : s[i] \in Cells /\ s[i] \in live /\ heap[s[i]].name \in Names
      /\ \A i, k \in 1 .. Len(s) : s[i] = s[k] => i = k
      /\ \A c \in live : c = Mine \/ \E i \in 1 .. Len(s) : s[i] = c
      /\ Mine \in live => s[1] = Mine
      /\ count = Len(s)
  BY <1>1, WholeFacts
<1>4. ASSUME NEW i \in 1 .. Len(t) PROVE \E k \in 1 .. Len(s) : k # j /\ t[i] = s[k]
  <2>1. i \in 1 .. Len(s) /\ i + 1 \in 1 .. Len(s) /\ (i < j \/ i >= j)
    BY <1>2
  <2>2. CASE i < j
    BY <1>2, <2>1, <2>2
  <2>3. CASE i >= j
    <3>1. i + 1 # j /\ t[i] = s[i + 1]
      BY <1>2, <2>3
    <3> QED
      BY <2>1, <3>1
  <2> QED
    BY <2>1, <2>2, <2>3
<1>5. ASSUME NEW i \in 1 .. Len(t)
      PROVE  /\ t[i] \in Cells /\ t[i] # ptr /\ t[i] \in live'
             /\ heap'[t[i]].name = heap[t[i]].name /\ heap'[t[i]].name \in Names
  <2>1. PICK k \in 1 .. Len(s) : k # j /\ t[i] = s[k]
    BY <1>4
  <2>2. s[k] \in Cells /\ s[k] \in live /\ heap[s[k]].name \in Names /\ s[k] # ptr
    BY <1>3, <2>1
  <2> QED
    BY <2>1, <2>2
<1>6. \A i, k \in 1 .. Len(t) : t[i] = t[k] => i = k
  BY <1>2, <1>3
<1>7. \A c \in live' : c = Mine \/ \E i \in 1 .. Len(t) : t[i] = c
  <2> SUFFICES ASSUME NEW c \in live', c # Mine PROVE \E i \in 1 .. Len(t) : t[i] = c
    OBVIOUS
  <2>1. PICK k \in 1 .. Len(s) : s[k] = c
    BY <1>3
  <2>2. k # j
    BY <2>1
  <2>3. CASE k < j
    <3>1. k \in 1 .. Len(t)
      BY <1>2, <2>3
    <3> QED
      BY <1>2, <2>1, <2>3, <3>1
  <2>4. CASE k > j
    <3>1. k - 1 \in 1 .. Len(t) /\ t[k - 1] = s[k]
      BY <1>2, <2>4
    <3> QED
      BY <2>1, <3>1
  <2> QED
    BY <1>2, <2>2, <2>3, <2>4
<1>8. Mine \in live' => Len(t) # 0 /\ t[1] = Mine
  <2> SUFFICES ASSUME Mine \in live' PROVE Len(t) # 0 /\ t[1] = Mine
    OBVIOUS
  <2>1. j # 1
    BY <1>3
  <2>2. 1 \in 1 .. Len(t) /\ 1 < j
    BY <1>2, <2>1
  <2> QED
    BY <1>2, <1>3, <2>2
<1>9. Whole(t)'
  <2>1. count' = Len(t) /\ t \in Seq(Cells)
    BY <1>2, <1>3
  <2>2. \A i \in 1 .. Len(t) : /\ t[i] \in live' /\ heap'[t[i]].name \in Names
                               /\ heap'[t[i]].next = Node(t, i + 1)
                               /\ i > 1 => heap'[t[i]].prev = t[i - 1]
    BY <1>5
  <2> QED
    BY <1>6, <1>7, <1>8, <2>1, <2>2, WholeAgain
<1>10. book' = Sieve(Labels(t)', Names \ {search'})[Len(t)]
  <2> DEFINE b == Labels(s)
  <2>1. b \in Seq(Names) /\ Len(b) = Len(s) /\ \A i \in 1 .. Len(s) : b[i] = heap[s[i]].name
    BY <1>1, LabelsTyped
  <2> HIDE DEF b
  <2>2. j \in 1 .. Len(b) /\ b[j] \notin Names \ {search}
    BY <2>1
  <2>3. /\ Cut(b, j) \in Seq(Names) /\ Len(Cut(b, j)) = Len(b) - 1
        /\ \A i \in 1 .. Len(b) - 1 : Cut(b, j)[i] = IF i < j THEN b[i] ELSE b[i + 1]
    BY <2>1, <2>2, CutTyped
  <2>4. Labels(t)' = Cut(b, j)
    <3>1. Labels(t)' = [i \in 1 .. Len(t) |-> heap'[t[i]].name]
      BY DEF Labels
    <3>2. ASSUME NEW i \in 1 .. Len(t) PROVE heap'[t[i]].name = Cut(b, j)[i]
      <4>1. /\ i \in 1 .. Len(b) - 1 /\ i \in 1 .. Len(s) /\ i + 1 \in 1 .. Len(s)
            /\ heap'[t[i]].name = heap[t[i]].name
        BY <1>2, <1>5, <2>1
      <4>2. /\ i < j => t[i] = s[i] /\ Cut(b, j)[i] = b[i]
            /\ i >= j => t[i] = s[i + 1] /\ Cut(b, j)[i] = b[i + 1]
        <5>1. Cut(b, j)[i] = IF i < j THEN b[i] ELSE b[i + 1]
          BY <2>3, <4>1
        <5>2. (i < j => t[i] = s[i]) /\ (i >= j => t[i] = s[i + 1]) /\ i \in Int /\ j \in Int
          BY <1>2
        <5> QED
          BY <5>1, <5>2
      <4>3. b[i] = heap[s[i]].name /\ b[i + 1] = heap[s[i + 1]].name
        BY <2>1, <4>1
      <4>4. i < j \/ i >= j
        BY <4>1
      <4> QED
        BY <4>1, <4>2, <4>3, <4>4
    <3>3. Len(Cut(b, j)) = Len(t)
      BY <1>2, <2>1, <2>3
    <3>4. Cut(b, j) = [i \in 1 .. Len(t) |-> Cut(b, j)[i]]
      BY <2>3, <3>3
    <3> QED
      BY <3>1, <3>2, <3>4
  <2>5. Sieve(Cut(b, j), Names \ {search})[Len(b) - 1] = Sieve(b, Names \ {search})[Len(b)]
    BY <2>1, <2>2, SieveCut
  <2> QED
    BY <1>2, <2>1, <2>4, <2>5 DEF b
<1>11. DeletesAt(t, j)' /\ j \in 1 .. Len(t) + 1
  <2>1. ASSUME NEW i \in 1 .. j - 1 PROVE heap'[t[i]].name # search
    <3>1. i \in 1 .. Len(t) /\ i < j
      BY <1>2
    <3> QED
      BY <1>2, <1>5, <3>1
  <2> QED
    BY <1>2, <2>1 DEF DeletesAt, Node
<1>12. DeletesFrom(t)'
  BY <1>10, <1>11 DEF DeletesFrom
<1> QED
  BY <1>9, <1>12 DEF Stands, AddsTo, ShowsOf

\* A record that a delete has found is allocated, or it was freed with a full tcache.
LEMMA HitFreed ==
    ASSUME ListInv, ~stale, Hit
    PROVE  ptr \in live \/ (Full /\ heap[ptr].prev = Wild)
<1>1. TypeOK /\ Fits /\ pc = "delete" /\ ptr # NULL /\ heap[ptr].name = search
  BY DEF Hit, ListInv
<1>2. PICK s \in Seq(Cells) : Stands(s)
  BY <1>1 DEF ListInv, ListOK, Standing
<1>3. Whole(s) /\ \E j \in 1 .. Len(s) + 1 : DeletesAt(s, j)
  BY <1>1, <1>2 DEF Stands, DeletesFrom
<1>4. PICK j \in 1 .. Len(s) + 1 : LooksAt(s, j)
  BY <1>3 DEF DeletesAt
<1>5. CASE ptr = Node(s, j)
  <2>1. j \in 1 .. Len(s)
    BY <1>1, <1>3, <1>5, WholeFacts
  <2> QED
    BY <1>1, <1>3, <1>5, <2>1, WholeFacts
<1>6. CASE Freed(ptr)
  <2>1. heap[ptr].name # Garbage
    BY <1>1, ListTypes DEF Fits
  <2> QED
    BY <1>6, <2>1 DEF Freed
<1> QED
  BY <1>4, <1>5, <1>6 DEF LooksAt

\* If it is allocated, or leads to neighbours, it is the j-th record of the list.
LEMMA HitListed ==
    ASSUME ListInv, ~stale, Hit, ptr \in live \/ ptr = first \/ Neighbours(ptr)
    PROVE  /\ ptr \in live
           /\ \E s \in Seq(Cells) : \E j \in 1 .. Len(s) :
                  /\ Whole(s) /\ ptr = s[j] /\ heap[ptr].name = search /\ pc = "delete"
                  /\ book = Sieve(Labels(s), Names \ {search})[Len(s)]
                  /\ \A i \in 1 .. j - 1 : heap[s[i]].name # search
<1>1. TypeOK /\ Fits /\ pc = "delete" /\ ptr # NULL /\ heap[ptr].name = search
  BY DEF Hit, ListInv
<1>2. PICK s \in Seq(Cells) : Stands(s)
  BY <1>1 DEF ListInv, ListOK, Standing
<1>3. Whole(s) /\ book = Sieve(Labels(s), Names \ {search})[Len(s)] /\ \E j \in 1 .. Len(s) + 1 : DeletesAt(s, j)
  BY <1>1, <1>2 DEF Stands, DeletesFrom
<1>4. PICK j \in 1 .. Len(s) + 1 : DeletesAt(s, j)
  BY <1>3
<1>5. ptr \in live
  <2>1. CASE ptr = first
    <3>1. Len(s) \in Nat /\ first = Node(s, 1) /\ Node(s, Len(s) + 1) = NULL
      BY <1>1, <1>3, WholeFacts
    <3>2. 1 \in 1 .. Len(s)
      BY <1>1, <2>1, <3>1
    <3> QED
      BY <1>1, <1>3, <2>1, <3>1, <3>2, WholeFacts
  <2>2. CASE Neighbours(ptr)
    BY <1>1, <2>2, HitFreed, ListTypes DEF Neighbours
  <2> QED
    BY <2>1, <2>2
<1>6. ptr = Node(s, j) /\ \A i \in 1 .. j - 1 : heap[s[i]].name # search
  BY <1>4, <1>5 DEF DeletesAt, LooksAt, Freed
<1>7. j \in 1 .. Len(s)
  BY <1>1, <1>3, <1>6, WholeFacts
<1>8. ptr = s[j]
  BY <1>1, <1>3, <1>6, <1>7, WholeFacts
<1> QED
  BY <1>1, <1>3, <1>5, <1>6, <1>7, <1>8

\* Then its neighbours are allocated.
LEMMA NeighboursLive ==
    ASSUME ListInv, ~stale, Hit, ptr # first, ptr \in live \/ Neighbours(ptr)
    PROVE  heap[ptr].prev \in live /\ (ptr # last => heap[ptr].next \in live)
<1>1. PICK s \in Seq(Cells) : \E j \in 1 .. Len(s) : Whole(s) /\ ptr = s[j]
  BY HitListed
<1>2. PICK j \in 1 .. Len(s) : Whole(s) /\ ptr = s[j]
  BY <1>1
<1>3. /\ Len(s) \in Nat /\ first = Node(s, 1) /\ last = s[Len(s)]
      /\ \A i \in 1 .. Len(s) : /\ s[i] \in live /\ heap[s[i]].next = Node(s, i + 1)
                                /\ i > 1 => heap[s[i]].prev = s[i - 1]
      /\ \A i \in 1 .. Len(s) : Node(s, i) = s[i]
  BY <1>2, WholeFacts DEF ListInv
<1>4. j > 1 /\ j - 1 \in 1 .. Len(s)
  BY <1>2, <1>3
<1>5. ptr # last => j + 1 \in 1 .. Len(s)
  BY <1>2, <1>3
<1> QED
  BY <1>2, <1>3, <1>4, <1>5

\* A block that is allocated can be freed.
LEMMA NotCaught ==
    ASSUME TypeOK, FreeLists, NEW c \in live
    PROVE  ~Caught(c)
<1>1. fastbin \in Seq(Cells) /\ \A i \in 1 .. Len(fastbin) : fastbin[i] \notin live
  BY ListTypes DEF FreeLists
<1>2. ~OnTop(c)
  <2> SUFFICES ASSUME fastbin # <<>>, Head(fastbin) = c PROVE FALSE
    BY DEF OnTop
  <2>1. Head(fastbin) = fastbin[1] /\ 1 \in 1 .. Len(fastbin)
    BY <1>1
  <2> QED
    BY <1>1, <2>1
<1> QED
  BY <1>2 DEF Caught, HasKey, Damaged, FreeLists

LEMMA DeleteFirstLists == ListInv /\ DeleteFirst => ListOK'
<1> SUFFICES ASSUME ListInv, DeleteFirst, ~stale' PROVE \E s \in Seq(Cells) : Stands(s)'
  BY DEF ListOK, Standing, DeleteFirst, Hit
<1>0. ~stale
  BY DEF DeleteFirst
<1>1. /\ TypeOK /\ Hit /\ ptr = first /\ ~stale /\ Free(heap, ptr, FALSE)
      /\ first' = (IF last = ptr THEN NULL ELSE heap[ptr].next)
      /\ last' = (IF last = ptr THEN NULL ELSE last)
      /\ live' = live \ {ptr} /\ count' = count - 1
      /\ pc' = pc /\ ptr' = ptr /\ search' = search /\ book' = book
  BY <1>0, DeleteFirstFields, Zenon DEF ListInv
<1>2. PICK s \in Seq(Cells) : \E j \in 1 .. Len(s) :
          /\ Whole(s) /\ ptr = s[j] /\ heap[ptr].name = search /\ pc = "delete"
          /\ book = Sieve(Labels(s), Names \ {search})[Len(s)]
          /\ \A i \in 1 .. j - 1 : heap[s[i]].name # search
  BY <1>1, HitListed
<1>3. /\ Len(s) \in Nat /\ 1 \in 1 .. Len(s) /\ ptr = s[1]
      /\ Whole(s) /\ heap[ptr].name = search /\ pc = "delete"
      /\ book = Sieve(Labels(s), Names \ {search})[Len(s)]
  <2>1. Whole(s) /\ 1 \in 1 .. Len(s)
    BY <1>2
  <2> QED
    BY <1>1, <1>2, <2>1, WholeFacts
<1>4. PICK t \in Seq(Cells) : t = Cut(s, 1)
  BY <1>3, CutTyped
<1>5. /\ Len(t) \in Nat /\ Len(t) = Len(s) - 1
      /\ \A i \in 1 .. Len(t) : i + 1 \in 1 .. Len(s) /\ t[i] = s[i + 1]
      /\ \A k \in 1 .. Len(s) : Node(t, k) = Node(s, k + 1)
  <2>1. \A i \in 1 .. Len(t) : i >= 1
    BY <1>3, <1>4
  <2>2. \A k \in 1 .. Len(s) : k >= 1
    BY <1>3
  <2> QED
    BY <1>3, <1>4, <2>1, <2>2, CutFacts
<1>6. /\ \A i \in 1 .. Len(s) : /\ s[i] \in Cells /\ heap[s[i]].next = Node(s, i + 1)
                                /\ i > 1 => heap[s[i]].prev = s[i - 1]
      /\ \A i, k \in 1 .. Len(s) : s[i] = s[k] => i = k
      /\ last = s[Len(s)]
  BY <1>1, <1>3, WholeFacts
<1>7. \A c \in Cells : /\ c # ptr => heap'[c].name = heap[c].name /\ heap'[c].prev = heap[c].prev
                       /\ heap'[c].next = heap[c].next
  BY DeleteFirstFields
<1>8. ASSUME NEW i \in 1 .. Len(t)
      PROVE  /\ heap'[t[i]].next = Node(t, i + 1)
             /\ i > 1 => heap'[t[i]].prev = t[i - 1]
  <2>1. /\ i + 1 \in 1 .. Len(s) /\ t[i] = s[i + 1] /\ t[i] \in Cells /\ t[i] # ptr
        /\ (i + 1) - 1 = i /\ i + 1 > 1
    BY <1>3, <1>5, <1>6
  <2>2. heap'[t[i]].next = Node(s, (i + 1) + 1) /\ heap'[t[i]].prev = s[i]
    BY <1>6, <1>7, <2>1
  <2>3. Node(t, i + 1) = Node(s, (i + 1) + 1)
    BY <1>5, <2>1
  <2>4. i > 1 => t[i - 1] = s[i]
    <3> SUFFICES ASSUME i > 1 PROVE t[i - 1] = s[i]
      OBVIOUS
    <3>1. i - 1 \in 1 .. Len(t) /\ (i - 1) + 1 = i
      BY <1>5
    <3> QED
      BY <1>5, <3>1
  <2> QED
    BY <2>2, <2>3, <2>4
<1>9. heap[ptr].next = Node(t, 1)
  BY <1>3, <1>5, <1>6
<1>10. first' = Node(t, 1) /\ last' = (IF Len(t) = 0 THEN NULL ELSE t[Len(t)])
  <2>1. CASE Len(s) = 1
    BY <1>1, <1>3, <1>5, <1>6, <2>1 DEF Node
  <2>2. CASE Len(s) # 1
    <3>1. last # ptr /\ Len(t) # 0 /\ Len(t) \in 1 .. Len(t) /\ t[Len(t)] = s[Len(s)]
      BY <1>3, <1>5, <1>6, <2>2
    <3> QED
      BY <1>1, <1>6, <1>9, <3>1
  <2> QED
    BY <2>1, <2>2
<1>11. LooksAt(t, 1)'
  <2>1. ptr \in live /\ FreeLists /\ heap \in Heaps
    BY <1>1, HitListed, ListTypes DEF ListInv, Sound
  <2>2. heap'[ptr].name = Garbage \/ Full'
    BY <1>1, <2>1, FreeSound
  <2>3. heap'[ptr].prev = Wild
    BY DeleteFirstFields
  <2>4. Freed(ptr)'
    BY <1>1, <1>3, <1>6, <2>2, <2>3 DEF Freed
  <2> QED
    BY <1>1, <1>3, <1>6, <1>7, <1>9, <2>4 DEF LooksAt, Node
<1>12. \A i \in 1 .. 1 - 1 : heap[s[i]].name # search
  OBVIOUS
<1>13. Stands(t)'
  BY <1>1, <1>3, <1>4, <1>7, <1>8, <1>10, <1>11, <1>12, CutLists
<1> QED
  BY <1>13

LEMMA DeleteLastLists == ListInv /\ DeleteLast => ListOK'
<1> SUFFICES ASSUME ListInv, DeleteLast, ~stale' PROVE \E s \in Seq(Cells) : Stands(s)'
  BY DEF ListOK, Standing, DeleteLast, Hit
<1>1. /\ TypeOK /\ Hit /\ Neighbours(ptr) /\ ptr # first /\ ptr = last /\ ~stale
      /\ live' = live \ {ptr} /\ count' = count - 1
      /\ first' = first /\ last' = heap[ptr].prev /\ ptr' = heap'[ptr].next
      /\ pc' = pc /\ search' = search /\ book' = book
      /\ \A c \in Cells : /\ c # ptr => heap'[c].name = heap[c].name /\ heap'[c].prev = heap[c].prev
                          /\ heap'[c].next = IF c = heap[ptr].prev THEN NULL ELSE heap[c].next
  BY DeleteLastFields DEF ListInv
<1>0. PICK s \in Seq(Cells) : \E j \in 1 .. Len(s) :
          /\ Whole(s) /\ ptr = s[j] /\ heap[ptr].name = search /\ pc = "delete"
          /\ book = Sieve(Labels(s), Names \ {search})[Len(s)]
          /\ \A i \in 1 .. j - 1 : heap[s[i]].name # search
  BY <1>1, HitListed
<1>2. PICK j \in 1 .. Len(s) :
          /\ Whole(s) /\ ptr = s[j] /\ heap[ptr].name = search /\ pc = "delete"
          /\ book = Sieve(Labels(s), Names \ {search})[Len(s)]
          /\ \A i \in 1 .. j - 1 : heap[s[i]].name # search
  BY <1>0
<1>3. /\ Len(s) \in Nat /\ first = Node(s, 1) /\ last = s[Len(s)]
      /\ \A i \in 1 .. Len(s) : /\ s[i] \in Cells /\ heap[s[i]].next = Node(s, i + 1)
                                /\ i > 1 => heap[s[i]].prev = s[i - 1]
      /\ \A i, k \in 1 .. Len(s) : s[i] = s[k] => i = k
      /\ \A i \in 1 .. Len(s) : Node(s, i) = s[i]
      /\ Node(s, Len(s) + 1) = NULL
  BY <1>1, <1>2, WholeFacts
<1>4. j = Len(s) /\ j > 1 /\ j - 1 \in 1 .. Len(s)
  <2>1. Len(s) \in 1 .. Len(s) /\ 1 \in 1 .. Len(s)
    BY <1>2, <1>3
  <2>2. j = Len(s)
    <3>1. s[j] = s[Len(s)]
      BY <1>1, <1>2, <1>3
    <3> QED
      BY <1>3, <2>1, <3>1
  <2>3. j # 1
    BY <1>1, <1>2, <1>3
  <2> QED
    BY <1>3, <2>1, <2>2, <2>3
<1>5. heap[ptr].prev = s[j - 1] /\ s[j - 1] \in Cells /\ s[j - 1] # ptr /\ heap[ptr].next = NULL
  BY <1>2, <1>3, <1>4
<1>6. PICK t \in Seq(Cells) : t = Cut(s, j)
  BY <1>2, CutTyped
<1>7. /\ Len(t) \in Nat /\ Len(t) = j - 1
      /\ \A i \in 1 .. Len(t) : i \in 1 .. Len(s) /\ i < j /\ t[i] = s[i]
      /\ \A k \in 1 .. Len(s) : k < j => Node(t, k) = s[k]
      /\ Node(t, j) = NULL
  <2>1. \A i \in 1 .. Len(s) - 1 : i < j
    BY <1>3, <1>4
  <2> QED
    BY <1>2, <1>3, <1>4, <1>6, <2>1, CutFacts
<1>8. ASSUME NEW i \in 1 .. Len(t)
      PROVE  /\ heap'[t[i]].next = Node(t, i + 1)
             /\ i > 1 => heap'[t[i]].prev = t[i - 1]
  <2>1. i \in 1 .. Len(s) /\ t[i] = s[i] /\ s[i] \in Cells /\ i < j /\ s[i] # ptr
    BY <1>2, <1>3, <1>7
  <2>2. i > 1 => heap'[t[i]].prev = t[i - 1]
    <3> SUFFICES ASSUME i > 1 PROVE heap'[t[i]].prev = t[i - 1]
      OBVIOUS
    <3>1. i - 1 \in 1 .. Len(t)
      BY <1>7
    <3>2. heap'[s[i]].prev = heap[s[i]].prev
      BY <1>1, <2>1
    <3>3. heap[s[i]].prev = s[i - 1]
      BY <1>3, <2>1
    <3>4. t[i - 1] = s[i - 1]
      BY <1>7, <3>1
    <3> QED
      BY <2>1, <3>2, <3>3, <3>4
  <2>3. CASE i = j - 1
    <3>1. heap'[t[i]].next = NULL /\ i + 1 = j
      BY <1>1, <1>4, <1>5, <2>1, <2>3
    <3> QED
      BY <1>7, <2>2, <3>1
  <2>4. CASE i # j - 1
    <3>1. i + 1 \in 1 .. Len(s) /\ i + 1 < j /\ s[i] # s[j - 1]
      BY <1>3, <1>4, <2>1, <2>4
    <3>2. heap'[t[i]].next = s[i + 1]
      <4>1. heap'[s[i]].next = heap[s[i]].next
        BY <1>1, <1>5, <2>1, <3>1
      <4>2. heap[s[i]].next = s[i + 1]
        BY <1>3, <2>1, <3>1
      <4> QED
        BY <2>1, <4>1, <4>2
    <3> QED
      BY <1>7, <2>2, <3>1, <3>2
  <2> QED
    BY <2>3, <2>4
<1>9. first' = Node(t, 1) /\ last' = (IF Len(t) = 0 THEN NULL ELSE t[Len(t)])
  <2>1. 1 \in 1 .. Len(s) /\ Len(t) # 0 /\ Len(t) \in 1 .. Len(t) /\ Len(t) = j - 1
    BY <1>4, <1>7
  <2>2. t[Len(t)] = s[j - 1] /\ Node(t, 1) = s[1] /\ Node(s, 1) = s[1]
    BY <1>3, <1>4, <1>7, <2>1
  <2> QED
    BY <1>1, <1>3, <1>5, <2>1, <2>2
<1>10. LooksAt(t, j)'
  <2>1. ptr' = NULL
    BY <1>1, <1>2, <1>3, <1>5
  <2> QED
    BY <1>7, <2>1 DEF LooksAt, Node
<1>11. \A c \in Cells : c # ptr => heap'[c].name = heap[c].name
  BY <1>1
<1>12. Stands(t)'
  BY <1>1, <1>2, <1>6, <1>8, <1>9, <1>10, <1>11, CutLists
<1> QED
  BY <1>12

LEMMA DeleteMiddleLists == ListInv /\ DeleteMiddle => ListOK'
<1> SUFFICES ASSUME ListInv, DeleteMiddle, ~stale' PROVE \E s \in Seq(Cells) : Stands(s)'
  BY DEF ListOK, Standing, DeleteMiddle, Hit
<1>1. /\ TypeOK /\ Hit /\ Neighbours(ptr) /\ ptr # first /\ ptr # last /\ ~stale
      /\ live' = live \ {ptr} /\ count' = count - 1
      /\ first' = first /\ last' = last /\ ptr' = heap'[ptr].next
      /\ pc' = pc /\ search' = search /\ book' = book
      /\ \A c \in Cells :
             /\ c # ptr => /\ heap'[c].name = heap[c].name
                           /\ heap'[c].prev = IF c = heap[ptr].next THEN heap[ptr].prev ELSE heap[c].prev
             /\ heap'[c].next = IF c = heap[ptr].prev THEN heap[ptr].next ELSE heap[c].next
  BY DeleteMiddleFields DEF ListInv
<1>0. PICK s \in Seq(Cells) : \E j \in 1 .. Len(s) :
          /\ Whole(s) /\ ptr = s[j] /\ heap[ptr].name = search /\ pc = "delete"
          /\ book = Sieve(Labels(s), Names \ {search})[Len(s)]
          /\ \A i \in 1 .. j - 1 : heap[s[i]].name # search
  BY <1>1, HitListed
<1>2. PICK j \in 1 .. Len(s) :
          /\ Whole(s) /\ ptr = s[j] /\ heap[ptr].name = search /\ pc = "delete"
          /\ book = Sieve(Labels(s), Names \ {search})[Len(s)]
          /\ \A i \in 1 .. j - 1 : heap[s[i]].name # search
  BY <1>0
<1>3. /\ Len(s) \in Nat /\ first = Node(s, 1) /\ last = s[Len(s)]
      /\ \A i \in 1 .. Len(s) : /\ s[i] \in Cells /\ heap[s[i]].next = Node(s, i + 1)
                                /\ i > 1 => heap[s[i]].prev = s[i - 1]
      /\ \A i, k \in 1 .. Len(s) : s[i] = s[k] => i = k
      /\ \A i \in 1 .. Len(s) : Node(s, i) = s[i]
  BY <1>1, <1>2, WholeFacts
<1>4. j # 1 /\ j # Len(s) /\ j - 1 \in 1 .. Len(s) /\ j + 1 \in 1 .. Len(s)
  <2>1. j # 1 /\ j # Len(s)
    BY <1>1, <1>2, <1>3
  <2> QED
    BY <1>3, <2>1
<1>5. heap[ptr].prev = s[j - 1] /\ heap[ptr].next = s[j + 1]
  BY <1>2, <1>3, <1>4
<1>6. PICK t \in Seq(Cells) : t = Cut(s, j)
  BY <1>2, CutTyped
<1>7. /\ Len(t) \in Nat /\ Len(t) = Len(s) - 1
      /\ \A i \in 1 .. Len(t) : /\ i \in 1 .. Len(s) /\ i + 1 \in 1 .. Len(s)
                                /\ i < j => t[i] = s[i]
                                /\ i >= j => t[i] = s[i + 1]
      /\ \A k \in 1 .. Len(s) : /\ k < j => Node(t, k) = s[k]
                                /\ k >= j => Node(t, k) = Node(s, k + 1)
  <2>1. j \in 1 .. Len(s)
    BY <1>2
  <2> QED
    BY <1>6, <2>1, CutFacts
<1>8. \A i \in 1 .. Len(s) : i # j =>
          /\ i > 1 => heap'[s[i]].prev = IF i = j + 1 THEN s[j - 1] ELSE s[i - 1]
          /\ heap'[s[i]].next = IF i = j - 1 THEN s[j + 1] ELSE Node(s, i + 1)
  <2> SUFFICES ASSUME NEW i \in 1 .. Len(s), i # j
               PROVE  /\ i > 1 => heap'[s[i]].prev = IF i = j + 1 THEN s[j - 1] ELSE s[i - 1]
                      /\ heap'[s[i]].next = IF i = j - 1 THEN s[j + 1] ELSE Node(s, i + 1)
    OBVIOUS
  <2>1. /\ s[i] \in Cells /\ s[i] # ptr /\ heap[s[i]].next = Node(s, i + 1)
        /\ i > 1 => heap[s[i]].prev = s[i - 1]
    BY <1>2, <1>3
  <2>2. (s[i] = s[j + 1] <=> i = j + 1) /\ (s[i] = s[j - 1] <=> i = j - 1)
    BY <1>3, <1>4
  <2>3. /\ heap'[s[i]].prev = IF i = j + 1 THEN s[j - 1] ELSE heap[s[i]].prev
        /\ heap'[s[i]].next = IF i = j - 1 THEN s[j + 1] ELSE heap[s[i]].next
    BY <1>1, <1>5, <2>1, <2>2
  <2> QED
    BY <2>1, <2>3
<1>9. ASSUME NEW i \in 1 .. Len(t)
      PROVE  /\ heap'[t[i]].next = Node(t, i + 1)
             /\ i > 1 => heap'[t[i]].prev = t[i - 1]
  <2>1. i \in 1 .. Len(s) /\ i + 1 \in 1 .. Len(s) /\ (i > 1 => i - 1 \in 1 .. Len(t)) /\ j \in Int
    BY <1>7
  <2>2. CASE i < j - 1
    <3>1. t[i] = s[i] /\ Node(t, i + 1) = s[i + 1] /\ (i > 1 => t[i - 1] = s[i - 1])
      BY <1>7, <2>1, <2>2
    <3>2. heap'[s[i]].next = s[i + 1] /\ (i > 1 => heap'[s[i]].prev = s[i - 1])
      BY <1>3, <1>8, <2>1, <2>2
    <3> QED
      BY <3>1, <3>2
  <2>3. CASE i = j - 1
    <3>1. t[i] = s[i] /\ Node(t, i + 1) = Node(s, j + 1) /\ (i > 1 => t[i - 1] = s[i - 1])
      BY <1>7, <2>1, <2>3
    <3>2. i # j /\ i # j + 1
      BY <2>1, <2>3
    <3>3. heap'[s[i]].next = s[j + 1] /\ (i > 1 => heap'[s[i]].prev = s[i - 1])
      BY <1>8, <2>1, <2>3, <3>2
    <3> QED
      BY <1>3, <1>4, <3>1, <3>3
  <2>4. CASE i = j
    <3>1. t[i] = s[j + 1] /\ Node(t, i + 1) = Node(s, (j + 1) + 1) /\ t[i - 1] = s[j - 1]
      BY <1>4, <1>7, <2>1, <2>4
    <3>2. heap'[s[j + 1]].next = Node(s, (j + 1) + 1) /\ heap'[s[j + 1]].prev = s[j - 1]
      BY <1>4, <1>8
    <3> QED
      BY <3>1, <3>2
  <2>5. CASE i > j
    <3>1. t[i] = s[i + 1] /\ Node(t, i + 1) = Node(s, (i + 1) + 1) /\ t[i - 1] = s[i]
      BY <1>7, <2>1, <2>5
    <3>2. (i + 1) # j /\ (i + 1) # j + 1 /\ (i + 1) # j - 1 /\ i + 1 > 1 /\ (i + 1) - 1 = i
      BY <2>1, <2>5
    <3>3. heap'[s[i + 1]].next = Node(s, (i + 1) + 1) /\ heap'[s[i + 1]].prev = s[i]
      BY <1>8, <2>1, <3>2
    <3> QED
      BY <3>1, <3>3
  <2> QED
    BY <2>1, <2>2, <2>3, <2>4, <2>5
<1>10. first' = Node(t, 1) /\ last' = (IF Len(t) = 0 THEN NULL ELSE t[Len(t)])
  <2>1. 1 \in 1 .. Len(s) /\ 1 < j /\ Len(t) # 0 /\ Len(t) \in 1 .. Len(t) /\ Len(t) >= j /\ Len(t) + 1 = Len(s)
    BY <1>3, <1>4, <1>7
  <2>2. t[Len(t)] = s[Len(s)] /\ Node(t, 1) = s[1] /\ Node(s, 1) = s[1]
    BY <1>3, <1>7, <2>1
  <2> QED
    BY <1>1, <1>3, <2>1, <2>2
<1>11. LooksAt(t, j)'
  <2>1. ptr # s[j - 1] /\ ptr \in Cells
    BY <1>2, <1>3, <1>4
  <2>2. ptr' = s[j + 1]
    BY <1>1, <1>5, <2>1
  <2>3. Node(t, j) = s[j + 1]
    BY <1>2, <1>3, <1>4, <1>7
  <2> QED
    BY <2>2, <2>3 DEF LooksAt, Node
<1>12. \A c \in Cells : c # ptr => heap'[c].name = heap[c].name
  BY <1>1
<1>13. Stands(t)'
  BY <1>1, <1>2, <1>6, <1>9, <1>10, <1>11, <1>12, CutLists
<1> QED
  BY <1>13

-----------------------------------------------------------------------------
(* Searching, printing and freeing.                                         *)

LEMMA StartShowLists ==
    ASSUME ListInv, NEW what \in Names \cup {All}, StartShow(what)
    PROVE  ListOK'
<1> SUFFICES ASSUME ~stale' PROVE \E s \in Seq(Cells) : Stands(s)'
  BY DEF ListOK, Standing, StartShow, Choose
<1>1. /\ TypeOK /\ ~stale /\ pc = "menu" /\ pc' = "show" /\ ptr' = first /\ shown' = <<>>
      /\ book' = book /\ heap' = heap /\ live' = live /\ infoVars' = infoVars
  BY DEF StartShow, Choose, ListInv, memory
<1>2. PICK s \in Seq(Cells) : Stands(s)
  BY <1>1 DEF ListInv, ListOK, Standing
<1>3. Whole(s) /\ Says(s)
  BY <1>1, <1>2 DEF Stands
<1>4. Whole(s)' /\ Says(s)'
  BY <1>1, <1>3, WholeKept DEF Says
<1>5. ShowsOf(s)'
  <2>1. Len(book) \in Nat /\ Len(s) \in Nat /\ ptr' = Node(s, 1)
    BY <1>1, <1>3, ListTypes, WholeFacts
  <2>2. Sieve(book, Wanted')[1 - 1] = <<>>
    BY <2>1, SieveSteps
  <2> QED
    BY <1>1, <2>1, <2>2 DEF ShowsOf, Node
<1> QED
  BY <1>1, <1>4, <1>5 DEF Stands, AddsTo, DeletesFrom

LEMMA ShowLists == ListInv /\ Show => ListOK'
<1> SUFFICES ASSUME ListInv, Show, ~stale' PROVE \E s \in Seq(Cells) : Stands(s)'
  BY DEF ListOK, Standing, Show
<1>1. /\ TypeOK /\ ~stale /\ pc = "show" /\ pc' = pc /\ ptr \in Cells /\ ptr' = heap[ptr].next
      /\ shown' = (IF Matches(ptr) THEN Append(shown, heap[ptr].name) ELSE shown)
      /\ search' = search /\ book' = book /\ heap' = heap /\ live' = live /\ infoVars' = infoVars
  BY ShowFields DEF ListInv, memory
<1>2. PICK s \in Seq(Cells) : Stands(s)
  BY <1>1 DEF ListInv, ListOK, Standing
<1>3. /\ Whole(s) /\ Says(s)
      /\ \E j \in 1 .. Len(s) + 1 : ptr = Node(s, j) /\ shown = Sieve(book, Wanted)[j - 1]
  BY <1>1, <1>2 DEF Stands, ShowsOf
<1>4. PICK j \in 1 .. Len(s) + 1 : ptr = Node(s, j) /\ shown = Sieve(book, Wanted)[j - 1]
  BY <1>3
<1>5. /\ j \in 1 .. Len(s) /\ ptr = s[j] /\ heap[ptr].name \in Names /\ heap[ptr].name = book[j]
      /\ Len(book) = Len(s) /\ Len(s) \in Nat /\ ptr' = Node(s, j + 1)
  <2>0. ptr # NULL
    BY <1>1, ListTypes
  <2>1. j \in 1 .. Len(s) /\ ptr = s[j] /\ Len(s) \in Nat
    BY <1>4, <2>0 DEF Node
  <2> QED
    BY <1>1, <1>3, <2>1, WholeFacts DEF Says
<1>6. Matches(ptr) <=> book[j] \in Wanted
  BY <1>1, <1>5, ListTypes DEF Matches, Wanted
<1>7. shown' = Sieve(book, Wanted)[j]
  <2>1. Sieve(book, Wanted)[j] =
            IF book[j] \in Wanted THEN Append(Sieve(book, Wanted)[j - 1], book[j])
            ELSE Sieve(book, Wanted)[j - 1]
    BY <1>5, SieveSteps
  <2> QED
    BY <1>1, <1>4, <1>5, <1>6, <2>1
<1>8. Whole(s)' /\ Says(s)'
  BY <1>1, <1>3, WholeKept DEF Says
<1>9. ShowsOf(s)'
  <2>1. Wanted' = Wanted
    BY <1>1 DEF Wanted
  <2>2. j + 1 \in 1 .. Len(s) + 1 /\ (j + 1) - 1 = j
    BY <1>5
  <2> QED
    BY <1>1, <1>5, <1>7, <2>1, <2>2 DEF ShowsOf, Node
<1> QED
  BY <1>1, <1>8, <1>9 DEF Stands, AddsTo, DeletesFrom

LEMMA ShowEndsLists == ListInv /\ LoopEnds("show") => ListOK'
<1> SUFFICES ASSUME ListInv, LoopEnds("show"), ~stale' PROVE \E s \in Seq(Cells) : Stands(s)'
  BY DEF ListOK, Standing, LoopEnds
<1>1. /\ TypeOK /\ ~stale /\ pc = "show" /\ pc' = "menu"
      /\ book' = book /\ heap' = heap /\ live' = live /\ infoVars' = infoVars
  BY DEF LoopEnds, ListInv, memory
<1>2. PICK s \in Seq(Cells) : Stands(s)
  BY <1>1 DEF ListInv, ListOK, Standing
<1>3. Whole(s) /\ Says(s)
  BY <1>1, <1>2 DEF Stands
<1>4. Whole(s)' /\ Says(s)'
  BY <1>1, <1>3, WholeKept DEF Says
<1> QED
  BY <1>1, <1>4 DEF Stands, AddsTo, ShowsOf, DeletesFrom

LEMMA ExitLists == ListInv /\ Exit => ListOK'
<1> SUFFICES ASSUME ListInv, Exit, ~stale' PROVE \E s \in Seq(Cells) : \E j \in 1 .. Len(s) + 1 : Rest(s, j)'
  BY DEF ListOK, Standing, Exit, Choose
<1>1. /\ TypeOK /\ ~stale /\ pc = "menu" /\ pc' = "free" /\ ptr' = first
      /\ heap' = heap /\ live' = live
  BY DEF Exit, Choose, FreeFrom, ListInv, memory
<1>2. PICK s \in Seq(Cells) : Stands(s)
  BY <1>1 DEF ListInv, ListOK, Standing
<1>3. Whole(s)
  BY <1>2 DEF Stands
<1>4. Rest(s, 1)' /\ 1 \in 1 .. Len(s) + 1
  BY <1>1, <1>3, WholeFacts DEF Rest, Node
<1> QED
  BY <1>4

LEMMA FreeNextLists == ListInv /\ FreeNext => ListOK'
<1> SUFFICES ASSUME ListInv, FreeNext, ~stale' PROVE \E s \in Seq(Cells) : \E j \in 1 .. Len(s) + 1 : Rest(s, j)'
  BY DEF ListOK, Standing, FreeNext
<1>1. /\ TypeOK /\ ~stale /\ pc = "free" /\ ptr # NULL /\ ptr' = heap[ptr].next
      /\ Free(heap, ptr, FALSE)
  BY DEF FreeNext, ListInv
<1>2. live' = live \ {ptr} /\ \A c \in Cells : heap'[c].next = heap[c].next
  BY <1>1, ListTypes, FreeFields
<1>3. PICK s \in Seq(Cells) : \E j \in 1 .. Len(s) + 1 : Rest(s, j)
  BY <1>1 DEF ListInv, ListOK
<1>4. PICK j \in 1 .. Len(s) + 1 : Rest(s, j)
  BY <1>3
<1>5. Len(s) \in Nat /\ (\A i \in 1 .. Len(s) : s[i] \in Cells)
  BY <1>1, ListTypes
<1>6. /\ ptr = Node(s, j)
      /\ \A i, k \in 1 .. Len(s) : s[i] = s[k] => i = k
      /\ \A i \in j .. Len(s) : s[i] \in live /\ heap[s[i]].next = Node(s, i + 1)
      /\ \A c \in live : c = Mine \/ \E i \in j .. Len(s) : s[i] = c
  BY <1>4 DEF Rest
<1>7. j \in 1 .. Len(s) /\ ptr = s[j]
  BY <1>1, <1>5, <1>6 DEF Node
<1>8. ptr' = Node(s, j + 1) /\ j + 1 \in 1 .. Len(s) + 1
  BY <1>1, <1>5, <1>6, <1>7
<1>9. ASSUME NEW i \in j + 1 .. Len(s) PROVE s[i] \in live' /\ heap'[s[i]].next = Node(s, i + 1)
  <2>1. i \in j .. Len(s) /\ i \in 1 .. Len(s) /\ i # j
    BY <1>5, <1>7
  <2> QED
    BY <1>2, <1>5, <1>6, <1>7, <2>1
<1>10. ASSUME NEW c \in live' PROVE c = Mine \/ \E i \in j + 1 .. Len(s) : s[i] = c
  <2>1. c # ptr /\ (c = Mine \/ \E i \in j .. Len(s) : s[i] = c)
    BY <1>2, <1>6
  <2> QED
    BY <1>5, <1>7, <2>1
<1>11. Rest(s, j + 1)'
  BY <1>6, <1>8, <1>9, <1>10 DEF Rest, Node
<1> QED
  BY <1>8, <1>11

LEMMA FreeEndsLists == ListInv /\ (Close \/ FreeTwice) => ListOK'
<1> SUFFICES ASSUME ListInv, Close \/ FreeTwice, ~stale'
             PROVE  pc' = "closed" /\ live' \subseteq {Mine}
  BY DEF ListOK, Standing
<1>1. TypeOK /\ ~stale /\ pc = "free" /\ live' = live
  <2>1. CASE Close
    BY <2>1 DEF Close, Ended, ListInv, memory
  <2>2. CASE FreeTwice
    BY <2>2 DEF FreeTwice, Ended, ListInv, memory
  <2> QED
    BY <2>1, <2>2
<1>2. PICK s \in Seq(Cells) : \E j \in 1 .. Len(s) + 1 : Rest(s, j)
  BY <1>1 DEF ListInv, ListOK
<1>3. PICK j \in 1 .. Len(s) + 1 : Rest(s, j)
  BY <1>2
<1>4. Len(s) \in Nat /\ (\A i \in 1 .. Len(s) : s[i] \in Cells) /\ NULL \notin live /\ NULL \notin Cells
  BY <1>1, ListTypes
<1>5. /\ ptr = Node(s, j)
      /\ \A i \in j .. Len(s) : s[i] \in live
      /\ \A c \in live : c = Mine \/ \E i \in j .. Len(s) : s[i] = c
  BY <1>3 DEF Rest
<1>6. ~FreeTwice
  <2>0. FreeLists
    BY <1>1 DEF ListInv, Sound
  <2> SUFFICES ASSUME ptr # NULL PROVE ptr \in live
    BY <1>1, <2>0, NotCaught DEF FreeTwice
  <2>1. j \in j .. Len(s) /\ ptr = s[j]
    BY <1>4, <1>5 DEF Node
  <2> QED
    BY <1>5, <2>1
<1>7. ptr = NULL /\ pc' = "closed"
  BY <1>6 DEF Close, Ended
<1>8. j = Len(s) + 1
  BY <1>4, <1>5, <1>7 DEF Node
<1> QED
  BY <1>1, <1>4, <1>5, <1>7, <1>8

LEMMA AbortsList ==
    ListInv /\ (Abort \/ OutOfMemory \/ DoubleFree \/ Crash \/ UNCHANGED vars) => ListOK'
<1> SUFFICES ASSUME ListInv, Abort \/ OutOfMemory \/ DoubleFree \/ Crash \/ UNCHANGED vars PROVE ListOK'
  OBVIOUS
<1>0. TypeOK /\ Sound
  BY DEF ListInv
<1>1. CASE Abort
  BY <1>1 DEF Abort, Ended, ListOK, Standing
<1>2. CASE OutOfMemory
  BY <1>2 DEF OutOfMemory, Ended, ListOK, Standing
<1>3. CASE DoubleFree
  <2>1. stale' = stale /\ pc' = "double free" /\ Hit /\ (ptr = first \/ Neighbours(ptr)) /\ Caught(ptr)
    BY <1>3 DEF DoubleFree, Ended
  <2>2. stale
    BY <1>0, <2>1, HitListed, NotCaught DEF Sound
  <2> QED
    BY <2>1, <2>2 DEF ListOK
<1>5. CASE Crash
  <2>1. /\ stale' = stale /\ pc' = "crash" /\ tcache' = tcache /\ ruined' = ruined
        /\ (Hit /\ ptr # first /\ ~Neighbours(ptr)) \/ Damaged
    BY <1>5 DEF Crash, Ended, memory
  <2>2. ASSUME ~stale PROVE Full
    <3>1. Hit /\ ptr # first /\ ~Neighbours(ptr)
      BY <1>0, <2>1, <2>2 DEF Sound, FreeLists, Damaged
    <3>2. ptr \notin live
      BY <1>0, <2>2, <3>1, NeighboursLive, ListTypes DEF Neighbours
    <3> QED
      BY <2>2, <3>1, <3>2, HitFreed
  <2> QED
    BY <2>1, <2>2 DEF ListOK, Full, Damaged, Standing
<1>4. CASE UNCHANGED vars
  <2>1. /\ heap' = heap /\ live' = live /\ tcache' = tcache /\ ruined' = ruined
        /\ first' = first /\ last' = last /\ count' = count
        /\ pc' = pc /\ ptr' = ptr /\ search' = search /\ shown' = shown /\ book' = book /\ stale' = stale
    BY <1>4 DEF vars, infoVars, memory
  <2>2. ASSUME NEW s \in Seq(Cells) PROVE Stands(s)' <=> Stands(s)
    <3>1. Whole(s)' <=> Whole(s)
      BY <2>1 DEF Whole, IsList
    <3>2. Says(s)' <=> Says(s)
      BY <2>1 DEF Says
    <3>3. AddsTo(s)' <=> AddsTo(s)
      BY <2>1 DEF AddsTo
    <3>4. ShowsOf(s)' <=> ShowsOf(s)
      BY <2>1 DEF ShowsOf, Wanted, Node
    <3>5. DeletesFrom(s)' <=> DeletesFrom(s)
      BY <2>1 DEF DeletesFrom, DeletesAt, LooksAt, Freed, Full, Damaged, Labels, Node
    <3> QED
      BY <2>1, <3>1, <3>2, <3>3, <3>4, <3>5 DEF Stands
  <2>3. ASSUME NEW s \in Seq(Cells), NEW j \in 1 .. Len(s) + 1 PROVE Rest(s, j)' <=> Rest(s, j)
    BY <2>1 DEF Rest, Node
  <2>4. ListOK
    BY DEF ListInv
  <2> QED
    BY <2>1, <2>2, <2>3, <2>4 DEF ListOK, Standing, Full, Damaged
<1> QED
  BY <1>1, <1>2, <1>3, <1>4, <1>5

\* The free lists stay sound.
LEMMA SoundKept ==
    ASSUME Sound, stale => stale',
           live' = live, tcache' = tcache, fastbin' = fastbin, ruined' = ruined
    PROVE  Sound'
BY DEF Sound, FreeLists

LEMMA AddsSound ==
    ASSUME ListInv, NEW n \in Names, NEW c \in Cells, AddAtEnd(n, c)
    PROVE  Sound'
<1> SUFFICES ASSUME ~stale' PROVE FreeLists'
  BY DEF Sound
<1>1. TypeOK /\ FreeLists
  BY DEF AddAtEnd, ListInv, Sound
<1> QED
  BY <1>1, AddAtEndFields, MallocSound

LEMMA FreesSound == ListInv /\ (DeleteFirst \/ DeleteLast \/ DeleteMiddle \/ FreeNext) => Sound'
<1> SUFFICES ASSUME ListInv, DeleteFirst \/ DeleteLast \/ DeleteMiddle \/ FreeNext, ~stale'
             PROVE  FreeLists'
  BY DEF Sound
<1>1. TypeOK /\ heap \in Heaps
  BY ListTypes DEF ListInv
<1>2. CASE DeleteFirst
  <2>0. ~stale
    BY <1>2 DEF DeleteFirst
  <2>1. Hit /\ ptr = first /\ Free(heap, ptr, FALSE)
    BY <1>2, DeleteFirstFields, Zenon
  <2>2. ptr \in live /\ FreeLists
    BY <2>0, <2>1, HitListed DEF ListInv, Sound
  <2> QED
    BY <1>1, <2>1, <2>2, FreeSound
<1>3. CASE DeleteLast
  <2> DEFINE h == CutAfter(heap[ptr].prev)
  <2>0. ~stale
    BY <1>3 DEF DeleteLast
  <2>1. Hit /\ Neighbours(ptr) /\ Free(h, ptr, FALSE) /\ h \in Heaps
    BY <1>3, DeleteLastFields, Zenon
  <2> HIDE DEF h
  <2>2. ptr \in live /\ FreeLists
    BY <2>0, <2>1, HitListed DEF ListInv, Sound
  <2> QED
    BY <1>1, <2>1, <2>2, FreeSound
<1>4. CASE DeleteMiddle
  <2> DEFINE h == Unlinked(heap[ptr].prev, heap[ptr].next)
             d == heap[ptr].next \notin live
  <2>1. ~stale /\ Hit /\ ptr # first /\ ptr # last /\ Neighbours(ptr) /\ Free(h, ptr, d) /\ h \in Heaps
    BY <1>4, DeleteMiddleFields
  <2>2. ~d
    BY <2>1, NeighboursLive
  <2> HIDE DEF h, d
  <2>3. ptr \in live /\ FreeLists
    BY <2>1, HitListed DEF ListInv, Sound
  <2> QED
    BY <1>1, <2>1, <2>2, <2>3, FreeSound
<1>5. CASE FreeNext
  <2>1. ~stale /\ pc = "free" /\ ptr # NULL /\ Free(heap, ptr, FALSE)
    BY <1>5 DEF FreeNext
  <2>2. PICK s \in Seq(Cells) : \E j \in 1 .. Len(s) + 1 : Rest(s, j)
    BY <2>1 DEF ListInv, ListOK
  <2>3. PICK j \in 1 .. Len(s) + 1 : Rest(s, j)
    BY <2>2
  <2>4. Len(s) \in Nat /\ ptr = Node(s, j) /\ \A i \in j .. Len(s) : s[i] \in live
    BY <2>3 DEF Rest
  <2>5. ptr \in live
    BY <2>1, <2>4 DEF Node
  <2> QED
    BY <1>1, <2>1, <2>5, FreeSound DEF ListInv, Sound
<1> QED
  BY <1>2, <1>3, <1>4, <1>5

LEMMA OthersSound ==
    ASSUME ListInv,
           \/ Readers \/ StartAdd \/ Show
           \/ \E n \in Names : AddFirst(n)
    PROVE  Sound'
<1>1. Sound
  BY DEF ListInv
<1>2. CASE \E n \in Names : AddFirst(n)
  BY <1>1, <1>2, SoundKept DEF AddFirst
<1>3. CASE Readers \/ StartAdd \/ Show
  <2>1. memory' = memory
    BY <1>3 DEF Readers, StartAdd, Show, Abort, SeekEnd, OutOfMemory, StartDelete, DoubleFree, Crash,
                Pass, StartShow, LoopEnds, Exit, FreeTwice, Close, Ended, vars
  <2>2. Readers \/ Show => stale' = stale
    BY DEF Readers, Show, Abort, SeekEnd, OutOfMemory, StartDelete, DoubleFree, Crash,
           Pass, StartShow, LoopEnds, Exit, FreeTwice, Close, Ended, vars
  <2>3. StartAdd => (stale => stale')
    BY Zenon DEF StartAdd
  <2> QED
    BY <1>1, <1>3, <2>1, <2>2, <2>3, SoundKept DEF memory
<1> QED
  BY <1>2, <1>3

LEMMA ListSteps == ListInv /\ [Next]_vars => ListInv'
<1> SUFFICES ASSUME ListInv, [Next]_vars PROVE (TypeOK' /\ Fits') /\ ListOK' /\ Sound'
  BY DEF ListInv
<1>1. ASSUME NEW n \in Names, AddFirst(n) PROVE (TypeOK' /\ Fits') /\ ListOK' /\ Sound'
  BY <1>1, AddFirstTyped, AddFirstLists, OthersSound
<1>2. ASSUME NEW n \in Names, NEW c \in Cells, AddAtEnd(n, c) PROVE (TypeOK' /\ Fits') /\ ListOK' /\ Sound'
  BY <1>2, AddAtEndTyped, AddAtEndLists, AddsSound
<1>3. ASSUME NEW n \in Names, StartDelete(n) PROVE (TypeOK' /\ Fits') /\ ListOK' /\ Sound'
  BY <1>3, ReadersTyped, StartDeleteLists, OthersSound DEF Readers
<1>4. ASSUME NEW what \in Names \cup {All}, StartShow(what) PROVE (TypeOK' /\ Fits') /\ ListOK' /\ Sound'
  BY <1>4, ReadersTyped, StartShowLists, OthersSound DEF Readers
<1>5. CASE StartAdd
  BY <1>5, StartAddTyped, StartAddLists, OthersSound
<1>6. CASE SeekEnd
  BY <1>6, ReadersTyped, SeekEndLists, OthersSound DEF Readers
<1>7. CASE DeleteFirst
  BY <1>7, DeletesTyped, DeleteFirstLists, FreesSound
<1>8. CASE DeleteLast
  BY <1>8, DeletesTyped, DeleteLastLists, FreesSound
<1>9. CASE DeleteMiddle
  BY <1>9, DeletesTyped, DeleteMiddleLists, FreesSound
<1>10. CASE Pass
  BY <1>10, ReadersTyped, PassLists, OthersSound DEF Readers
<1>11. CASE Show
  BY <1>11, ShowTyped, ShowLists, OthersSound
<1>12. CASE LoopEnds("delete")
  BY <1>12, ReadersTyped, DeleteEndsLists, OthersSound DEF Readers
<1>13. CASE LoopEnds("show")
  BY <1>13, ReadersTyped, ShowEndsLists, OthersSound DEF Readers
<1>14. CASE Exit
  BY <1>14, ReadersTyped, ExitLists, OthersSound DEF Readers
<1>15. CASE FreeNext
  BY <1>15, FreeNextTyped, FreeNextLists, FreesSound
<1>16. CASE Close \/ FreeTwice
  BY <1>16, ReadersTyped, FreeEndsLists, OthersSound DEF Readers
<1>17. CASE Abort \/ OutOfMemory \/ DoubleFree \/ Crash \/ UNCHANGED vars
  BY <1>17, ReadersTyped, AbortsList, OthersSound DEF Readers
<1> QED
  BY <1>1, <1>2, <1>3, <1>4, <1>5, <1>6, <1>7, <1>8, <1>9, <1>10, <1>11, <1>12, <1>13, <1>14, <1>15,
     <1>16, <1>17
  DEF Next, User, Loops

LEMMA ListInvariant == ProgramsSpec => []ListInv
<1>1. ProgramsInit => ListInv
  BY ListInit DEF ProgramsInit
<1>2. ListInv /\ [ProgramsNext]_programVars => ListInv'
  <2>1. [ProgramsNext]_programVars => [Next]_vars
    BY DEF ProgramsNext, InList, InArray, InShell, programVars
  <2> QED
    BY <2>1, ListSteps
<1> QED
  BY <1>1, <1>2, PTL DEF ProgramsSpec

\* Whatever records are added and deleted, on a heap of any size, the list is the
\* book the user typed, in memory and on the screen, as long as it does not depend on
\* freed memory (dinamic_mem_func.c:9-40, 55-84, 90-115).
THEOREM BookKept == ProgramsSpec => []KeepsBook
<1>1. ListInv => Linked
  <2> SUFFICES ASSUME ListInv, pc \in {"menu", "add", "show"}, ~stale
               PROVE  \E s \in [1 .. Len(book) -> Cells] :
                          IsList(s) /\ \A i \in 1 .. Len(book) : s[i] \in live /\ heap[s[i]].name = book[i]
    BY DEF Linked
  <2>1. PICK s \in Seq(Cells) : Stands(s)
    BY DEF ListInv, ListOK, Standing
  <2>2. Whole(s) /\ Says(s)
    BY <2>1 DEF Stands
  <2>3. s \in [1 .. Len(book) -> Cells]
    BY <2>2 DEF Says
  <2> QED
    BY <2>2, <2>3 DEF Whole, Says
<1>2. ListInv => ShowsBook
  <2> SUFFICES ASSUME ListInv, pc = "show", ptr = NULL, ~stale
               PROVE  shown = IF search = All THEN book ELSE Sieve(book, {search})[Len(book)]
    BY DEF ShowsBook
  <2>1. PICK s \in Seq(Cells) : Stands(s)
    BY DEF ListInv, ListOK, Standing
  <2>2. Whole(s) /\ Says(s) /\ \E j \in 1 .. Len(s) + 1 : ptr = Node(s, j) /\ shown = Sieve(book, Wanted)[j - 1]
    BY <2>1 DEF Stands, ShowsOf
  <2>3. PICK j \in 1 .. Len(s) + 1 : ptr = Node(s, j) /\ shown = Sieve(book, Wanted)[j - 1]
    BY <2>2
  <2>4. j = Len(s) + 1 /\ j - 1 = Len(book)
    <3>1. Len(s) \in Nat /\ \A i \in 1 .. Len(s) : Node(s, i) # NULL
      BY <2>2, WholeFacts DEF ListInv
    <3> QED
      BY <2>2, <2>3, <3>1 DEF Says
  <2>5. book \in Seq(Names)
    BY ListTypes DEF ListInv
  <2>6. CASE search = All
    <3>1. \A i \in 1 .. Len(book) : book[i] \in Names
      BY <2>5
    <3> QED
      BY <2>3, <2>4, <2>5, <2>6, <3>1, SieveAll DEF Wanted
  <2>7. CASE search # All
    BY <2>3, <2>4, <2>7 DEF Wanted
  <2> QED
    BY <2>6, <2>7
<1> QED
  BY <1>1, <1>2, ListInvariant, PTL DEF KeepsBook

\* Whatever is added and deleted, on a heap of any size and with a tcache of any, as
\* long as the list does not depend on freed memory: a record that is about to be
\* unlinked is allocated and so are its neighbours, nothing is freed twice and nothing
\* is left at the end; a freed record matches again, and the program crashes on it,
\* only when the tcache is full (dinamic_mem_func.c:55-86, 117-128).
THEOREM PointersHold == ProgramsSpec => []NoBadPointer
<1>1. ListInv => NoBadPointer
  <2> SUFFICES ASSUME ListInv, ~stale
               PROVE  /\ Hit /\ ptr \in live /\ ptr # first =>
                             {heap[ptr].prev} \cup (IF ptr = last THEN {} ELSE {heap[ptr].next}) \subseteq live
                      /\ (Hit /\ ptr \notin live) \/ pc = "crash" => Full
                      /\ pc # "double free"
                      /\ pc = "closed" => live \subseteq {Mine}
    BY DEF NoBadPointer
  <2>1. /\ pc # "double free" /\ (pc = "crash" => Full)
        /\ pc = "closed" => live \subseteq {Mine}
    BY DEF ListInv, ListOK
  <2>2. Hit /\ ptr \notin live => Full
    BY HitFreed
  <2>3. ASSUME Hit, ptr \in live, ptr # first
        PROVE  {heap[ptr].prev} \cup (IF ptr = last THEN {} ELSE {heap[ptr].next}) \subseteq live
    BY <2>3, NeighboursLive
  <2> QED
    BY <2>1, <2>2, <2>3
<1> QED
  BY <1>1, ListInvariant, PTL

\* The records that were filled at some time come first; what is behind them
\* is as main found it.
Filled == arrayCount + deletes - 1
FilledFirst ==
    \A i \in Array!Slots :
        /\ i < Filled => list[i] # Empty
        /\ i >= Filled => list[i] \in {Empty, Garbage}

\* What is on the screen was there to be shown.
ShownInLoop ==
    asked # Nothing =>
        {i \in Array!Slots : Array!InLoop(i) /\ list[i] \in Names /\ asked \in {All, list[i]}} \subseteq shownSlots

ArrayInv == Array!TypeOK /\ FilledFirst /\ ShownInLoop

\* What an add leaves: one more filled record, or a deleted one filled again.
LEMMA AddKeeps ==
    ASSUME ArrayInv,
           NEW n \in Array!Typed, NEW i \in Array!Slots, Array!Add(n, i)
    PROVE  ArrayInv' /\ (deletes > 0 => arrayCount' = arrayCount)
<1>1. /\ arrayCount < Size /\ i < arrayCount /\ Array!Vacant(i) /\ \A k \in Array!Slots : k < i => ~Array!Vacant(k)
      /\ list' = [list EXCEPT ![i] = n] /\ arrayCount' = Array!CountAfterAdd(i)
      /\ asked' = Nothing /\ shownSlots' = {} /\ deletes' = deletes
  BY DEF Array!Add, Array!IsFirst, Array!InLoop, Array!NothingShown
<1>2. /\ Size \in Nat /\ arrayCount \in Nat /\ deletes \in Nat /\ i \in Nat
      /\ list'[i] = n /\ n # Empty /\ n # Garbage
      /\ \A k \in Array!Slots : k # i => list'[k] = list[k]
  BY <1>1, ArrayAssumption DEF ArrayInv, Array!TypeOK, Array!SizeAssumption, Array!NamesAssumption, Array!Slots, Array!Typed
<1>3. CASE list[i] = Empty
  <2>1. i >= Filled
    BY <1>2, <1>3 DEF ArrayInv, FilledFirst, Filled
  <2>2. deletes = 0 /\ i = Filled /\ arrayCount' = arrayCount + 1
    BY <1>1, <1>2, <1>3, <2>1 DEF Filled, Array!CountAfterAdd
  <2>3. Filled' = Filled + 1 /\ Filled \in Int
    BY <1>1, <1>2, <2>2 DEF Filled
  <2>4. FilledFirst'
    <3> SUFFICES ASSUME NEW k \in Array!Slots
                 PROVE  /\ k < Filled' => list'[k] # Empty
                        /\ k >= Filled' => list'[k] \in {Empty, Garbage}
      BY DEF FilledFirst
    <3>1. k \in Int
      BY <1>2 DEF Array!Slots
    <3> HIDE DEF Filled
    <3>2. CASE k = i
      BY <1>2, <2>2, <2>3, <3>1, <3>2
    <3>3. CASE k # i
      <4>1. k < Filled' => k < Filled
        BY <2>2, <2>3, <3>1, <3>3
      <4>2. k >= Filled' => k >= Filled
        BY <2>3, <3>1
      <4> QED
        BY <1>2, <3>3, <4>1, <4>2 DEF ArrayInv, FilledFirst
    <3> QED
      BY <3>2, <3>3
  <2>5. Array!TypeOK'
    BY <1>1, <1>2, <2>2 DEF ArrayInv, Array!TypeOK
  <2> QED
    BY <1>1, <2>2, <2>4, <2>5 DEF ArrayInv, ShownInLoop
<1>4. CASE list[i] # Empty
  <2>1. arrayCount' = arrayCount /\ list[i] = Deleted /\ Filled' = Filled
    BY <1>1, <1>4 DEF Array!CountAfterAdd, Array!Vacant, Filled
  <2>2. list[i] \notin {Empty, Garbage}
    BY <2>1, ArrayAssumption DEF Array!NamesAssumption
  <2>3. FilledFirst'
    BY <1>2, <2>1, <2>2 DEF ArrayInv, FilledFirst
  <2>4. Array!TypeOK'
    BY <1>1, <2>1 DEF ArrayInv, Array!TypeOK
  <2> QED
    BY <1>1, <2>1, <2>3, <2>4 DEF ArrayInv, ShownInLoop
<1> QED
  BY <1>3, <1>4

\* What a delete leaves: as many filled records, one of them deleted.
LEMMA DeleteKeeps ==
    ASSUME ArrayInv,
           NEW n \in Array!Typed, NEW i \in Array!Slots, Array!Delete(n, i)
    PROVE  ArrayInv' /\ arrayCount' = arrayCount - 1
<1>1. /\ i < arrayCount /\ list[i] = n /\ list' = [list EXCEPT ![i] = Deleted]
      /\ arrayCount' = arrayCount - 1 /\ deletes' = deletes + 1 /\ asked' = Nothing /\ shownSlots' = {}
  BY DEF Array!Delete, Array!IsFirst, Array!InLoop, Array!NothingShown
<1>2. /\ arrayCount \in 0 .. Size /\ deletes \in Nat /\ Size \in Nat /\ i \in Nat
      /\ list'[i] = Deleted
      /\ \A k \in Array!Slots : k # i => list'[k] = list[k]
  BY <1>1, ArrayAssumption DEF ArrayInv, Array!TypeOK, Array!SizeAssumption, Array!Slots
<1>3. Filled' = Filled /\ Deleted # Empty /\ list[i] \notin {Empty, Garbage}
  BY <1>1, <1>2, ArrayAssumption DEF Filled, Array!NamesAssumption, Array!Typed
<1>4. FilledFirst'
  BY <1>2, <1>3 DEF ArrayInv, FilledFirst
<1>5. Array!TypeOK'
  BY <1>1, <1>2 DEF ArrayInv, Array!TypeOK, Array!Typed
<1> QED
  BY <1>1, <1>4, <1>5 DEF ArrayInv, ShownInLoop

\* Every step keeps the invariant and, after a delete, does not raise arrayCount.
LEMMA ArrayStepKeeps ==
    ASSUME ArrayInv, [Array!Next]_(Array!vars)
    PROVE  ArrayInv' /\ (deletes > 0 => arrayCount' <= arrayCount)
<1>1. arrayCount \in Nat
  BY ArrayAssumption DEF ArrayInv, Array!TypeOK, Array!SizeAssumption
<1>2. ASSUME NEW n \in Array!Typed, Array!Search(n) PROVE ArrayInv' /\ arrayCount' = arrayCount
  <2>1. /\ list' = list /\ arrayCount' = arrayCount /\ deletes' = deletes /\ asked' = n
        /\ shownSlots' = {i \in Array!Slots : Array!InLoop(i) /\ list[i] = n} /\ n # All
    BY <1>2, ArrayAssumption DEF Array!Search, Array!Reached, Array!Typed, Array!NamesAssumption
  <2>2. Array!TypeOK' /\ FilledFirst'
    BY <2>1 DEF ArrayInv, Array!TypeOK, FilledFirst, Filled
  <2>3. ShownInLoop'
    BY <2>1 DEF ShownInLoop, Array!InLoop
  <2> QED
    BY <2>1, <2>2, <2>3 DEF ArrayInv
<1>3. CASE Array!PrintAll
  <2>1. /\ list' = list /\ arrayCount' = arrayCount /\ deletes' = deletes /\ asked' = All
        /\ shownSlots' = {i \in Array!Slots : Array!InLoop(i) /\ list[i] # Deleted} /\ Deleted \notin Names
    BY <1>3, ArrayAssumption DEF Array!PrintAll, Array!Reached, Array!NamesAssumption
  <2>2. Array!TypeOK' /\ FilledFirst'
    BY <2>1 DEF ArrayInv, Array!TypeOK, FilledFirst, Filled
  <2>3. ShownInLoop'
    BY <2>1 DEF ShownInLoop, Array!InLoop
  <2> QED
    BY <1>1, <2>1, <2>2, <2>3 DEF ArrayInv
<1>4. CASE UNCHANGED Array!vars
  BY <1>4 DEF Array!vars, ArrayInv, Array!TypeOK, FilledFirst, Filled, ShownInLoop, Array!InLoop
<1>5. UNCHANGED Array!vars => arrayCount' = arrayCount
  BY DEF Array!vars
<1> QED
  BY <1>1, <1>2, <1>3, <1>4, <1>5, AddKeeps, DeleteKeeps DEF Array!Next

\* main's array starts without a filled record.
LEMMA ArrayInit ==
    ASSUME Array!Init
    PROVE  ArrayInv
<1>1. Array!TypeOK
  <2>1. \A i \in Array!Slots : list[i] \in Array!Typed \cup {Empty, Garbage}
    BY DEF Array!Init
  <2> QED
    BY <2>1, ArrayAssumption DEF Array!Init, Array!TypeOK, Array!SizeAssumption
<1>2. Filled = 0 /\ \A i \in Array!Slots : i >= 0 /\ ~(i < 0)
  BY DEF Array!Init, Filled, Array!Slots
<1>3. FilledFirst /\ ShownInLoop
  BY <1>2 DEF Array!Init, FilledFirst, ShownInLoop
<1> QED
  BY <1>1, <1>3 DEF ArrayInv

LEMMA ArraySteps == [ProgramsNext]_programVars => [Array!Next]_(Array!vars)
BY DEF ProgramsNext, InList, InArray, InShell, programVars, arrayVars, Array!vars

LEMMA ArrayInvariant == ProgramsSpec => []ArrayInv
<1>1. ProgramsInit => ArrayInv
  BY ArrayInit DEF ProgramsInit
<1>2. ArrayInv /\ [ProgramsNext]_programVars => ArrayInv'
  BY ArraySteps, ArrayStepKeeps
<1> QED
  BY <1>1, <1>2, PTL DEF ProgramsSpec

\* For any size and any sequence of choices, a search or print shows every
\* record that should be found, until there have been two deletes
\* (struct.c:25-97).
THEOREM RecordsShown == ProgramsSpec => []ShowsRecords
<1>1. ArrayInv => ShowsRecords
  <2> SUFFICES ASSUME ArrayInv, deletes <= 1, NEW i \in Array!Slots,
                      list[i] \in Names, asked \in {All, list[i]}
               PROVE  i \in shownSlots
    BY DEF ShowsRecords, Array!ShowsRecords
  <2>1. /\ list[i] \notin {Empty, Garbage} /\ asked # Nothing
        /\ arrayCount \in Nat /\ deletes \in Nat /\ i \in Nat
    BY ArrayAssumption
    DEF ArrayInv, Array!TypeOK, Array!NamesAssumption, Array!SizeAssumption, Array!Slots
  <2>2. ~(i >= Filled)
    BY <2>1 DEF ArrayInv, FilledFirst
  <2>3. Array!InLoop(i)
    BY <2>1, <2>2 DEF Filled, Array!InLoop
  <2> QED
    BY <2>1, <2>3 DEF ArrayInv, ShownInLoop
<1> QED
  BY <1>1, ArrayInvariant, PTL

\* For any size and any sequence of choices, the book does not grow any more
\* after the first delete (struct.c:30-49, 66-73).
THEOREM BookShrinks == ProgramsSpec => NeverGrowsAgain
<1>1. ArrayInv /\ [ProgramsNext]_programVars => [deletes > 0 => arrayCount' <= arrayCount]_(Array!vars)
  BY ArraySteps, ArrayStepKeeps
<1> QED
  BY <1>1, ArrayInvariant, PTL DEF ProgramsSpec, NeverGrowsAgain, Array!NeverGrowsAgain

-----------------------------------------------------------------------------
(* The shells.                                                              *)

\* process_3 leaves at most one command behind for each line.
ShellInv == Shell!TypeOK /\ unwaited <= commands

ShellLines == {"exit", "builtin", "blank", "command", "pipe"}

LEMMA ShellInit == ProgramsInit => ShellInv
<1> SUFFICES ASSUME ProgramsInit PROVE ShellInv
  OBVIOUS
<1>1. Shell!Init /\ Len(<<>>) = 0
  BY DEF ProgramsInit
<1>2. history = <<>> /\ history \in Seq(ShellLines) /\ Len(history) <= HISTORY_SIZE
  BY <1>1, ShellAssumption DEF Shell!Init
<1> QED
  BY <1>1, <1>2, ShellAssumption
  DEF Shell!Init, ShellInv, Shell!TypeOK, Shell!Children, Shell!Procs, ShellLines

\* A line is typed: the history stays short.
LEMMA LineTyped ==
    ASSUME ShellInv, NEW line \in ShellLines, Shell!Typed(line)
    PROVE  /\ sh = "prompt" /\ commands' = commands + 1 /\ commands' \in 1 .. MaxCommands
           /\ history' \in Seq(ShellLines) /\ Len(history') <= HISTORY_SIZE
<1>1. /\ history \in Seq(ShellLines) /\ Len(history) <= HISTORY_SIZE /\ Len(history) \in Nat
      /\ commands \in 0 .. MaxCommands /\ MaxCommands \in Nat /\ HISTORY_SIZE \in Nat \ {0}
  BY ShellAssumption, LenProperties DEF ShellInv, Shell!TypeOK, ShellLines
<1>2. sh = "prompt" /\ commands < MaxCommands /\ commands' = commands + 1 /\ history' = Shell!Added(line)
  BY DEF Shell!Typed
<1>3. CASE Len(history) < HISTORY_SIZE
  <2>1. history' = Append(history, line)
    BY <1>2, <1>3 DEF Shell!Added
  <2>2. history' \in Seq(ShellLines) /\ Len(history') = Len(history) + 1
    BY <1>1, <2>1, AppendProperties
  <2> QED
    BY <1>1, <1>2, <1>3, <2>2
<1>4. CASE ~(Len(history) < HISTORY_SIZE)
  <2>1. history' = Append(Tail(history), line) /\ history # <<>>
    BY <1>1, <1>2, <1>4, EmptySeq DEF Shell!Added
  <2>2. Tail(history) \in Seq(ShellLines) /\ Len(Tail(history)) = Len(history) - 1
    BY <1>1, <2>1, HeadTailProperties
  <2>3. history' \in Seq(ShellLines) /\ Len(history') = Len(Tail(history)) + 1
    BY <2>1, <2>2, AppendProperties
  <2> QED
    BY <1>1, <1>2, <2>2, <2>3
<1> QED
  BY <1>3, <1>4

LEMMA ShellStepKeeps == ShellInv /\ [Shell!Next]_(Shell!vars) => ShellInv'
<1> SUFFICES ASSUME ShellInv, [Shell!Next]_(Shell!vars) PROVE ShellInv'
  OBVIOUS
<1>0. commands \in 0 .. MaxCommands /\ unwaited \in 0 .. MaxCommands /\ unwaited <= commands
      /\ MaxCommands \in Nat
  BY ShellAssumption DEF ShellInv, Shell!TypeOK
<1>1. ASSUME NEW line \in ShellLines, Shell!Typed(line), UNCHANGED <<prog, proc>>,
             sh' \in {"prompt", "run", "fork 1", "ended", "crashed"},
             unwaited' \in {unwaited, unwaited + 1},
             ends' \in [Shell!Procs -> SUBSET {"r", "w"}], pipe' \in 0 .. PipeMax, out' \in 0 .. MaxOut
      PROVE  ShellInv'
  <2>1. /\ commands' = commands + 1 /\ commands' \in 1 .. MaxCommands
        /\ history' \in Seq(ShellLines) /\ Len(history') <= HISTORY_SIZE
    BY <1>1, LineTyped
  <2>2. unwaited' \in 0 .. MaxCommands /\ unwaited' <= commands'
    <3>1. unwaited' = unwaited \/ unwaited' = unwaited + 1
      BY <1>1
    <3> QED
      BY <1>0, <2>1, <3>1
  <2>3. prog' \in {"process_3", "chanel_3"} /\ proc' \in [Shell!Children -> {"none", "new", "run", "zombie"}]
    BY <1>1 DEF ShellInv, Shell!TypeOK
  <2>4. commands' \in 0 .. MaxCommands
    BY <1>0, <2>1
  <2>5. /\ sh' \in {"prompt", "run", "fork 1", "ended", "crashed"}
        /\ ends' \in [Shell!Procs -> SUBSET {"r", "w"}] /\ pipe' \in 0 .. PipeMax /\ out' \in 0 .. MaxOut
    BY <1>1
  <2>6. Shell!TypeOK'
    BY <2>1, <2>2, <2>3, <2>4, <2>5 DEF Shell!TypeOK, ShellLines
  <2> QED
    BY <2>2, <2>6 DEF ShellInv
<1>2. CASE Shell!User
  <2>1. ends \in [Shell!Procs -> SUBSET {"r", "w"}] /\ pipe \in 0 .. PipeMax /\ out \in 0 .. MaxOut
    BY DEF ShellInv, Shell!TypeOK
  <2>2. CASE Shell!Builtin
    <3>1. Shell!Typed("builtin") /\ UNCHANGED <<prog, sh, unwaited, proc, ends, pipe, out>>
      BY <2>2 DEF Shell!Builtin, Shell!pipeVars
    <3>2. sh = "prompt"
      BY <3>1 DEF Shell!Typed
    <3> QED
      BY <1>1, <2>1, <3>1, <3>2 DEF ShellLines
  <2>3. CASE Shell!Leave
    <3>1. UNCHANGED <<prog, unwaited, proc, ends, pipe, out>>
      BY <2>3 DEF Shell!Leave, Shell!pipeVars
    <3>2. \E line \in ShellLines : Shell!Typed(line) /\ sh' \in {"ended", "crashed"}
      BY <2>3 DEF Shell!Leave, ShellLines
    <3> QED
      BY <1>1, <2>1, <3>1, <3>2
  <2>4. ASSUME NEW line \in {"command", "pipe"}, Shell!Start(line) PROVE ShellInv'
    <3>1. /\ Shell!Typed(line) /\ UNCHANGED <<prog, sh, proc, ends, pipe, out>>
          /\ unwaited' \in {unwaited, unwaited + 1} /\ line \in ShellLines
      BY <2>4 DEF Shell!Start, Shell!pipeVars, ShellLines
    <3>2. sh = "prompt"
      BY <3>1 DEF Shell!Typed
    <3> QED
      BY <1>1, <2>1, <3>1, <3>2
  <2>5. CASE Shell!Run
    <3>1. Shell!Typed("command") /\ UNCHANGED <<prog, unwaited, proc, ends, pipe, out>> /\ sh' = "run"
      BY <2>5 DEF Shell!Run, Shell!pipeVars
    <3> QED
      BY <1>1, <2>1, <3>1 DEF ShellLines
  <2>6. CASE Shell!OpenPipe
    <3>1. /\ Shell!Typed("pipe") /\ UNCHANGED <<prog, unwaited, proc>> /\ sh' = "fork 1"
          /\ pipe' = 0 /\ out' \in 0 .. MaxOut
      BY <2>6 DEF Shell!OpenPipe
    <3>2. ends' \in [Shell!Procs -> SUBSET {"r", "w"}]
      BY <2>1, <2>6 DEF Shell!OpenPipe
    <3>3. 0 \in 0 .. PipeMax
      BY ShellAssumption
    <3> QED
      BY <1>1, <3>1, <3>2, <3>3 DEF ShellLines
  <2> QED
    BY <1>2, <2>2, <2>3, <2>4, <2>5, <2>6 DEF Shell!User
<1>3. CASE Shell!Progress \/ Shell!ExecFails(1)
  <2>1. UNCHANGED <<prog, history, unwaited, commands>>
    BY <1>3 DEF Shell!Progress, Shell!RunEnds, Shell!Fork, Shell!Redirect, Shell!CloseEnds, Shell!Wait,
                Shell!Write, Shell!FirstEnds, Shell!ExecFails, Shell!Ends
  <2>2. sh' = sh \/ sh' \in {"ended", "fork 2", "close", "wait 1", "wait 2", "prompt"}
    BY <1>3 DEF Shell!Progress, Shell!RunEnds, Shell!Fork, Shell!Redirect, Shell!CloseEnds, Shell!Wait,
                Shell!Write, Shell!FirstEnds, Shell!ExecFails, Shell!Ends
  <2>3. proc' = proc \/ \E i \in Shell!Children, s \in {"none", "new", "run", "zombie"} :
                            proc' = [proc EXCEPT ![i] = s]
    BY <1>3 DEF Shell!Progress, Shell!RunEnds, Shell!Fork, Shell!Redirect, Shell!CloseEnds, Shell!Wait,
                Shell!Write, Shell!FirstEnds, Shell!ExecFails, Shell!Ends,
                Shell!pipeVars, Shell!Children
  <2>4. ends' = ends \/ \E i \in Shell!Procs, s \in SUBSET {"r", "w"} : ends' = [ends EXCEPT ![i] = s]
    <3>0. /\ \A p \in Shell!Procs : ends[p] \in SUBSET {"r", "w"}
          /\ Shell!Children \subseteq Shell!Procs /\ 0 \in Shell!Procs
      BY DEF ShellInv, Shell!TypeOK, Shell!Procs
    <3>1. CASE \E i \in Shell!Children : Shell!Fork(i)
      BY <3>0, <3>1 DEF Shell!Fork
    <3>2. CASE \E i \in Shell!Children : Shell!Redirect(i)
      <4>1. \A i : Shell!Kept(i) \in SUBSET {"r", "w"}
        BY DEF Shell!Kept
      <4> QED
        BY <3>0, <3>2, <4>1 DEF Shell!Redirect
    <3>3. CASE Shell!CloseEnds
      <4>1. Shell!BothClosed \in SUBSET {"r", "w"}
        BY <3>0 DEF Shell!BothClosed
      <4> QED
        BY <3>0, <3>3, <4>1 DEF Shell!CloseEnds
    <3>4. CASE \E i \in Shell!Children : Shell!Ends(i)
      BY <3>0, <3>4 DEF Shell!Ends
    <3>5. CASE Shell!RunEnds \/ Shell!Wait \/ Shell!Write
      BY <3>5 DEF Shell!RunEnds, Shell!Wait, Shell!Write, Shell!pipeVars
    <3> QED
      BY <1>3, <3>1, <3>2, <3>3, <3>4, <3>5
      DEF Shell!Progress, Shell!FirstEnds, Shell!ExecFails, Shell!Children
  <2>5. pipe \in 0 .. PipeMax /\ out \in 0 .. MaxOut /\ PipeMax \in Nat /\ MaxOut \in Nat
    BY ShellAssumption DEF ShellInv, Shell!TypeOK
  <2>6. pipe' \in 0 .. PipeMax /\ out' \in 0 .. MaxOut
    <3>1. \/ pipe' = pipe /\ out' = out
          \/ out > 0 /\ pipe < PipeMax /\ pipe' = pipe + 1 /\ out' = out - 1
      BY <1>3 DEF Shell!Progress, Shell!RunEnds, Shell!Fork, Shell!Redirect, Shell!CloseEnds, Shell!Wait,
                Shell!Write, Shell!FirstEnds, Shell!ExecFails, Shell!Ends,
                Shell!pipeVars
    <3> QED
      BY <2>5, <3>1
  <2>7. proc' \in [Shell!Children -> {"none", "new", "run", "zombie"}]
    BY <2>3 DEF ShellInv, Shell!TypeOK
  <2>8. ends' \in [Shell!Procs -> SUBSET {"r", "w"}]
    BY <2>4 DEF ShellInv, Shell!TypeOK
  <2> QED
    BY <2>1, <2>2, <2>6, <2>7, <2>8 DEF ShellInv, Shell!TypeOK
<1>4. CASE UNCHANGED Shell!vars
  BY <1>4 DEF Shell!vars, Shell!pipeVars, ShellInv, Shell!TypeOK
<1> QED
  BY <1>2, <1>3, <1>4 DEF Shell!Next

LEMMA ShellSteps == [ProgramsNext]_programVars => [Shell!Next]_(Shell!vars)
BY DEF ProgramsNext, InList, InArray, InShell, programVars, shellVars, Shell!vars, Shell!pipeVars

LEMMA ShellInvariant == ProgramsSpec => []ShellInv
<1>1. ShellInv /\ [ProgramsNext]_programVars => ShellInv'
  BY ShellSteps, ShellStepKeeps
<1> QED
  BY <1>1, ShellInit, PTL DEF ProgramsSpec

-----------------------------------------------------------------------------
(* All three.                                                               *)

\* Whichever program the user starts and whatever he chooses, every variable keeps
\* its type, the list book's also after it has come to depend on freed memory; its
\* count reaches 101 and no more (dinamic_mem_func.c:22, struct.c, chanel_3_func.c).
THEOREM ProgramsTypeCorrect == ProgramsSpec => []ProgramsTypeOK
<1>1. ListInv /\ ArrayInv /\ ShellInv => ProgramsTypeOK
  BY DEF ListInv, ArrayInv, ShellInv, ProgramsTypeOK
<1> QED
  BY <1>1, ListInvariant, ArrayInvariant, ShellInvariant, PTL

=============================================================================
