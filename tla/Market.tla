------------------------------- MODULE Market ------------------------------
(***************************************************************************)
(* The market simulation of homework_11: buyer threads (shop) empty the    *)
(* stock of markets they pick at random, a supplier thread refills them,   *)
(* and main waits for the buyers, cancels the supplier and frees it all.   *)
(*                                                                         *)
(* Every market has a mutex.  An update of a counter is split at its loads *)
(* and stores wherever another thread's could fall in between if the lock  *)
(* did not prevent it.  The mutexes come from malloc and are never         *)
(* initialised: the model takes them as the zeroed memory of a fresh heap, *)
(* that is, unlocked.                                                      *)
(***************************************************************************)
EXTENDS Integers, FiniteSets, FiniteSetsExt

CONSTANTS
    Buyers, Markets,  \* 3 and 5 in the code
    NoThread,         \* the holder of a free mutex
    Supplier,         \* the supplier thread
    Stocks, Needs,    \* what a market and a buyer may start with
    MaxVisits         \* bound: visits of the supplier

ASSUME ThreadsAssumption ==
    /\ NoThread \notin Buyers \cup {Supplier}
    /\ Supplier \notin Buyers
ASSUME AmountsAssumption == Stocks \subseteq Nat /\ Needs \subseteq Nat \ {0}
ASSUME BoundAssumption == MaxVisits \in Nat
ASSUME FiniteAssumption == IsFiniteSet(Buyers) /\ IsFiniteSet(Markets)

Delivery == 200    \* what supplier adds (thread_func.c:39)

VARIABLES
    assort,     \* market[m]->assort
    need,       \* buyer[b]->assort
    m_lock,     \* who holds market[m]->m_lock
    bpc,        \* where buyer b is
    at,         \* the market buyer b has picked
    spc,        \* where the supplier is
    sat,        \* the market the supplier has picked
    loaded,     \* the value the supplier's "+=" has loaded
    visits,     \* visits of the supplier
    cancelled,  \* "yes" after pthread_cancel(thread[n])
    mpc,        \* where main is
    overlap,    \* "yes" if main's variable s lies where thread[n] is
    balance     \* history: stock minus need, as started and supplied

buyerVars == <<need, bpc, at>>
supplierVars == <<spc, sat, loaded, visits>>
mainVars == <<cancelled, mpc, overlap>>
vars == <<assort, m_lock, buyerVars, supplierVars, mainVars, balance>>

Total(f, S) == MapThenSumSet(LAMBDA x : f[x], S)

Init ==
    /\ assort \in [Markets -> Stocks] /\ need \in [Buyers -> Needs]
    /\ m_lock = [m \in Markets |-> NoThread]
    /\ bpc = [b \in Buyers |-> "loop"] /\ at \in [Buyers -> Markets]
    /\ spc = "choose" /\ sat \in Markets /\ loaded = 0 /\ visits = 0
    /\ cancelled = "no" /\ mpc = "join" /\ overlap \in {"no", "yes"}
    /\ balance = Total(assort, Markets) - Total(need, Buyers)

\* The process runs until main exits or crashes.
Running == mpc \notin {"exit", "crash"}

-----------------------------------------------------------------------------
(* shop                                                                     *)

PickedTooFar == Markets \cup {NoThread}  \* mutant of Picked
Picked == Markets                       \* rand()%5

Pick(b, m) ==
    /\ Running /\ bpc[b] = "loop" /\ need[b] > 0
    /\ at' = [at EXCEPT ![b] = m]
    /\ bpc' = [bpc EXCEPT ![b] = "lock"]
    /\ UNCHANGED <<assort, need, m_lock, supplierVars, mainVars, balance>>

\* Taking a mutex and giving it back.
LetIn(m) == TRUE                       \* mutant of CanLock
CanLock(m) == m_lock[m] = NoThread
Lock(m, t) == CanLock(m) /\ m_lock' = [m_lock EXCEPT ![m] = t]
Unlock(m) == m_lock' = [m_lock EXCEPT ![m] = NoThread]

Enter(b) ==
    /\ Running /\ bpc[b] = "lock" /\ Lock(at[b], b)
    /\ bpc' = [bpc EXCEPT ![b] = "compare"]
    /\ UNCHANGED <<assort, need, at, supplierVars, mainVars, balance>>

WantsAnyway(b) == need[b] >= 0         \* mutant of Wants
Wants(b) == need[b] > assort[at[b]]

Compare(b) ==
    /\ Running /\ bpc[b] = "compare"
    /\ bpc' = [bpc EXCEPT ![b] = IF Wants(b) THEN "takeAll" ELSE "takeNeed"]
    /\ UNCHANGED <<assort, need, at, m_lock, supplierVars, mainVars, balance>>

TakeAll(b) ==
    /\ Running /\ bpc[b] = "takeAll"
    /\ need' = [need EXCEPT ![b] = @ - assort[at[b]]]
    /\ bpc' = [bpc EXCEPT ![b] = "empty"]
    /\ UNCHANGED <<assort, at, m_lock, supplierVars, mainVars, balance>>

EmptyMarket(b) ==
    /\ Running /\ bpc[b] = "empty"
    /\ assort' = [assort EXCEPT ![at[b]] = 0]
    /\ bpc' = [bpc EXCEPT ![b] = "unlock"]
    /\ UNCHANGED <<need, at, m_lock, supplierVars, mainVars, balance>>

TakeNeed(b) ==
    /\ Running /\ bpc[b] = "takeNeed"
    /\ assort' = [assort EXCEPT ![at[b]] = @ - need[b]]
    /\ bpc' = [bpc EXCEPT ![b] = "satisfied"]
    /\ UNCHANGED <<need, at, m_lock, supplierVars, mainVars, balance>>

Satisfied(b) ==
    /\ Running /\ bpc[b] = "satisfied"
    /\ need' = [need EXCEPT ![b] = 0]
    /\ bpc' = [bpc EXCEPT ![b] = "unlock"]
    /\ UNCHANGED <<assort, at, m_lock, supplierVars, mainVars, balance>>

\* A satisfied buyer calls pthread_exit, the others sleep and loop.  A buyer
\* starts with a need and leaves "takeAll" with one, so the condition of the
\* while never ends the loop.
Leave(b) ==
    /\ Running /\ bpc[b] = "unlock" /\ Unlock(at[b])
    /\ bpc' = [bpc EXCEPT ![b] = IF need[b] = 0 THEN "done" ELSE "loop"]
    /\ UNCHANGED <<assort, need, at, supplierVars, mainVars, balance>>

Shop(b) ==
    \/ \E m \in Picked : Pick(b, m)
    \/ Enter(b) \/ Compare(b) \/ TakeAll(b) \/ EmptyMarket(b)
    \/ TakeNeed(b) \/ Satisfied(b) \/ Leave(b)

-----------------------------------------------------------------------------
(* supplier                                                                 *)

Choose(m) ==
    /\ Running /\ spc = "choose"
    /\ sat' = m /\ spc' = "lock"
    /\ UNCHANGED <<assort, m_lock, buyerVars, loaded, visits, mainVars, balance>>

EnterSupplier ==
    /\ Running /\ spc = "lock" /\ Lock(sat, Supplier)
    /\ spc' = "print"
    /\ UNCHANGED <<assort, buyerVars, sat, loaded, visits, mainVars, balance>>

\* printf, then the load of "assort+=200".
Load ==
    /\ Running /\ spc = "print"
    /\ loaded' = assort[sat] /\ spc' = "store"
    /\ UNCHANGED <<assort, m_lock, buyerVars, sat, visits, mainVars, balance>>

Store ==
    /\ Running /\ spc = "store"
    /\ assort' = [assort EXCEPT ![sat] = loaded + Delivery]
    /\ balance' = balance + Delivery
    /\ spc' = "unlock"
    /\ UNCHANGED <<m_lock, buyerVars, sat, loaded, visits, mainVars>>

LeaveSupplier ==
    /\ Running /\ spc = "unlock" /\ Unlock(sat)
    /\ spc' = "sleep"
    /\ UNCHANGED <<assort, buyerVars, sat, loaded, visits, mainVars, balance>>

WakeUp ==
    /\ Running /\ spc = "sleep" /\ cancelled = "no" /\ visits < MaxVisits
    /\ visits' = visits + 1 /\ spc' = "choose"
    /\ UNCHANGED <<assort, m_lock, buyerVars, sat, loaded, mainVars, balance>>

NoPoints == {"print"}                  \* mutant of CancellationPoints
CancellationPoints == {"sleep", "print"}

\* Cancellation takes effect in sleep, or in printf with the mutex held.
EndSupplier ==
    /\ Running /\ cancelled = "yes" /\ spc \in CancellationPoints
    /\ spc' = "ended"
    /\ UNCHANGED <<assort, m_lock, buyerVars, sat, loaded, visits, mainVars, balance>>

Supplies ==
    \/ \E m \in Picked : Choose(m)
    \/ EnterSupplier \/ Load \/ Store \/ LeaveSupplier \/ WakeUp \/ EndSupplier

-----------------------------------------------------------------------------
(* main                                                                     *)

JoinBuyers ==
    /\ mpc = "join" /\ \A b \in Buyers : bpc[b] = "done"
    /\ mpc' = "cancel"
    /\ UNCHANGED <<assort, m_lock, buyerVars, supplierVars, cancelled, overlap, balance>>

\* thread[] has n elements: the supplier's id is stored past its end.  Where
\* main's variable s is there, the joins have overwritten the id with NULL.
Cancel ==
    /\ mpc = "cancel"
    /\ IF overlap = "yes" THEN mpc' = "crash" /\ UNCHANGED cancelled
                          ELSE mpc' = "joinSupplier" /\ cancelled' = "yes"
    /\ UNCHANGED <<assort, m_lock, buyerVars, supplierVars, overlap, balance>>

NotJoined == TRUE                      \* mutant of SupplierJoined
SupplierJoined == spc = "ended"

JoinSupplier ==
    /\ mpc = "joinSupplier" /\ SupplierJoined
    /\ mpc' = "free"
    /\ UNCHANGED <<assort, m_lock, buyerVars, supplierVars, cancelled, overlap, balance>>

\* free of every market and buyer; "freed" until exit(0) ends the process.
Free ==
    /\ mpc = "free"
    /\ mpc' = "freed"
    /\ UNCHANGED <<assort, m_lock, buyerVars, supplierVars, cancelled, overlap, balance>>

Exit ==
    /\ mpc = "freed"
    /\ mpc' = "exit"
    /\ UNCHANGED <<assort, m_lock, buyerVars, supplierVars, cancelled, overlap, balance>>

Main == JoinBuyers \/ Cancel \/ JoinSupplier \/ Free \/ Exit

Next == (\E b \in Buyers : Shop(b)) \/ Supplies \/ Main

Spec == Init /\ [][Next]_vars

\* Every thread runs; nothing is assumed of rand() or of who gets a mutex.
FairSpec == Spec /\ WF_vars(Main) /\ WF_vars(Supplies) /\ \A b \in Buyers : WF_vars(Shop(b))

-----------------------------------------------------------------------------
(* Properties.                                                              *)

BuyerPcs == {"loop", "lock", "compare", "takeAll", "empty", "takeNeed",
             "satisfied", "unlock", "done"}
BuyerInside == {"compare", "takeAll", "empty", "takeNeed", "satisfied", "unlock"}
SupplierInside == {"print", "store", "unlock"}

\* Every variable of the program keeps its type.
TypeOK ==
    /\ assort \in [Markets -> Int] /\ need \in [Buyers -> Int]
    /\ m_lock \in [Markets -> Buyers \cup {Supplier, NoThread}]
    /\ bpc \in [Buyers -> BuyerPcs] /\ at \in [Buyers -> Markets]
    /\ spc \in {"choose", "lock", "print", "store", "unlock", "sleep", "ended"}
    /\ sat \in Markets /\ loaded \in Int /\ visits \in Nat
    /\ cancelled \in {"no", "yes"} /\ overlap \in {"no", "yes"}
    /\ mpc \in {"join", "cancel", "joinSupplier", "free", "freed", "exit", "crash"}

\* No market sells what it does not have and no buyer takes more than it needs:
\* the amounts compared are still there when they are taken (thread_func.c:14-21).
NonNegative ==
    /\ \A m \in Markets : assort[m] >= 0
    /\ \A b \in Buyers : need[b] >= 0

\* Why: a thread inside holds the mutex of its market, and the buyer's
\* comparison and the supplier's load stay true until the store.
Guarded ==
    /\ \A b \in Buyers :
           /\ bpc[b] \in BuyerInside => m_lock[at[b]] = b
           /\ bpc[b] = "takeAll" => need[b] > assort[at[b]]
           /\ bpc[b] = "takeNeed" => need[b] <= assort[at[b]]
    /\ spc \in SupplierInside => m_lock[sat] = Supplier
    /\ spc = "store" => loaded = assort[sat]

\* Nothing is sold twice and no delivery is lost: whenever no thread holds a
\* mutex, stock minus need is what it was, plus the deliveries
\* (thread_func.c:14-21, 39).
Conservation ==
    (\A m \in Markets : m_lock[m] = NoThread) =>
        Total(assort, Markets) - Total(need, Buyers) = balance

\* What somebody who waits for the mutexes would see: half-done purchases are
\* done, a market that is about to be emptied is empty and a buyer about to be
\* satisfied needs nothing.
StockSeen ==
    [m \in Markets |-> IF \E b \in Buyers : bpc[b] = "empty" /\ at[b] = m
                       THEN 0 ELSE assort[m]]
NeedSeen == [b \in Buyers |-> IF bpc[b] = "satisfied" THEN 0 ELSE need[b]]
Atomic == INSTANCE AtomicMarket WITH stock <- StockSeen, need <- NeedSeen

\* Every comparison with its two updates is one purchase, and every load with
\* its store one delivery, however the threads overlap: what was compared is
\* still there when it is taken (thread_func.c:12-25, 37-40).
PurchasesAtomic == Atomic!Spec

\* Nobody touches a market or a buyer after main has freed them
\* (thread.c:47-58).
NoUseAfterFree ==
    mpc = "freed" =>
        /\ \A b \in Buyers : bpc[b] = "done"
        /\ spc = "ended"

\* Once every buyer is done the process ends, although the supplier loops for
\* ever and may be cancelled while it holds a mutex (thread.c:52-59).
Ends == (\A b \in Buyers : bpc[b] = "done") ~> ~Running
=============================================================================
