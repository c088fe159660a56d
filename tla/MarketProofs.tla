---------------------------- MODULE MarketProofs ---------------------------
(***************************************************************************)
(* Theorems of Market, for every number of buyers, markets and visits and  *)
(* every amount: types, mutual exclusion with what it protects, purchases  *)
(* and deliveries that look atomic, and nothing used after it is freed.    *)
(***************************************************************************)
EXTENDS Market, FiniteSetTheorems, WellFoundedInduction, TLAPS

\* Init has the types.
LEMMA InitType == Init => TypeOK
<1> SUFFICES ASSUME Init PROVE TypeOK
  OBVIOUS
<1>1. assort \in [Markets -> Stocks] /\ need \in [Buyers -> Needs]
  BY DEF Init
<1>3. /\ \A m \in Markets : assort[m] \in Stocks
      /\ \A b \in Buyers : need[b] \in Needs
  BY <1>1
<1>4. Stocks \subseteq Int /\ Needs \subseteq Int
  BY AmountsAssumption
<1>2. assort \in [Markets -> Int] /\ need \in [Buyers -> Int]
  BY <1>1, <1>3, <1>4
<1> QED
  BY <1>2 DEF Init, TypeOK, BuyerPcs

\* A step of a buyer keeps the types.
LEMMA ShopType ==
    ASSUME TypeOK, NEW b \in Buyers, Shop(b)
    PROVE  TypeOK'
<1>1. ASSUME NEW m \in Picked, Pick(b, m) PROVE TypeOK'
  BY <1>1 DEF Pick, Picked, TypeOK, BuyerPcs, supplierVars, mainVars
<1>2. CASE Enter(b)
  BY <1>2 DEF Enter, Lock, TypeOK, BuyerPcs, supplierVars, mainVars
<1>3. CASE Compare(b)
  BY <1>3 DEF Compare, TypeOK, BuyerPcs, supplierVars, mainVars
<1>4. CASE TakeAll(b)
  BY <1>4 DEF TakeAll, TypeOK, BuyerPcs, supplierVars, mainVars
<1>5. CASE EmptyMarket(b)
  BY <1>5 DEF EmptyMarket, TypeOK, BuyerPcs, supplierVars, mainVars
<1>6. CASE TakeNeed(b)
  BY <1>6 DEF TakeNeed, TypeOK, BuyerPcs, supplierVars, mainVars
<1>7. CASE Satisfied(b)
  BY <1>7 DEF Satisfied, TypeOK, BuyerPcs, supplierVars, mainVars
<1>8. CASE Leave(b)
  BY <1>8 DEF Leave, Unlock, TypeOK, BuyerPcs, supplierVars, mainVars
<1> QED
  BY <1>1, <1>2, <1>3, <1>4, <1>5, <1>6, <1>7, <1>8 DEF Shop

\* A step of the supplier keeps the types.
LEMMA SuppliesType ==
    ASSUME TypeOK, Supplies
    PROVE  TypeOK'
<1>1. ASSUME NEW m \in Picked, Choose(m) PROVE TypeOK'
  BY <1>1 DEF Choose, Picked, TypeOK, buyerVars, mainVars
<1>2. CASE EnterSupplier
  BY <1>2 DEF EnterSupplier, Lock, TypeOK, buyerVars, mainVars
<1>3. CASE Load
  BY <1>3 DEF Load, TypeOK, buyerVars, mainVars
<1>4. CASE Store
  BY <1>4 DEF Store, Delivery, TypeOK, buyerVars, mainVars
<1>5. CASE LeaveSupplier
  BY <1>5 DEF LeaveSupplier, Unlock, TypeOK, buyerVars, mainVars
<1>6. CASE WakeUp
  BY <1>6 DEF WakeUp, TypeOK, buyerVars, mainVars
<1>7. CASE EndSupplier
  BY <1>7 DEF EndSupplier, TypeOK, buyerVars, mainVars
<1> QED
  BY <1>1, <1>2, <1>3, <1>4, <1>5, <1>6, <1>7 DEF Supplies

\* A step of main keeps the types.
LEMMA MainType == TypeOK /\ Main => TypeOK'
BY DEF Main, JoinBuyers, Cancel, JoinSupplier, Free, Exit, TypeOK, buyerVars, supplierVars

\* Every reachable state is well typed.
THEOREM TypeCorrect == Spec => []TypeOK
<1>1. TypeOK /\ [Next]_vars => TypeOK'
  <2>1. TypeOK /\ UNCHANGED vars => TypeOK'
    BY DEF vars, TypeOK, buyerVars, supplierVars, mainVars
  <2> QED
    BY <2>1, ShopType, SuppliesType, MainType DEF Next
<1> QED
  BY <1>1, InitType, PTL DEF Spec

-----------------------------------------------------------------------------
(* What the mutexes protect.                                                *)

Safe == NonNegative /\ Guarded

\* A step of a buyer keeps the amounts non-negative and its mutex its own.
LEMMA ShopSafe ==
    ASSUME TypeOK, Safe, NEW b \in Buyers, Shop(b)
    PROVE  Safe'
<1>1. supplierVars' = supplierVars
  BY DEF Shop, Pick, Enter, Compare, TakeAll, EmptyMarket, TakeNeed, Satisfied, Leave
<1>2. /\ spc' = spc /\ sat' = sat /\ loaded' = loaded /\ b # Supplier /\ b # NoThread
  BY <1>1, ThreadsAssumption DEF supplierVars
<1>3. \A c \in Buyers : c # b => need'[c] = need[c] /\ bpc'[c] = bpc[c] /\ at'[c] = at[c]
  BY DEF Shop, Pick, Enter, Compare, TakeAll, EmptyMarket, TakeNeed, Satisfied, Leave, TypeOK
<1>4. ASSUME NEW m \in Picked, Pick(b, m) PROVE Safe'
  BY <1>2, <1>3, <1>4
  DEF Pick, Picked, Safe, NonNegative, Guarded, TypeOK, BuyerInside, SupplierInside
<1>5. CASE Enter(b)
  <2>1. /\ assort' = assort /\ need' = need /\ at' = at /\ bpc'[b] = "compare"
        /\ m_lock[at[b]] = NoThread /\ m_lock' = [m_lock EXCEPT ![at[b]] = b]
    BY <1>5 DEF Enter, Lock, CanLock, TypeOK
  <2>2. \A c \in Buyers : c # NoThread
    BY ThreadsAssumption
  <2>3. /\ NonNegative' /\ m_lock'[at[b]] = b
        /\ \A m \in Markets : m_lock[m] # NoThread => m_lock'[m] = m_lock[m]
    BY <2>1 DEF Safe, NonNegative, TypeOK
  <2>4. \A c \in Buyers : bpc[c] \in BuyerInside => m_lock'[at[c]] = c
    BY <2>2, <2>3 DEF Safe, Guarded, TypeOK
  <2>5. spc \in SupplierInside => m_lock'[sat] = Supplier
    BY <2>3, ThreadsAssumption DEF Safe, Guarded, TypeOK
  <2> QED
    BY <1>2, <1>3, <2>1, <2>3, <2>4, <2>5 DEF Safe, Guarded
<1>6. CASE Compare(b)
  BY <1>2, <1>3, <1>6
  DEF Compare, Wants, Safe, NonNegative, Guarded, TypeOK, BuyerInside, SupplierInside
<1>7. CASE TakeAll(b)
  BY <1>2, <1>3, <1>7
  DEF TakeAll, Safe, NonNegative, Guarded, TypeOK, BuyerInside, SupplierInside
<1>8. CASE EmptyMarket(b)
  BY <1>2, <1>3, <1>8
  DEF EmptyMarket, Safe, NonNegative, Guarded, TypeOK, BuyerInside, SupplierInside
<1>9. CASE TakeNeed(b)
  BY <1>2, <1>3, <1>9
  DEF TakeNeed, Safe, NonNegative, Guarded, TypeOK, BuyerInside, SupplierInside
<1>10. CASE Satisfied(b)
  BY <1>2, <1>3, <1>10
  DEF Satisfied, Safe, NonNegative, Guarded, TypeOK, BuyerInside, SupplierInside
<1>11. CASE Leave(b)
  BY <1>2, <1>3, <1>11
  DEF Leave, Unlock, Safe, NonNegative, Guarded, TypeOK, BuyerInside, SupplierInside
<1> QED
  BY <1>4, <1>5, <1>6, <1>7, <1>8, <1>9, <1>10, <1>11 DEF Shop

\* A step of the supplier does the same.
LEMMA SuppliesSafe ==
    ASSUME TypeOK, Safe, Supplies
    PROVE  Safe'
<1>1. need' = need /\ bpc' = bpc /\ at' = at
  BY DEF Supplies, Choose, EnterSupplier, Load, Store, LeaveSupplier, WakeUp, EndSupplier, buyerVars
<1>2. CASE EnterSupplier
  BY <1>1, <1>2, ThreadsAssumption
  DEF EnterSupplier, Lock, CanLock, Safe, NonNegative, Guarded, TypeOK, BuyerInside, SupplierInside
<1>3. CASE Load
  BY <1>1, <1>3 DEF Load, Safe, NonNegative, Guarded, TypeOK, SupplierInside
<1>4. CASE Store
  BY <1>1, <1>4, ThreadsAssumption
  DEF Store, Delivery, Safe, NonNegative, Guarded, TypeOK, BuyerInside, SupplierInside
<1>5. CASE LeaveSupplier
  BY <1>1, <1>5, ThreadsAssumption
  DEF LeaveSupplier, Unlock, Safe, NonNegative, Guarded, TypeOK, BuyerInside, SupplierInside
<1>6. ASSUME \/ \E m \in Picked : Choose(m)
             \/ WakeUp \/ EndSupplier
      PROVE  Safe'
  BY <1>1, <1>6 DEF Choose, WakeUp, EndSupplier, Safe, NonNegative, Guarded, SupplierInside
<1> QED
  BY <1>2, <1>3, <1>4, <1>5, <1>6 DEF Supplies

\* A thread inside holds the mutex of its market, and the amounts it compared
\* are still there when it takes them; none goes below zero.
THEOREM MarketsSafe == Spec => [](NonNegative /\ Guarded)
<1>1. Init => Safe
  <2> SUFFICES ASSUME Init PROVE Safe
    OBVIOUS
  <2>1. assort \in [Markets -> Stocks] /\ need \in [Buyers -> Needs]
    BY DEF Init
  <2>3. /\ \A m \in Markets : assort[m] \in Stocks
        /\ \A b \in Buyers : need[b] \in Needs
    BY <2>1
  <2>4. (\A x \in Stocks : x >= 0) /\ (\A x \in Needs : x >= 0)
    BY AmountsAssumption
  <2>2. NonNegative
    BY <2>3, <2>4 DEF NonNegative
  <2> QED
    BY <2>2 DEF Init, Safe, Guarded, BuyerInside, SupplierInside
<1>2. TypeOK /\ Safe /\ [Next]_vars => Safe'
  <2> SUFFICES ASSUME TypeOK, Safe, [Next]_vars PROVE Safe'
    OBVIOUS
  <2>1. CASE Main \/ UNCHANGED vars
    <3>1. /\ assort' = assort /\ m_lock' = m_lock /\ need' = need /\ bpc' = bpc /\ at' = at
          /\ spc' = spc /\ sat' = sat /\ loaded' = loaded
      BY <2>1 DEF Main, JoinBuyers, Cancel, JoinSupplier, Free, Exit, vars, buyerVars, supplierVars
    <3> QED
      BY <3>1 DEF Safe, NonNegative, Guarded
  <2> QED
    BY <2>1, ShopSafe, SuppliesSafe DEF Next
<1> QED
  BY <1>1, <1>2, TypeCorrect, PTL DEF Spec, Safe

-----------------------------------------------------------------------------
(* The purchases seen from outside the mutexes.                             *)

\* Who is inside a market is there alone.
LEMMA AloneInside ==
    ASSUME Safe, NEW b \in Buyers, bpc[b] \in BuyerInside
    PROVE  /\ \A c \in Buyers : c # b /\ at[c] = at[b] => bpc[c] # "empty"
           /\ spc = "store" => sat # at[b]
BY ThreadsAssumption DEF Safe, Guarded, BuyerInside, SupplierInside

\* A step of a buyer that changes no amount as seen from outside.
LEMMA UnseenShop ==
    ASSUME TypeOK, Safe, NEW b \in Buyers,
           \/ \E m \in Picked : Pick(b, m)
           \/ Enter(b) \/ Compare(b) \/ EmptyMarket(b) \/ Satisfied(b) \/ Leave(b)
    PROVE  StockSeen' = StockSeen /\ NeedSeen' = NeedSeen
<1>1. \A c \in Buyers : c # b => need'[c] = need[c] /\ bpc'[c] = bpc[c] /\ at'[c] = at[c]
  BY DEF Pick, Enter, Compare, EmptyMarket, Satisfied, Leave, TypeOK
<1>2. CASE EmptyMarket(b)
  <2>1. /\ bpc[b] = "empty" /\ bpc'[b] = "unlock" /\ need' = need /\ at' = at
        /\ assort' = [assort EXCEPT ![at[b]] = 0]
    BY <1>2 DEF EmptyMarket, TypeOK
  <2>2. \A c \in Buyers : c # b /\ at[c] = at[b] => bpc[c] # "empty"
    BY <2>1, AloneInside DEF BuyerInside
  <2> QED
    BY <1>1, <2>1, <2>2 DEF StockSeen, NeedSeen, TypeOK
<1>3. CASE Satisfied(b)
  BY <1>1, <1>3 DEF Satisfied, StockSeen, NeedSeen, TypeOK
<1>4. CASE ~EmptyMarket(b) /\ ~Satisfied(b)
  <2>1. /\ assort' = assort /\ need' = need
        /\ bpc[b] \notin {"empty", "satisfied"} /\ bpc'[b] \notin {"empty", "satisfied"}
    BY <1>4 DEF Pick, Enter, Compare, Leave, TypeOK
  <2> QED
    BY <1>1, <2>1 DEF StockSeen, NeedSeen, TypeOK
<1> QED
  BY <1>2, <1>3, <1>4

\* The first update of a purchase is the purchase.
LEMMA FirstUpdateBuys ==
    ASSUME TypeOK, Safe, NEW b \in Buyers, TakeAll(b) \/ TakeNeed(b)
    PROVE  Atomic!Buy(b, at[b])
<1>1. \A c \in Buyers : c # b => need'[c] = need[c] /\ bpc'[c] = bpc[c]
  BY DEF TakeAll, TakeNeed, TypeOK
<1>2. /\ at' = at /\ at[b] \in Markets /\ bpc[b] \in BuyerInside
      /\ bpc[b] \notin {"empty", "satisfied"}
      /\ assort[at[b]] \in Int /\ need[b] \in Int
  BY DEF TakeAll, TakeNeed, TypeOK, BuyerInside
<1>3. \A c \in Buyers : at[c] = at[b] => bpc[c] # "empty"
  BY <1>2, AloneInside
<1>4. StockSeen[at[b]] = assort[at[b]] /\ NeedSeen[b] = need[b]
  BY <1>2, <1>3 DEF StockSeen, NeedSeen
<1>5. CASE TakeAll(b)
  <2>1. /\ need' = [need EXCEPT ![b] = @ - assort[at[b]]] /\ assort' = assort
        /\ bpc'[b] = "empty" /\ need[b] > assort[at[b]]
    BY <1>5 DEF TakeAll, TypeOK, Safe, Guarded
  <2>2. Atomic!Lesser(NeedSeen[b], StockSeen[at[b]]) = assort[at[b]]
    BY <1>4, <2>1 DEF Atomic!Lesser
  <2>3. StockSeen' = [StockSeen EXCEPT ![at[b]] = @ - assort[at[b]]]
    <3>1. StockSeen'[at[b]] = 0
      BY <1>2, <2>1 DEF StockSeen
    <3>2. \A m \in Markets : m # at[b] => StockSeen'[m] = StockSeen[m]
      BY <1>1, <1>2, <2>1 DEF StockSeen
    <3>3. /\ StockSeen = [m \in Markets |-> StockSeen[m]]
          /\ StockSeen' = [m \in Markets |-> StockSeen'[m]]
      BY DEF StockSeen
    <3>4. StockSeen[at[b]] - assort[at[b]] = 0
      BY <1>2, <1>4
    <3> HIDE DEF StockSeen
    <3> QED
      BY <3>1, <3>2, <3>3, <3>4
  <2>4. NeedSeen' = [NeedSeen EXCEPT ![b] = @ - assort[at[b]]]
    BY <1>1, <1>2, <1>4, <2>1 DEF NeedSeen, TypeOK
  <2> QED
    BY <2>2, <2>3, <2>4 DEF Atomic!Buy
<1>6. CASE TakeNeed(b)
  <2>1. /\ assort' = [assort EXCEPT ![at[b]] = @ - need[b]] /\ need' = need
        /\ bpc'[b] = "satisfied" /\ need[b] <= assort[at[b]]
    BY <1>6 DEF TakeNeed, TypeOK, Safe, Guarded
  <2>2. Atomic!Lesser(NeedSeen[b], StockSeen[at[b]]) = need[b]
    BY <1>2, <1>4, <2>1 DEF Atomic!Lesser
  <2>3. StockSeen' = [StockSeen EXCEPT ![at[b]] = @ - need[b]]
    <3>1. \A c \in Buyers : at[c] = at[b] => bpc'[c] # "empty"
      BY <1>1, <1>2, <1>3, <2>1
    <3>2. assort'[at[b]] = assort[at[b]] - need[b]
      BY <1>2, <2>1 DEF TypeOK
    <3>3. StockSeen'[at[b]] = StockSeen[at[b]] - need[b]
      BY <1>2, <1>4, <3>1, <3>2 DEF StockSeen
    <3>4. \A m \in Markets : m # at[b] => StockSeen'[m] = StockSeen[m]
      BY <1>1, <1>2, <2>1 DEF StockSeen, TypeOK
    <3>5. /\ StockSeen = [m \in Markets |-> StockSeen[m]]
          /\ StockSeen' = [m \in Markets |-> StockSeen'[m]]
      BY DEF StockSeen
    <3> HIDE DEF StockSeen
    <3> QED
      BY <3>3, <3>4, <3>5
  <2>4. NeedSeen' = [NeedSeen EXCEPT ![b] = @ - need[b]]
    <3>1. NeedSeen'[b] = 0 /\ NeedSeen[b] - need[b] = 0
      BY <1>2, <1>4, <2>1 DEF NeedSeen
    <3>2. \A c \in Buyers : c # b => NeedSeen'[c] = NeedSeen[c]
      BY <1>1 DEF NeedSeen
    <3>3. /\ NeedSeen = [c \in Buyers |-> NeedSeen[c]]
          /\ NeedSeen' = [c \in Buyers |-> NeedSeen'[c]]
      BY DEF NeedSeen
    <3> HIDE DEF NeedSeen
    <3> QED
      BY <3>1, <3>2, <3>3
  <2> QED
    BY <2>2, <2>3, <2>4 DEF Atomic!Buy
<1> QED
  BY <1>5, <1>6

\* The supplier delivers when it stores.
LEMMA StoreDelivers ==
    ASSUME TypeOK, Safe, Store
    PROVE  Atomic!Deliver(sat)
<1>1. need' = need /\ bpc' = bpc /\ at' = at
  BY DEF Store, buyerVars
<1>2. /\ assort' = [assort EXCEPT ![sat] = @ + Delivery] /\ spc = "store" /\ sat \in Markets
  BY DEF Store, Safe, Guarded, TypeOK
<1>3. \A c \in Buyers : bpc[c] = "empty" => at[c] # sat
  BY <1>2, AloneInside DEF BuyerInside
<1>4. StockSeen' = [StockSeen EXCEPT ![sat] = @ + Delivery] /\ NeedSeen' = NeedSeen
  BY <1>1, <1>2, <1>3 DEF StockSeen, NeedSeen, TypeOK
<1> QED
  BY <1>4 DEF Atomic!Deliver

\* Otherwise nobody sees it.
LEMMA SupplierUnseen ==
    ASSUME TypeOK, Supplies, ~Store
    PROVE  UNCHANGED <<StockSeen, NeedSeen>>
<1>1. need' = need /\ bpc' = bpc /\ at' = at /\ assort' = assort
  BY DEF Supplies, Choose, EnterSupplier, Load, LeaveSupplier, WakeUp, EndSupplier, buyerVars
<1> QED
  BY <1>1 DEF StockSeen, NeedSeen

\* For any buyers, markets and amounts, the threads under their mutexes do
\* nothing but whole purchases and whole deliveries (thread_func.c:7-43).
THEOREM MarketImplementsAtomic == Spec => PurchasesAtomic
<1>1. Init => Atomic!Init
  BY DEF Init, Atomic!Init, StockSeen, NeedSeen
<1>2. TypeOK /\ Safe /\ [Next]_vars => [Atomic!Next]_(Atomic!vars)
  <2> SUFFICES ASSUME TypeOK, Safe, [Next]_vars PROVE [Atomic!Next]_(Atomic!vars)
    OBVIOUS
  <2>1. ASSUME NEW b \in Buyers, Shop(b) PROVE [Atomic!Next]_(Atomic!vars)
    <3>1. CASE TakeAll(b) \/ TakeNeed(b)
      <4>1. Atomic!Buy(b, at[b]) /\ at[b] \in Markets
        BY <3>1, FirstUpdateBuys DEF TypeOK
      <4> QED
        BY <4>1 DEF Atomic!Next
    <3>2. CASE ~(TakeAll(b) \/ TakeNeed(b))
      BY <2>1, <3>2, UnseenShop DEF Shop, Atomic!vars
    <3> QED
      BY <3>1, <3>2
  <2>2. CASE Supplies
    <3>1. sat \in Markets
      BY DEF TypeOK
    <3> QED
      BY <2>2, <3>1, StoreDelivers, SupplierUnseen DEF Atomic!Next, Atomic!vars
  <2>3. CASE Main \/ UNCHANGED vars
    BY <2>3 DEF Main, JoinBuyers, Cancel, JoinSupplier, Free, Exit, vars, buyerVars,
                StockSeen, NeedSeen, Atomic!vars
  <2> QED
    BY <2>1, <2>2, <2>3 DEF Next
<1>3. Spec => []Safe
  BY MarketsSafe, PTL DEF Safe
<1> QED
  BY <1>1, <1>2, <1>3, TypeCorrect, PTL DEF Spec, PurchasesAtomic, Atomic!Spec

-----------------------------------------------------------------------------
(* Sums over finite sets.                                                   *)

\* Induction, in the form the provers can use: a set that holds 0 and every
\* successor holds every number.
LEMMA SetInduction ==
    ASSUME NEW T \in SUBSET Nat, 0 \in T, \A n \in T : n + 1 \in T
    PROVE  T = Nat
<1> DEFINE S == Nat \ T
           R == {ss \in Nat \X Nat : ss[1] < ss[2]}
<1> SUFFICES ASSUME S # {} PROVE FALSE
  OBVIOUS
<1>1. IsWellFoundedOn(R, Nat)
  BY NatLessThanWellFounded DEF OpToRel
<1>2. PICK n \in S : \A y \in S : <<y, n>> \notin R
  <2> HIDE DEF R
  <2>1. S \subseteq Nat
    OBVIOUS
  <2> HIDE DEF S
  <2> QED
    BY <1>1, <2>1, WFMin
<1>3. n # 0 /\ n - 1 \in Nat
  OBVIOUS
<1>4. n - 1 \notin S
  <2>1. <<n - 1, n>> \in Nat \X Nat /\ n - 1 < n
    BY <1>3
  <2>2. <<n - 1, n>> \in R
    BY <2>1
  <2> QED
    BY <1>2, <2>2
<1>5. n - 1 \in T /\ (n - 1) + 1 = n
  BY <1>3, <1>4
<1> QED
  BY <1>5

\* What Total adds up, one member after another.
Chosen(T) == CHOOSE x \in T : TRUE
Adding(f, S, g) == [T \in SUBSET S |-> IF T = {} THEN 0 ELSE f[Chosen(T)] + g[T \ {Chosen(T)}]]

LEMMA ChosenOut ==
    ASSUME NEW T, IsFiniteSet(T), T # {}
    PROVE  /\ Chosen(T) \in T
           /\ Cardinality(T) \in Nat \ {0}
           /\ Cardinality(T \ {Chosen(T)}) = Cardinality(T) - 1
<1>1. Chosen(T) \in T
  BY DEF Chosen
<1> QED
  BY <1>1, FS_RemoveElement, FS_EmptySet, FS_CardinalityType

LEMMA AddingEnds ==
    ASSUME NEW f, NEW S, IsFiniteSet(S)
    PROVE  \E g : g = Adding(f, S, g) /\ Total(f, S) = g[S]
<1> DEFINE Value(g, T) == IF T = {} THEN 0 ELSE f[Chosen(T)] + g[T \ {Chosen(T)}]
           Upto(n) == {T \in SUBSET S : Cardinality(T) <= n}
           Right(g, n) == \A T \in Upto(n) : g[T] = Value(g, T)
           K == {n \in Nat : \E g : Right(g, n)}
<1>1. \A T \in SUBSET S : IsFiniteSet(T) /\ Cardinality(T) \in Nat /\ Cardinality(T) <= Cardinality(S)
  BY FS_Subset, FS_CardinalityType
<1>2. 0 \in K
  <2> DEFINE g == [T \in SUBSET S |-> 0]
  <2>1. \A T \in Upto(0) : T = {}
    BY <1>1, FS_EmptySet
  <2>2. Right(g, 0)
    BY <2>1
  <2> QED
    BY <2>2
<1>3. ASSUME NEW n \in K PROVE n + 1 \in K
  <2>1. PICK g : Right(g, n)
    OBVIOUS
  <2> DEFINE h == [T \in SUBSET S |-> IF T \in Upto(n) THEN g[T] ELSE Value(g, T)]
  <2>2. \A T \in Upto(n + 1) : T # {} => T \ {Chosen(T)} \in Upto(n)
    BY <1>1, ChosenOut
  <2>3. \A T \in Upto(n + 1) : h[T] = Value(g, T)
    BY <2>1
  <2>4. \A T \in Upto(n) : h[T] = g[T]
    OBVIOUS
  <2> HIDE DEF h, Upto
  <2>5. \A T \in Upto(n + 1) : Value(h, T) = Value(g, T)
    BY <2>2, <2>4
  <2>6. Right(h, n + 1)
    BY <2>3, <2>5
  <2>7. n + 1 \in Nat
    OBVIOUS
  <2> HIDE DEF Right
  <2> QED
    BY <2>6, <2>7
<1>4. PICK g : Right(g, Cardinality(S))
  <2>1. K = Nat
    <3>1. K \in SUBSET Nat
      OBVIOUS
    <3> HIDE DEF K
    <3> QED
      BY <1>2, <1>3, <3>1, SetInduction
  <2>2. Cardinality(S) \in K
    BY <2>1, FS_CardinalityType
  <2> QED
    BY <2>2
<1> DEFINE h == [T \in SUBSET S |-> g[T]]
<1>5. \A T \in SUBSET S : h[T] = Value(g, T) /\ Value(h, T) = Value(g, T)
  BY <1>1, <1>4
<1>6. h = Adding(f, S, h)
  BY <1>5 DEF Adding
<1> DEFINE it == CHOOSE i : i = Adding(f, S, i)
<1>7. it = Adding(f, S, it)
  <2> HIDE DEF h
  <2> QED
    BY <1>6
<1>8. Total(f, S) = it[S]
  BY DEF Total, MapThenSumSet, MapThenFoldSet, Adding, Chosen
<1> HIDE DEF it
<1> QED
  BY <1>7, <1>8

\* Changing f at one place changes the sum by as much.
LEMMA TotalChanges ==
    ASSUME NEW S, IsFiniteSet(S), NEW f \in [S -> Int], NEW x \in S, NEW v \in Int
    PROVE  /\ Total(f, S) \in Int
           /\ Total([f EXCEPT ![x] = v], S) = Total(f, S) + (v - f[x])
<1> DEFINE h == [f EXCEPT ![x] = v]
<1>0. /\ f[x] \in Int /\ h[x] = v /\ \A y \in S : f[y] \in Int /\ h[y] \in Int
      /\ \A y \in S \ {x} : h[y] = f[y]
  OBVIOUS
<1> HIDE DEF h
<1>1. PICK g : g = Adding(f, S, g) /\ Total(f, S) = g[S]
  BY AddingEnds
<1>2. PICK k : k = Adding(h, S, k) /\ Total(h, S) = k[S]
  BY AddingEnds
<1> DEFINE More(T) == IF x \in T THEN v - f[x] ELSE 0
           Fits(T) == g[T] \in Int /\ k[T] = g[T] + More(T)
           K == {n \in Nat : \A T \in SUBSET S : Cardinality(T) = n => Fits(T)}
<1>3. \A T \in SUBSET S : IsFiniteSet(T) /\ Cardinality(T) \in Nat
  BY FS_Subset, FS_CardinalityType
<1>4. g[{}] = 0 /\ k[{}] = 0 /\ {} \in SUBSET S
  BY <1>1, <1>2 DEF Adding
<1>5. \A T \in SUBSET S : T # {} =>
          g[T] = f[Chosen(T)] + g[T \ {Chosen(T)}] /\ k[T] = h[Chosen(T)] + k[T \ {Chosen(T)}]
  BY <1>1, <1>2 DEF Adding
<1>6. 0 \in K
  <2>1. \A T \in SUBSET S : Cardinality(T) = 0 => T = {}
    BY <1>3, FS_EmptySet
  <2>2. Fits({})
    BY <1>4
  <2> HIDE DEF Fits
  <2> QED
    BY <2>1, <2>2
<1>7. ASSUME NEW n \in K PROVE n + 1 \in K
  <2> SUFFICES ASSUME NEW T \in SUBSET S, Cardinality(T) = n + 1 PROVE Fits(T)
    OBVIOUS
  <2>1. n \in Nat /\ T # {}
    <3>1. n \in Nat /\ n + 1 # 0
      OBVIOUS
    <3> HIDE DEF K
    <3> QED
      BY <3>1, FS_EmptySet
  <2>2. PICK c \in T : c = Chosen(T) /\ Cardinality(T \ {c}) = n
    BY <1>3, <2>1, ChosenOut
  <2>3. Fits(T \ {c})
    BY <2>2
  <2>4. g[T] = f[c] + g[T \ {c}] /\ k[T] = h[c] + k[T \ {c}]
    BY <1>5, <2>1, <2>2
  <2>5. CASE c = x
    <3>1. k[T \ {c}] = g[T \ {c}] /\ More(T) = v - f[x]
      BY <2>2, <2>3, <2>5
    <3> QED
      BY <1>0, <2>3, <2>4, <2>5, <3>1
  <2>6. CASE c # x
    <3>1. More(T \ {c}) = More(T) /\ h[c] = f[c] /\ f[c] \in Int
      BY <1>0, <2>2, <2>6
    <3>2. More(T) \in Int
      BY <1>0
    <3> HIDE DEF More
    <3> QED
      BY <2>3, <2>4, <3>1, <3>2
  <2> QED
    BY <2>5, <2>6
<1>8. Fits(S)
  <2>1. K = Nat
    <3>1. K \in SUBSET Nat
      OBVIOUS
    <3> HIDE DEF K
    <3> QED
      BY <1>6, <1>7, <3>1, SetInduction
  <2>2. Cardinality(S) \in K
    BY <2>1, FS_CardinalityType
  <2> QED
    BY <2>2
<1>9. g[S] \in Int /\ k[S] = g[S] + (v - f[x])
  BY <1>8
<1> QED
  BY <1>1, <1>2, <1>9 DEF h

LEMMA TotalTyped ==
    ASSUME NEW S, IsFiniteSet(S), NEW f \in [S -> Int]
    PROVE  Total(f, S) \in Int
<1>1. CASE S = {}
  <2>1. PICK g : g = Adding(f, S, g) /\ Total(f, S) = g[S]
    BY AddingEnds
  <2> QED
    BY <1>1, <2>1 DEF Adding
<1>2. CASE S # {}
  BY <1>2, TotalChanges
<1> QED
  BY <1>1, <1>2

-----------------------------------------------------------------------------
(* What the amounts add up to.                                              *)

AddsUp == Total(StockSeen, Markets) - Total(NeedSeen, Buyers) = balance

LEMMA SeenTyped == TypeOK => StockSeen \in [Markets -> Int] /\ NeedSeen \in [Buyers -> Int]
BY DEF TypeOK, StockSeen, NeedSeen

\* A purchase takes from the stock what it takes from the need.
LEMMA BuyAddsUp ==
    ASSUME TypeOK, AddsUp, NEW b \in Buyers, NEW m \in Markets, Atomic!Buy(b, m), balance' = balance
    PROVE  AddsUp'
<1> DEFINE d == Atomic!Lesser(NeedSeen[b], StockSeen[m])
<1>1. StockSeen \in [Markets -> Int] /\ NeedSeen \in [Buyers -> Int]
  BY SeenTyped
<1>2. StockSeen[m] \in Int /\ NeedSeen[b] \in Int /\ d \in Int
  BY <1>1 DEF Atomic!Lesser
<1>3. /\ StockSeen' = [StockSeen EXCEPT ![m] = StockSeen[m] - d]
      /\ NeedSeen' = [NeedSeen EXCEPT ![b] = NeedSeen[b] - d]
  BY DEF Atomic!Buy
<1> HIDE DEF d
<1>4. /\ Total(StockSeen, Markets) \in Int /\ Total(NeedSeen, Buyers) \in Int
      /\ Total(StockSeen', Markets) = Total(StockSeen, Markets) + ((StockSeen[m] - d) - StockSeen[m])
      /\ Total(NeedSeen', Buyers) = Total(NeedSeen, Buyers) + ((NeedSeen[b] - d) - NeedSeen[b])
  <2>1. StockSeen[m] - d \in Int /\ NeedSeen[b] - d \in Int
    BY <1>2
  <2>2. /\ Total(StockSeen, Markets) \in Int
        /\ Total([StockSeen EXCEPT ![m] = StockSeen[m] - d], Markets)
             = Total(StockSeen, Markets) + ((StockSeen[m] - d) - StockSeen[m])
    BY <1>1, <2>1, TotalChanges, FiniteAssumption
  <2>3. /\ Total(NeedSeen, Buyers) \in Int
        /\ Total([NeedSeen EXCEPT ![b] = NeedSeen[b] - d], Buyers)
             = Total(NeedSeen, Buyers) + ((NeedSeen[b] - d) - NeedSeen[b])
    BY <1>1, <2>1, TotalChanges, FiniteAssumption
  <2> QED
    BY <1>3, <2>2, <2>3
<1>5. Total(StockSeen', Markets) - Total(NeedSeen', Buyers) = Total(StockSeen, Markets) - Total(NeedSeen, Buyers)
  BY <1>2, <1>4
<1> QED
  BY <1>5 DEF AddsUp

\* The history variable counts the deliveries, and nothing else changes it.
LEMMA BalanceSteady ==
    ASSUME TypeOK, Safe, [Next]_vars, ~Store
    PROVE  balance' = balance
BY DEF Next, vars, Shop, Pick, Enter, Compare, TakeAll, EmptyMarket, TakeNeed, Satisfied, Leave,
       Supplies, Choose, EnterSupplier, Load, LeaveSupplier, WakeUp, EndSupplier,
       Main, JoinBuyers, Cancel, JoinSupplier, Free, Exit

\* For any buyers, markets and amounts, nothing is sold twice and no delivery is
\* lost: between purchases stock minus need is what it was, plus the deliveries
\* (thread_func.c:14-21, 39).
THEOREM NothingLost == Spec => []Conservation
<1>1. Init => AddsUp
  <2> SUFFICES ASSUME Init PROVE AddsUp
    OBVIOUS
  <2>1. StockSeen = assort /\ NeedSeen = need
    BY DEF Init, StockSeen, NeedSeen
  <2> QED
    BY <2>1 DEF Init, AddsUp
<1>2. TypeOK /\ Safe /\ AddsUp /\ [Next]_vars => AddsUp'
  <2> SUFFICES ASSUME TypeOK, Safe, AddsUp, [Next]_vars PROVE AddsUp'
    OBVIOUS
  <2>1. ASSUME NEW b \in Buyers, Shop(b), TakeAll(b) \/ TakeNeed(b) PROVE AddsUp'
    <3>1. Atomic!Buy(b, at[b]) /\ at[b] \in Markets
      BY <2>1, FirstUpdateBuys DEF TypeOK
    <3>2. balance' = balance
      BY <2>1 DEF TakeAll, TakeNeed
    <3> QED
      BY <3>1, <3>2, BuyAddsUp
  <2>2. CASE Store
    <3>1. Atomic!Deliver(sat) /\ sat \in Markets
      BY <2>2, StoreDelivers DEF TypeOK
    <3>2. /\ StockSeen \in [Markets -> Int] /\ StockSeen[sat] \in Int /\ Delivery \in Int
          /\ StockSeen[sat] + Delivery \in Int
      BY <3>1, SeenTyped DEF Delivery
    <3>3. StockSeen' = [StockSeen EXCEPT ![sat] = StockSeen[sat] + Delivery] /\ NeedSeen' = NeedSeen
      BY <3>1 DEF Atomic!Deliver
    <3>4. balance' = balance + Delivery
      BY <2>2 DEF Store
    <3>5. /\ Total(StockSeen, Markets) \in Int
          /\ Total([StockSeen EXCEPT ![sat] = StockSeen[sat] + Delivery], Markets)
               = Total(StockSeen, Markets) + ((StockSeen[sat] + Delivery) - StockSeen[sat])
      BY <3>1, <3>2, TotalChanges, FiniteAssumption
    <3>6. Total(NeedSeen, Buyers) \in Int
      BY SeenTyped, TotalTyped, FiniteAssumption
    <3>7. Total(StockSeen', Markets) = Total(StockSeen, Markets) + Delivery
      BY <3>2, <3>3, <3>5
    <3>8. Total(NeedSeen', Buyers) = Total(NeedSeen, Buyers)
      BY <3>3
    <3> QED
      BY <3>2, <3>4, <3>5, <3>6, <3>7, <3>8 DEF AddsUp
  <2>3. CASE UNCHANGED <<StockSeen, NeedSeen>> /\ ~Store
    BY <2>3, BalanceSteady DEF AddsUp
  <2>4. \/ Store \/ UNCHANGED <<StockSeen, NeedSeen>>
        \/ \E b \in Buyers : Shop(b) /\ (TakeAll(b) \/ TakeNeed(b))
    <3>1. ASSUME NEW b \in Buyers, Shop(b), ~(TakeAll(b) \/ TakeNeed(b))
          PROVE  UNCHANGED <<StockSeen, NeedSeen>>
      BY <3>1, UnseenShop DEF Shop
    <3>2. CASE Supplies /\ ~Store
      BY <3>2, SupplierUnseen
    <3>3. CASE Main \/ UNCHANGED vars
      BY <3>3 DEF Main, JoinBuyers, Cancel, JoinSupplier, Free, Exit, vars, buyerVars,
                  StockSeen, NeedSeen
    <3> QED
      BY <3>1, <3>2, <3>3 DEF Next
  <2> QED
    BY <2>1, <2>2, <2>3, <2>4
<1>3. TypeOK /\ Safe /\ AddsUp => Conservation
  <2> SUFFICES ASSUME TypeOK, Safe, AddsUp, \A m \in Markets : m_lock[m] = NoThread
               PROVE  Total(assort, Markets) - Total(need, Buyers) = balance
    BY DEF Conservation
  <2>1. \A b \in Buyers : bpc[b] \notin {"empty", "satisfied"}
    BY ThreadsAssumption DEF TypeOK, Safe, Guarded, BuyerInside
  <2>2. StockSeen = assort /\ NeedSeen = need
    BY <2>1 DEF TypeOK, StockSeen, NeedSeen
  <2> QED
    BY <2>2 DEF AddsUp
<1>4. Spec => []Safe
  BY MarketsSafe, PTL DEF Safe
<1> QED
  BY <1>1, <1>2, <1>3, <1>4, TypeCorrect, PTL DEF Spec

-----------------------------------------------------------------------------
(* The end of the process.                                                  *)

\* How far main has come tells who has ended.
Joined ==
    /\ mpc # "join" => \A b \in Buyers : bpc[b] = "done"
    /\ mpc \in {"free", "freed", "exit"} => spc = "ended"

\* main frees the markets and the buyers when no thread is left to use them
\* (thread.c:47-58).
THEOREM FreedLast == Spec => []NoUseAfterFree
<1>1. Init => Joined
  BY DEF Init, Joined
<1>2. TypeOK /\ Joined /\ [Next]_vars => Joined'
  <2> SUFFICES ASSUME TypeOK, Joined, [Next]_vars PROVE Joined'
    OBVIOUS
  <2>1. ASSUME NEW b \in Buyers, Shop(b) PROVE Joined'
    <3>1. bpc[b] # "done" /\ spc' = spc /\ mpc' = mpc
      BY <2>1 DEF Shop, Pick, Enter, Compare, TakeAll, EmptyMarket, TakeNeed, Satisfied, Leave,
                  supplierVars, mainVars
    <3> QED
      BY <3>1 DEF Joined, TypeOK
  <2>2. CASE Supplies
    BY <2>2 DEF Supplies, Choose, EnterSupplier, Load, Store, LeaveSupplier, WakeUp, EndSupplier,
                Joined, buyerVars, mainVars
  <2>3. CASE Main
    BY <2>3 DEF Main, JoinBuyers, Cancel, JoinSupplier, SupplierJoined, Free, Exit, Joined,
                buyerVars, supplierVars
  <2>4. CASE UNCHANGED vars
    BY <2>4 DEF vars, Joined, buyerVars, supplierVars, mainVars
  <2> QED
    BY <2>1, <2>2, <2>3, <2>4 DEF Next
<1>3. Joined => NoUseAfterFree
  BY DEF Joined, NoUseAfterFree
<1> QED
  BY <1>1, <1>2, <1>3, TypeCorrect, PTL DEF Spec
=============================================================================
