SPECIFICATION FairSpec
CONSTANTS
    b1 = b1
    b2 = b2
    m1 = m1
    m2 = m2
    Buyers <- TwoBuyers
    Markets <- TwoMarkets
    NoThread = NoThread
    Supplier = Supplier
    Stocks <- SomeStocks
    Needs <- SomeNeeds
    MaxVisits = 2
INVARIANTS
    TypeOK
    Conservation
    NoUseAfterFree
PROPERTIES
    PurchasesAtomic
    Ends
CHECK_DEADLOCK FALSE
