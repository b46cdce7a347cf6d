SPECIFICATION FairSpec
CONSTANTS
    d1 = d1
    d2 = d2
    d3 = d3
    d4 = d4
    A = A
    B = B
    C = C
    Downloads <- MCDownloads
    SourceOf <- MCSourceOf
    Limits <- MCLimits
    Orders <- MCOrders
INVARIANTS
    TypeOK
    SlotsMatchHolders
    NoStrandedWaiter
PROPERTIES
    AdmitsWithinLimit
    NoQueueJumping
    EveryWaiterServed
    ImplementsSlots
    DispatchIsTheLoop
