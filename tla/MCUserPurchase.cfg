CONSTANTS
    d1 = d1
    w1 = w1
    w2 = w2
    Direct = {d1}
    Orders = {w1, w2}
    NoPurchase = NoPurchase
    Funds = 1
    Price = 1
    Loop = Loop
    Handler = Handler
    MaxTries = 2
    MaxAttempts = 2
    MaxPresses = 2
    MaxCrashes = 1
SPECIFICATION FairSpec
INVARIANTS
    TypeOK
    DeliveredOnce
    NothingForFree
    OrderSettled
PROPERTIES
    EventuallyDelivered
CONSTRAINT
    Bound
CHECK_DEADLOCK FALSE
