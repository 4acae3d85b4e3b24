CONSTANTS
    Agents = {agent}
    Agent = agent
    agent = agent
    buy = buy
    renewA = renewA
    renewB = renewB
    plain = plain
    service = service
    Keys <- MCKeys
    NoKey = NoKey
    WalletAmounts <- MCWalletAmounts
    Funds = 2
    Price = 1
    Payments = {buy, renewA, plain}
    Buys <- MCBuys
    Renews <- MCRenews
    Services = {service}
    RenewOf <- MCRenewOf
    NoPayment = NoPayment
    Handler = Handler
    Worker = Worker
    MaxAttempts = 2
    MaxMessages = 1
    MaxReceipts = 1
    MaxCrashes = 1
    Faults = FALSE
    RejectClaimed = FALSE
    LateReceipts = FALSE
SPECIFICATION Spec
CONSTRAINT Bound
CHECK_DEADLOCK FALSE
INVARIANTS TypeOK NoFreeService DeliveredOnce UndecidedIsClear
PROPERTIES ApprovedIsFinal
