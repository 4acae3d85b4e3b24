CONSTANTS
    Agents = {agent}
    Agent = agent
    agent = agent
    buy = buy
    renewA = renewA
    renewB = renewB
    plain = plain
    service = service
    Keys <- MCKeys
    NoKey = NoKey
    WalletAmounts <- MCWalletAmounts
    Funds = 2
    Price = 1
    Payments = {renewA}
    Buys <- MCBuys
    Renews <- MCRenews
    Services = {service}
    RenewOf <- MCRenewOf
    NoPayment = NoPayment
    Handler = Handler
    Worker = Worker
    MaxAttempts = 2
    MaxMessages = 1
    MaxReceipts = 2
    MaxCrashes = 1
    Faults = TRUE
    RejectClaimed = TRUE
    LateReceipts = TRUE
SPECIFICATION Spec
CONSTRAINT OneLoss
CHECK_DEADLOCK FALSE
INVARIANTS PaidBefore ApprovedIsDelivered
