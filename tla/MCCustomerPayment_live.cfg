CONSTANTS
    Agents = {agent}
    Agent = agent
    agent = agent
    buy = buy
    renewA = renewA
    renewB = renewB
    plain = plain
    service = service
    Keys <- MCKeys
    NoKey = NoKey
    WalletAmounts <- MCWalletAmounts
    Funds = 2
    Price = 1
    Payments = {renewA, renewB}
    Buys <- MCBuys
    Renews <- MCRenews
    Services = {service}
    RenewOf <- MCRenewOf
    NoPayment = NoPayment
    Handler = Handler
    Worker = Worker
    MaxAttempts = 1
    MaxMessages = 1
    MaxReceipts = 1
    MaxCrashes = 1
    Faults = FALSE
    RejectClaimed = FALSE
    LateReceipts = FALSE
SPECIFICATION FairSpec
CHECK_DEADLOCK FALSE
PROPERTIES RecoveryFinalizes DecidedLeavesQueue
