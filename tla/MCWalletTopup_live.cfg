CONSTANTS
    Agents = {a1}
    Payments = {p1, p2}
    Keys = {p1, p2}
    Events = {e1}
    Workers = {w1}
    NoKey = NoKey
    NoEvent = NoEvent
    NoPayment = NoPayment
    Manual = Manual
    WalletAmounts = {1}
    AgentOf <- MCAgentOf
    AmountOf <- MCAmountOf
    Fits <- MCFits
    Faults = FALSE
    OverlappingRecovery = TRUE
    MaxCrashes = 2
CHECK_DEADLOCK FALSE
SPECIFICATION FairSpec
PROPERTY RecoveryEndsClaims
