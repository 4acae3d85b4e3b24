CONSTANTS
    Agents = {a1}
    Payments = {p1, p2}
    Keys = {p1, p2}
    Events = {e1, e2}
    Workers = {w1, w2}
    NoKey = NoKey
    NoEvent = NoEvent
    NoPayment = NoPayment
    Manual = Manual
    WalletAmounts = {1}
    AgentOf <- MCAgentOf
    AmountOf <- MCAmountOf
    Fits <- MCFits
    Faults = FALSE
    OverlappingRecovery = FALSE
    MaxCrashes = 2
CHECK_DEADLOCK FALSE
SPECIFICATION Spec
SYMMETRY MCSymmetry
PROPERTY KeepsPromise
