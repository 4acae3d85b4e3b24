CONSTANTS
    Agents = {a1}
    Payments = {p1, p2}
    Keys = {p1, p2}
    Events = {e1, e2}
    Workers = {w1, w2}
    NoKey = NoKey
    NoEvent = NoEvent
    NoPayment = NoPayment
    Manual = Manual
    WalletAmounts = {1}
    AgentOf <- MCAgentOf
    AmountOf <- MCAmountOf
    Fits <- MCFits
    Faults = TRUE
    OverlappingRecovery = TRUE
    MaxCrashes = 1
CHECK_DEADLOCK FALSE
SPECIFICATION Spec
SYMMETRY MCSymmetry
INVARIANT TypeOK
INVARIANT CreditedOnce
INVARIANT ApprovedIsCredited
INVARIANT DepositSpentOnce
PROPERTY DecisionIsFinal
