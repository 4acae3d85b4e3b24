CONSTANTS
    w1 = w1
    w2 = w2
    p1 = p1
    p2 = p2
    c1 = c1
    e1 = e1
    e2 = e2
    e3 = e3
    d1 = d1
    d2 = d2
    Payments = {p1, p2}
    DirectBuy = {p2}
    Charges = {c1}
    Events = {e1, e2, e3}
    Deposits = {d1, d2}
    DepositOf <- MCDepositOf
    NoReference = {}
    SameAmount <- MCSameAmount
    Fits <- MCFits
    Workers = {w1, w2}
    Nothing = Nothing
    MaxSends = 3
    MaxUpsets = 1
SPECIFICATION Spec
SYMMETRY MCSymmetry
INVARIANTS
    TypeOK
    OneDepositPerPayment
    ManualKeepsItsMessage
    NoLostMatch
CONSTRAINT
    Bound
CHECK_DEADLOCK FALSE
