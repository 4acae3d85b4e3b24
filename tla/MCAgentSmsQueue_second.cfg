CONSTANTS
    w1 = w1
    w2 = w2
    p1 = p1
    p2 = p2
    e1 = e1
    e2 = e2
    e3 = e3
    e4 = e4
    d1 = d1
    d2 = d2
    Payments = {p1, p2}
    Events = {e1, e2, e3, e4}
    Deposits = {d1, d2}
    DepositOf <- MCDepositOf
    Traced <- MCTraced
    Fits <- MCFits
    Workers = {w1}
    Nothing = Nothing
    MaxSends = 3
    MaxUpsets = 0
SPECIFICATION Spec
SYMMETRY MCSymmetry
INVARIANTS
    AttachedIsManual
CHECK_DEADLOCK FALSE
