CONSTANTS
    Agents = {agent}
    Agent = agent
    agent = agent
    o1 = o1
    o2 = o2
    Keys <- MCKeys
    NoKey = NoKey
    WalletAmounts = {1, 2}
    Funds = 3
    Prices = {1, 2}
    Ops = {o1, o2}
    Handler = Handler
    Admin = Admin
    None = None
    Gone = Gone
    MaxRenewals = 2
    MaxDeletions = 1
    MaxReprices = 1
    MaxFaults = 2
SPECIFICATION Spec
CONSTRAINT Bound
SYMMETRY MCSymmetry
CHECK_DEADLOCK FALSE
INVARIANTS TypeOK KeyPostedOnce NoOverdraft PurchaseSettled HeldIsResumable RenewalSettled BooksAgree
