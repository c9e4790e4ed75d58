SPECIFICATION Spec
CONSTANTS
    r1 = r1
    r2 = r2
    NoRequest = NoRequest
    NoState = NoState
    Requests = {r1, r2}
    MaxEvents = 7
    MaxCrashes = 3
SYMMETRY RequestSymmetry
CHECK_DEADLOCK FALSE
INVARIANTS
    ReceiptIsTrue
    Inductive
PROPERTY KeepsPromise
