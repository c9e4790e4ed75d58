SPECIFICATION Spec
CONSTANTS
    c1 = c1
    c2 = c2
    r1 = r1
    r2 = r2
    r3 = r3
    Clients = {c1, c2}
    Runs = {r1, r2, r3}
    Amounts = {1, 2}
    Totals = {3, 4}
    Nobody = Nobody
    NoRun = NoRun

INVARIANT CrashIsSafe
