SPECIFICATION FairBarrierSpec
CONSTANTS
    Last = 1
    Enabled = {1}
    NoTerminal = NoTerminal
    Cap = 1
    MaxCrashes = 1
    Inputs = {a, b}
    Startup = 1
    Deadline = 2
    NoResult = NoResult
    Kills = TRUE
CHECK_DEADLOCK FALSE
INVARIANTS
    BarrierInv
    IdentityFirst
    LaunchIsComplete
    ReceiptsAreTrue
    OneAuthorization
    SuccessIsTrue
PROPERTIES
    ImplementsRunner
    LateTokenIsInert
    ExecuteReturns
