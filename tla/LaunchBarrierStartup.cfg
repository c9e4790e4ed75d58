SPECIFICATION BarrierSpec
CONSTANTS
    Last = 1
    Enabled = {1}
    NoTerminal = NoTerminal
    Cap = 1
    MaxCrashes = 0
    Inputs = {a}
    Startup = 2
    Deadline = 4
    NoResult = NoResult
    Kills = FALSE
CHECK_DEADLOCK FALSE
INVARIANT StartupIsBounded
