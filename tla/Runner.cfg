SPECIFICATION FairSpec
CONSTANTS
    Last = 3
    Enabled = {1, 3}
    NoTerminal = NoTerminal
    Cap = 2
    MaxCrashes = 3
CHECK_DEADLOCK FALSE
INVARIANTS
    PhaseOnceInOrder
    SuccessIsEarned
    SurvivorWasNeverShown
    BudgetSurvivesRestarts
PROPERTIES
    TerminalIsFinal
    ReachesTerminal
