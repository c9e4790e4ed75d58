SPECIFICATION Spec
CONSTANTS
    Manifests = {1, 2, 3}
    MaxManifests = 2
    MaxChanges = 1
    MaxFaults = 1
CHECK_DEADLOCK FALSE
INVARIANTS
    MirrorInv
    AckIsTrue
    LimitHolds
    PartialIsTrue
    NothingLeftBehind
PROPERTIES
    AckIsStable
