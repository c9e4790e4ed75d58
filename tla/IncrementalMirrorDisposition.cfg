SPECIFICATION Spec
CONSTANTS
    Manifests = {1, 2}
    MaxManifests = 2
    MaxChanges = 1
    MaxFaults = 1
CHECK_DEADLOCK FALSE
INVARIANTS
    AcknowledgedIsReported
