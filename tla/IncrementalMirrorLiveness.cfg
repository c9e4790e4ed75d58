SPECIFICATION FairSpec
CONSTANTS
    Manifests = {1, 2}
    MaxManifests = 2
    MaxChanges = 1
    MaxFaults = 2
CHECK_DEADLOCK FALSE
PROPERTIES
    EventuallyMirrored
