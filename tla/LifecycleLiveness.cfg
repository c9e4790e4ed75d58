SPECIFICATION FairSpec
CONSTANTS
    Pods = {p1, p2}
    NoPod = NoPod
    Copies = 1
    Deadline = 2
    TermLag = 1
    VisibilityGrace = 1
    AbsenceGrace = 1
    NetworkVolume = FALSE
    MaxFaults = 2
PROPERTIES
    EventuallyCloses
    HonoursContract
