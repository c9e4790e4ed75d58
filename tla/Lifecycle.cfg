SPECIFICATION Spec
CONSTANTS
    Pods = {p1, p2}
    NoPod = NoPod
    Copies = 2
    Deadline = 3
    TermLag = 2
    VisibilityGrace = 2
    AbsenceGrace = 2
    NetworkVolume = TRUE
    MaxFaults = 2
SYMMETRY PodSymmetry
INVARIANTS
    Inductive
    SingleCreate
    ClosedMeansNoCompute
    DispositionBeforeDelete
    CloseoutNotRefused
    ExecuteOnlyAdmitted
    AccountScopeIsExceptional
PROPERTIES
    EvidenceIsStable
    NoWayBack
