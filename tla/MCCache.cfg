SPECIFICATION Spec
CONSTANTS
    Runs = {p1, p2}
    Requests <- MCRequests
    Faults = {"overlap", "crash", "writeError"}
INVARIANTS
    TypeOK
    ReportedWasGiven
    FailuresAreNotCached
    RerunIsStableAndFree
PROPERTY OneAnswerPerRun
SYMMETRY RunSymmetry
CHECK_DEADLOCK FALSE
