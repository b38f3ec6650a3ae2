SPECIFICATION Spec
CONSTANTS
    Plans <- MCMixed
    MaxRejected = 1
    MaxRuns = 2
INVARIANTS
    TypeOK
    GateMatchesContract
    UnevaluableIsSkipped
    ReportComplete
    ScoreOfConcluded
    NoFallback
    LLMPassIsAdvisory
PROPERTY ImplementsAdmission
CHECK_DEADLOCK FALSE
