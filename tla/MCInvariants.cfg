SPECIFICATION Spec
CONSTANTS
    maxCombinations = 2
    Constraint <- MCConstraint
    Specs <- MCSpecs
    Refs <- MCRefs
    Expr = "refund.amount <= approved_limit"
    Calls <- MCCalls
    Measures <- MCMeasures
    Patterns <- MCPatterns
    MaxCalls = 3
INVARIANTS
    TypeOK
    PassHoldsThroughout
    FailureIsBlamedRightly
    EnginesAgree
PROPERTY FailureStands
CHECK_DEADLOCK FALSE
