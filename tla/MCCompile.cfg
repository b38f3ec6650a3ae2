SPECIFICATION Spec
CONSTANTS
    Files <- MCFiles
    Rubrics <- MCRubrics
    Documents <- MCDocuments
    Place <- MCPlace
    Marshal <- MCMarshal
    NoJSON = NoJSON
    MaxLoads = 3
INVARIANTS
    PlanMeansContract
    HashTellsPlans
CHECK_DEADLOCK FALSE
