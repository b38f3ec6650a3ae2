SPECIFICATION Spec
CONSTANTS
    Files <- MCFiles
    Rubrics <- MCRubrics
    Documents <- MCDocuments
    Place <- MCPlace
    Marshal <- MCMarshal
    NoJSON = NoJSON
    MaxLoads = 1
INVARIANTS
    BuiltinsKeepTheirMeaning
CHECK_DEADLOCK FALSE
