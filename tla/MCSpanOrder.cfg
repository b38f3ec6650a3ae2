SPECIFICATION SortSpec
CONSTANTS
    Ids <- MCIds
    Missing = "x"
    Guard = 2
INVARIANTS
    DepthIsTrue
    OneAnswer
PROPERTY CallsReturn
CHECK_DEADLOCK FALSE
