SPECIFICATION Spec
CONSTANTS
    Spans <- MCSpans
    Contents <- MCOther
    Trace = "this"
    Copies = 1
    MaxLog = 1
INVARIANT ContentIsKept
CHECK_DEADLOCK FALSE
