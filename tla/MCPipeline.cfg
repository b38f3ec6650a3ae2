SPECIFICATION Spec
CONSTANTS
    Spans <- MCSpans
    Contents <- MCContents
    Trace = "this"
    Copies = 2
    MaxLog = 3
INVARIANTS
    EpisodeIsFaithful
    DeliveryIsForgotten
    ContentOnlyAdds
    PartialIsPart
CHECK_DEADLOCK FALSE
