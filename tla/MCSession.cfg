SPECIFICATION Spec
CONSTANTS
    Tools <- MCTools
    Action <- MCRefund
    Precondition <- MCVerify
    Tokens <- MCTokens
    UserTexts <- MCPlainOnly
    ChatTexts <- MCChat
    ArgTexts <- MCArgs
    ResultTexts <- MCResults
    Captures <- MCCaptures
    MaxSpans = 3
    MaxUser = 1
    MaxStamp = 6
    Clocks <- MCClocks
    Limit = 2
    Float <- MCFloat
INVARIANTS
    TypeOK
    NoInventionPasses
    NothingSourcedIsAccused
    SupportWasThere
    PreconditionVerdict
    BeforeVerdict
    PrefixVerdictsStand
CHECK_DEADLOCK FALSE
