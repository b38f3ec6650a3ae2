SPECIFICATION Spec
CONSTANTS
    Tools <- MCTools
    Action <- MCRefund
    Precondition <- MCVerify
    Tokens <- MCTokens
    UserTexts <- MCForms
    ChatTexts <- MCForms
    ArgTexts <- MCArgs
    ResultTexts <- MCResults
    Captures <- MCAll
    MaxSpans = 2
    MaxUser = 1
    MaxStamp = 6
    Clocks <- MCClocks
    Limit = 2
    Float <- MCFloat
INVARIANT VerbatimIsSourced
CHECK_DEADLOCK FALSE
