SPECIFICATION Spec
CONSTANTS
    Tools <- MCTools
    Action <- MCRefund
    Precondition <- MCVerify
    Tokens <- MCTokens
    UserTexts <- MCPlainOnly
    ChatTexts <- MCChat
    ArgTexts <- MCArgs
    ResultTexts <- MCResults
    Captures <- MCAll
    MaxSpans = 2
    MaxUser = 1
    MaxStamp = 6
    Clocks <- MCClocks
    Limit = 2
    Float <- MCFloat
INVARIANT LLMClaimsCanBeSupported
CHECK_DEADLOCK FALSE
