\* A window with two requests at a time, one other client, one telemetry record.
CONSTANTS
    a = a
    aSlash = aSlash
    b = b
    odd = odd
    empty = empty
    Texts <- MCTexts
    TrimRight <- MCTrimRight
    ValidURL <- MCValidURL
    HTTPURL <- MCHTTPURL
    EmptyText = empty
    NoBody = NoBody
    Torn = Torn
    Nobody = Nobody
    FirstTarget = b
    Calls = {w1, w2, o1}
    Window = {w1, w2}
    Typing <- MCTyping
    OtherRequests <- MCOtherRequests
    Outcomes <- MCOutcomes
    Instants = {3}
    MaxHandled = 1
    MaxRecords = 2
    MaxAge = 1
    DefaultRecords = 3
    DefaultAge = 3
SPECIFICATION FairSpec
INVARIANTS TypeOK SavedHolds
PROPERTIES ImplementsContract CallsSettle
