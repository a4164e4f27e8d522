\* The upstream breaks off in the middle of a chunked body.
CONSTANTS
    Requests = {r1}
    Responses <- MCResponses
    MaxChunks = 1
    MaxTime = 3
    MaxRecords = 1
    MaxAge = 1
    DefaultRecords = 3
    DefaultAge = 3
SPECIFICATION Spec
INVARIANT CompleteIsWhole
CHECK_DEADLOCK FALSE
