\* Two concurrent requests; the second completed record exceeds the limit.
CONSTANTS
    Requests = {r1, r2}
    Responses <- MCResponses
    MaxChunks = 1
    MaxTime = 3
    MaxRecords = 1
    MaxAge = 1
    DefaultRecords = 3
    DefaultAge = 3
SPECIFICATION FairSpec
INVARIANTS TypeOK RecordedOnce TelemetryHonest StreamsPromptly
PROPERTIES RetentionKeepsLatest CancelReleases
CHECK_DEADLOCK FALSE
