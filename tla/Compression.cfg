\* OpenAI and Anthropic requests of two messages, with up to three live blocks, and
\* tool output of up to five lines.
CONSTANTS
    Repeated <- MCRepeated
    Omitted <- MCOmitted
    Requests <- MCRequests
    Texts <- MCTexts
    Proposals <- MCProposals
    Tokens <- MCTokens
    MaxCompressors = 2
SPECIFICATION Spec
INVARIANTS TypeOK HotZonesSafe FirstSavingWins StatsAccount DetectionExact OmissionsAnnounced
CHECK_DEADLOCK FALSE
