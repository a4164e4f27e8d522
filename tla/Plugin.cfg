\* Two plugin directories, three packages, two changes of packages.
CONSTANTS
    Names = {1, 2}
    Manifests <- MCManifests
    Payloads <- MCPayloads
    Blocks <- MCBlocks
    MaxTimeoutMS = 1
    MaxMemoryMB = 1
    MaxInputBytes = 2
    MaxOutputBytes = 2
    MaxChanges = 2
    MaxWrites = 2
    None = None
SPECIFICATION FairSpec
INVARIANTS PluginTypeOK AnswerHonest LoadComplete
PROPERTY RunsEnd
