SPECIFICATION PartsSpec
CONSTANTS
    Node = {"a", "b"}
    Job = {1, 2}
    Width <- MCWidth
    Need <- MCNeed
    Contiguous <- MCContiguous
    Patience = 1
    Configs <- MCConfigs
    KeyOf <- MCKeyOf
    StartupPolls = 2
    MaxChunks = 1
    MaxEvents = 2
    Asks <- MCAsks
    Caps = {1, 2}
    MaxSegments = 2
    MaxLines = 2
    Requests = {1, 2}
    MaxFailures = 2
    Entry = {"e1", "e2", "e3"}
    BatchSize = 2
INVARIANTS
    OneOwner
    SweepIsSound
    TranscriptionIsSound
    SynthesisIsSound
    HttpAnswersAreRight
    FilesAreFaithful
PROPERTIES
    GrantIsBest
    EveryPartEnds
CHECK_DEADLOCK FALSE
