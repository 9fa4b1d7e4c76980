SPECIFICATION PartsSpec
CONSTANTS
    Frac = 2
    StartValue <- MCStartValue
    MaxValue <- MCMaxValue
    GrowNum = 5
    GrowDen = 4
    MaxIterations = 11
    IntegerDomain = TRUE
    Session = {"s1", "s2"}
    Request = {"a", "b", "c", "e", "f"}
    SessionOf <- MCSessionOf
    Result = {"ok", "failed", "mute"}
    Points <- MCPoints
    Resumable = {2, 8}
    MaxProbes = 4
    FillPoints = 5
    Threshold = 1
    Jobs <- MCJobs
    MaxSeconds = 1
    WordFiles = 2
    MaxBuilds = 3
INVARIANTS
    CeilingIsKept
CHECK_DEADLOCK FALSE
