SPECIFICATION HangingSpec
CONSTANTS
    Session = {"s1", "s2", "s3"}
    Request <- DiamondRequest
    SessionOf <- DiamondSessionOf
    Edge <- DiamondEdge
    HistEdge <- DiamondHist
    Wait <- DiamondWait
    CancelOnFailure = TRUE
    Outcome = {"text", "failed"}
    MaxLag = 2
    Horizon = 2
    Target = 2
    Ramp = 2
INVARIANTS
    TypeOK
    LookupsNeverFail
    NeverEarly
    FinishedAreDone
    NoStuckSession
    InFlightIsQueuedOrSent
    ConcurrencyHeld
    PlacesStayTaken
PROPERTIES
    ImplementsContract
    RampKeepsPace
    AllWorkEnds
