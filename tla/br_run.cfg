SPECIFICATION HangingSpec
CONSTANTS
    Session = {"s1", "s2"}
    Request <- TalkRequest
    SessionOf <- TalkSessionOf
    Edge <- TalkEdge
    HistEdge <- TalkEdge
    Wait <- TalkWait
    CancelOnFailure = TRUE
    Outcome = {"text", "failed"}
    MaxLag = 0
    Horizon = 0
    Interval = {0}
    Dispatcher = {"d1"}
    Worker = {"w1"}
    Completer = {"c1"}
    TimeoutMode = {"never", "grace"}
    Interrupts = TRUE
    Prompt = TRUE
INVARIANTS
    EndsOnlyWhenDone
    ReportIsComplete
    IncludedAreReported
    NothingLostBeforeStop
PROPERTIES
    RunEnds
