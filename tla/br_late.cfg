SPECIFICATION Spec
CONSTANTS
    Session = {"s1", "s2"}
    Request <- TalkRequest
    SessionOf <- TalkSessionOf
    Edge <- TalkEdge
    HistEdge <- TalkEdge
    Wait <- TalkWait
    CancelOnFailure = TRUE
    Outcome = {"text"}
    MaxLag = 0
    Horizon = 0
    Interval = {0}
    Dispatcher = {"d1"}
    Worker = {"w1"}
    Completer = {"c1"}
    TimeoutMode = {"never"}
    Interrupts = FALSE
    Prompt = FALSE
INVARIANTS
    ReportIsComplete
