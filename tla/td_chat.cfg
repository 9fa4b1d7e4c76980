SPECIFICATION StoppingSpec
CONSTANTS
    Session = {"s1", "s2"}
    Request <- TalkRequest
    SessionOf <- TalkSessionOf
    Edge <- TalkEdge
    HistEdge <- TalkEdge
    Wait <- LateTalkWait
    CancelOnFailure = FALSE
    Outcome = {"text", "failed"}
    MaxLag = 0
    Horizon = 0
    Worker = {"w1"}
    Dispatchers = 1
    Slots = 4
    Ordering = "dispatch"
    FiresOnReturn = FALSE
PROPERTIES
    EveryTurnComesOrStop
