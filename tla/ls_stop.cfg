SPECIFICATION StoppingSpec
CONSTANTS
    Session = {"s1", "s2"}
    Request <- TalkRequest
    SessionOf <- TalkSessionOf
    Edge <- TalkEdge
    HistEdge <- TalkEdge
    Wait <- LateTalkWait
    CancelOnFailure = FALSE
    Outcome = {"text", "failed"}
    MaxLag = 0
    Horizon = 0
    Worker = {"w1", "w2"}
    Dispatchers = 2
    Slots = 3
    Ordering = "prefill"
    FiresOnReturn = TRUE
INVARIANTS
    TurnsInOrderToTheEnd
    InOneHandUntilStop
PROPERTIES
    ImplementsContract
    LaunchesGoOnUntilStop
    LoopsClose
