SPECIFICATION HangingSpec
CONSTANTS
    Session = {"s1", "s2"}
    Request <- JoinRequest
    SessionOf <- JoinSessionOf
    Edge <- JoinEdge
    HistEdge <- JoinHist
    Wait <- JoinWait
    CancelOnFailure = FALSE
    Outcome = {"text", "silent", "failed"}
    MaxLag = 1
    Horizon = 1
    Interval = {0, 2}
INVARIANTS
    ArrivalsInOrder
    HistoryIsAncestry
PROPERTIES
    ImplementsContract
    RootsArrive
