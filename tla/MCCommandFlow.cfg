CONSTANTS
    Orders = {o1}
    Kinds = {"insert", "cancel", "subscribe", "request"}
    OutsideStatuses = {"completed", "rejected"}
    MaxRetained = 1
    MaxCommands = 3
    MaxLosses = 1
    MaxUpdates = 2
SPECIFICATION Spec
INVARIANTS
    AtMostOnceOnWire
    WireFollowsSubmission
    OutcomeMatchesOrder
    LedgerMatchesTree
PROPERTIES
    TerminalIsFinal
CHECK_DEADLOCK FALSE
