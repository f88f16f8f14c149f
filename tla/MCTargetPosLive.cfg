SPECIFICATION FairSpec
CONSTANTS
    None = None
    Orders = {1, 2, 3, 4, 5}
    Prices = {1, 2}
    Setups <- OpenOnlySetups
    MaxRequests = 2
    MaxTicks = 1
    MaxEnds = 0
    MaxFailures = 0
    MaxBacklog = 1
    AllowDrop = FALSE
PROPERTIES
    RequestsSettle
    CancelledTaskEnds
CHECK_DEADLOCK FALSE
