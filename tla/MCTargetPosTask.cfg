SPECIFICATION Spec
CONSTANTS
    None = None
    Orders = {1, 2, 3}
    Prices = {None, p1, p2}
    Setups <- AllSetups
    MaxRequests = 2
    MaxTicks = 1
    MaxEnds = 1
    MaxFailures = 1
    MaxBacklog = 2
    AllowDrop = TRUE
SYMMETRY PriceSymmetry
INVARIANTS
    ExposureWithinTargets
    ReachedIsFact
    ClosesCovered
    CleanFinish
    TradesRecorded
CHECK_DEADLOCK FALSE
