SPECIFICATION SchedSpec
CONSTANTS
    None = None
    Orders = {1, 2, 3}
    Prices = {1, 2}
    Setups <- OneSetup
    Steps <- TwoTargets
    MaxRequests = 0
    MaxTicks = 1
    MaxEnds = 1
    MaxFailures = 1
    MaxBacklog = 1
    AllowDrop = TRUE
INVARIANTS
    OutcomesFollowSteps
    StepsDoNotOverlap
    EndsAtLastTarget
CHECK_DEADLOCK FALSE
