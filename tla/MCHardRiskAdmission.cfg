\* Two orders compete for daily limits while administrators race to replace the policy.
CONSTANTS
    p1 = p1
    p2 = p2
    k1 = k1
    k2 = k2
    a1 = a1
    d1 = d1
    d2 = d2
    None = None
    Procs = {p1, p2}
    Keys = {k1, k2}
    Accounts = {a1}
    Days = {d1}
    Requests <- TwoKeyRequests
    Policies <- ClashingPolicies
    Terminals = {"Filled"}
    Revisions = {1}
    Lease = 1
    MaxTime = 1
    MaxInstalls = 3
    ClockMayRegress = FALSE
SPECIFICATION Spec
SYMMETRY PermuteProcs
INVARIANTS
    UsageIsReserved
    UsageWithinLimits
    PolicyChain
