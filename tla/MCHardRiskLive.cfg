\* Recovery resolves every submission whose permit is lost.
CONSTANTS
    p1 = p1
    p2 = p2
    k1 = k1
    k2 = k2
    a1 = a1
    d1 = d1
    d2 = d2
    None = None
    Procs = {p1, p2}
    Keys = {k1}
    Accounts = {a1}
    Days = {d1}
    Requests <- OneDayRequests
    Policies <- OnePolicy
    Terminals = {"Filled"}
    Revisions = {1}
    Lease = 1
    MaxTime = 2
    MaxInstalls = 1
    ClockMayRegress = FALSE
SPECIFICATION FairSpec
PROPERTIES
    SubmissionResolved
