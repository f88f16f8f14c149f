\* Two processes race over one order through every lifecycle path, the host clock stepping back.
CONSTANTS
    p1 = p1
    p2 = p2
    k1 = k1
    k2 = k2
    a1 = a1
    d1 = d1
    d2 = d2
    None = None
    Procs = {p1, p2}
    Keys = {k1}
    Accounts = {a1}
    Days = {d1, d2}
    Requests <- OneKeyRequests
    Policies <- OnePolicy
    Terminals = {"Filled", "Rejected"}
    Revisions = {1}
    Lease = 1
    MaxTime = 3
    MaxInstalls = 1
    ClockMayRegress = TRUE
SPECIFICATION Spec
SYMMETRY PermuteProcs
INVARIANTS
    AtMostOneDispatch
    DispatchIsReserved
    AuditRetellsRow
    ReceiptWithinLease
PROPERTIES
    EvidenceIsFinal
    ImplementsContract
