CONSTANTS
    Writers = {w1, w2}
    Readers = {r1, r2}
    Partitions = {market}
    Addresses = {1, 2, 3, 4}
    CommitSizes = {1}
    RootSizes = {1, 3}
    MaxEntries = 2
    MaxBytes = 6
    MaxRevision = 3
    MaxCursors = 2
    NoWriter = NoWriter
SPECIFICATION Spec
INVARIANTS
    LookupIsExact
PROPERTIES
    ImplementsStream
CHECK_DEADLOCK FALSE
