CONSTANTS
    Writers = {w1, w2}
    Readers = {}
    Partitions = {market, trade}
    Addresses = {1, 2, 3, 4, 5, 6, 7, 8}
    CommitSizes = {1}
    RootSizes = {1, 3}
    MaxEntries = 2
    MaxBytes = 7
    MaxRevision = 3
    MaxCursors = 0
    NoWriter = NoWriter
SPECIFICATION Spec

INVARIANTS
    ViewIsOfItsRevision
    StateLeadsByOne
    BytesAccounted
CHECK_DEADLOCK FALSE
