SPECIFICATION Spec
CONSTANTS
    Ranges <- ThreeRanges
    Inodes <- FiveInodes
    Readers = {r1}
    CompactAt = 3
    FsyncCoversName = TRUE
    MaxStores = 4
    MaxRepairs = 1
    MaxCrashes = 1
    MaxAborts = 1
    None = None
INVARIANTS PinnedPrefixIsIntact LinkedFileIsUntouched
PROPERTIES AcknowledgedSurvives
CHECK_DEADLOCK FALSE
