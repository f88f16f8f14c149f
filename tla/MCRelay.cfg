CONSTANTS
    Clients = {c1, c2}
    ChartIds = {a, b}
    au = au
    Symbols = {au}
    Sources <- TicksAndKline
    Pump = Pump
    Capacity = 1
    TickCapacity = 2
    MaxCommands = 2
    MaxRows = 3
    MaxFaults = 1
SPECIFICATION Spec
SYMMETRY ClientsAndCharts
INVARIANTS
    RegistryIsConsistent
    InterestIsCharted
    NothingLeftBehind
    RowsComplete
CHECK_DEADLOCK FALSE
