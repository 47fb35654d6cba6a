SPECIFICATION Spec
CONSTANTS
    Keys <- MCKeys
    Values <- MCValues
    Dir <- MCDir
    Loads <- MCLoads
    Window = 2
    Services = {"game", "other"}
    Provided = {"game"}
    Addresses = {"a", "b"}
    IdxLimit = 3
    Callers = {"p"}
    Path = "game"
    Cap = 1
    Tables = "numbers"
    Books <- MCBooks
INVARIANTS
    PoolFollows
    RoundRobin
    TablesCurrent
PROPERTY
    LookupsReturn
CHECK_DEADLOCK FALSE
