SPECIFICATION ServiceSpec
CONSTANTS
    Calls = {1, 2, 4, 5}
    Clients = 2
    MaxFaults = 2
    MaxLives = 3
    Pinned = {3}
    MaxSerial = 5
    Pin = 3
    MidSpace = 4
    SnSpace = 2
    TsSpace = 4
    MaxTime = 2
    MaxIds = 3
    Queue = 1
    Loads <- MCLoads
INVARIANTS
    TypeOK
    UuidsUnique
    UuidsOrdered
    NumbersUnique
    NumbersFollow
PROPERTIES
    CallsReturn
CHECK_DEADLOCK FALSE
