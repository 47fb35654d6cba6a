SPECIFICATION RelaySpec
CONSTANTS
    MaxSend = 4
    MaxSeeds = 1
    MaxLogins = 1
    MaxGame = 2
    UpBuf = 1
    SendBuf = 1
    MQCap = 1
    RpmLimit = 3
    MaxMinutes = 1
    MayStall = TRUE
    Loads <- MCLoads
INVARIANTS
    TypeOK
    ForwardedOnce
    WellBehavedNotKicked
    StreamsReleased
    DownstreamIntact
    PendingOpenWhilePushing
PROPERTIES
    RelaysUp
    RelaysDown
