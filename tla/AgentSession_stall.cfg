SPECIFICATION FairSpec
CONSTANTS
    MaxSend = 3
    MaxSeeds = 0
    MaxLogins = 0
    MaxGame = 0
    UpBuf = 1
    SendBuf = 1
    MQCap = 1
    RpmLimit = 3
    MaxMinutes = 0
    MayStall = TRUE
PROPERTIES
    ShutdownCompletes
