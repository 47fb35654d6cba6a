SPECIFICATION FairSpec
CONSTANTS
    MaxSend = 2
    MaxSeeds = 0
    MaxLogins = 1
    MaxGame = 1
    UpBuf = 1
    SendBuf = 1
    MQCap = 1
    RpmLimit = 2
    MaxMinutes = 1
    MayStall = FALSE
PROPERTIES
    SessionEnds
