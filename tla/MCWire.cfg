SPECIFICATION Spec
CONSTANTS
    Base = 8
    Code <- MCCode
    DH1BASE = 5
    DH1PRIME = 23
    Script <- MCScript
    GameServerMsgIDBegin = 20
    Secrets = {6, 15}
    Pushes <- MCPushes
    MaxPushes = 2
INVARIANT
    MessagesIntact
CHECK_DEADLOCK FALSE
