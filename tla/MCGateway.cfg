SPECIFICATION GatewaySpec
CONSTANTS
    Listeners = {tcp, kcp}
    Conns = {1, 2, 3}
    Streams = {1, 2}
    Users = {1}
    UserOf <- MCSameUser
    Quota <- MCQuota
    Loads <- MCLoads
INVARIANTS
    LateAcceptsBounded
    CountedServed
    OnlineUsersRegistered
    FramesKept
PROPERTIES
    Exits
    CallEnds
    UsersLeave
CHECK_DEADLOCK FALSE
