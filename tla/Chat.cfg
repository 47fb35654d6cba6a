SPECIFICATION Spec
CONSTANTS
    Ids = {1}
    Subs = {s1}
    Retention = 1
    Window = 1
    MaxMsgs = 3
    MaxFrom = 2
    MaxCrashes = 1
INVARIANTS
    TypeOK
    InboxIsTail
    RetentionKept
    CaughtUp
    SentInOrder
    AnswersInInbox
