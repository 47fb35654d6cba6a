SPECIFICATION Spec
CONSTANTS
    Ids = {1}
    Subs = {s1, s2}
    Retention = 1
    Window = 1
    MaxMsgs = 2
    MaxFrom = 1
    MaxCrashes = 1
INVARIANTS
    OffsetsStable
