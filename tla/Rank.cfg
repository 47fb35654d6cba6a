SPECIFICATION Spec
CONSTANTS
    Users = {1, 2, 3}
    Scores = {1, 2}
    UPPER_THRESHOLD = 1
    LOWER_THRESHOLD = 2
    SetIds = {1}
    Calls = {c1}
    CHANGES_SIZE = 1
    Missing = Missing
INVARIANTS
    TypeOK
    ListsEveryUser
    RisingInOrder
    ChangesRecorded
