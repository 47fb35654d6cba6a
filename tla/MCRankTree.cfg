SPECIFICATION Spec
CONSTANTS
    Entries <- MCEntries
    MaxNodes = 8
VIEW View
INVARIANTS
    RanksRight
    Balanced
PROPERTY
    ImplementsTree
