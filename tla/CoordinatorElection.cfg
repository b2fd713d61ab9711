CONSTANTS
    Device = {1, 3}
    Node = {1, 3}
    MaxSafeInteger = 2
    ForeignTerm <- MCForeignTerm
    MaxRestarts = 1
SPECIFICATION FairSpec
INVARIANTS
    SameClaimsSameCoordinator
PROPERTIES
    EventuallyOneCoordinator
