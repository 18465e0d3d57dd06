SPECIFICATION Spec
CONSTANTS
    NumProcs = 3
    NumResources = 3
    Rank <- MCRank
    Wants <- MCWants
    MaxProcs = 2
INVARIANTS
    UnitsAreConserved
    BlockedIsRegistered
    DetectionIsExact
PROPERTIES
    DetectionBreaksDeadlock
    DeadlockIsBroken
