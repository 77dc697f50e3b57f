SPECIFICATION Spec
CONSTANTS
    ann = ann
    bob = bob
    Member <- MCMember
    MaxCycles = 2
    MaxFaults = 1
SYMMETRY Swapped
INVARIANTS PointsWereEarned BoardsConverge GuestScoresOnce
PROPERTIES FilesOnlyGrow
CHECK_DEADLOCK FALSE
