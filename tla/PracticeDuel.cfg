SPECIFICATION PracticeSpec
CONSTANTS
    Roots <- MCRoots
    Answers = {1, 2}
    MaxRetries = 1
    MaxRefusals = 1
    CapReached = TRUE
    MaxBeats = 1
    MaxJumps = 2
    MaxDuels = 2
INVARIANTS
    AppliedMatchesEngine
    RightSeatAnswers
    ReplayOnBranch
PROPERTIES
    UndoHandsBackPrompt
    PumpSettles
CONSTRAINT Together
