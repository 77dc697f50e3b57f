SPECIFICATION Spec
CONSTANTS
    a = a
    x = x
    MainCard = {a}
    ExtraCard = {x}
    Code <- MCCode
    Rank <- MCRank
    Owned <- MCOwned
    Decks = 2
    Starter <- MCStarter
    Shared <- MCShared
    Formats = 2
    FileOf <- MCFileOf
    EditorLimits <- MCLimits
    Copies = 2
    MainMin = 1
    MainMax = 2
    SideMax = 1
    MaxChanges = 3
    MaxFailures = 1
INVARIANTS SavedMeansStored TidyMakesLegal ShareRoundTrip
CHECK_DEADLOCK FALSE
