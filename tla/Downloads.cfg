SPECIFICATION Spec
CONSTANTS
    Code = {c1, c2}
    Thumbnail = {c2}
    Worker = {w1, w2}
    MaxSettings = 1
    Tag <- MCTag
    Current <- MCCurrent
INVARIANTS
    FetchedOnceAndCounted
    InstallerIsNew
PROPERTIES
    NeverReadsWhileWritten
    LandedArtAppears
CHECK_DEADLOCK FALSE
