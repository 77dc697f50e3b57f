SPECIFICATION LibrarySpec
CONSTANTS
    Reply <- MCReply
    OtherName = {kept}
    MaxDuels = 2
    MaxReplies = 1
    MaxClock = 2
    MaxViewed = 2
INVARIANTS
    PlayedAsRecorded
    FinishedDuelsKept
