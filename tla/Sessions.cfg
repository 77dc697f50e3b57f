SPECIFICATION Spec
CONSTANTS
    MaxAnswers = 2
    ReplayLength = 2
    MaxGames = 2
INVARIANTS
    SeatMatchesDuel
    PlaybackInOrder
    
    OpponentAsAnnounced
