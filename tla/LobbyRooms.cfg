SPECIFICATION LobbySpec
CONSTANTS
    Player = {h, g}
    Hosts = {h}
    Guests = {g}
    Deck = {d1}
    NoDeck = NoDeck
    MaxEvents = 2
    Conn <- MCReturns
    NoConn = NoConn
    Code = {k1}
    NoCode = NoCode
    Frames <- MCFrames
    Outs <- MCOuts
INVARIANTS
    LatchesFollowOpponent
    SettledPairAgrees
PROPERTIES
    RelaySpec
CHECK_DEADLOCK FALSE
