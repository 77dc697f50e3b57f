SPECIFICATION FairSpec
CONSTANTS
    Host = Host
    Client = Client
    Draw = Draw
    NoWinner = NoWinner
    Shapes = {s1, s2}
    RawShape = RawShape
    NoShape = NoShape
    MultiPicks = {s2}
    Choices = {k1}
    Candidates = {k2}
    Coarse = {c1}
    Detail = {d1}
    MaxPrompts = 2
    MaxStarts = 1
    MaxSurrenders = 1
    MaxLag = 1
PROPERTIES
    PromptReachesClient
    EndReachesClient
    SurrenderEndsDuel
