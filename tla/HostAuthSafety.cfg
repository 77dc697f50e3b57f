SPECIFICATION Spec
CONSTANTS
    Host = Host
    Client = Client
    Draw = Draw
    NoWinner = NoWinner
    Shapes = {s1, s2}
    RawShape = RawShape
    NoShape = NoShape
    MultiPicks = {s2}
    Choices = {k1}
    Candidates = {k2}
    Coarse = {c1, c2}
    Detail = {d1}
    MaxPrompts = 3
    MaxStarts = 2
    MaxSurrenders = 1
    MaxLag = 1
SYMMETRY MCSymmetry
INVARIANTS
    AnswersFit
    ShownPromptIsLive
    NoFalseDesync
    QuietClientAgrees
PROPERTIES
    RefereeSpec
