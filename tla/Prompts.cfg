SPECIFICATION Spec
CONSTANTS
    Requests <- MCRequests
    Codes = {1, 2}
    Atk <- MCAtk
    Blockers = {2}
    ActivationCap = 1
    ActionCap = 2
    RetryCap = 1
    MaxTurns = 2
INVARIANTS AnswersAreTaken PromptsCanBeAnswered
PROPERTY OpponentSettles
