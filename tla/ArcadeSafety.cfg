SPECIFICATION Spec
CONSTANTS
    Name = {n1, n2}
    Sealed = sealed
    super = super
    rare = rare
    alpha = alpha
    Card = {super, rare}
    Key = {alpha}
    RarityOf <- MCRarity
    KeysOf <- MCKeys
    LastSet = 1
    PacksPerCycle = 1
    Prizes <- MCPrizes
    MaxPulls = 2
    MaxRecords = 1
    MaxKills = 1
SYMMETRY MCNames
INVARIANTS BooksBalance
CHECK_DEADLOCK FALSE
