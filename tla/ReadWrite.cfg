SPECIFICATION AgentSpec
CONSTANTS
    NumPartitions = 2
    AgentActions <- MediumDelete
    ActionsPerIteration = 1
    PersonCreatePerAction = 2
    FriendshipCreatePerAction = 1
    TryPersonDeletePerAction = 2
    MaxIterations = 2
    Readings = {0, 1}
    HashFactor = 2
    DateHash = 0
    HalfRange = 8
INVARIANTS
    DrawsHaveNumbers
    LastPersonStays
    DeletionsAreWhole
PROPERTY
    TimesLostToDeletions
CHECK_DEADLOCK FALSE
