\* Seven tasks of two priorities; one slot and six places, or three and two.
SPECIFICATION FairSpec
CONSTANTS
    Priority = {0, 1}
    Configs <- MCConfigs
    Initial <- MCInitial
    MaxTasks = 7
INVARIANTS
    TypeOK TasksAccounted HeapOrdered
PROPERTIES
    RoomIsFilled ImplementsGate
    NoInversion Answered
