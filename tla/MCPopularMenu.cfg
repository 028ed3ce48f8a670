SPECIFICATION Spec
CONSTANTS
    i1 = i1  i2 = i2
    Instance = {i1, i2}
    NoInstance = NoInstance
    Menu = {1, 2}
    TopN = 1
    Window = 2
    LegacyOrders <- OneLegacyOrder
    MaxOrders = 3
    MaxQueries = 1
    MaxTime = 3
SYMMETRY InstanceSymmetry
INVARIANTS ReadModelInv NeverOverCounts CountsAllRecorded NeverEmptyByMistake
