SPECIFICATION Spec
CONSTANTS
    i1 = i1  i2 = i2
    Instance = {i1, i2}
    NoInstance = NoInstance
    Menu = {1, 2}
    TopN = 3
    Window = 1
    LegacyOrders <- NoLegacyOrder
    MaxOrders = 2
    MaxQueries = 2
    MaxTime = 1
INVARIANT SameAnswerOnAnyInstance
