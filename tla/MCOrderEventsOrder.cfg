SPECIFICATION Spec
CONSTANTS
    i1 = i1  i2 = i2  u1 = u1  u2 = u2  p1 = p1  p2 = p2
    Instance = {i1, i2}
    User = {u1}
    Partition = {p1}
    PartitionOf <- OnePartition
    Workers = 2
    MaxAttempts = 3
    MaxOrders = 2
    MaxRebalances = 1
INVARIANT UserOrderPreserved
