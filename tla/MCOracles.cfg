SPECIFICATION Spec
CONSTANTS
    o1 = o1  o2 = o2  q1 = q1  q2 = q2  kafka = kafka  app1 = app1  app2 = app2
    Oracle = {o1, o2}
    Port = {q1, q2}
    KafkaPort = kafka
    App = {app1, app2}
    MaxFaults = 2
    StaticIds <- Ids
    Tree <- Trees
    Node <- LayerNodes
    Order <- LayerOrder
CHECK_DEADLOCK FALSE
INVARIANTS SearchInv StackInv ArchitectureVerdictIsRight ScanPassIsSound
    NothingLeftBehind
PROPERTY OraclesEnd
