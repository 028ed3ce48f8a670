SPECIFICATION Spec
CONSTANTS
    None = None
    Plan = {"narrow", "broad", "broken"}
    ValidPlan = {"narrow", "broad"}
    Code = {"good", "wide", "bad"}
    Path = {"a", "V1", "V2"}
    Touches <- MCTouches
    Allowed <- MCAllowed
    MigrationDir = {"V1", "V2"}
    Migration = {"V1"}
    Passing = {"good", "bad"}
    Branch = {"issue", "main"}
    IssueBranch = "issue"
    InitialCommits <- MCCommits
    MaxEdits = 3
    MaxRuns = 3
CHECK_DEADLOCK FALSE
INVARIANTS GateInv EvidenceDescribesHead PassMeansTested
PROPERTY GateRefinement
