SPECIFICATION Spec
CONSTANTS
    None = None
    Questions <- IdsReused
    Worlds <- SmallWorlds
    MaxToolCalls = 3
    MaxReplans = 1
    RelationLimit = 3
INVARIANTS
    GoalsAdvanceByTheirReceipts
CHECK_DEADLOCK FALSE
