SPECIFICATION Spec
CONSTANTS
    None = None
    Questions <- IdsKept
    Worlds <- SmallWorlds
    MaxToolCalls = 5
    MaxReplans = 1
    RelationLimit = 3
INVARIANTS
    StuckOnlyOnNames
    ProgressIsKept
PROPERTIES
    FinishedIsTrue
CHECK_DEADLOCK FALSE
