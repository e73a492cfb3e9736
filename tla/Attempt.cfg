SPECIFICATION Spec
CONSTANTS
    Timeout = 1
    Operations = 3
CHECK_DEADLOCK FALSE
INVARIANTS
    AttemptTypeOK
    RepairOnlyUnusable
    StoredFitsType
PROPERTIES
    ImplementsWorkStage
