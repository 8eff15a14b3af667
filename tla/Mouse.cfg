SPECIFICATION Spec
CONSTANTS
    DrainMax = 2
    MaxLost = 3
INVARIANTS
    StrayDiscarded
    
PROPERTY SyncKept
CHECK_DEADLOCK FALSE
