SPECIFICATION CalcSpec
CONSTANTS
    Width = 5
    Digits = {0, 1, 3, 6}
    MaxKeys = 6
INVARIANTS
    ShowsValue
    HaltsOnlyOnOverflow
CHECK_DEADLOCK FALSE
