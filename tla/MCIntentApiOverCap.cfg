SPECIFICATION Spec
CONSTANTS
    i1 = i1
    i2 = i2
    r1 = r1
    r2 = r2
    d1 = d1
    Intents <- MCIntents
    Slots <- MCSlots
    Deploys <- MCDeploys
    Amounts <- MCAmounts
    SingleCap = 1
    DayCap = 1
    MaxTime = 0
    DayLen = 2
    OneRequestPerIntent = FALSE
    LedgerYields = FALSE
SYMMETRY Symmetry
INVARIANT ExecutedWithinCap
CHECK_DEADLOCK FALSE
