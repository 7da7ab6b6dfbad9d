SPECIFICATION Spec
CONSTANTS
    i1 = i1
    i2 = i2
    i3 = i3
    c1 = c1
    c2 = c2
    Intents <- MCIntents
    Slots <- MCSlots
    Amounts <- MCAmounts
    Caps <- MCCaps
    SingleCap = 2
    MaxTime = 2
    DayLen = 2
SYMMETRY Symmetry
INVARIANTS SignedOnce SignedHoldsBudget HeldForSignature
PROPERTIES OwnCapRespected
CHECK_DEADLOCK FALSE
