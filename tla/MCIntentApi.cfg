SPECIFICATION Spec
CONSTANTS
    i1 = i1
    i2 = i2
    r1 = r1
    r2 = r2
    d1 = d1
    Intents <- MCIntents
    Slots <- MCSlots
    Deploys <- MCDeploys
    Amounts <- MCAmounts
    SingleCap = 1
    DayCap = 1
    MaxTime = 2
    DayLen = 2
    OneRequestPerIntent = TRUE
    LedgerYields = TRUE
SYMMETRY Symmetry
INVARIANTS ExecutedWasValidated ExecutedWithinCap BudgetFollowsIntent ExecutedOnce TraceShowsState CommittedForExecution
PROPERTIES TerminalIsFinal
CHECK_DEADLOCK FALSE
