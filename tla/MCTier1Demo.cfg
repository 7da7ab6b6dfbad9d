SPECIFICATION DemoSpec
CONSTANTS
    NRuns = 3
    Plans <- MCPlans
    Supply = 2
    MaxU256 = 3
    MaxTime = 1
    DayLen = 1
INVARIANTS ArtifactIsTrue SealedVaultIsEmpty
PROPERTIES SealedVaultIsFinal HealthyRunsSeal
CHECK_DEADLOCK FALSE
