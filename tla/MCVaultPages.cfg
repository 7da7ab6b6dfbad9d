SPECIFICATION PagesSpec
CONSTANTS
    i1 = i1
    i2 = i2
    i3 = i3
    s1 = s1
    s2 = s2
    r1 = r1
    r2 = r2
    Intents <- MCIntents
    Signers <- MCSigners
    Amounts <- MCAmounts
    Terms <- MCTerms
    Ids <- MCIds
    Digest <- MCDigest
    DayCap = 5
    MaxTime = 1
    DayLen = 1
    RecentLimit = 2
    MaxSingle = 3
SYMMETRY Symmetry
INVARIANTS CapHolds MeterMatchesDebits ShownCommitsStay
PROPERTIES SettledIsFinal
CHECK_DEADLOCK FALSE
