SPECIFICATION Spec
CONSTANTS
    own = own
    agt = agt
    rcv = rcv
    vlt = vlt
    h1 = h1
    h2 = h2
    h3 = h3
    Addresses <- MCAddresses
    Vault = vlt
    Agents <- MCAgents
    Receivers <- MCReceivers
    Hashes <- MCHashes
    InitBalance <- MCInitBalance
    MaxU256 = 3
    MaxTime = 4
    DayLen = 2
SYMMETRY Symmetry
INVARIANTS DayBookExact NonceOnce FundsAccounted
PROPERTIES StopHolds ImplementsDailyBudget
