SPECIFICATION Spec
CONSTANTS
    t1 = t1
    t2 = t2
    h1 = h1
    h2 = h2
    Tabs <- MCTabs
    MaxJobs = 2
    Hashes <- MCHashes
    Kind = "transaction"
INVARIANTS ReportedHashIsKept PageIsTrue PaidOnceOnRecord
PROPERTIES FollowsTheApi
CHECK_DEADLOCK FALSE
