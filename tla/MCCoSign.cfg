SPECIFICATION Spec
CONSTANTS
    i1 = i1
    i2 = i2
    j1 = j1
    j2 = j2
    h1 = h1
    h2 = h2
    Intents <- MCIntents
    Jobs <- MCJobs
    Hashes <- MCHashes
    Names <- MCNames
    Accounts <- MCAccounts
    DemoReceiver <- ShopAccount
    DemoPackage <- TokenPackage
    DemoToken = "cspr-test-cep18"
    DemoCap = 1
    NativeCap = 1
    Operators <- MCOperators
    Receivers <- MCReceivers
    Contracts <- MCContracts
    Tokens <- MCTokens
    Amounts <- MCAmounts
    OtherBodies <- MCOtherBodies
SYMMETRY Symmetry
INVARIANTS SignedByPayer ConfirmedPaysIntent AdmittedIsBuildable
