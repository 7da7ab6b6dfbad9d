SPECIFICATION Spec
CONSTANTS
    h1 = h1
    h2 = h2
    w1 = w1
    w2 = w2
    Hashes <- MCHashes
    Waits <- MCWaits
    MaxAttempts = 3
PROPERTIES EveryWaitEnds ImplementsFinalityWait
