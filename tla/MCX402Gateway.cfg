SPECIFICATION GatewaySpec
CONSTANTS
    a1 = a1
    a2 = a2
    a3 = a3
    n1 = n1
    n2 = n2
    c1 = c1
    c2 = c2
    Auths <- MCAuths
    Nonces <- MCNonces
    NonceOf <- MCNonceOf
    Slots <- MCSlots
    MaxCalls = 3
    VerifyFirst = TRUE
SYMMETRY Symmetry
INVARIANTS AcceptedOnce ChargedIsRecorded SettledWasCharged
CHECK_DEADLOCK FALSE
