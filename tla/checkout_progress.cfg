SPECIFICATION FairSpec
CONSTANTS
    r1 = r1  r2 = r2  r3 = r3
    pA = pA  pB = pB  pX = pX
    alice = alice  bob = bob  stranger = stranger
    k1 = k1  k2 = k2
    None = None  NoKey = NoKey
    Requests = {r1, r2, r3}
    Keys = {k1, k2}
    Products = {pA, pB}
    KnownUsers = {alice, bob}
    InitStock <- SmallStock
    Inputs <- OneRowInputs
    PoolSize = 4
    Faults = {"rpc"}
PROPERTIES EveryRequestIsAnswered EveryOrderIsDecided
