SPECIFICATION FairSystemSpec
CONSTANTS
    r1 = r1  r2 = r2
    pA = pA
    alice = alice  bob = bob
    k1 = k1
    None = None  NoKey = NoKey
    Requests = {r1, r2}
    Keys = {k1}
    Products = {pA}
    KnownUsers = {alice, bob}
    InitStock <- SmallStock
    Inputs <- SmallInputs
    PoolSize = 3
    Faults = {"rpc", "restart"}
    s1 = s1  s2 = s2
    Slots = {s1}
    MaxAttempts = 1
    MaxOutages = 1
    NoMessage = NoMessage
    WorkerFaults = {"fail", "db", "crash", "disconnect"}
INVARIANTS MessageFindsPaidOrder CreatedOrderIsCarried
PROPERTIES ImplementsCheckout ImplementsWorker EveryOrderSettles
