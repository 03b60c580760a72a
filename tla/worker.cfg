SPECIFICATION FairSpec
CONSTANTS
    o1 = o1  s1 = s1  s2 = s2
    Orders = {o1}
    Slots = {s1, s2}
    MaxAttempts = 2
    MaxOutages = 2
    NoMessage = NoMessage
    Faults = {"fail", "db", "crash", "disconnect"}
INVARIANTS RecordedIffProcessed NoMessageLost AttemptsAreFailures RetriesAreBounded
PROPERTIES ProcessedOnce EveryMessageSettles
