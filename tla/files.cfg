SPECIFICATION Spec
CONSTANTS
    f1 = f1  f2 = f2  c1 = c1  c2 = c2  c3 = c3
    pA = pA  admin = admin  user = user  other = other
    None = None
    Files = {f1, f2}
    Calls = {c1, c2, c3}
    Products = {pA}
    Uploads <- SmallUploads
    Requests <- SmallRequests
    Faults = {"statement", "crash"}
INVARIANTS ImageIsAdminsReadyFile CompletedProductHasImage ReadyByOwner
PROPERTIES FileHistory
