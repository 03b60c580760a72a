SPECIFICATION Spec
CONSTANTS
    o1 = o1  o2 = o2  o3 = o3
    pA = pA  pB = pB
    None = None
    Orders = {o1, o2, o3}
    Products = {pA, pB}
    ItemsOf <- SmallItems
    Filters <- SmallFilters
    Limits = {2, 3}
    MaxLimit = 2
INVARIANTS WalkIsComplete ItemShowsItsProduct MetricsNeverAhead
