SPECIFICATION Spec
CONSTANTS
    pA = pA  pB = pB  pX = pX
    MaxLines = 3
    MaxQuantity = 2
    MaxStock = 3
    Orders <- SmallOrders
    Catalogues <- SmallCatalogues
INVARIANTS PlanIsExact OutcomeIsJustified
