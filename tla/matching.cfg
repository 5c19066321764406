\* Five parses or requests; three trips, three segments.
CONSTANTS
    Trip = {t1, t2, t3}
    Seg = {s1, s2, s3}
    City = {Rome, Oslo}
    Port = {FCO, OSL}
    Rome = Rome
    Oslo = Oslo
    FCO = FCO
    OSL = OSL
    None = None
    CityOf <- MCCityOf
    Near <- MCNear
    Draft <- MCDraft
    Email = {e1, e2, e3}
    e1 = e1
    e2 = e2
    e3 = e3
    Carries <- MCCarries
    Form <- MCForm
    LastDay = 5
    MaxSteps = 5
SPECIFICATION Spec
INVARIANTS TypeOK   NoRivals FoundFromBothSides
PROPERTIES DismissedStays
SYMMETRY RowSymmetry
CHECK_DEADLOCK FALSE
