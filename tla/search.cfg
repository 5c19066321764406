SPECIFICATION FairSpec
CONSTANTS
    Trip = {t1, t2}
    Seg = {s1}
    Doc = {d1}
    Web = {w1, w2}
    Worker = worker
    Unborn = Unborn
    Gone = Gone
    Loose = Loose
    NoTrip = NoTrip
    NoRow = NoRow
    Missing = Missing
    MaxWrites = 2
    MaxFaults = 1
CHECK_DEADLOCK FALSE
INVARIANTS TypeOK 
PROPERTIES TripsMissedByAccident CatchesUp
