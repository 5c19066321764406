SPECIFICATION FairSpec
CONSTANTS
    Trip = {t1, t2, t3}
    Item = {i1}
    Session = {request, worker}
    Day = {1}
    UndoWindow = 1
    NoTrip = NoTrip
    Unborn = Unborn
    Gone = Gone
INVARIANTS TypeOK ShellsAreEmpty ChainsOrdered NoCycles
PROPERTIES  SweepOrphansNothing ImplementsLedger MergesAreResolved
CHECK_DEADLOCK FALSE
