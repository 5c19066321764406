SPECIFICATION Spec
CONSTANTS
    Trip = {t1, t2}
    Item = {i1, i2}
    Session = {request, worker}
    Day = {1}
    UndoWindow = 0
    NoTrip = NoTrip
    Unborn = Unborn
    Gone = Gone
INVARIANTS PurgeFindsShells
CHECK_DEADLOCK FALSE
