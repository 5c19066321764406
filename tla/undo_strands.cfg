SPECIFICATION Spec
CONSTANTS
    Trip = {t1, t2}
    Item = {i1, i2}
    Session = {request}
    Day = {1}
    UndoWindow = 0
    NoTrip = NoTrip
    Unborn = Unborn
    Gone = Gone
INVARIANTS NoItemStranded
CHECK_DEADLOCK FALSE
