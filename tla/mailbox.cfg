SPECIFICATION Spec
CONSTANTS
    oliver = oliver
    Oliver = Oliver
    trips = trips
    e1 = e1
    e2 = e2
    flight = flight
    User = {u1, u2, u3}
    Alias = {i1, i2}
    Email = {e1, e2}
    Spelling = {oliver, Oliver, trips}
    Lower <- MCLower
    To <- MCTo
    Booking = {flight}
    About <- MCAbout
    MaxEdits = 3
    None = None
INVARIANTS TypeOK  NeverLost  OneCopyEach FiledForReader
SYMMETRY MCSymmetry
CHECK_DEADLOCK FALSE
