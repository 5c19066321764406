SPECIFICATION Spec
CONSTANTS
    booking = booking
    checkin = checkin
    flight = flight
    hotel = hotel
    dinner = dinner
    pass = pass
    Trip = {t1, t2, t3}
    Expense = {x1, x2}
    Email <- Emails
    Seg <- Segs
    Doc <- Passes
    Drafts <- Read
    Attachments <- Attached
    Names <- FileNames
    Carried <- WithPrice
    NoTrip = NoTrip
    NoSeg = NoSeg
    NoEmail = NoEmail
    Absent = Absent
CHECK_DEADLOCK FALSE
SYMMETRY Symmetry
INVARIANTS TypeOK OneLinkedExpense
PROPERTIES SegmentsGoOnRequest  
