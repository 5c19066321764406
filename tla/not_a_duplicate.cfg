SPECIFICATION FairSpec
CONSTANTS
    first = first
    second = second
    flight = flight
    hotel = hotel
    pass = pass
    Message <- Emails
    Booking <- Bookings
    Doc <- Passes
    Drafts <- Confirmed
    Attachments <- Attached
    Rules <- RulesRead
    Retries = 2
    Cap = 1
    MaxCost = 1
    MaxCopies = 1
    MaxFaults = 1
PROPERTIES NotADuplicateSticks
CHECK_DEADLOCK FALSE
