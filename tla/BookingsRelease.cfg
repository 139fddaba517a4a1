SPECIFICATION FairSpec
CONSTANTS
    host = host  guest1 = guest1  guest2 = guest2  flat = flat  villa = villa
    Users = {host, guest1}
    Listings = {flat}
    Owner <- OneOwner
    Price <- OnePrice
    BookingIds = {b1, b2}
    Requests = {r1}
    CronRuns = {c1, c2}
    LastDay = 2
    HoldDays = 0
    LastToday = 2
    Amounts = {1}
    MaxFunds = 1
    MaxCrashes = 1
    NoBooking = NoBooking
    NoStay = NoStay
PROPERTIES
    DueHoldsReleased
