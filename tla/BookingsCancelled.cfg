SPECIFICATION Spec
CONSTANTS
    host = host  guest1 = guest1  guest2 = guest2  flat = flat  villa = villa
    Users = {host, guest1, guest2}
    Listings = {flat}
    Owner <- OneOwner
    Price <- OnePrice
    BookingIds = {b1}
    Requests = {r1, r2}
    CronRuns = {c1}
    LastDay = 2
    HoldDays = 1
    LastToday = 3
    Amounts = {1}
    MaxFunds = 1
    MaxCrashes = 0
    NoBooking = NoBooking
    NoStay = NoStay
INVARIANTS
    CancelledMovedNoMoney
