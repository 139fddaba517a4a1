SPECIFICATION FairSpec
CONSTANTS
    host = host  guest1 = guest1  guest2 = guest2  flat = flat  villa = villa
    Users = {guest1, guest2}
    Listings = {flat, villa}
    Owner <- TwoOwners
    Price <- TwoPrices
    BookingIds = {b1, b2}
    Requests = {r1, r2}
    CronRuns = {}
    LastDay = 2
    HoldDays = 1
    LastToday = 0
    Amounts = {1}
    MaxFunds = 1
    MaxCrashes = 0
    NoBooking = NoBooking
    NoStay = NoStay
INVARIANTS
    OnlyHostsDeadlock
PROPERTIES
    TransactionsEnd
