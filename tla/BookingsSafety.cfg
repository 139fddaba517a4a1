SPECIFICATION Spec
CONSTANTS
    host = host  guest1 = guest1  guest2 = guest2  flat = flat  villa = villa
    Users = {host, guest1, guest2}
    Listings = {flat}
    Owner <- OneOwner
    Price <- OnePrice
    BookingIds = {b1, b2}
    Requests = {r1, r2}
    CronRuns = {c1, c2}
    LastDay = 3
    HoldDays = 0
    LastToday = 2
    Amounts = {2}
    MaxFunds = 2
    MaxCrashes = 0
    NoBooking = NoBooking
    NoStay = NoStay
SYMMETRY GuestSymmetry
INVARIANTS
    TypeOK
    NoDoubleBooking
    TablesAgree
    MoneyMovesOnce
    LedgerReconciles
    LockedReadsHold
PROPERTIES
    ImplementsEscrow
