SPECIFICATION MarketSpec
CONSTANTS
    u1 = u1
    Users = {u1}
    ListingIds = {l1}
    Owner <- OneOwner
    LicenseIds = {}
    Requests = {r1, r2}
    Passes = {r1, r2}
    Offers <- OffersUntil
    Attended = {l1}
    Targets = {"published"}
    MaxCalls = 1
    PromoIds = {m1, m2}
    Days <- DaysOfKind
    LastNow = 2
    NoListing = NoListing
    NoLicense = NoLicense
    NoOffer = NoOffer
CHECK_DEADLOCK FALSE
SYMMETRY Symmetry
INVARIANTS
    GoldenIsPaidFor
    ShownFollows
