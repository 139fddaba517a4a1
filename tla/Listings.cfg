SPECIFICATION Spec
CONSTANTS
    u1 = u1
    Users = {u1, u2}
    ListingIds = {l1, l2}
    Owner <- OneOwner
    LicenseIds = {k1}
    Requests = {r1, r2}
    Passes = {}
    Offers = {}
    Attended = {l1}
    Targets = {"published", "paused"}
    MaxCalls = 1
    NoListing = NoListing
    NoLicense = NoLicense
    NoOffer = NoOffer
CHECK_DEADLOCK FALSE
SYMMETRY Symmetry
INVARIANTS
    LinksAreOwn
    SearchFindsPublished
    LicensesLead
    SearchFollows
