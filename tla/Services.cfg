SPECIFICATION OneSpec
CONSTANTS
    Submissions = {s1, s2, s3}
    Years = {2026, 2027}
    Base = 2
    Full = 4
    MaxFailures = 1
    u1 = u1  u2 = u2  l1 = l1
    People = {u1, u2}
    Requests = {p1, p2}
    Invoices = {i1}
    Deliveries = {d1, d2}
    MaxDeliveries = 2
    MaxUnsigned = 1
    MaxCrashes = 1
    Pairs <- BothWays
    Topics = {l1, None}
    ChatIds = {c1, c2}
    MessageIds = {m1}
    SearchIds = {s1}
    Places = {a, b}
    Amounts = {0, 1}
    Checks = {p1}
    MaxAlerts = 1
    MaxFields = 2
    MaxUnits = 2
    MaxIndexCalls = 2
    MaxCodes = 2
    Lifetime = 1
    LastNow = 2
    Devices = {d1}
    NoticeIds = {n1}
    ClientIds = {c1}
    ReminderIds = {r1}
    DealIds = {l1}
    Times = {0, 2}
    Window = 1
    None = None
CHECK_DEADLOCK FALSE
INVARIANTS
    ServicesTypeOK
    NumbersConsecutive
    OnlyPaidCredited
    OneChat
    NothingUnseen
    
    ProjectShows
    CodesWorkOnce
    OneIsShown
    TokensFollow
PROPERTIES
    RefusedOnlyWhenFull
    SubmissionsEnd
    PaidReachesWallet
    DeletedStays
