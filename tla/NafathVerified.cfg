SPECIFICATION Spec
CONSTANTS
    RequestIds = {r1}
    NationalIds = {n1}
    Users = {u1, u2}
    Handlers = {h1, h2}
    CronRuns = {c1}
    DecisionTime = 1
    GraceTime = 0
    RedeemWindow = 1
    IdWindow = 2
    IdMaxRequests = 2
    LinkTokenLife = 2
    Retention = 2
    LastNow = 0
    LastStart = 0
    MaxUpsets = 0
    NoRequest = NoRequest
    NoId = NoId
    NoUser = NoUser
INVARIANTS
    LinkedIsVerified
