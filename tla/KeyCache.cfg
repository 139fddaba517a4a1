SPECIFICATION FairSpec
CONSTANTS
    Kids = {k1, k2}
    Verifications = {v1, v2}
    KeysTTL = 1
    FetchTime = 1
    LastNow = 6
    MaxRestarts = 1
PROPERTIES
    VerdictsWereTrue
    VerificationsEnd
