SPECIFICATION HealthFairSpec
CONSTANTS
    c1 = c1
    c2 = c2
    h1 = h1
    h2 = h2
    Calls = {c1, c2}
    FailureThreshold = 2
    SuccessThreshold = 1
    ResetTimeout = 2
    CountCap = 3
    Checks = {h1, h2}
    HcmMaxRetries = 1
INVARIANTS TypeOK FieldsAgree CountsStreak HealthTypeOK
PROPERTIES TripsOnStreak FailsFast Recovers ChecksAnswered OutageForgotten
