\* One application, two workers, one attempt: it always ends.
SPECIFICATION FairSpec
CONSTANTS
    Apps = {p1}
    Workers = {w1, w2}
    Keys = {k1}
    Tokens = {t1, t2}
    NoApp = NoApp
    NoKey = NoKey
    NoToken = NoToken
    MaxAttempts = 1
    MaxRevision = 1
    MaxPlans = 1
    MaxCrashes = 1
    PermitTTL = 1
    ClaimTTL = 1
    PlanTTL = 1
    HandleTTL = 1
PROPERTY
    AttemptsTerminate
