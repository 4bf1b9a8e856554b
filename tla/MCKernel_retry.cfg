\* An accepted retry does not always permit the second Send.
SPECIFICATION Spec
CONSTANTS
    Apps = {p1}
    Workers = {w1}
    Keys = {k1, k2}
    Tokens = {t1, t2}
    NoApp = NoApp
    NoKey = NoKey
    NoToken = NoToken
    MaxAttempts = 1
    MaxRevision = 1
    MaxPlans = 2
    MaxCrashes = 0
    PermitTTL = 1
    ClaimTTL = 1
    PlanTTL = 2
    HandleTTL = 1
INVARIANT
    AcceptedRetryPermitsSend
