\* One application, two workers, two attempts: stalls, crashes and retries.
SPECIFICATION Spec
CONSTANTS
    Apps = {p1}
    Workers = {w1, w2}
    Keys = {k1, k2}
    Tokens = {t1, t2}
    NoApp = NoApp
    NoKey = NoKey
    NoToken = NoToken
    MaxAttempts = 2
    MaxRevision = 2
    MaxPlans = 2
    MaxCrashes = 1
    PermitTTL = 2
    ClaimTTL = 2
    PlanTTL = 3
    HandleTTL = 1
SYMMETRY Symmetric
PROPERTY ImplementsFinalAction
INVARIANTS
    OneClickPerAttempt
    NoSecondApplication
    ClickIsNeverForgotten
    ReviewedContentFrozen
    ClickerIsAlone
    OneLiveAttempt
    RedeliveredNeverActs
    KernelInv
