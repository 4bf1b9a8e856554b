SPECIFICATION Spec
CONSTANTS
    Foci = {"restore"}
    Apps = {"a1", "a2"}
    Unused = Unused
    Company <- OneEmployer
    Contracts = {"c1"}
    Starts <- UnqualifiedOrSettled
    LimitChoices <- Tight
    DayLength = 3
    ActiveTicks = 2
    Hour = 1
    Window = 3
    PolicyTTL = 3
    PlanTTL = 2
    AuthorityTTL = 2
    CanaryTTL = 1
    Horizon = 3
    MaxPolicies = 1
    MaxDrifts = 1
    Workers = {"w1", "w2"}
    Lease = 1
    MaxClaims = 2
    MaxRevisions = 2
    MaxSwitches = 2
    Files = {"routing", "qualification", "cv1", "cv2"}
    CVs = {"cv1", "cv2"}
    Makers = {"m1", "m2"}
    MaxReplaced = 2
    MaxPasses = 2
INVARIANT SecondPassIsNoop
\* Time, claims and drifts are bounded, and a quarantined database is done.
CHECK_DEADLOCK FALSE
