\* The governor, and the parts of the host that share no state with it.
SPECIFICATION HostSpec
CONSTANTS
    Foci = {"governor", "inference", "evaluation", "identity", "clipboard", "guards",
            "bridge", "mailbox", "board", "form", "kill", "pipeline"}
    Unused = Unused
    Attempts = {a1, a2, b1}
    LinkedIn = {a1, a2}
    Workers = {w1, w2}
    Sessions = {s1}
    NoAttempt = NoAttempt
    DailyCap = 1
    MinGap = 2
    MaxGap = 2
    FirstCooldown = 1
    MaxCooldown = 2
    MaxTries = 2
    MaxDays = 2
    MaxTrips = 1
    MaxCalls = 2
    Processes = {"p1", "p2"}
    Calls = {w1, w2, w3}
    ProcessOf <- Placement
    Nobody = "nobody"
    Horizon = 2
    LeaseTTLs = {2, 3}
    Threshold = 2
    Reset = 1
    MaxStarts = 3
    MaxCrashes = 1
    Rows <- RowOfEach
    MinHigh = 1
    MinModel = 1
    MaxDrift = 1
    Shells = {w1, w2}
    Versions = {1, 2}
    Files = {"keys", "manifest"}
    Names = {"token", "key"}
    Absent = Absent
    MaxCommands = 3
    MaxEdits = 1
    ClearAttempts = 2
    MaxCopies = 2
    Procs = {"p1", "p2", "p3"}
    Hosts = {"127.0.0.1", "0.0.0.0", "10.0.0.7"}
    LocalHosts = {"127.0.0.1", "0.0.0.0"}
    MaxFiles = 3
    MaxDeaths = 1
    Items = {"u1", "u2"}
    BridgeTasks = {"t1", "t2"}
    Nothing = "nothing"
    Rescans = 1
    Interval = 0
    MaxReady = 2
    MaxLive = 1
    MaxForgets = 1
    MaxMessages = 4
    PageLen = 2
    PageBudget = 2
    MaxMailFaults = 2
    Postings = {"p1", "p2"}
    Kinds = {"board"}
    SearchScopes <- Intents
    PageSize = 1
    MaxPages = 2
    MaxRuns = 2
    MaxChanges = 1
    MaxFaults = 1
    Forms <- FormsShown
    Evidence <- EvidenceHeld
    QualifiedModels = {1}
    MaxRows = 2
    MaxSwaps = 1
    MaxInspections = 2
    MaxConfirms = 1
    Slots = {w1, w2}
    MaxProfiles = 2
    MaxRetries = 1
    MaxRealigns = 1
    Kills = {"k1"}
    NoKill = "none"
    MaxBoots = 2
    MaxLate = 1
    MaxLocal = 2
SYMMETRY Alike
CHECK_DEADLOCK FALSE
INVARIANTS
    CapHolds
    GovernorInv
    InferenceInv
    QualificationIsHonest
    IdentityIsWhole
    HostLocksExclude
    BridgeStaysSingle
    NoAlertSkipped
    JobSettles
PROPERTIES
    StopsBind
    GapHolds
    ClipboardGivenBack
    BoardIsFollowed
    PlanIsReviewed
    RemoteStopHolds
    MaterialIsCurrent
