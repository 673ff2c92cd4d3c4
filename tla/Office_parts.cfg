SPECIFICATION Spec
CONSTANTS
    Parts = {"ladder", "flags", "log", "tokens", "full", "alerts", "inbox", "brief", "beat", "memory", "ask", "usage"}
    NULL = NULL
    MinAmount = 5
    PromiseGraceDays = 3
    IgnoredChasesToEscalate = 2
    LateBy = {0, 29, 89}
    ChasesSent = {0, 1, 2, 5}
    Horizon = 32
    FromDays <- MCFromDays
    CooldownDays <- MCCooldownDays
    FlagCustomers = {c1, c2}
    Positions <- MCPositions
    Calm <- MCCalm
    MaxHolds = 1
    NoFlag = NoFlag
    MaxFlagFaults = 1
    Experiment_ids = {1, 2}
    Keys = {k1}
    Strategists = {s1, s2}
    NoRow = NoRow
    NoKey = NoKey
    MaxExpFaults = 1
    Threads = {t1, t2}
    Nobody = Nobody
    MaxTokens = 3
    MaxCauses = 3
    max_retries <- MCMaxRetries
    Callers = {a1, a2}
    Plan <- MCPlan
    NoAlert = NoAlert
    Processes = {p1, p2}
    Conditions = {sync, brief}
    MaxOutages = 2
    MaxLosses = 1
    Undelivered = TRUE
    reminder = reminder
    hold = hold
    acme = acme
    asha = asha
    ravi = ravi
    Actions = {reminder, hold}
    Tool <- MCTool
    CustomerOf <- MCCustomerOf
    Deciders = {d1, d2}
    Users = {asha, ravi}
    Grants <- MCGrants
    MaxRequests = 3
    MaxCrashes = 1
    LateAnswers = TRUE
    Workspaces = {w1, w2}
    Readers = {r1}
    Cards = {b1, b2}
    BriefDays = {5, 6, 7}
    NoWorkspace = NoWorkspace
    MaxBriefFaults = 2
    Production = worker
    Laptop = laptop
    Never = Never
    STALE = 2
    EVERY = 2
    PRUNE_AFTER = 5
    LastUnit = 9
    Tellers = {o1, o2}
    MaxFacts = 3
    Figures = {f1}
    Count = count
    Invented = f0
    MAX_ITERS = 3
    SUMMARY_PARTS = 1
    MaxTurns = 1
    ApiProcesses = {a1, a2}
    WEEK_DAYS = 3
    min_days = 2
    window_days = 8
    RUN_DAYS = 6
    LastDate = 11
INVARIANTS
    TypeOK
    LadderIsFair
    SuggestedOnce
    OneFullSync
    OneExchangeForAll
    QuietIsEarned
    DeliveriesAreAccounted
    BriefsAreAccounted
    CurrentIsLatest
    GuardHolds
PROPERTIES
    FlagsAreKept
    UsageIsEvidence
    KeepsLifecycle
    WatchdogIsRight
CHECK_DEADLOCK FALSE
