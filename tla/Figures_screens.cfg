SPECIFICATION LedgersSpec
SYMMETRY Sym
CONSTANTS
    Sheets = {"sales", "history", "orders", "pos", "quotes"}
    Customers = {c1, c2}
    Skus = {k1, k2}
    DAYS = 2
    Terms = 1
    LastDay = 3
    MaxEntries = 2
    MaxHistory = 3
    MaxBills = 1
    MAX_CUSTOMERS = 1
    MAX_SKUS = 1
    MAX_INVOICES = 1
    MAX_CATEGORIES = 1
    MAX_ROWS = 1
    MAX_POINTS = 3
    BUCKET = 1
    TRAIL = 1
    COVER = 2
    MONTHS = 2
    CREDIT_STRETCH_DAYS = 2
    CREDIT_HIGH_EXPOSURE_SHARE = 60
    CREDIT_CONCENTRATION_SHARE = 60
    None = None
    WEEK = 1
    weeks_baseline = 2
    window_days = 2
    Enough_history = 1
    top_n = 1
    MAX_MOVERS = 1
    MIN_SLOWER = 0
    REORDER_MIN_ORDERS = 2
    REORDER_MAX_MEDIAN_GAP = 2
    MAX_INVOICES_PULSE = 2
    Enough_payments = 1
    Enough_of_each = 1
    MIN_DEAD_STOCK = 0
    MIN_DRIFT = 0
    MIN_CUSTOMER_OUTSTANDING = 1
    Old_overdue = 1
    CONCENTRATION_ALARM_PCT = 40
    DEFAULT_TARGET_IMPROVEMENT_PCT = 10
    NOISE_FLOOR_PCT = 5
    BRIEF_MIN_SEVERITY = 10
    BRIEF_MAX_CARDS = 6
    Readings = {0, 2, 20, 21}
INVARIANTS
    SalesScreensAgree
    ReceivableScreensAgree
    CardsAgreeWithTheScreens
    UrgentReachesTheBrief
    SuggestionsCanBeJudged
CHECK_DEADLOCK FALSE
