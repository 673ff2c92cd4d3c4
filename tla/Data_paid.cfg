SPECIFICATION DataSpec
SYMMETRY Sym
CONSTANTS
    DataParts = {"books"}
    Reports = {r1, r2}
    All = all
    Hourly = hourly
    Idle = idle
    Sources <- MCSources
    CHUNK_PAGES = 2
    REFRESH_PAGES = 1
    MaxThreads = 2
    Syncers = {b1, b2}
    BookReports = {"zoho_invoices"}
    Figures = {1, 2}
    Bad = 9
    Gone = Gone
    Unlocked = Unlocked
    MaxEdits = 1
    LastDay = 1
    MaxBookFaults = 0
    FaultyReports = {}
INVARIANT PaidIsNotOwed
