SPECIFICATION DataSpec
SYMMETRY Sym
CONSTANTS
    DataParts = {"sync", "books"}
    Reports = {r1, r2}
    All = all
    Hourly = hourly
    Idle = idle
    Sources <- MCSources
    CHUNK_PAGES = 2
    REFRESH_PAGES = 1
    MaxThreads = 2
    Syncers = {b1, b2}
    BookReports = {"sales_invoices", "sales_orders", "sales_quotations", "purchase_invoices",
                   "purchase_orders", "grn_qir", "inventory_valuation", "process_details",
                   "process_routing", "ar_aging",
                   "zoho_invoices", "zoho_contacts", "zoho_items", "zoho_bills"}
    Figures = {1, 2}
    Bad = 9
    Gone = Gone
    Unlocked = Unlocked
    MaxEdits = 1
    LastDay = 1
    MaxBookFaults = 1
    FaultyReports = {"sales_invoices", "zoho_invoices"}
INVARIANTS
    ShownIsTrue
    CanonCatchesUp
    FailuresAreRecorded
    ResyncsDoNotInflate
    InferredPaymentsAreReal
PROPERTIES
    WalkGoesForward
