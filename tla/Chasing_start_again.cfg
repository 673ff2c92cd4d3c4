SPECIFICATION FairSpec
CONSTANTS
    Customers = {c1}
    Settlers = {w1}
    Requesters = {r1}
    MaxRowsRead = 1
    NULL = NULL
    MinAmount = 2
    Balances = {0, 2}
    Amounts = {NULL}
    Dates = {}
    PromiseGraceDays = 1
    IgnoredChasesToEscalate = 2
    MaxRungEventsPerPass = 1
    MaxEventAge = 2
    IdempotencyDays = 1
    MaxDay = 2
    MaxInputs = 3
    MaxActions = 2
    FromDays <- MCFromDays
    CooldownDays <- MCCooldownDays
PROPERTY ClearedCustomersStartAgain
CHECK_DEADLOCK FALSE
