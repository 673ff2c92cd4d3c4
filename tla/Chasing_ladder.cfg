SPECIFICATION FairSpec
CONSTANTS
    Customers = {c1, c2, c3}
    Settlers = {w1}
    Requesters = {r1}
    MaxRowsRead = 2
    NULL = NULL
    MinAmount = 2
    Balances = {0, 2}
    Amounts = {NULL}
    Dates = {}
    PromiseGraceDays = 1
    IgnoredChasesToEscalate = 2
    MaxRungEventsPerPass = 1
    MaxEventAge = 1
    IdempotencyDays = 2
    MaxDay = 2
    MaxInputs = 3
    MaxActions = 0
    FromDays <- MCFromDays
    CooldownDays <- MCCooldownDays
PROPERTY BacklogIsCleared
PROPERTY EveryEarnedRungIsRaised
CHECK_DEADLOCK FALSE
