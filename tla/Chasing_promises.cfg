SPECIFICATION Spec
CONSTANTS
    Customers = {c1}
    Settlers = {w1, w2}
    Requesters = {r1, r2}
    MaxRowsRead = 1
    NULL = NULL
    MinAmount = 2
    Balances = {0, 2}
    Amounts = {NULL}
    Dates = {1}
    PromiseGraceDays = 1
    IgnoredChasesToEscalate = 2
    MaxRungEventsPerPass = 1
    MaxEventAge = 2
    IdempotencyDays = 1
    MaxDay = 2
    MaxInputs = 3
    MaxActions = 2
    FromDays <- MCFromDays
    CooldownDays <- MCCooldownDays
INVARIANT TypeOK
INVARIANT RecordsAgree
INVARIANT PromisesAreHonest
INVARIANT ProposalsAreSpaced
INVARIANT AgentSkipsNoRung
PROPERTY NothingIsUndone
SYMMETRY MCSymmetry
CHECK_DEADLOCK FALSE
