SPECIFICATION WorkSpec
CONSTANTS
    WorkParts = {"events", "watchers", "halts"}
    LeftAlone = overdue_rung
    acme = acme
    bolt = bolt
    Workers = {w1, w2}
    Askers = {}
    AskedFor <- MCAskedFor
    Facts = {1, 2}
    Mixes <- MCMixed
    CustomerOf <- MCCustomerOf
    BatchLimit = 1
    MaxActions = 2
    MaxFaults = 1
    Nothing = Nothing
    Watchers = {consume, overdue_rung}
    Worker = worker
    Manual = {m1}
    MAX_CONSECUTIVE_ERRORS = 2
    max_watchers = 1
    MaxRunFaults = 1
    MaxErrors = 1
    Processes = {worker, m1}
    NoAlert = NoAlert
    Conditions = {consume, overdue_rung}
    MaxOutages = 1
    MaxLosses = 1
    Undelivered = TRUE
INVARIANTS
    PassesAreAccounted
    HaltsAreSaid
PROPERTIES
    ConsumerGetsRound
    WatchersGetTheirTurn
