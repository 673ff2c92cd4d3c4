SPECIFICATION Spec
CONSTANTS
    acme = acme
    bolt = bolt
    Workers = {w1, w2}
    Askers = {}
    AskedFor <- MCAskedFor
    Facts = {1, 2}
    Mixes <- MCDrafts
    CustomerOf <- MCCustomerTwo
    BatchLimit = 2
    MaxActions = 4
    MaxFaults = 0
INVARIANT TwoProcessesProposeOnce
