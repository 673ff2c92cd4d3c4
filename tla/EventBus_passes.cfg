SPECIFICATION Spec
CONSTANTS
    acme = acme
    bolt = bolt
    Workers = {w1, w2}
    Askers = {a1}
    AskedFor <- MCAskedFor
    Facts = {1, 2}
    Mixes <- MCMixes
    CustomerOf <- MCCustomerOf
    BatchLimit = 2
    MaxActions = 3
    MaxFaults = 1
INVARIANTS
    OneLiveProposal
    LinksAgree
PROPERTY
    KeepsEventLife
SYMMETRY MCSymmetry
