SPECIFICATION Spec
CONSTANTS
    w1 = w1
    w2 = w2
    m = m
    g1 = g1
    g2 = g2
    g3 = g3
    b1 = b1
    Worker <- MCWorkers
    Master <- MCMaster
    Check <- MCChecks
    Bad <- MCBad
    nBatchSize = 2
INVARIANTS
    TypeOK
    CountersExact
    NoCheckOutlivesBlock
PROPERTIES
    ImplementsVerdict
