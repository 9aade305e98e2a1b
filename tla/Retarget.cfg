CONSTANTS
    nTargetTimespan = 16
    nTargetSpacing = 5
    nMedianTimeSpan = 3
    Byte = 4
    ProofOfWorkLimit = 1000
    GenesisTarget = 900
    Delay <- MCDelay
    MaxHeight = 9
SPECIFICATION Spec
CHECK_DEADLOCK FALSE
INVARIANTS
    TypeOK
    SpansTile
    OnScheduleKeepsTarget
    OneTargetPerWindow
