CONSTANTS
    miner = miner
    getwork = getwork
    Holder <- MCHolders
    Static <- MCStatic
    nTargetSize = 1
    MaxKey = 7
SPECIFICATION Spec
INVARIANTS
    IndexBacked
    KeyGivenOnce
