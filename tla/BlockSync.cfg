CONSTANTS
    n1 = n1
    n2 = n2
    Node <- MCNode
    NoNode = NoNode
    nLimit = 2
    MaxHeight = 3
    StartHeight <- MCStartHeight
    Importers <- MCImporters
    MaxBreaks = 1
SPECIFICATION FairSpec
CHECK_DEADLOCK FALSE
INVARIANT KnownIsHeldOrPending
 
