CONSTANTS
    n1 = n1
    o1 = o1
    o2 = o2
    a1 = a1
    a2 = a2
    Node <- MCNodes
    Opener <- MCOpeners
    Addr <- MCAddrs
    MaxOutbound = 2
    MaxInbound = 1
SPECIFICATION Spec
INVARIANTS
    TypeOK
    RefCountExact
    NoUseAfterDelete
    SlotsConserved
PROPERTIES
    DisconnectedIsDeleted
