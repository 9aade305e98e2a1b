CONSTANTS
    a = a
    b = b
    c = c
    d = d
    e = e
    unknown = unknown
    Tx <- MCTx
    Hash <- MCHash
    Prev <- MCPrev
    Large <- MCLarge
    MAX_ORPHAN_TRANSACTIONS = 2
SPECIFICATION Spec
INVARIANTS TypeOK OrphanIndexExact OrphanLimit
PROPERTY OrphanLeavesForAReason
