CONSTANTS
    cb = cb
    p = p
    q = q
    r = r
    s = s
    t = t
    u = u
    v = v
    w = w
    Tx <- MCTx
    CoinBase <- MCCoinBase
    vin <- MCvin
SPECIFICATION Spec
INVARIANTS TypeOK NextTxExact NoDoubleSpend
PROPERTY MinedLeavesNoConflict
