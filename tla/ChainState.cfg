CONSTANTS
    Tx <- MCTx
    CoinBase <- MCCoinBase
    BadScript = {}
    vin <- MCvin
    vout <- MCvout
    Block <- MCBlock
    Path <- MCPath
    vtx <- MCvtx
    COINBASE_MATURITY = 2
    INITIAL_SUBSIDY = 4
    HALVING = 3
SPECIFICATION Spec
INVARIANTS TypeOK CoinsMatchChain NoInflation PoolFollowsChain
PROPERTY ReorgKeepsPayments
