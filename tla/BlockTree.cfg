CONSTANTS
    Genesis = "G"
    Block <- MCBlock
    Parent <- MCParent
    nHeight <- MCHeight
    BlockWork <- MCBlockWork
    HashOf <- MCHashOf
    BadHeader <- MCBadHeader
    BadBlock <- MCBadBlock
    NotUndoable <- MCNotUndoable
SPECIFICATION Spec
INVARIANTS TypeOK PnextIsBestChain CoinsAtTip BestChainValid BestHasMostWork ValidNeverFailed CoinsNeverAheadOfIndex OrphansWaitForParent
PROPERTIES WorkNeverDrops
