CONSTANTS
    Genesis = "G"
    Block <- LiveBlock
    Parent <- LiveParent
    nHeight <- LiveHeight
    BlockWork <- LiveBlockWork
    HashOf <- LiveHashOf
    BadHeader = {"B2"}
    BadBlock = {"A1"}
    NotUndoable = {"B1"}
SPECIFICATION Spec
PROPERTIES CallReturns
