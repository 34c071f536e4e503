CONSTANTS
    Types <- MC_Types
    Shapes <- MC_Shapes
    ChainTxs <- MC_ChainTxs
    Undef = Undef
    c1 = c1
    c2 = c2
SPECIFICATION Spec
INVARIANT AcceptedPricesValid
INVARIANT WellFormedAccepted
INVARIANT SenderHasCompleteFamily
INVARIANT ChainInfoUnambiguous
