CONSTANTS
    Txs <- MCTxs
    MaxItems = 3
SPECIFICATION Spec
INVARIANT
    TxRoundTrip
