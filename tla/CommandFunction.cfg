SPECIFICATION CLISpec
CONSTANTS
    Process = {p1}
    Network <- MCNetwork
    Fallback = "Testnet"
    None = None
    TextLength <- MCTextLength
    Faults = {}
    MaxSets = 2
    KeyFile <- MCKeyFile
    Orders <- FunctionOrders
    Parameters <- MCParameters
    CommandFaults = {}
    TxLength <- MCTxLength
    GivenLength = 3
    MaxCommands = 2
    CostTransfer = 2
    ExtraESDT = 1
    ExtraNFT = 3
    U32 = 1000
    U64 = 1000
INVARIANT
    FunctionIsCalled
CHECK_DEADLOCK FALSE
