SPECIFICATION CLIFairSpec
CONSTANTS
    Process = {p1, p2}
    Network <- MCNetwork
    Fallback = "Testnet"
    None = None
    TextLength <- MCTextLength
    Faults = {}
    MaxSets = 4
    KeyFile <- MCKeyFile
    Orders <- MCOrders
    Parameters <- MCParameters
    CommandFaults = {"crash", "full", "readonly"}
    TxLength <- MCTxLength
    GivenLength = 3
    MaxCommands = 2
    CostTransfer = 2
    ExtraESDT = 1
    ExtraNFT = 3
    U32 = 1000
    U64 = 1000
INVARIANTS
    TypeOK
    NeverLeftEmpty
    SentWhereSigned
    LeftVerifies
    TransfersPay
PROPERTIES
    EmptyGetsWritten
    ShownSelection
    RuinedForGood
    OutfileKept
CHECK_DEADLOCK FALSE
