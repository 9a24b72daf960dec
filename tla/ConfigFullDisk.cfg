SPECIFICATION Spec
CONSTANTS
    Process = {p1}
    Network <- MCNetwork
    Fallback = "Testnet"
    None = None
    TextLength <- MCTextLength
    Faults = {"full"}
    MaxSets = 4
PROPERTY
    ChangedAsReported
