SPECIFICATION Spec
CONSTANTS
    Process = {p1}
    Network <- MCNetwork
    Fallback = "Testnet"
    None = None
    TextLength <- MCTextLength
    Faults = {"crash", "full"}
    MaxSets = 4
PROPERTY
    IsRegister
