SPECIFICATION BuildSpec
CONSTANTS
    Tx = {t1, t2}
    Builder = {bl}
    ka = ka
    kb = kb
    Key <- OneKey
    Null = Null
    Junk = Junk
    PkOf <- MCPkOf
    Written <- OneRaw
    Val <- MCVal
    Given <- NoneGiven
    Foreign <- NoneGiven
    Encode <- MCEncode
    Decode <- MCDecode
    Inputs <- MCInputs
    Calls <- MCCalls
    NoCall = "none"
    Payload <- MCPayload
    Size <- MCSize
    Network <- MCNetwork
    CostTransfer = 2
    ExtraESDT = 1
    ExtraNFT = 3
    U32 = 8
    U64 = 1000
PROPERTIES
    BuiltAsOrdered
    GasPaysForData
    BuildSignedVerifies
    BuiltUntouched
SYMMETRY TxSymmetry
