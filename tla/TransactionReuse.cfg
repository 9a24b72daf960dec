SPECIFICATION Spec
CONSTANTS
    Tx = {t1, t2}
    Builder = {}
    ka = ka
    kb = kb
    Key <- OneKey
    Null = Null
    Junk = Junk
    PkOf <- MCPkOf
    Given <- GivenData
    Written <- WrittenData
    Val <- ValData
    Foreign <- ForeignData
    Encode <- EncodeData
    Decode <- DecodeData
PROPERTY
    DeserializeReplacesObject
