SPECIFICATION Spec
CONSTANTS
    Tx = {t1, t2}
    Builder = {}
    ka = ka
    kb = kb
    Key <- OneKey
    Null = Null
    Junk = Junk
    PkOf <- MCPkOf
    Given <- GivenHash
    Written = {}
    Val <- ValHash
    Foreign <- NoneGiven
    Encode <- EncodeHash
    Decode <- DecodeHash
INVARIANT
    VerifiedContentIsSigned
PROPERTIES
    SignMakesVerifiable
    PublishedTextReadsBack
SYMMETRY TxSymmetry
