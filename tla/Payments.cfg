SPECIFICATION Spec
CONSTANTS
    Char <- MCChar
    Token <- MCToken
    Nonce <- MCNonce
    Quantity <- MCQuantity
    Decimals = {0, 2, 3}
    Destination <- MCDestination
    Calls <- MCCalls
    NoCall <- NoArgs
    Property <- MCProperty
    MaxOps = 5
    MaxPayments = 2
INVARIANTS
    AmountExact
    PrettyReadsBack
    ESDTReadsBack
    NFTReadsBack
    IssueReadsBack
CHECK_DEADLOCK FALSE
