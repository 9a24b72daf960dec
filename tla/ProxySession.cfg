SPECIFICATION Spec
CONSTANTS
    p1 = p1
    p2 = p2
    Program = {p1, p2}
    Null = Null
    MaxOrders = 2
    MaxCalls <- MCMaxCalls
INVARIANTS
    TypeOK
    HashMeansTaken
    PaidOnce
    VerdictTrue
    NoGap
PROPERTY
    IsPaidOrders
CHECK_DEADLOCK FALSE
