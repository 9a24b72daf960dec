SPECIFICATION Spec
CONSTANTS
    IntSize = 65536
    Invalid = Invalid
    Seed <- MCSeed
    SeedLength = 2
    PkOf <- MCPkOf
    LineLength = 4
    Password = {"right", "other"}
    Salt = {"salt"}
    IV = {"iv"}
    Garbage <- MCGarbage
    None = None
    Junk = Junk
    Messages <- MCMessages
    Transactions <- MCTransactions
    Addresses <- MCAddresses
    MaxDamage = 2
INVARIANTS
    TypeOK
    OpensAsWritten
    CutKeepsSeed
    StoreKeepsSeed
    MessagesApart
    AddressCanonical
