SPECIFICATION FairSpec
CONSTANTS
    Name = {"x", "y"}
    Val = {"a", "b"}
    None = None
    NoRequest = NoRequest
    VarSize <- EqualSizes
    StoreOf <- OneStore
    Calls <- SetXAddY
    BankSize = 7
    SIZEOF_VARIABLE = 1
    VAR_SIZE_MASK = 15
    VARH_MAX_SEQUENCE = 2
    GarbledSizes = {4, 6}
    Factory <- Erased
    OsBoots = TRUE
    MaxErrors = 1
INVARIANTS Asserted
PROPERTIES ServiceEnds
