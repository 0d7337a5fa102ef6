SPECIFICATION Spec
CONSTANTS
    Name = {"x", "q"}
    Val = {"a", "b"}
    None = None
    NoRequest = NoRequest
    VarSize <- EqualSizes
    StoreOf <- TwoStores
    Calls <- MoveX
    BankSize = 9
    SIZEOF_VARIABLE = 1
    VAR_SIZE_MASK = 15
    VARH_MAX_SEQUENCE = 3
    GarbledSizes = {}
    Factory <- QInStore
    OsBoots = TRUE
    MaxErrors = 0
INVARIANTS ReadsBack SpaceKept CollectionsSafe NeverCorrupt
PROPERTIES Atomic BitsCleared
