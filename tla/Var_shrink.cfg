SPECIFICATION Spec
CONSTANTS
    Name = {"x"}
    Val = {"a", "b"}
    None = None
    NoRequest = NoRequest
    VarSize <- BIsShort
    StoreOf <- OneStore
    Calls <- ShrinkX
    BankSize = 9
    SIZEOF_VARIABLE = 1
    VAR_SIZE_MASK = 15
    VARH_MAX_SEQUENCE = 3
    GarbledSizes = {}
    Factory <- XInStore
    OsBoots = FALSE
    MaxErrors = 0
PROPERTIES Atomic
