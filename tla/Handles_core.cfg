SPECIFICATION FairSpec
CONSTANTS
    Handle = {h1, h2}
    Prot = {k1, k2, k3}
    Protocol <- MCProtocol
    Interface = {"i1"}
    Event = {"e"}
    Watch = {"dev"}
    Driver <- MCDriver
    Binds <- MCBinds
    Makes <- MCMakes
    Reluctant = {"devdrv"}
    AppCalls <- MCApp
    CallbackCalls <- MCCallback
    MaxCallbacks = 1
    OwnersWait = TRUE
    None = None
    New = New
INVARIANTS DatabaseSound Registrations TreeAtRest
PROPERTIES FreedWhenClosed MultipleUndone Served
