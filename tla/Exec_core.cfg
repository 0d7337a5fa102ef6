SPECIFICATION Spec
CONSTANTS
    chk = chk
    cb = cb
    nt = nt
    hi = hi
    wt = wt
    pl = pl
    ex = ex
    bad = bad
    NoEvent = NoEvent
    Event = {chk, cb, hi, wt}
    EfiCheckTimerEvent = chk
    Closable = {wt}
    Args <- MCArgs
    WaitList <- WaitNone
    RaiseLevels = {3, 5}
    TPL_APPLICATION = 1
    TPL_HIGH_LEVEL = 5
    Reread = {TRUE, FALSE}
    MaxDepth = 4
INVARIANTS LockExclusive DispatchOwner HighBeforeInterrupts QueuedIsPending NotifyNests
