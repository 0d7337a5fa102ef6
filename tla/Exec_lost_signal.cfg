SPECIFICATION QuietSpec
CONSTANTS
    chk = chk
    cb = cb
    nt = nt
    hi = hi
    wt = wt
    pl = pl
    ex = ex
    bad = bad
    NoEvent = NoEvent
    Event = {chk, wt}
    EfiCheckTimerEvent = chk
    Closable = {}
    Args <- MCArgs
    WaitList <- WaitNotify
    RaiseLevels = {}
    TPL_APPLICATION = 1
    TPL_HIGH_LEVEL = 5
    Reread = {TRUE, FALSE}
    MaxDepth = 5
PROPERTIES WaitEnds
