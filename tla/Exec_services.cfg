SPECIFICATION QuietSpec
CONSTANTS
    chk = chk
    cb = cb
    nt = nt
    hi = hi
    wt = wt
    pl = pl
    ex = ex
    bad = bad
    NoEvent = NoEvent
    Event = {chk, pl, ex}
    EfiCheckTimerEvent = chk
    Closable = {ex}
    Args <- MCArgs
    WaitList <- WaitPlain
    RaiseLevels = {2}
    TPL_APPLICATION = 1
    TPL_HIGH_LEVEL = 5
    Reread = {TRUE, FALSE}
    MaxDepth = 3
INVARIANTS SignalledIsQueued 
PROPERTIES SignalledIsNotified WaitEnds
