SPECIFICATION FairSpec
CONSTANTS
    a = a
    b = b
    Event = {a, b}
    NoEvent = NoEvent
    Delay = {0, 1, 2}
    Duration = {1, 3}
    TimeMod = 1000
    MaxTime = 4
INVARIANTS ListSorted Punctual
PROPERTIES ExpiredIsTaken CheckEnds
