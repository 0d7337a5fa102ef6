SPECIFICATION Spec
CONSTANTS
    Half = 3
    MaxHigh = 5
    Preempting = TRUE
    SavesFail = TRUE
INVARIANT UpdateInTime
PROPERTIES Increasing HighIncreasing
\* The bound MaxHigh ends every behaviour.
CHECK_DEADLOCK FALSE
