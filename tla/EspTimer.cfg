\* Both builds: two task timers, or one timer on each list.
CONSTANTS
    Timers = {t1, i1}
    IsrTimers = {i1}
    SkipTimers = {t1}
    IsrSupport = {TRUE, FALSE}
    Timeouts = {1, 2}
    MaxTime = 4
    MaxLate = 1
    None = None
SPECIFICATION LiveSpec
INVARIANTS
    ListsOK
    NoLostAlarm
PROPERTY
    Dispatched
CONSTRAINT Explored
CHECK_DEADLOCK FALSE
