\* Times in units of the poll interval; the proportions of the defaults
\* (5, 30, 10 and 60 seconds) are shrunk so that every switch fits MaxTime.
CONSTANTS
    PollInterval = 1
    DegradedAfter = 2
    EmergencyAfter = 1
    RecoverAfter = 3
    MaxTime = 7
    Unset = Unset
SPECIFICATION FairWatcherSpec
INVARIANTS
    PromptSwitch
PROPERTIES
    JustifiedSwitch
    StopEndsThread
CHECK_DEADLOCK FALSE
