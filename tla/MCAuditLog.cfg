\* The limits of 7 and 90 days are shrunk; every order of compressions,
\* deletions, midnights and failures fits the calendar.
CONSTANTS
    GzipAfter = 1
    DeleteAfter = 2
    MaxDay = 4
    MaxEvents = 3
    Garbage = Garbage
    None = None
SPECIFICATION Spec
CHECK_DEADLOCK FALSE
INVARIANTS
    OnlyNextLost
    SweptClean
PROPERTIES
    PagesStable
