SPECIFICATION Spec
CONSTANTS
    Tasks = {t1, t2}
    Wordings = {plain, reworded}
    Window = 2
    MaxMessages = 3
    MaxFaults = 2
INVARIANTS
    TypeOK
    NothingMarkedUnread
    ReadOnce
PROPERTY
    CursorNeverGoesBack
CHECK_DEADLOCK FALSE
