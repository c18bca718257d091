\* One poll thread, uevents never cease.
SPECIFICATION BusySpec
CONSTANTS
    p1 = p1
    p2 = p2
    Binder = Binder
    NoOne = NoOne
    Threads <- OneThread
    Settings <- NoSetting
    MaxEvents = 1
PROPERTIES
    DestroyEndsThread
CHECK_DEADLOCK FALSE
