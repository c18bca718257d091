\* One poll thread, fair threads.
SPECIFICATION FairSpec
CONSTANTS
    p1 = p1
    p2 = p2
    Binder = Binder
    NoOne = NoOne
    Threads <- OneThread
    Settings <- NoSetting
    MaxEvents = 1
PROPERTIES
    RoleSwitchEnds
CHECK_DEADLOCK FALSE
