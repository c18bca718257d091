\* A uevent may be older than the role switch.
SPECIFICATION Spec
CONSTANTS
    p1 = p1
    p2 = p2
    Binder = Binder
    NoOne = NoOne
    Threads <- OneThread
    Settings <- NoSetting
    MaxEvents = 2
INVARIANTS
    PartnerUpIsNew
CHECK_DEADLOCK FALSE
