\* Two poll thread slots, all properties of safety; unregistering may hang.
SPECIFICATION Spec
CONSTANTS
    p1 = p1
    p2 = p2
    Binder = Binder
    NoOne = NoOne
    Threads <- TwoThreads
    Settings <- TwoSettings
    MaxEvents = 2
INVARIANTS
    TypeOK
    SuccessKeepsType
    NoLostSignal
    OnePollThread
    StatusFresh
SYMMETRY
    Symmetric
CHECK_DEADLOCK FALSE
