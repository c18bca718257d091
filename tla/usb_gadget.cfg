\* Two binder threads, four requests, two lists of vendor functions.
SPECIFICATION FairSpec
CONSTANTS
    b1 = b1
    b2 = b2
    NoOne = NoOne
    Threads <- TwoThreads
    Requests <- FourRequests
    Vendors <- TwoVendors
INVARIANTS
    TypeOK
    SuccessIsSeen
    HalfLinkedUnseen
    NoneStaysDown
    AppliedIsTrue
PROPERTIES
    SetEnds
