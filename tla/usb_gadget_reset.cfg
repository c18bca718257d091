\* As usb_gadget, with a reset at any moment.
SPECIFICATION Spec
CONSTANTS
    b1 = b1
    b2 = b2
    NoOne = NoOne
    Threads <- TwoThreads
    Requests <- FourRequests
    Vendors <- TwoVendors
INVARIANTS
    OneRequestAtATime
