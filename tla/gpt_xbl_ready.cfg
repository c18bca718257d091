\* One LUN, xbl and xblbak exist.
SPECIFICATION Spec
CONSTANTS
    l1 = l1
    l2 = l2
    tz = tz
    abl = abl
    Xbl = Xbl
    Luns <- OneLun
    Images <- TwoImages
    LunOf <- AllOnLun1
    IsUfs = TRUE
    HasXbl = TRUE
    SectorAtomic = TRUE
INVARIANT
    XblReadyForUpdate
