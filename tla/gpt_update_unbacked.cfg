\* Both images on one LUN; the other LUN has no backed-up image.
SPECIFICATION Spec
CONSTANTS
    l1 = l1
    l2 = l2
    tz = tz
    abl = abl
    Xbl = Xbl
    Luns <- TwoLuns
    Images <- TwoImages
    LunOf <- AllOnLun1
    IsUfs = TRUE
    HasXbl = FALSE
    SectorAtomic = FALSE
PROPERTIES
    UnbackedUntouched
