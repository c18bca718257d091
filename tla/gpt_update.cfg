\* A UFS device with xbl, images on two LUNs, headers that a power loss can tear.
SPECIFICATION Spec
CONSTANTS
    l1 = l1
    l2 = l2
    tz = tz
    abl = abl
    Xbl = Xbl
    Luns <- TwoLuns
    Images <- TwoImages
    LunOf <- OnePerLun
    IsUfs = TRUE
    HasXbl = TRUE
    SectorAtomic = FALSE
INVARIANTS
    TypeOK
    AlwaysBootable
    BootSafe
    ReadyForUpdate
    XblBackupSafe
    FinalizeUndoesMain
PROPERTIES
    ImplementsBootGuard
