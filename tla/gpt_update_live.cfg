\* Two LUNs, headers written atomically, an orderly caller.
SPECIFICATION FairSpec
CONSTANTS
    l1 = l1
    l2 = l2
    tz = tz
    abl = abl
    Xbl = Xbl
    Luns <- TwoLuns
    Images <- TwoImages
    LunOf <- OnePerLun
    IsUfs = TRUE
    HasXbl = TRUE
    SectorAtomic = TRUE
PROPERTY
    UpdateCompletes
