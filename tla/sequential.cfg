\* One part at a time; three nodes, any order of their addresses.
SPECIFICATION SequentialSpec
CONSTANTS
    MaxEdits = 2
    Parts <- NameParts
    SwapList <- Listed
    Arrays <- Shuffled
    IsUfs = TRUE
    MaxCalls = 3
    Versions = {v1, v2}
    Dependencies = {gms, gsf}
    Packages = 3
    MaxBoots = 3
    MaxSpoilt = 1
    Calibrations <- Devices
    Durations = {10, 500}
    Temperatures = {3000, 7000, 12000}
    Amplitudes = {0, 50}
    MaxFailures = 1
    Keys = {k1, k2, k3}
    Values = {x1, x2}
    Nothing = Nothing
    EMPTY = EMPTY
    FREED = FREED
    Hashes = {0, 1, 3}
    NewSizes = {2}
    MaxSize = 4
    Nodes = {n1, n2, n3}
    NULL = NULL
    Fields = {f}
    Absent = Absent
    DefaultSize = 1
    MaxIndex = 1
    MaxRefs = 2
    MaxData = 1
    MaxDepth = 3
    Printable <- Documents
    Damaged <- Broken
    MaxResets = 1
INVARIANTS
    SequentialTypeOK CommitSafe SwapCorrect BootCorrect MotorAsAsked
    TableSound NodesOwned ParsesInPieces RoundTrip
PROPERTIES
    CommitKeepsStage ImplementsOrderedMap
SYMMETRY Addresses
CHECK_DEADLOCK FALSE
