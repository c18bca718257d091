SPECIFICATION ServicesSpec
CONSTANTS
    Devices <- Monitors
    RailsOf <- Rails
    Threads = {t1, t2}
    Binder = binder
    Nobody = nobody
    MaxRate = 2
    SecondMs = 2
    Word = 8
    QueueSamples = 1
    Times = {3, 5}
    Rates = {0, 3}
    IndexLists <- Indices
    LogDirs <- LogNames
    MaxFileNums <- LogNumbers
INVARIANTS ServicesTypeOK ReadingsAreNamed SamplesAreWhole StreamsAsAsked LeavesAsFound SendsItsLogs
PROPERTIES RailsEnd DumpCompletes
