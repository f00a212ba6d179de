CONSTANTS
    h1 = h1
    h2 = h2
    h3 = h3
    Hashes <- ThreeHashes
    TimeStamp <- Times
    Listings <- SomeListings
    Offset = 2
    MaxPages = 2
    MaxDropped = 1
SPECIFICATION Spec
INVARIANTS TypeOK HistoryMerged TruncationOnlyIfFull
PROPERTIES WholeHistoryOrError BothStreamsEnd
CHECK_DEADLOCK FALSE
