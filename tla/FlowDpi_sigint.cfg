\* A live capture, and Ctrl+C while its handle is being closed or after.
CONSTANTS
    Frames <- SessionFrames
    Sessions <- Captures
    MaxFrames = 3
    MaxSignals = 2
    Addresses <- AllAddresses
    Ports <- AllPorts
    Counts <- AllCounts
    RuleMatches <- SameName
    NoName = ""
SPECIFICATION SessionSpec
INVARIANT StopIsSafe
