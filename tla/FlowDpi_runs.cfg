\* Every kind of run, with Ctrl+C up to twice at any moment.
CONSTANTS
    Frames <- SessionFrames
    Sessions <- AllSessions
    MaxFrames = 3
    MaxSignals = 2
    Addresses <- AllAddresses
    Ports <- AllPorts
    Counts <- AllCounts
    RuleMatches <- SameName
    NoName = ""
SPECIFICATION FairSessionSpec
INVARIANTS
    NothingStale
    InBounds
    SoundHeadersAccepted
    RulesAsAsked
    ReportIsWhole
PROPERTY EveryRunEnds
