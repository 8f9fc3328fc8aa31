\* Segments of at most three bytes keep arriving behind a gap; the cap is four.
CONSTANTS
    SeqModulus = 32
    Tuples <- AllTuples
    Streams <- AllStreams
    Rules <- AllRules
    RuleMatches <- Matches
    NoName = ""
    RECORD_HEADER_LEN = 2
    MAX_REASSEMBLY_BYTES = 4
    Packets <- GapPackets
    MaxPackets = 4
SPECIFICATION Spec
CHECK_DEADLOCK FALSE
INVARIANT FlowMemoryCapped
