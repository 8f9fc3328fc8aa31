\* A connection goes on after its name was found.
CONSTANTS
    SeqModulus = 32
    Tuples <- AllTuples
    Streams <- AllStreams
    Rules <- AllRules
    RuleMatches <- Matches
    NoName = ""
    RECORD_HEADER_LEN = 2
    MAX_REASSEMBLY_BYTES = 8
    Packets <- MixedPackets
    MaxPackets = 3
SPECIFICATION Spec
CHECK_DEADLOCK FALSE
INVARIANT ObservedOncePerFlow
