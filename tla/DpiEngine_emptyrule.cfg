\* A name that the empty rule and a later one match.  The cap holds its record.
CONSTANTS
    SeqModulus = 32
    Tuples <- AllTuples
    Streams <- AllStreams
    Rules <- AllRules
    RuleMatches <- Matches
    NoName = ""
    RECORD_HEADER_LEN = 2
    MAX_REASSEMBLY_BYTES = 8
    Packets <- CutPackets
    MaxPackets = 3
SPECIFICATION Spec
CHECK_DEADLOCK FALSE
INVARIANT EveryRuleBlocks
