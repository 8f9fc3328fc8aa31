\* Every kind of flow in one capture, or one record cut in every way, under a
\* cap that record may or may not hit depending on how many bytes arrive at a
\* time.
CONSTANTS
    SeqModulus = 32
    Tuples <- AllTuples
    Streams <- AllStreams
    Rules <- AllRules
    RuleMatches <- Matches
    NoName = ""
    RECORD_HEADER_LEN = 2
    MAX_REASSEMBLY_BYTES = 4
    Packets <- AllPackets
    MaxPackets = 5
SPECIFICATION MCSpec
CHECK_DEADLOCK FALSE
INVARIANTS
    TypeOK
    ReportAgrees
    RulesComeFirst
    NameIsJudged
    VerdictIsTrue
    BufferCapped
    NoRecordMissed
PROPERTIES
    BlockingIsFinal
    DecisionIsFinal
