\* Two workers with two slots each: packets overtake each other between the
\* queues but not within one, and LB has to wait for a slow worker; two captures, one
\* after the other, on the same object; or one slot each, which is what a
\* requested capacity of zero becomes, and captures of fewer kinds of packets.
CONSTANTS
    SeqModulus = 16
    Tuples <- NamedTuples
    Streams <- AllStreams
    Rules <- AllRules
    RuleMatches <- Matches
    NoName = ""
    RECORD_HEADER_LEN = 1
    MAX_REASSEMBLY_BYTES = 4
    RequestedWorkers = 2
    AnyWorker = 2
    RequestedCapacity = 2
    Packets <- AllPackets
    MaxPackets = 3
    MaxFiles = 2
SPECIFICATION MCSpec
CHECK_DEADLOCK FALSE
INVARIANTS
    TypeOK
    PipelineInOrder
    FlowsStayWhole
    ExitIsFinal
    SameAsSequential
PROPERTIES
    ShardsImplementEngine
    Returns
