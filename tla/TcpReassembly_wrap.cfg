\* The sequence numbers wrap inside the stream.
CONSTANTS
    SeqModulus = 32
    Isns = {27}
    Segments <- FixedPieces
    MaxSegments = 6
SPECIFICATION Spec
INVARIANT PullTakesAll
