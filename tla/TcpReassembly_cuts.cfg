\* A stream whose sequence numbers wrap after its second byte and one whose
\* sequence numbers do not; any segmentation.
CONSTANTS
    SeqModulus = 16
    Isns = {3, 14}
    Segments <- AnyPiece
    MaxSegments = 4
SPECIFICATION Spec
INVARIANTS
    TypeOK
    DeliveredContiguous
    CursorAgrees
    PullTakesAllUnwrapped
    NoByteLost
PROPERTY StartsAtEarliest
