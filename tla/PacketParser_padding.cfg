\* Frames that were padded to the minimum of Ethernet.
CONSTANT Frames <- SmallFrames
SPECIFICATION Spec
INVARIANT PayloadIsSegment
