\* Seven bytes, up to three of them initial, in items of two, room for two items.
CONSTANTS
    DrainSize = 3
    ChunkSize = 2
    Capacity = 2
    BufferSize = 1
    MaxInitial = 3
    MaxMessage = 2
    MaxBytes = 7
\* A disposed session stops.
CHECK_DEADLOCK FALSE
SPECIFICATION FairSpec
INVARIANTS InOrder BufferedIsBounded
PROPERTIES Contract Delivered Released
