\* Two connections of one window, a resize, room for two waiting stops.
CONSTANTS
    MaxRuns = 2
    MaxStops = 2
    InputCapacity = 1
    Sizes = {1, 2}
    FirstSize = 1
    Typed = 0
    PageMessages = 1
\* A closed window stops.
CHECK_DEADLOCK FALSE
SPECIFICATION BridgeSpec
INVARIANTS OneSession StopReachesRun OneChunkInFlight InputToOwnSession ChunksAreKept SizeFollows
PROPERTIES Contract StopsEnd OutputProceeds
