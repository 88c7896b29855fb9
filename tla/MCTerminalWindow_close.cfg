\* One connection, and the window is closed.
CONSTANTS
    MaxRuns = 1
    MaxStops = 1
    InputCapacity = 1
    Sizes = {1}
    FirstSize = 1
    Typed = 0
\* A closed window stops.
CHECK_DEADLOCK FALSE
SPECIFICATION Spec
INVARIANTS CloseSucceeds
