\* One wakeable device, moved and deleted under sweeps and wakes, over two
\* instants of a clock that goes forward.
CONSTANTS
    m1 = m1  m2 = m2  nas = nas  pi = pi  ip1 = ip1  n1 = n1  tcp = tcp  w1 = w1
    i1 = i1
    None = None
    Ids = {i1}
    Names = {n1}
    Macs = {m1, m2}
    Hosts = {nas, pi}
    CaseFold <- CaseFoldDef
    Ips = {}
    Checks = {tcp}
    WakeSettings = {w1}
    Times <- TimesDef
    InitialDevices <- Wakeable
    Forms <- MoveForms
    Discoveries = {}
    Answers = {"Online", "Offline"}
    BatchSize = 1
    MaxNow = 2
    MaxLists = 1
    ClockMayStep = FALSE
    ListMayFail = FALSE
\* A drained application stops.
CHECK_DEADLOCK FALSE
SPECIFICATION Spec
INVARIANTS StaleNeverShown OneWriterPerCard DrainedIsQuiet WakingMeansInProgress VerifiedWasWitnessed
