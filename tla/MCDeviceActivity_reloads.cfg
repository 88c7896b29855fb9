\* Two devices, one to be discovered, and reloads that overlap and may fail.
CONSTANTS
    m1 = m1  m2 = m2  nas = nas  pi = pi  ip1 = ip1  n1 = n1  tcp = tcp  w1 = w1
    i1 = i1
    None = None
    Ids = {i1, i2}
    Names = {n1}
    Macs = {m1, m2}
    Hosts = {nas, pi}
    CaseFold <- CaseFoldDef
    Ips = {ip1}
    Checks = {tcp}
    WakeSettings = {w1}
    Times <- TimesDef
    InitialDevices <- NotWakeable
    Forms <- AddForms
    Discoveries <- ScanSees
    Answers = {"Online"}
    BatchSize = 1
    MaxNow = 1
    MaxLists = 2
    ClockMayStep = FALSE
    ListMayFail = TRUE
\* A drained application stops.
CHECK_DEADLOCK FALSE
SPECIFICATION Spec
INVARIANTS CardsFollowStore
