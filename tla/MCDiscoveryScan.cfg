\* One remote address and the own one share three scans and one native slot;
\* the neighbour cache may change its mind about the remote one meanwhile.
CONSTANTS
    Addresses = {1, 2}
    Local = 2
    m1 = m1  m2 = m2
    NoMac = NoMac
    LocalMac = m1
    Macs = {m1, m2}
    Tables <- CacheTables
    Concurrency = 2
    Slots = 1
    MaxScans = 3
\* No further scan is started after MaxScans.
CHECK_DEADLOCK FALSE
SPECIFICATION FairSpec
INVARIANTS RowsTellAll NativeCallsBounded
PROPERTIES CancelledScansEnd ScansEnd
