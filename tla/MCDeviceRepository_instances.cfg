\* Two dialogs of two MythLab processes on one data folder, two devices.
CONSTANTS
    m1 = m1  m2 = m2  nas = nas  NAS = NAS  pi = pi
    ip1 = ip1  ip2 = ip2
    n1 = n1  n2 = n2  tcp = tcp  w1 = w1  w2 = w2  o1 = o1  o2 = o2
    None = None
    Ids = {i1, i2}
    Names = {n1}
    Macs = {m1, m2}
    Hosts = {nas, NAS}
    CaseFold <- CaseFoldDef
    Ips = {ip1}
    Checks = {tcp}
    WakeSettings = {w1}
    Times = {1}
    Forms <- InstanceForms
    Discoveries = {}
    Editors = {e1, e2}
    Observers = {o1}
    MaxAnswers = 2
    SingleInstance = FALSE
\* A GUID is used once, so the instance stops when its last device is deleted.
CHECK_DEADLOCK FALSE
SPECIFICATION Spec
INVARIANTS UniqueAddresses VerifiedKeepsMacAndWake
