\* One device, one dialog and two observers; two hosts and two wake settings.
CONSTANTS
    m1 = m1  m2 = m2  nas = nas  NAS = NAS  pi = pi
    ip1 = ip1  ip2 = ip2
    n1 = n1  n2 = n2  tcp = tcp  w1 = w1  w2 = w2  o1 = o1  o2 = o2
    None = None
    Ids = {i1}
    Names = {n1}
    Macs = {m1}
    Hosts = {nas, pi}
    CaseFold <- CaseFoldDef
    Ips = {ip1}
    Checks = {tcp}
    WakeSettings = {w1, w2}
    Times = {1, 2}
    Forms <- MoveForms
    Discoveries <- ScanSees
    Editors = {e1}
    Observers = {o1, o2}
    MaxAnswers = 2
    SingleInstance = TRUE
\* A GUID is used once, so the instance stops when its last device is deleted.
CHECK_DEADLOCK FALSE
SYMMETRY ObserverSymmetry
SPECIFICATION Spec
INVARIANTS StatusOfOwnTarget VerifiedWasWitnessed
PROPERTIES LastCheckedAdvances ObservationsKeepEdits
