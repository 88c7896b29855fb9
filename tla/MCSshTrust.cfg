\* One server with two keys and two terminal windows.
CONSTANTS
    a = a  b = b  k1 = k1  k2 = k2
    None = None
    Endpoints = {h1}
    Keys = {k1, k2}
    Connections = {a, b}
SYMMETRY Symmetry
SPECIFICATION Spec
INVARIANTS OneKeyPerHost OnlyAcceptedKeys
PROPERTIES SessionKeepsItsKey
