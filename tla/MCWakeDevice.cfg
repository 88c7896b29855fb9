CONSTANTS
    PacketCount = 2
    RetryCount = 2
    Capability = "EnabledUnverified"
\* A wake ends, and nothing follows.
CHECK_DEADLOCK FALSE
SPECIFICATION Spec
INVARIANT AtMostOneLatePacket
PROPERTY Contract
