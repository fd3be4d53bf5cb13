SPECIFICATION Spec
CONSTANTS
    ann = ann  bob = bob  a1 = a1  a2 = a2  b1 = b1
    None = None  HubLoop = HubLoop  h1 = h1  h2 = h2
    User = {ann, bob}
    Client = {a1, b1}
    Owner <- MCOwner
    Chat = {1}
    Caller = {h1}
    BufCap = 1
    MaxFrames = 2
    MaxCalls = 1
INVARIANTS OverflowClosesOnlyTheConnection
CHECK_DEADLOCK FALSE
