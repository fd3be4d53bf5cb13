SPECIFICATION Spec
CONSTANTS
    ann = ann  bob = bob  a1 = a1  a2 = a2  b1 = b1
    None = None  HubLoop = HubLoop  h1 = h1  h2 = h2
    User = {ann, bob}
    Client = {a1, a2, b1}
    Owner <- MCOwner
    Chat = {1}
    Caller = {h1}
    BufCap = 1
    MaxFrames = 3
    MaxCalls = 0
INVARIANTS TypeOK RoomsMatchChatIDs NoGhostMembers NoGapInJoinedChat
PROPERTY ImplementsDelivery
SYMMETRY Symmetry
CHECK_DEADLOCK FALSE
